------------------------- MODULE RatesServiceProofs -------------------------
(***************************************************************************)
(* Proofs about the exchange-rate cache, for every set of goroutines and   *)
(* rates, every TTL and every clock bound.                                 *)
(***************************************************************************)
EXTENDS RatesService, TLAPS

\* Every goroutine that is between its Unlock and its read of
\* s.exchangeRate will read a non-nil pointer: it got there either through
\* useCachedValue, which requires one, or through a successful fetch,
\* which stores one, and no step ever stores nil again.
ReadSeesRate == \A g \in Goroutines : pc[g] = "read" => ~exchangeRate.isNil

IInv == TypeOK /\ ReadSeesRate /\ OkImpliesRate

USE RatesAssumption DEF RatesAssumption

\* One step of the cache keeps pointers, times and returns in range.
LEMMA TypeOKStep == TypeOK /\ [Next]_vars => TypeOK'
<1> SUFFICES ASSUME TypeOK, [Next]_vars PROVE TypeOK'
  OBVIOUS
<1>1. ASSUME NEW g \in Goroutines, Call(g) PROVE TypeOK'
  BY <1>1 DEF Call, TypeOK
<1>2. ASSUME NEW g \in Goroutines, UseCache(g) PROVE TypeOK'
  BY <1>2 DEF UseCache, TypeOK
<1>3. ASSUME NEW g \in Goroutines, StartFetch(g) PROVE TypeOK'
  BY <1>3 DEF StartFetch, TypeOK
<1>4. ASSUME NEW g \in Goroutines, NEW r \in Rates, FetchDone(g, r) PROVE TypeOK'
  BY <1>4 DEF FetchDone, TypeOK, Pointer, Ptr
<1>5. ASSUME NEW g \in Goroutines, FetchFailed(g) PROVE TypeOK'
  BY <1>5 DEF FetchFailed, TypeOK, Return, Pointer
<1>6. ASSUME NEW g \in Goroutines, ReadRate(g) PROVE TypeOK'
  BY <1>6 DEF ReadRate, TypeOK, Return
<1>7. CASE Tick
  BY <1>7 DEF Tick, TypeOK
<1>8. CASE UNCHANGED vars
  BY <1>8 DEF vars, TypeOK
<1>9. QED
  BY <1>1, <1>2, <1>3, <1>4, <1>5, <1>6, <1>7, <1>8 DEF Next

\* The states NewRatesService leaves are well typed.
LEMMA InitTypeOK == Init => TypeOK
<1> SUFFICES ASSUME Init PROVE TypeOK
  OBVIOUS
<1>1. exchangeRate \in Pointer /\ lastFetch \in {ZeroTime} \cup 0..MaxTime
  <2>1. CASE exchangeRate = Nil /\ lastFetch = ZeroTime
    BY <2>1 DEF Pointer
  <2>2. CASE \E r \in Rates : exchangeRate = Ptr(r, 0) /\ lastFetch = 0
    BY <2>2 DEF Pointer, Ptr
  <2>3. QED
    BY <2>1, <2>2 DEF Init
<1>2. ret \in [Goroutines -> Return]
  BY DEF Init, Return
<1>3. locked \in BOOLEAN
  BY DEF Init
<1>4. now \in 0..MaxTime
  BY DEF Init
<1>5. pc \in [Goroutines -> {"idle", "lock", "fetch", "read"}]
      /\ checkedAt \in [Goroutines -> 0..MaxTime]
  BY DEF Init
<1>6. QED
  BY <1>1, <1>2, <1>3, <1>4, <1>5 DEF TypeOK

\* The state keeps its types: pointers, times and returns stay in range.
THEOREM TypeCorrect == Spec => []TypeOK
<1>1. Init => TypeOK
  BY InitTypeOK
<1>2. QED
  BY <1>1, TypeOKStep, PTL DEF Spec

\* IInv holds initially and is preserved by every step.
LEMMA IInvInit == Init => IInv
<1> SUFFICES ASSUME Init PROVE IInv
  OBVIOUS
<1>1. TypeOK
  BY InitTypeOK
<1>2. ReadSeesRate /\ OkImpliesRate
  BY DEF Init, ReadSeesRate, OkImpliesRate, NoReturn
<1>3. QED
  BY <1>1, <1>2 DEF IInv

LEMMA IInvStep == IInv /\ [Next]_vars => IInv'
<1> SUFFICES ASSUME IInv, [Next]_vars PROVE IInv'
  OBVIOUS
<1>0. TypeOK'
  BY TypeOKStep DEF IInv
<1>1. ASSUME NEW g \in Goroutines, Call(g) PROVE IInv'
  BY <1>0, <1>1 DEF Call, IInv, TypeOK, ReadSeesRate, OkImpliesRate
<1>2. ASSUME NEW g \in Goroutines, UseCache(g) PROVE IInv'
  BY <1>0, <1>2 DEF UseCache, UseCachedValue, IInv, TypeOK, ReadSeesRate, OkImpliesRate
<1>3. ASSUME NEW g \in Goroutines, StartFetch(g) PROVE IInv'
  BY <1>0, <1>3 DEF StartFetch, IInv, TypeOK, ReadSeesRate, OkImpliesRate
<1>4. ASSUME NEW g \in Goroutines, NEW r \in Rates, FetchDone(g, r) PROVE IInv'
  BY <1>0, <1>4 DEF FetchDone, Ptr, IInv, TypeOK, ReadSeesRate, OkImpliesRate
<1>5. ASSUME NEW g \in Goroutines, FetchFailed(g) PROVE IInv'
  BY <1>0, <1>5 DEF FetchFailed, IInv, TypeOK, ReadSeesRate, OkImpliesRate
<1>6. ASSUME NEW g \in Goroutines, ReadRate(g) PROVE IInv'
  BY <1>0, <1>6 DEF ReadRate, IInv, TypeOK, ReadSeesRate, OkImpliesRate
<1>7. CASE Tick
  BY <1>0, <1>7 DEF Tick, IInv, TypeOK, ReadSeesRate, OkImpliesRate
<1>8. CASE UNCHANGED vars
  BY <1>0, <1>8 DEF vars, IInv, TypeOK, ReadSeesRate, OkImpliesRate
<1>9. QED
  BY <1>1, <1>2, <1>3, <1>4, <1>5, <1>6, <1>7, <1>8 DEF Next

\* A call that returns no error returns a non-nil rate (OkImpliesRate),
\* although the rate is read after the Unlock at rates_service.go:52.
THEOREM OkImpliesRateHolds == Spec => []OkImpliesRate
<1>1. Spec => []IInv
  BY IInvInit, IInvStep, PTL DEF Spec
<1>2. IInv => OkImpliesRate
  BY DEF IInv
<1>3. QED
  BY <1>1, <1>2, PTL

\* The mapped initial states are initial states of the contract.
LEMMA InitRefines == Init => Cache!Init
<1> SUFFICES ASSUME Init PROVE Cache!Init
  OBVIOUS
<1>1. exchangeRate \in {Cache!Nil} \cup {Cache!Ptr(r, 0) : r \in Rates}
  BY DEF Init, Nil, Ptr, Cache!Nil, Cache!Ptr
<1>2. busyBar = [g \in Goroutines |-> FALSE]
  BY DEF Init, busyBar
<1>3. resultBar = [g \in Goroutines |-> Cache!NoResult]
  BY DEF Init, resultBar, NoReturn, Nil, Cache!NoResult, Cache!Nil
<1>4. QED
  BY <1>1, <1>2, <1>3 DEF Init, Cache!Init

\* Every step of the service maps to a step of the contract or a stutter.
LEMMA StepRefines ==
    IInv /\ [Next]_vars => [Cache!Next]_<<exchangeRate, busyBar, resultBar, now>>
<1> SUFFICES ASSUME IInv, [Next]_vars
             PROVE  [Cache!Next]_<<exchangeRate, busyBar, resultBar, now>>
  OBVIOUS
<1> USE DEF IInv, TypeOK
<1>1. ASSUME NEW g \in Goroutines, Call(g) PROVE Cache!Begin(g)
  BY <1>1 DEF Call, Cache!Begin, busyBar, resultBar
<1>2. ASSUME NEW g \in Goroutines, UseCache(g)
      PROVE UNCHANGED <<exchangeRate, busyBar, resultBar, now>>
  BY <1>2 DEF UseCache, busyBar, resultBar
<1>3. ASSUME NEW g \in Goroutines, StartFetch(g)
      PROVE UNCHANGED <<exchangeRate, busyBar, resultBar, now>>
  BY <1>3 DEF StartFetch, busyBar, resultBar
<1>4. ASSUME NEW g \in Goroutines, NEW r \in Rates, FetchDone(g, r)
      PROVE Cache!Refresh(g, r)
  BY <1>4 DEF FetchDone, Cache!Refresh, busyBar, resultBar, Ptr, Cache!Ptr
<1>5. ASSUME NEW g \in Goroutines, FetchFailed(g) PROVE Cache!ReturnError(g)
  BY <1>5 DEF FetchFailed, Cache!ReturnError, busyBar, resultBar, Nil, Cache!Nil
<1>6. ASSUME NEW g \in Goroutines, ReadRate(g) PROVE Cache!ReturnRate(g)
  BY <1>6 DEF ReadRate, ReadSeesRate, Cache!ReturnRate, busyBar, resultBar
<1>7. ASSUME Tick PROVE Cache!Tick
  BY <1>7 DEF Tick, Cache!Tick, busyBar, resultBar
<1>8. ASSUME UNCHANGED vars
      PROVE UNCHANGED <<exchangeRate, busyBar, resultBar, now>>
  BY <1>8 DEF vars, busyBar, resultBar
<1>9. QED
  BY <1>1, <1>2, <1>3, <1>4, <1>5, <1>6, <1>7, <1>8 DEF Next, Cache!Next

\* The service implements its contract RatesCache under the refinement
\* mapping busyBar, resultBar (ImplementsCache): in particular the read of
\* s.exchangeRate after the Unlock is a ReturnRate of a non-nil rate.
THEOREM Refinement == Spec => ImplementsCache
<1>1. Spec => []IInv
  BY IInvInit, IInvStep, PTL DEF Spec
<1>2. QED
  BY <1>1, InitRefines, StepRefines, PTL DEF Spec, ImplementsCache, Cache!Spec

-----------------------------------------------------------------------------
(* ReturnsFresh                                                            *)

\* A stored rate carries the instant lastFetch records for it, and no
\* instant the proofs compare lies in the future.
RateStamped ==
    /\ ~exchangeRate.isNil => exchangeRate.at = lastFetch /\ exchangeRate.at <= now
    /\ \A g \in Goroutines : checkedAt[g] <= now

\* A goroutine on its way to the read after Unlock will see a rate that was
\* fresh at its cache check, or one stored after it.
ReaderFresh ==
    \A g \in Goroutines :
        pc[g] = "read" =>
            \/ exchangeRate.at >= checkedAt[g]
            \/ checkedAt[g] - exchangeRate.at < TTL

FInv == TypeOK /\ RateStamped /\ ReaderFresh /\ ReturnsFresh

LEMMA FInvInit == Init => FInv
<1> SUFFICES ASSUME Init PROVE FInv
  OBVIOUS
<1>1. TypeOK
  BY InitTypeOK
<1>2. RateStamped
  BY DEF Init, RateStamped, Nil, Ptr
<1>3. ReaderFresh /\ ReturnsFresh
  BY DEF Init, ReaderFresh, ReturnsFresh, NoReturn
<1>4. QED
  BY <1>1, <1>2, <1>3 DEF FInv

LEMMA FInvStep == FInv /\ [Next]_vars => FInv'
<1> SUFFICES ASSUME FInv, [Next]_vars PROVE FInv'
  OBVIOUS
<1>0. TypeOK'
  BY TypeOKStep DEF FInv
<1> USE DEF FInv, TypeOK, Pointer, Return, NoReturn, Nil
<1>1. ASSUME NEW g \in Goroutines, Call(g) PROVE FInv'
  BY <1>0, <1>1 DEF Call, RateStamped, ReaderFresh, ReturnsFresh
<1>2. ASSUME NEW g \in Goroutines, UseCache(g) PROVE FInv'
  <2>1. RateStamped'
    BY <1>0, <1>2 DEF UseCache, UseCachedValue, RateStamped
  <2>2. ReaderFresh'
    BY <1>0, <1>2 DEF UseCache, UseCachedValue, RateStamped, ReaderFresh
  <2>3. ReturnsFresh'
    BY <1>0, <1>2 DEF UseCache, UseCachedValue, ReturnsFresh
  <2>4. QED
    BY <1>0, <2>1, <2>2, <2>3
<1>3. ASSUME NEW g \in Goroutines, StartFetch(g) PROVE FInv'
  <2>1. RateStamped'
    BY <1>0, <1>3 DEF StartFetch, RateStamped
  <2>2. ReaderFresh'
    BY <1>0, <1>3 DEF StartFetch, RateStamped, ReaderFresh
  <2>3. ReturnsFresh'
    BY <1>0, <1>3 DEF StartFetch, ReturnsFresh
  <2>4. QED
    BY <1>0, <2>1, <2>2, <2>3
<1>4. ASSUME NEW g \in Goroutines, NEW r \in Rates, FetchDone(g, r) PROVE FInv'
  <2>1. RateStamped'
    BY <1>0, <1>4 DEF FetchDone, Ptr, RateStamped
  <2>2. ReaderFresh'
    BY <1>0, <1>4 DEF FetchDone, Ptr, RateStamped, ReaderFresh
  <2>3. ReturnsFresh'
    BY <1>0, <1>4 DEF FetchDone, Ptr, ReturnsFresh
  <2>4. QED
    BY <1>0, <2>1, <2>2, <2>3
<1>5. ASSUME NEW g \in Goroutines, FetchFailed(g) PROVE FInv'
  BY <1>0, <1>5 DEF FetchFailed, RateStamped, ReaderFresh, ReturnsFresh
<1>6. ASSUME NEW g \in Goroutines, ReadRate(g) PROVE FInv'
  BY <1>0, <1>6 DEF ReadRate, RateStamped, ReaderFresh, ReturnsFresh
<1>7. CASE Tick
  <2>1. RateStamped'
    <3>1. ~exchangeRate.isNil => exchangeRate.at = lastFetch /\ exchangeRate.at <= now + 1
      <4> SUFFICES ASSUME ~exchangeRate.isNil
                   PROVE exchangeRate.at = lastFetch /\ exchangeRate.at <= now + 1
        OBVIOUS
      <4>1. exchangeRate.at \in 0..MaxTime
        <5>1. exchangeRate # Nil
          BY DEF Nil
        <5>2. exchangeRate \in [isNil : {FALSE}, rate : Rates, at : 0..MaxTime]
          BY <5>1 DEF Pointer
        <5>3. QED
          BY <5>2
      <4>2. exchangeRate.at = lastFetch /\ exchangeRate.at <= now
        BY DEF RateStamped
      <4>3. QED
        BY <4>1, <4>2
    <3>2. \A h \in Goroutines : checkedAt[h] <= now + 1
      BY DEF RateStamped
    <3>3. QED
      BY <1>7, <3>1, <3>2 DEF Tick, RateStamped
  <2>2. ReaderFresh'
    BY <1>0, <1>7 DEF Tick, RateStamped, ReaderFresh
  <2>3. ReturnsFresh'
    BY <1>0, <1>7 DEF Tick, ReturnsFresh
  <2>4. QED
    BY <1>0, <2>1, <2>2, <2>3
<1>8. CASE UNCHANGED vars
  BY <1>0, <1>8 DEF vars, RateStamped, ReaderFresh, ReturnsFresh
<1>9. QED
  BY <1>1, <1>2, <1>3, <1>4, <1>5, <1>6, <1>7, <1>8 DEF Next

\* A successful GetExchangeRate returns a rate stored during the call, or
\* one younger than the TTL when the call checked the cache (ReturnsFresh),
\* although another goroutine may replace it between Unlock and the read.
THEOREM ReturnsFreshHolds == Spec => []ReturnsFresh
<1>1. Spec => []FInv
  BY FInvInit, FInvStep, PTL DEF Spec
<1>2. FInv => ReturnsFresh
  BY DEF FInv
<1>3. QED
  BY <1>1, <1>2, PTL

=============================================================================
