---------------------------- MODULE RatesService ----------------------------
(***************************************************************************)
(* Model of src/domain/rates/rates_service.go: the exchange-rate cache     *)
(* shared by every HTTP request goroutine.  loadExchangeRate holds         *)
(* s.mutex across the cache check and the HTTP fetch; GetExchangeRate      *)
(* reads s.exchangeRate after the deferred Unlock, outside the mutex.      *)
(*                                                                         *)
(* A pointer *float64 is a record: a nil pointer, or the rate a fetch      *)
(* returned with the instant `at` that fetch stored it (a ghost field that *)
(* tells pointers of different fetches apart).  time.Now is the clock      *)
(* `now`, which advances by Tick up to MaxTime.                            *)
(***************************************************************************)
EXTENDS Integers

CONSTANTS
    Goroutines,  \* request goroutines calling GetExchangeRate
    Rates,       \* rates the exchange endpoint may answer
    TTL,         \* config.EnvCacheSettingsTTL, in clock ticks
    MaxTime      \* bound on the clock

ASSUME RatesAssumption ==
    /\ Goroutines # {}
    /\ Rates \subseteq Nat /\ Rates # {}
    /\ TTL \in Nat
    /\ MaxTime \in Nat

VARIABLES
    exchangeRate,  \* s.exchangeRate
    lastFetch,     \* s.lastFetch
    locked,        \* s.mutex is held
    pc,            \* pc[g]: where goroutine g is in GetExchangeRate
    checkedAt,     \* checkedAt[g]: when g last evaluated useCachedValue (ghost)
    ret,           \* ret[g]: what g's last GetExchangeRate returned
    now            \* time.Now()

vars == <<exchangeRate, lastFetch, locked, pc, checkedAt, ret, now>>

Nil == [isNil |-> TRUE, rate |-> 0, at |-> 0]
Ptr(r, t) == [isNil |-> FALSE, rate |-> r, at |-> t]

\* The zero time.Time lies further back than any TTL from the clock's start.
ZeroTime == -TTL - 1

NoReturn == [done |-> FALSE, err |-> FALSE, rate |-> Nil, checked |-> 0]

\* Mutant: a cached rate still used when its age equals the TTL.
UseCachedValueAtTTL == ~exchangeRate.isNil /\ now - lastFetch <= TTL

\* useCachedValue: a rate is cached and time.Since(lastFetch) < TTL.
UseCachedValue == ~exchangeRate.isNil /\ now - lastFetch < TTL

\* NewRatesService: the first loadExchangeRate runs before the service is
\* shared; its error is only logged, leaving the rate nil.
Init ==
    /\ \/ /\ exchangeRate = Nil
          /\ lastFetch = ZeroTime
       \/ \E r \in Rates : exchangeRate = Ptr(r, 0) /\ lastFetch = 0
    /\ locked = FALSE
    /\ pc = [g \in Goroutines |-> "idle"]
    /\ checkedAt = [g \in Goroutines |-> 0]
    /\ ret = [g \in Goroutines |-> NoReturn]
    /\ now = 0

\* GetExchangeRate is called and loadExchangeRate asks for s.mutex.
Call(g) ==
    /\ pc[g] = "idle"
    /\ pc' = [pc EXCEPT ![g] = "lock"]
    /\ UNCHANGED <<exchangeRate, lastFetch, locked, checkedAt, ret, now>>

\* Lock, useCachedValue holds, return nil: the deferred Unlock releases.
UseCache(g) ==
    /\ pc[g] = "lock"
    /\ ~locked
    /\ UseCachedValue
    /\ pc' = [pc EXCEPT ![g] = "read"]
    /\ checkedAt' = [checkedAt EXCEPT ![g] = now]
    /\ UNCHANGED <<exchangeRate, lastFetch, locked, ret, now>>

\* Lock, useCachedValue fails: fetchExchangeRate runs under the mutex.
StartFetch(g) ==
    /\ pc[g] = "lock"
    /\ ~locked
    /\ ~UseCachedValue
    /\ locked' = TRUE
    /\ pc' = [pc EXCEPT ![g] = "fetch"]
    /\ checkedAt' = [checkedAt EXCEPT ![g] = now]
    /\ UNCHANGED <<exchangeRate, lastFetch, ret, now>>

\* The fetch answers rate r: lastFetch and exchangeRate are set, Unlock.
FetchDone(g, r) ==
    /\ pc[g] = "fetch"
    /\ lastFetch' = now
    /\ exchangeRate' = Ptr(r, now)
    /\ locked' = FALSE
    /\ pc' = [pc EXCEPT ![g] = "read"]
    /\ UNCHANGED <<checkedAt, ret, now>>

\* Mutant: the fetch result stored before its error is checked.
FetchFailedStoring(g) ==
    /\ pc[g] = "fetch"
    /\ lastFetch' = now
    /\ exchangeRate' = Nil
    /\ locked' = FALSE
    /\ pc' = [pc EXCEPT ![g] = "idle"]
    /\ ret' = [ret EXCEPT ![g] = [done |-> TRUE, err |-> TRUE, rate |-> Nil,
                                  checked |-> checkedAt[g]]]
    /\ UNCHANGED <<checkedAt, now>>

\* Mutant: a failed fetch retried instead of returned.
FetchFailedRetry(g) ==
    /\ pc[g] = "fetch"
    /\ locked' = FALSE
    /\ pc' = [pc EXCEPT ![g] = "lock"]
    /\ UNCHANGED <<exchangeRate, lastFetch, checkedAt, ret, now>>

\* The request, the read of the body or the unmarshalling fails: the error
\* is returned, Unlock, and GetExchangeRate returns nil with it.
FetchFailed(g) ==
    /\ pc[g] = "fetch"
    /\ locked' = FALSE
    /\ pc' = [pc EXCEPT ![g] = "idle"]
    /\ ret' = [ret EXCEPT ![g] = [done |-> TRUE, err |-> TRUE, rate |-> Nil,
                                  checked |-> checkedAt[g]]]
    /\ UNCHANGED <<exchangeRate, lastFetch, checkedAt, now>>

\* return s.exchangeRate, nil: read after the Unlock, outside the mutex.
ReadRate(g) ==
    /\ pc[g] = "read"
    /\ pc' = [pc EXCEPT ![g] = "idle"]
    /\ ret' = [ret EXCEPT ![g] = [done |-> TRUE, err |-> FALSE, rate |-> exchangeRate,
                                  checked |-> checkedAt[g]]]
    /\ UNCHANGED <<exchangeRate, lastFetch, locked, checkedAt, now>>

Tick ==
    /\ now < MaxTime
    /\ now' = now + 1
    /\ UNCHANGED <<exchangeRate, lastFetch, locked, pc, checkedAt, ret>>

Next ==
    \/ \E g \in Goroutines :
          \/ Call(g) \/ UseCache(g) \/ StartFetch(g)
          \/ \E r \in Rates : FetchDone(g, r)
          \/ FetchFailed(g) \/ ReadRate(g)
    \/ Tick

Spec == Init /\ [][Next]_vars

\* Fairness, only where the code gives it.  Lock: sync.Mutex hands the
\* lock to a waiter starved for over 1ms (starvation mode), so a goroutine
\* that keeps asking gets it: strong fairness.  The read after Unlock is a
\* local step of a runnable goroutine: weak fairness.  The answer of the
\* exchange endpoint gets none: http.DefaultClient has no timeout and the
\* request context is context.Background(), so a fetch may never return.
FairSpec ==
    /\ Spec
    /\ \A g \in Goroutines :
          /\ SF_vars(UseCache(g) \/ StartFetch(g))
          /\ WF_vars(ReadRate(g))

-----------------------------------------------------------------------------
(* Properties                                                              *)

Pointer == {Nil} \cup [isNil : {FALSE}, rate : Rates, at : 0..MaxTime]
Return == {NoReturn} \cup
          [done : {TRUE}, err : BOOLEAN, rate : Pointer, checked : 0..MaxTime]

TypeOK ==
    /\ exchangeRate \in Pointer
    /\ lastFetch \in {ZeroTime} \cup 0..MaxTime
    /\ locked \in BOOLEAN
    /\ pc \in [Goroutines -> {"idle", "lock", "fetch", "read"}]
    /\ checkedAt \in [Goroutines -> 0..MaxTime]
    /\ ret \in [Goroutines -> Return]
    /\ now \in 0..MaxTime

\* A GetExchangeRate that returns no error returns a non-nil rate, although
\* it reads s.exchangeRate after releasing the mutex, while other
\* goroutines may be fetching and failing (rates_service.go:52).
OkImpliesRate ==
    \A g \in Goroutines : ret[g].done /\ ~ret[g].err => ~ret[g].rate.isNil

\* The cache contract: a successful call returns a rate fetched during the
\* call, or one whose age was under TTL when the call checked the cache;
\* the unsynchronised read can only see a newer rate than the one checked.
ReturnsFresh ==
    \A g \in Goroutines :
        ret[g].done /\ ~ret[g].err =>
            \/ ret[g].rate.at >= ret[g].checked
            \/ ret[g].checked - ret[g].rate.at < TTL

\* Every GetExchangeRate call returns, with a rate or an error, in every
\* behaviour in which the endpoint answers each request: the mutex held
\* across the fetch is released on every return path (the deferred Unlock)
\* and no goroutine waiting on it starves.  The endpoint's answers are the
\* hypothesis of the property, not a fairness of the spec, since the code
\* does not enforce them.
EndpointAnswers == \A h \in Goroutines : []<>(pc[h] # "fetch")

CallsReturn ==
    EndpointAnswers => \A g \in Goroutines : pc[g] = "lock" ~> pc[g] = "idle"

-----------------------------------------------------------------------------
(* Refinement of the service's contract (RatesCache)                       *)

\* A goroutine is inside GetExchangeRate from its call to its return.
busyBar == [g \in Goroutines |-> pc[g] # "idle"]
\* What each call returned, without the ghost instant of its cache check.
resultBar == [g \in Goroutines |->
                 [done |-> ret[g].done, err |-> ret[g].err, rate |-> ret[g].rate]]

Cache == INSTANCE RatesCache
            WITH rate <- exchangeRate, busy <- busyBar, result <- resultBar

\* The service implements its contract: the lock, the cache check and the
\* start of a fetch are invisible; a successful fetch replaces the rate on
\* behalf of a call in progress; a failed one ends the call with an error
\* and leaves the rate alone; and the read after Unlock (line 52) returns
\* the rate held at that moment, which is never nil.
ImplementsCache == Cache!Spec

=============================================================================
