----------------------------- MODULE RatesCache -----------------------------
(***************************************************************************)
(* What the exchange-rate service promises its callers, with the mutex,    *)
(* the cache check and the HTTP exchange abstracted away: a call is in     *)
(* progress or not; while a call is in progress the shared rate may be     *)
(* replaced by a freshly fetched one; a call ends either with an error     *)
(* and no rate, or with the rate the service holds at that moment, which   *)
(* is never nil.  Nothing ever clears the rate.                            *)
(***************************************************************************)
EXTENDS Integers

CONSTANTS Goroutines, Rates, MaxTime

VARIABLES
    rate,    \* the rate the service holds
    busy,    \* busy[g]: g is inside GetExchangeRate
    result,  \* result[g]: what g's last call returned
    now      \* the clock

Nil == [isNil |-> TRUE, rate |-> 0, at |-> 0]
Ptr(r, t) == [isNil |-> FALSE, rate |-> r, at |-> t]

NoResult == [done |-> FALSE, err |-> FALSE, rate |-> Nil]

Init ==
    /\ rate \in {Nil} \cup {Ptr(r, 0) : r \in Rates}
    /\ busy = [g \in Goroutines |-> FALSE]
    /\ result = [g \in Goroutines |-> NoResult]
    /\ now = 0

Begin(g) ==
    /\ ~busy[g]
    /\ busy' = [busy EXCEPT ![g] = TRUE]
    /\ UNCHANGED <<rate, result, now>>

\* On behalf of a call in progress, the rate is replaced by a fetched one.
Refresh(g, r) ==
    /\ busy[g]
    /\ rate' = Ptr(r, now)
    /\ UNCHANGED <<busy, result, now>>

ReturnRate(g) ==
    /\ busy[g]
    /\ ~rate.isNil
    /\ busy' = [busy EXCEPT ![g] = FALSE]
    /\ result' = [result EXCEPT ![g] = [done |-> TRUE, err |-> FALSE, rate |-> rate]]
    /\ UNCHANGED <<rate, now>>

ReturnError(g) ==
    /\ busy[g]
    /\ busy' = [busy EXCEPT ![g] = FALSE]
    /\ result' = [result EXCEPT ![g] = [done |-> TRUE, err |-> TRUE, rate |-> Nil]]
    /\ UNCHANGED <<rate, now>>

Tick ==
    /\ now < MaxTime
    /\ now' = now + 1
    /\ UNCHANGED <<rate, busy, result>>

Next ==
    \/ \E g \in Goroutines :
          \/ Begin(g) \/ ReturnRate(g) \/ ReturnError(g)
          \/ \E r \in Rates : Refresh(g, r)
    \/ Tick

Spec == Init /\ [][Next]_<<rate, busy, result, now>>

=============================================================================
