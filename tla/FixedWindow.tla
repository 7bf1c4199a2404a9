---------------------------- MODULE FixedWindow ----------------------------
(***************************************************************************)
(* What a rate limiter promises (the doc comments of RateLimitOptions and  *)
(* of Limit): a caller may have Quota[p] requests admitted in each window  *)
(* of Length[p] ticks, a window opens with a request of the caller and a   *)
(* new one opens only once the previous one is over (or was forgotten).    *)
(* A window is named by the request that opened it.                        *)
(***************************************************************************)
EXTENDS Naturals, FiniteSets

CONSTANTS Request,   \* requests that may arrive
          Caller,    \* who is being limited, and by which limiter
          Length,    \* [Caller -> ticks]
          Quota,     \* [Caller -> requests]
          None       \* "no window"

VARIABLES now,       \* the clock
          caller,    \* [Request -> Caller \cup {None}]: who sent the request
          current,   \* [Caller -> Request \cup {None}]: the caller's open window
          closesAt,  \* [Request -> tick]: when the window it opened is over, or 0
          granted    \* [Request -> SUBSET Request]: who was admitted in the window

vars == <<now, caller, current, closesAt, granted>>

Init ==
    /\ now \in Nat
    /\ caller = [r \in Request |-> None]
    /\ current = [p \in Caller |-> None]
    /\ closesAt = [w \in Request |-> 0]
    /\ granted = [w \in Request |-> {}]

\* A request finds its caller without an open window and opens one.
Open(p, r) ==
    /\ caller[r] = None
    /\ current[p] = None
    /\ caller' = [caller EXCEPT ![r] = p]
    /\ current' = [current EXCEPT ![p] = r]
    /\ closesAt' = [closesAt EXCEPT ![r] = now + Length[p]]
    /\ UNCHANGED <<now, granted>>

\* A request is counted in the open window of its caller.
Join(p, r) ==
    /\ caller[r] = None
    /\ current[p] # None
    /\ caller' = [caller EXCEPT ![r] = p]
    /\ UNCHANGED <<now, current, closesAt, granted>>

\* A request is admitted in a window of its caller that has room for it.
Admit(w, r) ==
    /\ caller[r] # None
    /\ caller[w] = caller[r]
    /\ closesAt[w] > 0
    /\ \A v \in Request : r \notin granted[v]
    /\ Cardinality(granted[w]) < Quota[caller[w]]
    /\ granted' = [granted EXCEPT ![w] = @ \cup {r}]
    /\ UNCHANGED <<now, caller, current, closesAt>>

\* The counters of some callers are dropped on purpose.
Forgive(S) ==
    /\ current' = [p \in Caller |-> IF p \in S THEN None ELSE current[p]]
    /\ UNCHANGED <<now, caller, closesAt, granted>>

\* Time passes, and the windows whose length has elapsed are over.
Tick ==
    /\ now' = now + 1
    /\ current' = [p \in Caller |->
                     IF current[p] # None /\ closesAt[current[p]] <= now + 1
                     THEN None ELSE current[p]]
    /\ UNCHANGED <<caller, closesAt, granted>>

Next ==
    \/ Tick
    \/ \E p \in Caller, r \in Request : Open(p, r)
    \/ \E p \in Caller, r \in Request : Join(p, r)
    \/ \E w \in Request, r \in Request : Admit(w, r)
    \/ \E S \in SUBSET Caller : Forgive(S)

Spec == Init /\ [][Next]_vars
=============================================================================
