----------------------------- MODULE RateLimit -----------------------------
(***************************************************************************)
(* The fixed-window rate limiters of packages/http: the RateLimit          *)
(* middleware, the named throttle() middleware, and the process-local      *)
(* MemoryRateLimitStore both count in.                                     *)
(*                                                                         *)
(* hit() hands the caller the bucket OBJECT it keeps in its map, and the   *)
(* middleware reads the object's fields after an await, so between Hit and *)
(* Decide of one request the hits of others change what it will read.      *)
(* Bucket objects are therefore modelled by reference: a bucket is named   *)
(* by the request whose hit created it.                                    *)
(***************************************************************************)
EXTENDS Naturals, FiniteSets

CONSTANTS Request,       \* the requests that reach a limiter
          Client,        \* what keyGenerator / limit.key / the IP tell apart
          Limiter,       \* RateLimit instances and names given to throttle()
          Kind,          \* [Limiter -> {"RateLimit", "throttle"}]
          WindowMs,      \* [Limiter -> ticks]: options.windowMs
          Max,           \* [Limiter -> Nat \ {0}]: options.max
          SweepEvery,    \* ticks between sweeps (60_000 ms in the code)
          TicksPerSecond,\* ticks in the second Retry-After is counted in
          Horizon,       \* bound: how many ticks the clock may advance
          None           \* no bucket, no route

ASSUME RateLimitAssumption ==
    /\ IsFiniteSet(Request)
    /\ Kind \in [Limiter -> {"RateLimit", "throttle"}]
    /\ WindowMs \in [Limiter -> Nat \ {0}]
    /\ Max \in [Limiter -> Nat \ {0}]
    /\ SweepEvery \in Nat
    /\ TicksPerSecond \in Nat \ {0}
    /\ Horizon \in Nat
    /\ None \notin Request \cup (Limiter \X Client)
    /\ "RateLimit" \notin Limiter   \* it tags the keys of the default store

VARIABLES now,        \* Date.now(), in ticks
          buckets,    \* [Key -> Request \cup {None}]: the store's map
          heap,       \* [Request -> bucket]: the bucket objects
          lastSweep,  \* [store -> tick]
          status,     \* [Request -> "new" | "hit" | "admitted" | "rejected"]
          route,      \* [Request -> who asked which limiter]
          held,       \* [Request -> Request \cup {None}]: the object hit() returned
          retryAt,    \* [Request -> tick]: when Retry-After tells the client to return
          hitAt,      \* history: [Request -> tick] of its hit
          forgiven    \* history: the keys whose counter was dropped on purpose

store == <<buckets, heap, lastSweep>>
history == <<hitAt, forgiven>>
vars == <<now, store, status, route, held, retryAt, history>>

Store == {"RateLimit", "throttle"}
Caller == Limiter \X Client
Key == (Limiter \cup {"RateLimit"}) \X Client

\* Every RateLimit instance without a store of its own counts in the one
\* defaultStore under the bare client key; throttle() prefixes the limiter's name.
BucketKey(p) == IF Kind[p[1]] = "throttle" THEN p ELSE <<"RateLimit", p[2]>>

StoreOfKey(k) == IF k[1] = "RateLimit" THEN "RateLimit" ELSE "throttle"

\* Seeded defect: a bucket is taken for expired a tick early.
LiveTooShort(k) == buckets[k] # None /\ heap[buckets[k]].resetAt > now + 1

\* The map holds a bucket for k that has not reached its resetAt.
Live(k) == buckets[k] # None /\ heap[buckets[k]].resetAt > now

\* sweepIfNeeded: at most once per SweepEvery, drop what has expired in the store.
SweepIfNeeded(s, bs, hp) ==
    IF now - lastSweep[s] < SweepEvery
    THEN bs
    ELSE [k \in Key |-> IF /\ StoreOfKey(k) = s
                           /\ bs[k] # None
                           /\ hp[bs[k]].resetAt <= now
                        THEN None ELSE bs[k]]

\* Seeded defect: the seconds are rounded down.
RetryAfterRoundedDown(resetAt) ==
    IF resetAt <= now + TicksPerSecond THEN 1 ELSE (resetAt - now) \div TicksPerSecond

\* Math.max(1, Math.ceil((resetAt - now) / 1000)), in seconds.
RetryAfter(resetAt) ==
    IF resetAt <= now THEN 1
    ELSE (resetAt - now + TicksPerSecond - 1) \div TicksPerSecond
-----------------------------------------------------------------------------
\* Date.now() is far from lastSweep's 0, so the first bucket sweeps.
Init ==
    /\ now = SweepEvery
    /\ buckets = [k \in Key |-> None]
    /\ heap = [r \in Request |-> [count |-> 0, resetAt |-> 0]]
    /\ lastSweep = [s \in Store |-> 0]
    /\ status = [r \in Request |-> "new"]
    /\ route = [r \in Request |-> None]
    /\ held = [r \in Request |-> None]
    /\ retryAt = [r \in Request |-> 0]
    /\ hitAt = [r \in Request |-> 0]
    /\ forgiven = {}

\* hit() when the key has no bucket, or an expired one: a new bucket object.
HitNew(p, r) ==
    LET k == BucketKey(p)
        s == Kind[p[1]]
    IN /\ ~Live(k)
       /\ heap' = [heap EXCEPT ![r] = [count |-> 1, resetAt |-> now + WindowMs[p[1]]]]
       /\ buckets' = SweepIfNeeded(s, [buckets EXCEPT ![k] = r], heap')
       /\ lastSweep' = IF now - lastSweep[s] < SweepEvery
                       THEN lastSweep ELSE [lastSweep EXCEPT ![s] = now]
       /\ held' = [held EXCEPT ![r] = r]

\* Seeded defect: every hit starts the window again.
HitExistingSlides(p, r) ==
    LET b == buckets[BucketKey(p)]
    IN /\ Live(BucketKey(p))
       /\ heap' = [heap EXCEPT ![b] = [count |-> @.count + 1,
                                      resetAt |-> now + WindowMs[p[1]]]]
       /\ held' = [held EXCEPT ![r] = b]
       /\ UNCHANGED <<buckets, lastSweep>>

\* hit() on a live bucket: count it there and hand out the same object.
HitExisting(p, r) ==
    LET b == buckets[BucketKey(p)]
    IN /\ Live(BucketKey(p))
       /\ heap' = [heap EXCEPT ![b].count = @ + 1]
       /\ held' = [held EXCEPT ![r] = b]
       /\ UNCHANGED <<buckets, lastSweep>>

\* A request enters the middleware and calls hit(); it then awaits the result.
Hit(p, r) ==
    /\ status[r] = "new"
    /\ HitNew(p, r) \/ HitExisting(p, r)
    /\ status' = [status EXCEPT ![r] = "hit"]
    /\ route' = [route EXCEPT ![r] = p]
    /\ hitAt' = [hitAt EXCEPT ![r] = now]
    /\ UNCHANGED <<now, retryAt, forgiven>>

\* Seeded defect: the comparison lets one request too many through.
AdmitOneMore(r) ==
    /\ status[r] = "hit"
    /\ heap[held[r]].count <= Max[route[r][1]] + 1
    /\ status' = [status EXCEPT ![r] = "admitted"]
    /\ UNCHANGED <<now, store, route, held, retryAt, history>>

\* The continuation after the await reads the shared object as it is NOW.
Admit(r) ==
    /\ status[r] = "hit"
    /\ heap[held[r]].count <= Max[route[r][1]]
    /\ status' = [status EXCEPT ![r] = "admitted"]
    /\ UNCHANGED <<now, store, route, held, retryAt, history>>

Reject(r) ==
    /\ status[r] = "hit"
    /\ heap[held[r]].count > Max[route[r][1]]
    /\ status' = [status EXCEPT ![r] = "rejected"]
    /\ retryAt' = [retryAt EXCEPT ![r] =
                     now + TicksPerSecond * RetryAfter(heap[held[r]].resetAt)]
    /\ UNCHANGED <<now, store, route, held, history>>

\* RateLimitStore.reset(key), called by the application.
Reset(k) ==
    /\ buckets[k] # None
    /\ buckets' = [buckets EXCEPT ![k] = None]
    /\ forgiven' = forgiven \cup {k}
    /\ UNCHANGED <<now, heap, lastSweep, status, route, held, retryAt, hitAt>>

\* RateLimiter.useStore(new MemoryRateLimitStore()): the named limiters start over.
UseStore ==
    /\ \E k \in Key : StoreOfKey(k) = "throttle" /\ buckets[k] # None
    /\ buckets' = [k \in Key |-> IF StoreOfKey(k) = "throttle" THEN None ELSE buckets[k]]
    /\ lastSweep' = [lastSweep EXCEPT !["throttle"] = 0]
    /\ forgiven' = forgiven \cup {k \in Key : StoreOfKey(k) = "throttle"}
    /\ UNCHANGED <<now, heap, status, route, held, retryAt, hitAt>>

Tick ==
    /\ now < SweepEvery + Horizon
    /\ now' = now + 1
    /\ UNCHANGED <<store, status, route, held, retryAt, history>>

Next ==
    \/ Tick
    \/ \E p \in Caller, r \in Request : Hit(p, r)
    \/ \E r \in Request : Admit(r)
    \/ \E r \in Request : Reject(r)
    \/ \E k \in Key : Reset(k)
    \/ UseStore

Spec == Init /\ [][Next]_vars
-----------------------------------------------------------------------------
Bucket == [count : Nat, resetAt : Nat]

\* Every variable has its type, and hit() gave every counted request a bucket.
TypeOK ==
    /\ now \in Nat
    /\ buckets \in [Key -> Request \cup {None}]
    /\ heap \in [Request -> Bucket]
    /\ lastSweep \in [Store -> Nat]
    /\ status \in [Request -> {"new", "hit", "admitted", "rejected"}]
    /\ route \in [Request -> Caller \cup {None}]
    /\ held \in [Request -> Request \cup {None}]
    /\ retryAt \in [Request -> Nat]
    /\ hitAt \in [Request -> Nat]
    /\ forgiven \subseteq Key
    /\ \A r \in Request : status[r] # "new" => held[r] # None /\ route[r] # None

Admitted == {r \in Request : status[r] = "admitted"}

\* Whatever hits interleave with the awaits, a limiter admits at most its max of
\* the requests that were counted in one bucket object (RateLimit.handle and
\* throttle compare the shared count, which only ever grows).
NeverOverAdmitted ==
    \A b \in Request, l \in Limiter :
        Cardinality({r \in Admitted : held[r] = b /\ route[r][1] = l}) <= Max[l]

\* "Max requests allowed per key within the window" (RateLimitOptions.max): of the
\* hits within windowMs of a caller's first, its limiter admits at most max,
\* unless the counter was dropped on purpose.
AtMostMaxPerWindow ==
    \A p \in Caller :
        LET mine == {r \in Request : route[r] = p}
        IN  BucketKey(p) \notin forgiven =>
            \A first \in mine :
                (\A r \in mine : hitAt[first] <= hitAt[r]) =>
                    Cardinality({r \in mine \cap Admitted :
                                   hitAt[r] < hitAt[first] + WindowMs[p[1]]}) <= Max[p[1]]

\* A client that waits as long as Retry-After says finds the bucket that rejected
\* it expired: the header never sends it back into the same window.
RetryAfterSuffices ==
    \A r \in Request :
        status[r] = "rejected" => heap[held[r]].resetAt <= retryAt[r]

\* The limiters implement the promise of FixedWindow, when no two of them share
\* the default store.
FW == INSTANCE FixedWindow
        WITH Length <- [p \in Caller |-> WindowMs[p[1]]],
             Quota <- [p \in Caller |-> Max[p[1]]],
             caller <- route,
             current <- [p \in Caller |-> IF Live(BucketKey(p))
                                          THEN buckets[BucketKey(p)] ELSE None],
             closesAt <- [r \in Request |-> heap[r].resetAt],
             granted <- [w \in Request |-> {r \in Admitted : held[r] = w}]

ImplementsFixedWindow == FW!Spec
=============================================================================
