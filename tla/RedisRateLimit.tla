--------------------------- MODULE RedisRateLimit ---------------------------
(***************************************************************************)
(* Rate limiting across processes: throttle() of packages/http over the    *)
(* CacheRateLimitStore and the RedisStore of packages/cache. Every command *)
(* is an await of its own, so commands of all workers interleave: INCRBY,  *)
(* then EXPIRE by the hit that created the counter, then PTTL. A worker    *)
(* may die, or lose its connection, between any two of them.               *)
(***************************************************************************)
EXTENDS Naturals, FiniteSets

CONSTANTS Request,        \* requests, in whatever worker
          Key,            \* "<limiter>:<client>"
          Max,            \* [Key -> Nat \ {0}]: limit.max
          WindowMs,       \* [Key -> ticks]: limit.windowMs
          TicksPerSecond, \* EXPIRE counts in seconds
          Horizon,        \* bound: the last instant of the clock
          None

ASSUME RedisAssumption ==
    /\ IsFiniteSet(Request)
    /\ Max \in [Key -> Nat \ {0}]
    /\ WindowMs \in [Key -> Nat \ {0}]
    /\ TicksPerSecond \in Nat \ {0}
    /\ Horizon \in Nat
    /\ None \notin Nat \cup Key
    /\ None \notin [count : Nat, expiresAt : Nat \cup {None}]

VARIABLES now,       \* the clock
          redis,     \* [Key -> None or counter]; an expired one is absent
          at,        \* [Request -> what it awaits, or how it ended]
          key,       \* [Request -> Key or None]
          count,     \* [Request -> what INCRBY returned]
          resetAt,   \* [Request -> what hit() returned]
          hitAt,     \* history: when INCRBY counted the request
          forgotten  \* history: keys deleted by reset() or by a flush of the prefix

vars == <<now, redis, at, key, count, resetAt, hitAt, forgotten>>

Counter == [count : Nat, expiresAt : Nat \cup {None}]
Timed(c) == c.expiresAt # None
Present(k) == redis[k] # None /\ (Timed(redis[k]) => redis[k].expiresAt > now)

\* Seeded defect: whole seconds by rounding down.
TtlRoundedDown(k) ==
    TicksPerSecond * (IF WindowMs[k] < TicksPerSecond THEN 1
                      ELSE WindowMs[k] \div TicksPerSecond)

\* Math.max(1, Math.ceil(windowMs / 1000)) seconds, in ticks.
Ttl(k) == TicksPerSecond * ((WindowMs[k] + TicksPerSecond - 1) \div TicksPerSecond)
-----------------------------------------------------------------------------
Init ==
    /\ now = 0
    /\ redis = [k \in Key |-> None]
    /\ at = [r \in Request |-> "new"]
    /\ key = [r \in Request |-> None]
    /\ count = [r \in Request |-> 0]
    /\ resetAt = [r \in Request |-> 0]
    /\ hitAt = [r \in Request |-> 0]
    /\ forgotten = {}

\* Seeded defect: a key is created at 1 and then incremented.
CreatedAtOne(k) ==
    IF Present(k) THEN [redis[k] EXCEPT !.count = @ + 1]
                  ELSE [count |-> 2, expiresAt |-> None]

\* INCRBY: a missing key is created at 0 and without an expiry.
NextCount(k) == IF Present(k) THEN redis[k].count + 1 ELSE 1
Incremented(k) ==
    IF Present(k) THEN [redis[k] EXCEPT !.count = @ + 1]
                  ELSE [count |-> 1, expiresAt |-> None]

\* Seeded defects: every hit applies the TTL, and no hit does.
ExpireAlways(r, k) ==
    /\ at[r] = "new"
    /\ redis' = [redis EXCEPT ![k] = Incremented(k)]
    /\ at' = [at EXCEPT ![r] = "created"]
    /\ key' = [key EXCEPT ![r] = k]
    /\ count' = [count EXCEPT ![r] = NextCount(k)]
    /\ hitAt' = [hitAt EXCEPT ![r] = now]
    /\ UNCHANGED <<now, resetAt, forgotten>>
ExpireNever(r, k) ==
    /\ at[r] = "new"
    /\ redis' = [redis EXCEPT ![k] = Incremented(k)]
    /\ at' = [at EXCEPT ![r] = "counted"]
    /\ key' = [key EXCEPT ![r] = k]
    /\ count' = [count EXCEPT ![r] = NextCount(k)]
    /\ hitAt' = [hitAt EXCEPT ![r] = now]
    /\ UNCHANGED <<now, resetAt, forgotten>>

\* hit(), RedisStore.increment: INCRBY. The hit whose value is 1 created the key.
Increment(r, k) ==
    /\ at[r] = "new"
    /\ redis' = [redis EXCEPT ![k] = Incremented(k)]
    /\ at' = [at EXCEPT ![r] = IF NextCount(k) = 1 THEN "created" ELSE "counted"]
    /\ key' = [key EXCEPT ![r] = k]
    /\ count' = [count EXCEPT ![r] = NextCount(k)]
    /\ hitAt' = [hitAt EXCEPT ![r] = now]
    /\ UNCHANGED <<now, resetAt, forgotten>>

\* RedisStore.increment: EXPIRE, which does nothing when the key is gone.
Expire(r) ==
    /\ at[r] = "created"
    /\ at' = [at EXCEPT ![r] = "counted"]
    /\ redis' = [k \in Key |-> IF k = key[r] /\ Present(k)
                               THEN [redis[k] EXCEPT !.expiresAt = now + Ttl(k)]
                               ELSE redis[k]]
    /\ UNCHANGED <<now, key, count, resetAt, hitAt, forgotten>>

\* hit(), expiresAt: without an expiry, or a key, the reset is a window away.
Reset(k) ==
    IF Present(k) /\ Timed(redis[k]) THEN redis[k].expiresAt ELSE now + WindowMs[k]

\* hit(): PTTL, and with its reply throttle() goes on or answers 429. The count is the
\* request's own copy, so nothing can come between.
Decide(r) ==
    /\ at[r] = "counted"
    /\ resetAt' = [resetAt EXCEPT ![r] = Reset(key[r])]
    /\ at' = [at EXCEPT ![r] = IF count[r] <= Max[key[r]] THEN "admitted" ELSE "rejected"]
    /\ UNCHANGED <<now, redis, key, count, hitAt, forgotten>>

\* DEL: CacheRateLimitStore.reset(key), or RedisStore.flush(), which deletes what it
\* finds under the prefix batch by batch.
Forget(k) ==
    /\ Present(k)
    /\ redis' = [redis EXCEPT ![k] = None]
    /\ forgotten' = forgotten \cup {k}
    /\ UNCHANGED <<now, at, key, count, resetAt, hitAt>>

\* The worker dies, or the command fails and the request with it.
Crash(r) ==
    /\ at[r] \in {"created", "counted"}
    /\ at' = [at EXCEPT ![r] = "dead"]
    /\ UNCHANGED <<now, redis, key, count, resetAt, hitAt, forgotten>>

Tick ==
    /\ now < Horizon
    /\ now' = now + 1
    /\ UNCHANGED <<redis, at, key, count, resetAt, hitAt, forgotten>>

Next ==
    \/ \E r \in Request :
        \/ \E k \in Key : Increment(r, k)
        \/ Expire(r) \/ Decide(r) \/ Crash(r)
    \/ \E k \in Key : Forget(k)
    \/ Tick

Spec == Init /\ [][Next]_vars
-----------------------------------------------------------------------------
\* Every variable has its type, and whoever awaits a command has a key and a count.
TypeOK ==
    /\ now \in Nat
    /\ redis \in [Key -> Counter \cup {None}]
    /\ at \in [Request -> {"new", "created", "counted", "admitted", "rejected", "dead"}]
    /\ key \in [Request -> Key \cup {None}]
    /\ count \in [Request -> Nat]
    /\ resetAt \in [Request -> Nat]
    /\ hitAt \in [Request -> Nat]
    /\ forgotten \subseteq Key
    /\ \A r \in Request : at[r] # "new" => key[r] # None /\ count[r] > 0

CountedIn(k) == {r \in Request : key[r] = k}
AdmittedIn(k) == {r \in CountedIn(k) : at[r] = "admitted"}

\* A counter without an expiry, which no later hit would give it one, is about to be given
\* it by the hit that created it, unless that hit died with its worker.
OnlyCrashesLockOut ==
    \A k \in Key : Present(k) /\ ~Timed(redis[k]) =>
        \E r \in CountedIn(k) : count[r] = 1 /\ at[r] \in {"created", "dead"}

\* "Max requests allowed per key within the window", whichever workers serve them: from
\* the hit that creates a counter, max requests are admitted in windowMs, though the TTL
\* is applied late and in whole seconds (unless the counter was deleted on purpose).
AtMostMaxPerWindow ==
    \A k \in Key \ forgotten : \A first \in CountedIn(k) :
        count[first] = 1 =>
            Cardinality({r \in AdmittedIn(k) :
                hitAt[r] \in hitAt[first] .. hitAt[first] + WindowMs[k] - 1}) <= Max[k]

\* No hit is counted twice: whoever is rejected comes after max others in its window,
\* one for each count (unless the counter was deleted on purpose).
RejectedAfterMax ==
    \A k \in Key \ forgotten : \A first, r \in CountedIn(k) :
        count[first] = 1 /\ hitAt[first] <= hitAt[r] /\ at[r] = "rejected" =>
            \A n \in 1 .. Max[k] : \E q \in CountedIn(k) :
                count[q] = n /\ hitAt[q] \in hitAt[first] .. hitAt[r]

\* The reset hit() reports is never later than the counter's own, though it may have been
\* guessed in milliseconds before EXPIRE set it in whole seconds: nobody waits too long.
ResetNotLate ==
    \A k \in Key : Present(k) /\ Timed(redis[k]) =>
        \A r \in CountedIn(k) : resetAt[r] <= redis[k].expiresAt

\* "The window is fixed from the first hit rather than sliding": once a counter has an
\* expiry no command moves it (a hit delayed past a deletion of its counter may).
WindowFixed ==
    [][\A k \in Key \ forgotten' :
        Present(k) /\ Timed(redis[k]) =>
            redis'[k] # None /\ redis'[k].expiresAt = redis[k].expiresAt]_vars
=============================================================================
