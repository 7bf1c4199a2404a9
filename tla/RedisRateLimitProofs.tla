------------------------ MODULE RedisRateLimitProofs ------------------------
(***************************************************************************)
(* For every number of workers, requests and keys: only a crash leaves a   *)
(* counter without an expiry, no command moves the expiry of a counter     *)
(* that has one, and hit() never reports a reset later than the counter's. *)
(*                                                                         *)
(* The argument: INCRBY returns 1 to exactly one hit of each counter, so   *)
(* until somebody deletes a counter at most one hit is about to apply the  *)
(* TTL, and while it is the counter is there and has no expiry. An expiry  *)
(* is always within one TTL of now, and a TTL is no shorter than a window, *)
(* so every reset reported before it is set is at most as late.            *)
(*                                                                         *)
(* Counts: INCRBY numbers the hits of one counter from 1 up without a gap, *)
(* so max of them pass and one that does not has max before it.            *)
(***************************************************************************)
EXTENDS RedisRateLimit, FiniteSetTheorems, TLAPS

\* A counter was counted at least once, and its expiry is within a TTL of now.
CountersCounted ==
    \A k \in Key : redis[k] # None =>
        /\ redis[k].count > 0
        /\ Timed(redis[k]) => redis[k].expiresAt <= now + Ttl(k)

\* Who is about to apply the TTL created the counter.
CreatorsCountOne == \A r \in Request : at[r] = "created" => count[r] = 1

Creators(k) == {r \in CountedIn(k) : at[r] = "created"}

\* While the creator of a counter awaits EXPIRE, the counter is there without an expiry,
\* and nobody else awaits one for it.
OneCreator ==
    \A k \in Key \ forgotten : \A r \in Creators(k) :
        /\ Present(k) /\ ~Timed(redis[k])
        /\ \A q \in Creators(k) : q = r

\* A reset reported so far is within a TTL of now, and none was reported to a new request.
ResetsWithinTtl ==
    /\ \A r \in Request : at[r] = "new" => resetAt[r] = 0 /\ key[r] = None
    /\ \A k \in Key : \A r \in CountedIn(k) : resetAt[r] <= now + Ttl(k)

IInv ==
    /\ TypeOK
    /\ CountersCounted
    /\ CreatorsCountOne
    /\ OnlyCrashesLockOut
    /\ OneCreator
    /\ ResetsWithinTtl
    /\ ResetNotLate
-----------------------------------------------------------------------------
LEMMA CeilingDivision ==
  ASSUME NEW w \in Nat \ {0}, NEW t \in Nat \ {0}
  PROVE  /\ (w + t - 1) \div t \in Nat
         /\ t * ((w + t - 1) \div t) \in Nat
         /\ w <= t * ((w + t - 1) \div t)
  <1> DEFINE a == w + t - 1
             q == a \div t
             m == a % t
  <1>1. a \in Nat
    OBVIOUS
  <1>2. q \in Nat /\ m \in 0 .. t - 1 /\ a = t * q + m
    BY <1>1
  <1>3. t * q \in Nat
    BY <1>2
  <1> QED
    BY <1>1, <1>2, <1>3

LEMMA TtlCoversWindow ==
  ASSUME NEW k \in Key PROVE Ttl(k) \in Nat /\ WindowMs[k] <= Ttl(k) /\ WindowMs[k] \in Nat
  BY RedisAssumption, CeilingDivision DEF Ttl

\* A counter is not None, and has the fields of one.
LEMMA CounterParts ==
  ASSUME TypeOK, NEW k \in Key, redis[k] # None
  PROVE  /\ redis[k] \in Counter
         /\ redis[k].count \in Nat
         /\ Timed(redis[k]) => redis[k].expiresAt \in Nat
  BY DEF TypeOK, Counter, Timed

LEMMA InitIInv == Init => IInv
  <1> SUFFICES ASSUME Init PROVE IInv
    OBVIOUS
  <1> USE RedisAssumption DEF Init
  <1>1. TypeOK
    BY DEF TypeOK
  <1>2. CountersCounted /\ CreatorsCountOne /\ OnlyCrashesLockOut
    BY DEF CountersCounted, CreatorsCountOne, OnlyCrashesLockOut, Present
  <1>3. OneCreator
    BY DEF OneCreator, Creators, CountedIn
  <1>4. ResetsWithinTtl /\ ResetNotLate
    BY DEF ResetsWithinTtl, ResetNotLate, CountedIn, Present
  <1> QED
    BY <1>1, <1>2, <1>3, <1>4 DEF IInv
-----------------------------------------------------------------------------
\* INCRBY keeps a counter's expiry, and a counter it creates has none.
LEMMA IncrementedParts ==
  ASSUME TypeOK, NEW k \in Key
  PROVE  /\ NextCount(k) \in Nat \ {0}
         /\ Incremented(k) \in Counter
         /\ Incremented(k) # None
         /\ Incremented(k).count = NextCount(k)
         /\ Present(k) => Incremented(k).expiresAt = redis[k].expiresAt
         /\ ~Present(k) => ~Timed(Incremented(k)) /\ NextCount(k) = 1
  <1> USE RedisAssumption
  <1>1. CASE Present(k)
    <2>1. redis[k] \in Counter /\ redis[k].count \in Nat
      BY <1>1, CounterParts DEF Present
    <2> QED
      BY <1>1, <2>1 DEF NextCount, Incremented, Counter
  <1>2. CASE ~Present(k)
    BY <1>2 DEF NextCount, Incremented, Counter, Timed
  <1> QED
    BY <1>1, <1>2

LEMMA IncrementIInv ==
  ASSUME IInv, NEW r \in Request, NEW k \in Key, Increment(r, k)
  PROVE  IInv'
  <1> USE RedisAssumption
  <1> TypeOK
    BY DEF IInv
  <1>1. /\ redis' = [redis EXCEPT ![k] = Incremented(k)]
        /\ key' = [key EXCEPT ![r] = k]
        /\ count' = [count EXCEPT ![r] = NextCount(k)]
        /\ at' = [at EXCEPT ![r] = IF NextCount(k) = 1 THEN "created" ELSE "counted"]
        /\ UNCHANGED <<now, resetAt, forgotten>>
    BY DEF Increment
  <1>2. at[r] = "new" /\ key[r] = None /\ resetAt[r] = 0
    BY DEF Increment, IInv, ResetsWithinTtl
  <1>3. redis'[k] = Incremented(k) /\ \A j \in Key \ {k} : redis'[j] = redis[j]
    BY <1>1 DEF TypeOK
  <1>4. Present(k) => NextCount(k) > 1
    BY CounterParts DEF IInv, CountersCounted, NextCount, Present
  <1>5. \A j \in Key \ {k} : Present(j)' = Present(j)
    BY <1>1, <1>3 DEF Present, Timed
  <1>6. Present(k)' /\ (Present(k) => (Timed(redis[k]) <=> Timed(redis[k])'))
    BY <1>1, <1>3, IncrementedParts DEF Present, Timed
  <1>7. \A j \in Key : CountedIn(j)' = IF j = k THEN CountedIn(j) \cup {r} ELSE CountedIn(j)
    BY <1>1, <1>2 DEF CountedIn, TypeOK
  <1>8. TypeOK'
    <2>1. redis' \in [Key -> Counter \cup {None}]
      BY <1>1, IncrementedParts DEF TypeOK
    <2>2. count' \in [Request -> Nat] /\ hitAt' \in [Request -> Nat]
      BY <1>1, IncrementedParts DEF Increment, TypeOK
    <2>3. \A q \in Request : at'[q] # "new" => key'[q] # None /\ count'[q] > 0
      BY <1>1, IncrementedParts DEF TypeOK
    <2> QED
      BY <1>1, <2>1, <2>2, <2>3 DEF TypeOK
  <1>9. CountersCounted'
    <2>1. redis'[k].count > 0
      BY <1>3, IncrementedParts
    <2>2. Timed(redis[k])' => redis'[k].expiresAt <= now' + Ttl(k)
      BY <1>1, <1>3, <1>6, IncrementedParts DEF IInv, CountersCounted, Present, Timed
    <2> QED
      BY <1>1, <1>3, <2>1, <2>2 DEF IInv, CountersCounted, Timed, Ttl
  <1>10. CreatorsCountOne'
    BY <1>1 DEF IInv, CreatorsCountOne, TypeOK
  <1>11. OnlyCrashesLockOut'
    <2> SUFFICES ASSUME NEW j \in Key, Present(j)', ~Timed(redis[j])'
                 PROVE  \E q \in CountedIn(j)' : count'[q] = 1 /\ at'[q] \in {"created", "dead"}
      BY DEF OnlyCrashesLockOut
    <2>1. CASE Present(j)
      <3>1. ~Timed(redis[j])
        BY <2>1, <1>3, <1>6 DEF Timed
      <3>2. PICK q \in CountedIn(j) : count[q] = 1 /\ at[q] \in {"created", "dead"}
        BY <2>1, <3>1 DEF IInv, OnlyCrashesLockOut
      <3>3. q # r
        BY <3>2, <1>2
      <3> QED
        BY <1>1, <1>7, <3>2, <3>3 DEF TypeOK, CountedIn
    <2>2. CASE ~Present(j)
      <3>1. j = k /\ NextCount(k) = 1
        BY <2>2, <1>5, IncrementedParts
      <3> QED
        BY <1>1, <1>7, <3>1 DEF TypeOK, CountedIn
    <2> QED
      BY <2>1, <2>2
  <1>12. OneCreator'
    <2> SUFFICES ASSUME NEW j \in Key \ forgotten, NEW q \in Creators(j)'
                 PROVE  /\ Present(j)' /\ ~Timed(redis[j])'
                        /\ \A p \in Creators(j)' : p = q
      BY <1>1 DEF OneCreator
    <2>1. CASE j # k
      <3>1. Creators(j)' = Creators(j)
        BY <2>1, <1>1, <1>2, <1>7 DEF Creators, CountedIn, TypeOK
      <3> QED
        BY <2>1, <3>1, <1>3, <1>5 DEF IInv, OneCreator, Timed
    <2>2. CASE j = k /\ Present(k)
      <3>1. Creators(k)' = Creators(k)
        BY <2>2, <1>1, <1>2, <1>4, <1>7 DEF Creators, CountedIn, TypeOK
      <3> QED
        BY <2>2, <3>1, <1>6 DEF IInv, OneCreator
    <2>3. CASE j = k /\ ~Present(k)
      <3>1. Creators(k) = {}
        BY <2>3 DEF IInv, OneCreator
      <3>2. Creators(k)' \subseteq {r}
        BY <3>1, <1>1, <1>7 DEF Creators, CountedIn, TypeOK
      <3>3. ~Timed(redis[k])'
        BY <2>3, <1>3, IncrementedParts DEF Timed
      <3> QED
        BY <2>3, <3>2, <3>3, <1>6
    <2> QED
      BY <2>1, <2>2, <2>3
  <1>13. ResetsWithinTtl'
    <2>1. \A q \in Request : at'[q] = "new" => resetAt'[q] = 0 /\ key'[q] = None
      BY <1>1 DEF IInv, ResetsWithinTtl, TypeOK
    <2>2. ASSUME NEW j \in Key, NEW q \in CountedIn(j)' PROVE resetAt'[q] <= now' + Ttl(j)
      <3>1. CASE q = r
        BY <3>1, <1>1, <1>2, TtlCoversWindow DEF TypeOK
      <3>2. CASE q # r
        BY <3>2, <1>1, <1>7 DEF IInv, ResetsWithinTtl
      <3> QED
        BY <3>1, <3>2
    <2> QED
      BY <2>1, <2>2 DEF ResetsWithinTtl, Ttl
  <1>14. ResetNotLate'
    <2> SUFFICES ASSUME NEW j \in Key, Present(j)', Timed(redis[j])', NEW q \in CountedIn(j)'
                 PROVE  resetAt'[q] <= redis'[j].expiresAt
      BY DEF ResetNotLate
    <2>1. Present(j) /\ Timed(redis[j]) /\ redis'[j].expiresAt = redis[j].expiresAt
      BY <1>3, <1>5, <1>6, IncrementedParts DEF Timed
    <2>2. redis[j].expiresAt \in Nat
      BY <2>1, CounterParts DEF Present
    <2>3. CASE q = r
      BY <2>1, <2>2, <2>3, <1>1, <1>2
    <2>4. CASE q # r
      BY <2>1, <2>4, <1>1, <1>7 DEF IInv, ResetNotLate
    <2> QED
      BY <2>3, <2>4
  <1> QED
    BY <1>8, <1>9, <1>10, <1>11, <1>12, <1>13, <1>14 DEF IInv

\* EXPIRE: by OneCreator it never meets a counter that has an expiry, unless forgotten.
LEMMA ExpireIInv ==
  ASSUME IInv, NEW r \in Request, Expire(r)
  PROVE  IInv'
  <1> USE RedisAssumption
  <1> TypeOK
    BY DEF IInv
  <1>1. /\ at' = [at EXCEPT ![r] = "counted"]
        /\ UNCHANGED <<now, key, count, resetAt, hitAt, forgotten>>
        /\ at[r] = "created"
    BY DEF Expire
  <1>k. PICK k \in Key : k = key[r]
    BY <1>1 DEF TypeOK
  <1>2. Ttl(k) \in Nat /\ now + Ttl(k) \in Nat
    BY TtlCoversWindow DEF TypeOK
  <1> DEFINE expiring == [redis[k] EXCEPT !.expiresAt = now + Ttl(k)]
  <1>3. \A j \in Key : redis'[j] = IF j = k /\ Present(k) THEN expiring ELSE redis[j]
    BY <1>k DEF Expire
  <1>4. Present(k) => /\ expiring \in Counter /\ expiring # None
                      /\ expiring.count = redis[k].count
                      /\ expiring.expiresAt = now + Ttl(k)
                      /\ Timed(expiring)
    BY <1>2, CounterParts DEF Present, Counter, Timed
  <1>5. \A j \in Key : CountedIn(j)' = CountedIn(j)
    BY <1>1 DEF CountedIn
  <1>6. \A j \in Key \ {k} : redis'[j] = redis[j] /\ Present(j)' = Present(j)
    BY <1>1, <1>3 DEF Present, Timed
  <1>7. redis'[k] # None => redis[k] # None /\ redis'[k].count = redis[k].count
    BY <1>2, <1>3, <1>4 DEF Present
  <1>8. Present(k)' => Present(k) /\ redis'[k] = expiring
    <2>1. CASE Present(k)
      BY <2>1, <1>2, <1>3
    <2>2. CASE ~Present(k)
      BY <2>2, <1>1, <1>2, <1>3 DEF Present, Timed
    <2> QED
      BY <2>1, <2>2
  <1>9. TypeOK'
    <2>1. redis' \in [Key -> Counter \cup {None}]
      BY <1>3, <1>4 DEF Expire, TypeOK
    <2> QED
      BY <1>1, <2>1 DEF TypeOK
  <1>10. CountersCounted'
    <2>1. Timed(redis[k])' /\ redis'[k] # None => redis'[k].expiresAt <= now' + Ttl(k)
      <3>1. CASE Present(k)
        <4>1. redis'[k].expiresAt = now + Ttl(k)
          <5>1. redis'[k] = expiring
            BY <3>1, <1>3
          <5>2. expiring.expiresAt = now + Ttl(k)
            BY <3>1, <1>4
          <5> QED
            BY <5>1, <5>2
        <4> HIDE DEF expiring
        <4> QED
          BY <4>1, <1>1, <1>2
      <3>2. CASE ~Present(k)
        <4>1. redis'[k] = redis[k]
          BY <3>2, <1>3
        <4> QED
          BY <4>1, <1>1 DEF IInv, CountersCounted, Timed
      <3> QED
        BY <3>1, <3>2
    <2> QED
      BY <1>1, <1>2, <1>6, <1>7, <2>1 DEF IInv, CountersCounted, Timed, Ttl
  <1>11. CreatorsCountOne'
    BY <1>1 DEF IInv, CreatorsCountOne, TypeOK
  <1>12. OnlyCrashesLockOut'
    <2> SUFFICES ASSUME NEW j \in Key, Present(j)', ~Timed(redis[j])'
                 PROVE  \E q \in CountedIn(j)' : count'[q] = 1 /\ at'[q] \in {"created", "dead"}
      BY DEF OnlyCrashesLockOut
    <2>1. j # k
      BY <1>4, <1>8 DEF Timed
    <2>2. PICK q \in CountedIn(j) : count[q] = 1 /\ at[q] \in {"created", "dead"}
      BY <2>1, <1>6 DEF IInv, OnlyCrashesLockOut, Timed
    <2>3. q # r
      BY <1>k, <2>1, <2>2 DEF CountedIn
    <2> QED
      BY <1>1, <1>5, <2>2, <2>3 DEF TypeOK, CountedIn
  <1>13. OneCreator'
    <2> SUFFICES ASSUME NEW j \in Key \ forgotten, NEW q \in Creators(j)'
                 PROVE  /\ Present(j)' /\ ~Timed(redis[j])'
                        /\ \A p \in Creators(j)' : p = q
      BY <1>1 DEF OneCreator
    <2>1. Creators(j)' \subseteq Creators(j) /\ r \notin Creators(j)'
      BY <1>1, <1>5 DEF Creators, CountedIn, TypeOK
    <2>2. j # k
      BY <2>1, <1>1, <1>k DEF IInv, OneCreator, Creators, CountedIn
    <2> QED
      BY <2>1, <2>2, <1>6 DEF IInv, OneCreator, Timed
  <1>14. ResetsWithinTtl'
    BY <1>1, <1>5 DEF IInv, ResetsWithinTtl, TypeOK, Ttl
  <1>15. ResetNotLate'
    <2> SUFFICES ASSUME NEW j \in Key, Present(j)', Timed(redis[j])', NEW q \in CountedIn(j)
                 PROVE  resetAt[q] <= redis'[j].expiresAt
      BY <1>1, <1>5 DEF ResetNotLate
    <2>1. CASE j = k
      BY <2>1, <1>4, <1>8 DEF IInv, ResetsWithinTtl
    <2>2. CASE j # k
      BY <2>2, <1>6 DEF IInv, ResetNotLate, Timed
    <2> QED
      BY <2>1, <2>2
  <1> QED
    BY <1>9, <1>10, <1>11, <1>12, <1>13, <1>14, <1>15 DEF IInv

\* PTTL: what it reports is the counter's expiry, or a window from now, which is no later
\* than any expiry still to be set.
LEMMA DecideIInv ==
  ASSUME IInv, NEW r \in Request, Decide(r)
  PROVE  IInv'
  <1> USE RedisAssumption
  <1> DEFINE k == key[r]
  <1> TypeOK
    BY DEF IInv
  <1>1. /\ resetAt' = [resetAt EXCEPT ![r] = Reset(k)]
        /\ at[r] = "counted" /\ at'[r] \in {"admitted", "rejected"}
        /\ at' = [at EXCEPT ![r] = at'[r]]
        /\ UNCHANGED <<now, redis, key, count, hitAt, forgotten>>
    BY DEF Decide, TypeOK
  <1>2. k \in Key
    BY <1>1 DEF TypeOK
  <1>3. Reset(k) \in Nat /\ Reset(k) <= now + Ttl(k)
    BY <1>2, TtlCoversWindow, CounterParts DEF Reset, Present, IInv, CountersCounted, TypeOK
  <1>4. \A j \in Key : /\ CountedIn(j)' = CountedIn(j)
                       /\ Creators(j)' = Creators(j)
                       /\ Present(j)' = Present(j)
                       /\ Timed(redis[j])' = Timed(redis[j])
    BY <1>1 DEF CountedIn, Creators, Present, Timed, TypeOK
  <1>5. TypeOK'
    <2>1. at' \in [Request -> {"new", "created", "counted", "admitted", "rejected", "dead"}]
      BY <1>1 DEF TypeOK
    <2>2. resetAt' \in [Request -> Nat]
      BY <1>1, <1>3 DEF TypeOK
    <2> QED
      BY <1>1, <2>1, <2>2 DEF TypeOK
  <1>6. CountersCounted' /\ CreatorsCountOne'
    BY <1>1, <1>4 DEF IInv, CountersCounted, CreatorsCountOne, TypeOK, Ttl
  <1>7. OnlyCrashesLockOut'
    BY <1>1, <1>4 DEF IInv, OnlyCrashesLockOut, TypeOK, CountedIn
  <1>8. OneCreator'
    BY <1>1, <1>4 DEF IInv, OneCreator
  <1>9. ResetsWithinTtl'
    BY <1>1, <1>3, <1>4 DEF IInv, ResetsWithinTtl, TypeOK, CountedIn, Ttl
  <1>10. ResetNotLate'
    <2> SUFFICES ASSUME NEW j \in Key, Present(j), Timed(redis[j]), NEW q \in CountedIn(j)
                 PROVE  resetAt'[q] <= redis[j].expiresAt
      BY <1>1, <1>4 DEF ResetNotLate
    <2>1. CASE q = r
      <3>1. j = k /\ resetAt'[q] = redis[j].expiresAt
        BY <2>1, <1>1 DEF CountedIn, Reset, TypeOK
      <3>2. redis[j].expiresAt \in Nat
        BY CounterParts DEF Present
      <3> QED
        BY <3>1, <3>2
    <2>2. CASE q # r
      BY <2>2, <1>1 DEF IInv, ResetNotLate, CountedIn
    <2> QED
      BY <2>1, <2>2
  <1> QED
    BY <1>5, <1>6, <1>7, <1>8, <1>9, <1>10 DEF IInv

\* A hit that dies leaves its counter to OnlyCrashesLockOut: it was the counter's creator.
LEMMA CrashIInv ==
  ASSUME IInv, NEW r \in Request, Crash(r)
  PROVE  IInv'
  <1> TypeOK
    BY DEF IInv
  <1>1. /\ at' = [at EXCEPT ![r] = "dead"]
        /\ at[r] \in {"created", "counted"}
        /\ UNCHANGED <<now, redis, key, count, resetAt, hitAt, forgotten>>
    BY DEF Crash
  <1>2. \A j \in Key : /\ CountedIn(j)' = CountedIn(j)
                       /\ Creators(j)' \subseteq Creators(j)
                       /\ Present(j)' = Present(j)
                       /\ Timed(redis[j])' = Timed(redis[j])
    BY <1>1 DEF CountedIn, Creators, Present, Timed, TypeOK
  <1>3. TypeOK'
    BY <1>1 DEF TypeOK
  <1>4. CountersCounted' /\ CreatorsCountOne'
    BY <1>1, <1>2 DEF IInv, CountersCounted, CreatorsCountOne, TypeOK, Ttl
  <1>5. OnlyCrashesLockOut'
    BY <1>1, <1>2 DEF IInv, OnlyCrashesLockOut, TypeOK, CountedIn
  <1>6. OneCreator'
    BY <1>1, <1>2 DEF IInv, OneCreator
  <1>7. ResetsWithinTtl'
    BY <1>1, <1>2 DEF IInv, ResetsWithinTtl, TypeOK, Ttl
  <1>8. ResetNotLate'
    BY <1>1, <1>2 DEF IInv, ResetNotLate
  <1> QED
    BY <1>3, <1>4, <1>5, <1>6, <1>7, <1>8 DEF IInv

\* DEL: the invariant says less of a key whose counter was deleted.
LEMMA ForgetIInv ==
  ASSUME IInv, NEW k \in Key, Forget(k)
  PROVE  IInv'
  <1> USE RedisAssumption
  <1> TypeOK
    BY DEF IInv
  <1>1. /\ redis' = [redis EXCEPT ![k] = None]
        /\ forgotten' = forgotten \cup {k}
        /\ UNCHANGED <<now, at, key, count, resetAt, hitAt>>
    BY DEF Forget
  <1>2. redis'[k] = None /\ ~Present(k)'
    BY <1>1 DEF Present, TypeOK
  <1>3. \A j \in Key \ {k} : /\ redis'[j] = redis[j]
                             /\ Present(j)' = Present(j)
                             /\ Timed(redis[j])' = Timed(redis[j])
    BY <1>1 DEF Present, Timed, TypeOK
  <1>4. \A j \in Key : CountedIn(j)' = CountedIn(j) /\ Creators(j)' = Creators(j)
    BY <1>1 DEF CountedIn, Creators
  <1>5. TypeOK'
    BY <1>1 DEF TypeOK
  <1>6. CountersCounted' /\ CreatorsCountOne'
    BY <1>1, <1>2, <1>3 DEF IInv, CountersCounted, CreatorsCountOne, Ttl
  <1>7. OnlyCrashesLockOut'
    BY <1>1, <1>2, <1>3, <1>4 DEF IInv, OnlyCrashesLockOut
  <1>8. OneCreator'
    BY <1>1, <1>3, <1>4 DEF IInv, OneCreator
  <1>9. ResetsWithinTtl'
    BY <1>1, <1>4 DEF IInv, ResetsWithinTtl, Ttl
  <1>10. ResetNotLate'
    BY <1>1, <1>2, <1>3, <1>4 DEF IInv, ResetNotLate
  <1> QED
    BY <1>5, <1>6, <1>7, <1>8, <1>9, <1>10 DEF IInv

\* Time only expires counters, and never one that has no expiry.
LEMMA TickIInv ==
  ASSUME IInv, Tick
  PROVE  IInv'
  <1> USE RedisAssumption
  <1> TypeOK
    BY DEF IInv
  <1>1. /\ now' = now + 1 /\ now \in Nat
        /\ UNCHANGED <<redis, at, key, count, resetAt, hitAt, forgotten>>
    BY DEF Tick, TypeOK
  <1>2. \A j \in Key : /\ CountedIn(j)' = CountedIn(j)
                       /\ Creators(j)' = Creators(j)
                       /\ Timed(redis[j])' = Timed(redis[j])
    BY <1>1 DEF CountedIn, Creators, Timed
  <1>3. ASSUME NEW j \in Key, Present(j)' PROVE Present(j)
    <2>1. redis[j] # None
      BY <1>1, <1>3 DEF Present
    <2>2. CASE Timed(redis[j])
      <3>1. redis[j].expiresAt \in Nat /\ redis[j].expiresAt > now + 1
        BY <1>1, <1>2, <1>3, <2>1, <2>2, CounterParts DEF Present
      <3> QED
        BY <2>1, <3>1, <1>1 DEF Present
    <2>3. CASE ~Timed(redis[j])
      BY <2>1, <2>3 DEF Present
    <2> QED
      BY <2>2, <2>3
  <1>4. \A j \in Key : Present(j) /\ ~Timed(redis[j]) => Present(j)'
    BY <1>1, <1>2 DEF Present
  <1>5. TypeOK'
    BY <1>1 DEF TypeOK
  <1>6. CountersCounted'
    <2> SUFFICES ASSUME NEW j \in Key, redis[j] # None
                 PROVE  /\ redis[j].count > 0
                        /\ Timed(redis[j]) => redis[j].expiresAt <= now + 1 + Ttl(j)
      BY <1>1, <1>2 DEF CountersCounted, Ttl
    <2>1. redis[j].count > 0
      BY DEF IInv, CountersCounted
    <2>2. ASSUME Timed(redis[j]) PROVE redis[j].expiresAt <= now + 1 + Ttl(j)
      <3>1. redis[j].expiresAt \in Nat /\ redis[j].expiresAt <= now + Ttl(j)
        BY <2>2, CounterParts DEF IInv, CountersCounted
      <3> QED
        BY <3>1, <1>1, TtlCoversWindow
    <2> QED
      BY <2>1, <2>2
  <1>7. CreatorsCountOne'
    BY <1>1 DEF IInv, CreatorsCountOne
  <1>8. OnlyCrashesLockOut'
    BY <1>1, <1>2, <1>3 DEF IInv, OnlyCrashesLockOut
  <1>9. OneCreator'
    BY <1>1, <1>2, <1>4 DEF IInv, OneCreator
  <1>10. ResetsWithinTtl'
    <2>1. ASSUME NEW j \in Key, NEW q \in CountedIn(j) PROVE resetAt[q] <= now + 1 + Ttl(j)
      <3>1. resetAt[q] \in Nat /\ resetAt[q] <= now + Ttl(j)
        BY DEF IInv, ResetsWithinTtl, TypeOK, CountedIn
      <3> QED
        BY <3>1, <1>1, TtlCoversWindow
    <2>2. \A j \in Key : \A q \in CountedIn(j)' : resetAt'[q] <= now' + Ttl(j)
      BY <2>1, <1>1, <1>2
    <2>3. \A q \in Request : at'[q] = "new" => resetAt'[q] = 0 /\ key'[q] = None
      BY <1>1 DEF IInv, ResetsWithinTtl
    <2> QED
      BY <2>2, <2>3 DEF ResetsWithinTtl, Ttl
  <1>11. ResetNotLate'
    BY <1>1, <1>2, <1>3 DEF IInv, ResetNotLate
  <1> QED
    BY <1>5, <1>6, <1>7, <1>8, <1>9, <1>10, <1>11 DEF IInv

LEMMA StutterIInv ==
  ASSUME IInv, UNCHANGED vars
  PROVE  IInv'
  <1> USE DEF vars
  <1>1. TypeOK' /\ CountersCounted' /\ CreatorsCountOne'
    BY DEF IInv, TypeOK, CountersCounted, CreatorsCountOne, Timed, Ttl
  <1>2. OnlyCrashesLockOut'
    BY DEF IInv, OnlyCrashesLockOut, Present, Timed, CountedIn
  <1>3. OneCreator'
    BY DEF IInv, OneCreator, Creators, Present, Timed, CountedIn
  <1>4. ResetsWithinTtl' /\ ResetNotLate'
    BY DEF IInv, ResetsWithinTtl, ResetNotLate, Present, Timed, CountedIn, Ttl
  <1> QED
    BY <1>1, <1>2, <1>3, <1>4 DEF IInv

LEMMA NextIInv == IInv /\ [Next]_vars => IInv'
  BY IncrementIInv, ExpireIInv, DecideIInv, CrashIInv, ForgetIInv, TickIInv, StutterIInv
     DEF Next
-----------------------------------------------------------------------------
\* The inductive invariant of increment over the commands INCRBY, EXPIRE and PTTL: one hit
\* at most owes a counter its expiry, and an expiry is within a TTL.
THEOREM Invariance == Spec => []IInv
  BY InitIInv, NextIInv, PTL DEF Spec

\* Every variable keeps its type, and a request that awaits Redis has its key and count.
THEOREM TypeCorrect == Spec => []TypeOK
  <1>1. IInv => TypeOK
    BY DEF IInv
  <1> QED
    BY <1>1, Invariance, PTL

\* RedisStore.increment leaves a counter without an expiry only when the hit that created
\* it died before EXPIRE: no interleaving of the workers' commands does.
THEOREM LockOutNeedsCrash == Spec => []OnlyCrashesLockOut
  <1>1. IInv => OnlyCrashesLockOut
    BY DEF IInv
  <1> QED
    BY <1>1, Invariance, PTL

\* CacheRateLimitStore.hit never reports a reset later than the expiry of the counter.
THEOREM ResetIsNotLate == Spec => []ResetNotLate
  <1>1. IInv => ResetNotLate
    BY DEF IInv
  <1> QED
    BY <1>1, Invariance, PTL

\* No command moves the expiry of a counter that has one, unless somebody deleted the
\* counter: of the commands that write one, INCRBY keeps it and EXPIRE finds none.
THEOREM WindowIsFixed == Spec => WindowFixed
  <1> DEFINE Fixed(k) == redis'[k] # None /\ redis'[k].expiresAt = redis[k].expiresAt
  <1>1. ASSUME IInv, [Next]_vars, NEW k \in Key \ forgotten', Present(k), Timed(redis[k])
        PROVE  Fixed(k)
    <2> TypeOK /\ redis[k] # None
      BY <1>1 DEF IInv, Present
    <2>1. CASE redis' = redis
      BY <2>1
    <2>2. ASSUME NEW r \in Request, NEW j \in Key, Increment(r, j) PROVE Fixed(k)
      BY <1>1, <2>2, IncrementedParts DEF Increment, TypeOK
    <2>3. ASSUME NEW r \in Request, Expire(r) PROVE Fixed(k)
      <3>1. at[r] = "created" /\ forgotten' = forgotten
        BY <2>3 DEF Expire
      <3>2. key[r] # k
        BY <1>1, <3>1 DEF IInv, OneCreator, Creators, CountedIn
      <3> QED
        BY <2>3, <3>2 DEF Expire
    <2>4. ASSUME NEW j \in Key, Forget(j) PROVE Fixed(k)
      <3>1. j # k
        BY <1>1, <2>4 DEF Forget
      <3> QED
        BY <2>4, <3>1 DEF Forget, TypeOK
    <2>5. ASSUME NEW r \in Request, Decide(r) \/ Crash(r) PROVE redis' = redis
      BY <2>5 DEF Decide, Crash
    <2>6. Tick \/ UNCHANGED vars => redis' = redis
      BY DEF Tick, vars
    <2> QED
      BY <1>1, <2>1, <2>2, <2>3, <2>4, <2>5, <2>6 DEF Next
  <1>2. IInv /\ [Next]_vars =>
          [\A k \in Key \ forgotten' : Present(k) /\ Timed(redis[k]) =>
              redis'[k] # None /\ redis'[k].expiresAt = redis[k].expiresAt]_vars
    BY <1>1
  <1> QED
    BY <1>2, Invariance, PTL DEF Spec, WindowFixed

-----------------------------------------------------------------------------
(***************************************************************************)
(* The windows of a key: a hit that INCRBY answered with 1 begins one, and *)
(* the hits until the next such hit were counted in the same counter.      *)
(***************************************************************************)
Firsts(k) == {f \in CountedIn(k) : count[f] = 1}
SameWindow(k, r, q) == \A f \in Firsts(k) : hitAt[f] <= hitAt[r] <=> hitAt[f] <= hitAt[q]
InLastWindow(k, r) == \A f \in Firsts(k) : hitAt[f] <= hitAt[r]

\* A counter is there as long as it counts somebody, and its expiry is after all it
\* counted and at least a window after each of the hits that began one.
Outlasts(k) ==
    /\ CountedIn(k) # {} => redis[k] # None
    /\ redis[k] # None /\ Timed(redis[k]) =>
          /\ \A r \in CountedIn(k) : hitAt[r] < redis[k].expiresAt
          /\ \A f \in Firsts(k) : hitAt[f] + WindowMs[k] <= redis[k].expiresAt

\* Windows begin at least their length apart.
FirstsApart(k) ==
    \A f, g \in Firsts(k) :
        f # g => \/ hitAt[f] + WindowMs[k] <= hitAt[g]
                 \/ hitAt[g] + WindowMs[k] <= hitAt[f]

\* Within a window no two hits have the same count, and none is left out.
CountsDiffer(k) ==
    \A r, q \in CountedIn(k) : r # q /\ count[r] = count[q] => ~SameWindow(k, r, q)
CountsComplete(k) ==
    \A r \in CountedIn(k) : \A n \in 1 .. count[r] :
        \E q \in CountedIn(k) : count[q] = n /\ hitAt[q] <= hitAt[r] /\ SameWindow(k, q, r)

\* The counter that is there has counted the last window, and only that.
CountsLast(k) ==
    Present(k) =>
        /\ \A q \in CountedIn(k) : InLastWindow(k, q) => count[q] <= redis[k].count
        /\ \A n \in 1 .. redis[k].count :
              \E q \in CountedIn(k) : count[q] = n /\ InLastWindow(k, q)

Windows(k) ==
    Outlasts(k) /\ FirstsApart(k) /\ CountsDiffer(k) /\ CountsComplete(k) /\ CountsLast(k)

\* Nobody is counted in the future, and throttle() decided by the count it was given.
DecidedByCount ==
    \A r \in Request :
        /\ hitAt[r] <= now
        /\ at[r] = "new" => key[r] = None
        /\ at[r] = "admitted" => count[r] <= Max[key[r]]
        /\ at[r] = "rejected" => count[r] > Max[key[r]]

WInv == DecidedByCount /\ \A k \in Key \ forgotten : Windows(k)

LEMMA CountedParts ==
  ASSUME TypeOK, NEW k \in Key, NEW r \in CountedIn(k)
  PROVE  /\ r \in Request /\ key[r] = k /\ hitAt[r] \in Nat /\ count[r] \in Nat
         /\ WindowMs[k] \in Nat \ {0} /\ now \in Nat
  BY RedisAssumption DEF TypeOK, CountedIn

LEMMA InitWInv == Init => WInv
  <1> SUFFICES ASSUME Init PROVE WInv
    OBVIOUS
  <1>1. DecidedByCount
    BY RedisAssumption DEF Init, DecidedByCount
  <1>2. ASSUME NEW k \in Key PROVE Windows(k)
    <2>1. CountedIn(k) = {} /\ Firsts(k) = {} /\ redis[k] = None
      BY RedisAssumption DEF Init, CountedIn, Firsts
    <2> QED
      BY <2>1 DEF Windows, Outlasts, FirstsApart, CountsDiffer, CountsComplete, CountsLast, Present
  <1> QED
    BY <1>1, <1>2 DEF WInv

\* A counter is absent only once everybody it counted came before now, and every
\* window of the key is over.
LEMMA AbsentIsOver ==
  ASSUME IInv, NEW k \in Key, Windows(k), ~Present(k)
  PROVE  /\ \A r \in CountedIn(k) : hitAt[r] < now
         /\ \A f \in Firsts(k) : hitAt[f] + WindowMs[k] <= now
  <1> TypeOK
    BY DEF IInv
  <1>1. CASE CountedIn(k) = {}
    BY <1>1 DEF Firsts
  <1>2. CASE CountedIn(k) # {}
    <2>1. redis[k] # None /\ Timed(redis[k])
      BY <1>2 DEF Windows, Outlasts, Present
    <2>2. redis[k].expiresAt \in Nat /\ now \in Nat
      BY <2>1, CounterParts DEF TypeOK
    <2>3. redis[k].expiresAt <= now
      BY <2>1, <2>2 DEF Present
    <2>4. ASSUME NEW r \in CountedIn(k) PROVE hitAt[r] < now
      BY <2>1, <2>2, <2>3, CountedParts DEF Windows, Outlasts
    <2>5. ASSUME NEW f \in Firsts(k) PROVE hitAt[f] + WindowMs[k] <= now
      <3>1. hitAt[f] + WindowMs[k] <= redis[k].expiresAt /\ f \in CountedIn(k)
        BY <2>1 DEF Windows, Outlasts, Firsts
      <3> QED
        BY <2>2, <2>3, <3>1, CountedParts
    <2> QED
      BY <2>4, <2>5
  <1> QED
    BY <1>1, <1>2

\* What the windows of a key are depends on who was counted in it, and with what.
LEMMA SameCounted ==
  ASSUME NEW k \in Key, CountedIn(k)' = CountedIn(k),
         \A r \in CountedIn(k) : hitAt'[r] = hitAt[r] /\ count'[r] = count[r],
         FirstsApart(k), CountsDiffer(k), CountsComplete(k)
  PROVE  /\ Firsts(k)' = Firsts(k)
         /\ \A r, q \in CountedIn(k) : SameWindow(k, r, q)' <=> SameWindow(k, r, q)
         /\ \A r \in CountedIn(k) : InLastWindow(k, r)' <=> InLastWindow(k, r)
         /\ FirstsApart(k)' /\ CountsDiffer(k)' /\ CountsComplete(k)'
  <1>1. Firsts(k)' = Firsts(k) /\ Firsts(k) \subseteq CountedIn(k)
    BY DEF Firsts
  <1>2. \A r, q \in CountedIn(k) : SameWindow(k, r, q)' <=> SameWindow(k, r, q)
    BY <1>1 DEF SameWindow
  <1>3. \A r \in CountedIn(k) : InLastWindow(k, r)' <=> InLastWindow(k, r)
    BY <1>1 DEF InLastWindow
  <1>4. FirstsApart(k)'
    BY <1>1 DEF FirstsApart
  <1>5. CountsDiffer(k)'
    BY <1>2 DEF CountsDiffer
  <1>6. CountsComplete(k)'
    BY <1>2 DEF CountsComplete
  <1> QED
    BY <1>1, <1>2, <1>3, <1>4, <1>5, <1>6

\* The steps other than INCRBY count nobody. Of those, EXPIRE alone writes an expiry.
LEMMA OtherFacts ==
  ASSUME IInv, [Next]_vars, ~ \E r \in Request, k \in Key : Increment(r, k)
  PROVE  /\ UNCHANGED <<key, count, hitAt>>
         /\ now' \in Nat /\ now <= now' /\ forgotten \subseteq forgotten'
         /\ \A k \in Key \ forgotten' :
               \/ redis'[k] = redis[k]
               \/ /\ Present(k) /\ redis'[k] # None
                  /\ redis'[k].count = redis[k].count
                  /\ redis'[k].expiresAt = now + Ttl(k)
  <1> TypeOK
    BY DEF IInv
  <1>1. CASE \E r \in Request : Expire(r)
    <2>1. PICK r \in Request : Expire(r)
      BY <1>1
    <2>2. UNCHANGED <<now, key, count, hitAt, forgotten>>
      BY <2>1 DEF Expire
    <2>3. ASSUME NEW k \in Key
          PROVE  \/ redis'[k] = redis[k]
                 \/ /\ Present(k) /\ redis'[k] # None
                    /\ redis'[k].count = redis[k].count
                    /\ redis'[k].expiresAt = now + Ttl(k)
      <3>1. CASE k = key[r] /\ Present(k)
        <4>1. redis'[k] = [redis[k] EXCEPT !.expiresAt = now + Ttl(k)]
          BY <2>1, <3>1 DEF Expire
        <4>2. redis[k] \in Counter /\ now + Ttl(k) \in Nat
          BY <3>1, CounterParts, TtlCoversWindow DEF Present, TypeOK
        <4>3. PICK t \in Nat : t = now + Ttl(k)
          BY <4>2
        <4>4. redis'[k] = [redis[k] EXCEPT !.expiresAt = t]
          BY <4>1, <4>3
        <4>5. /\ redis'[k].count = redis[k].count /\ redis'[k].expiresAt = t
              /\ redis'[k] \in Counter
          BY <4>2, <4>4 DEF Counter
        <4> QED
          BY <3>1, <4>3, <4>5, RedisAssumption DEF Counter
      <3>2. CASE ~(k = key[r] /\ Present(k))
        BY <2>1, <3>2 DEF Expire
      <3> QED
        BY <3>1, <3>2
    <2> QED
      BY <2>2, <2>3 DEF TypeOK
  <1>2. CASE \E r \in Request : Decide(r) \/ Crash(r)
    BY <1>2 DEF Decide, Crash, TypeOK
  <1>3. CASE \E k \in Key : Forget(k)
    BY <1>3 DEF Forget, TypeOK
  <1>4. CASE Tick \/ UNCHANGED vars
    BY <1>4 DEF Tick, vars, TypeOK
  <1> QED
    BY <1>1, <1>2, <1>3, <1>4 DEF Next

LEMMA OtherWindows ==
  ASSUME IInv, [Next]_vars, ~ \E r \in Request, k \in Key : Increment(r, k),
         DecidedByCount, NEW k \in Key \ forgotten', Windows(k)
  PROVE  Windows(k)'
  <1> TypeOK
    BY DEF IInv
  <1>1. UNCHANGED <<key, count, hitAt>> /\ now' \in Nat /\ now <= now' /\ now \in Nat
    BY OtherFacts DEF TypeOK
  <1>2. CountedIn(k)' = CountedIn(k)
    BY <1>1 DEF CountedIn
  <1>3. /\ Firsts(k)' = Firsts(k)
        /\ \A r \in CountedIn(k) : InLastWindow(k, r)' <=> InLastWindow(k, r)
        /\ FirstsApart(k)' /\ CountsDiffer(k)' /\ CountsComplete(k)'
    BY <1>1, <1>2, SameCounted DEF Windows
  <1>4. CASE redis'[k] = redis[k]
    <2>1. Present(k)' => Present(k)
      <3>1. redis[k] # None /\ Timed(redis[k]) => redis[k].expiresAt \in Nat
        BY CounterParts
      <3> QED
        BY <1>1, <1>4, <3>1 DEF Present, Timed
    <2>2. Outlasts(k)'
      BY <1>1, <1>2, <1>3, <1>4 DEF Windows, Outlasts, Timed
    <2>3. CountsLast(k)'
      BY <1>1, <1>2, <1>3, <1>4, <2>1 DEF Windows, CountsLast
    <2> QED
      BY <1>3, <2>2, <2>3 DEF Windows
  <1>5. CASE /\ Present(k) /\ redis'[k] # None
             /\ redis'[k].count = redis[k].count
             /\ redis'[k].expiresAt = now + Ttl(k)
    <2>1. ASSUME NEW r \in CountedIn(k)
          PROVE  hitAt[r] < now + Ttl(k) /\ hitAt[r] + WindowMs[k] <= now + Ttl(k)
      <3>1. hitAt[r] <= now
        BY CountedParts DEF DecidedByCount
      <3> QED
        BY <3>1, TtlCoversWindow, CountedParts
    <2>2. Outlasts(k)'
      BY <1>1, <1>2, <1>3, <1>5, <2>1 DEF Outlasts, Firsts
    <2>3. CountsLast(k)'
      BY <1>1, <1>2, <1>3, <1>5 DEF Windows, CountsLast
    <2> QED
      BY <1>3, <2>2, <2>3 DEF Windows
  <1> QED
    BY <1>4, <1>5, OtherFacts

-----------------------------------------------------------------------------
\* INCRBY, field by field: the hit is new to every key.
LEMMA IncrementFacts ==
  ASSUME IInv, DecidedByCount, NEW r \in Request, NEW k \in Key, Increment(r, k)
  PROVE  /\ \A j \in Key : r \notin CountedIn(j)
         /\ CountedIn(k)' = CountedIn(k) \cup {r}
         /\ \A j \in Key \ {k} : CountedIn(j)' = CountedIn(j) /\ redis'[j] = redis[j]
         /\ \A q \in Request \ {r} : hitAt'[q] = hitAt[q] /\ count'[q] = count[q]
         /\ hitAt'[r] = now /\ count'[r] = NextCount(k) /\ NextCount(k) \in Nat \ {0}
         /\ Present(k)' /\ redis'[k] # None /\ redis'[k].count = NextCount(k)
         /\ Present(k) => /\ redis[k].count \in Nat \ {0}
                          /\ NextCount(k) = redis[k].count + 1
                          /\ redis'[k].expiresAt = redis[k].expiresAt
         /\ ~Present(k) => NextCount(k) = 1 /\ ~Timed(redis'[k])
         /\ now' = now /\ forgotten' = forgotten /\ now \in Nat
  <1> TypeOK
    BY DEF IInv
  <1>1. key[r] = None /\ None \notin Key
    BY RedisAssumption DEF Increment, DecidedByCount
  <1>2. \A j \in Key : r \notin CountedIn(j)
    BY <1>1 DEF CountedIn
  <1>3. \A j \in Key : CountedIn(j)' = IF j = k THEN CountedIn(j) \cup {r} ELSE CountedIn(j)
    BY <1>1 DEF Increment, CountedIn, TypeOK
  <1>4. redis'[k] = Incremented(k) /\ \A j \in Key \ {k} : redis'[j] = redis[j]
    BY DEF Increment, TypeOK
  <1>5. \A q \in Request \ {r} : hitAt'[q] = hitAt[q] /\ count'[q] = count[q]
    BY DEF Increment, TypeOK
  <1>6. hitAt'[r] = now /\ count'[r] = NextCount(k) /\ NextCount(k) \in Nat \ {0}
    BY IncrementedParts DEF Increment, TypeOK
  <1>7. now' = now /\ forgotten' = forgotten /\ now \in Nat
    BY DEF Increment, TypeOK
  <1>8. redis'[k] # None /\ redis'[k].count = NextCount(k)
    BY <1>4, IncrementedParts
  <1>9. ~Present(k) => NextCount(k) = 1 /\ ~Timed(redis'[k])
    BY <1>4, IncrementedParts
  <1>10. Present(k) => /\ redis[k].count \in Nat \ {0}
                       /\ NextCount(k) = redis[k].count + 1
                       /\ redis'[k].expiresAt = redis[k].expiresAt
    BY <1>4, IncrementedParts, CounterParts
    DEF NextCount, Present, IInv, CountersCounted
  <1>11. Present(k)'
    BY <1>7, <1>8, <1>9, <1>10 DEF Present, Timed
  <1> QED
    BY <1>2, <1>3, <1>4, <1>5, <1>6, <1>7, <1>8, <1>9, <1>10, <1>11

\* A hit on a counter that is there joins the key's last window, with the next count.
LEMMA IncrementJoins ==
  ASSUME IInv, DecidedByCount, NEW r \in Request, NEW k \in Key \ forgotten,
         Increment(r, k), Windows(k), Present(k)
  PROVE  Windows(k)'
  <1> TypeOK
    BY DEF IInv
  <1> DEFINE C == CountedIn(k)
             F == Firsts(k)
  <1>1. PICK c \in Nat \ {0} : c = redis[k].count
    BY IncrementFacts
  <1>2. /\ CountedIn(k)' = C \cup {r} /\ r \notin C
        /\ hitAt'[r] = now /\ count'[r] = c + 1 /\ redis'[k].count = c + 1
        /\ redis'[k] # None /\ redis'[k].expiresAt = redis[k].expiresAt /\ Present(k)'
        /\ now' = now /\ now \in Nat
    BY <1>1, IncrementFacts
  <1>3. \A q \in C : hitAt'[q] = hitAt[q] /\ count'[q] = count[q]
    BY <1>2, IncrementFacts, CountedParts
  <1>4. ASSUME NEW q \in C
        PROVE  /\ q \in Request /\ hitAt[q] \in Nat /\ hitAt[q] <= now /\ count[q] \in Nat
               /\ WindowMs[k] \in Nat \ {0}
    BY CountedParts DEF DecidedByCount
  <1>5. Firsts(k)' = F /\ F \subseteq C
    BY <1>2, <1>3 DEF Firsts
  <1>6. \A q, x \in C : SameWindow(k, q, x)' <=> SameWindow(k, q, x)
    BY <1>3, <1>5 DEF SameWindow
  <1>7. \A q \in C : InLastWindow(k, q)' <=> InLastWindow(k, q)
    BY <1>3, <1>5 DEF InLastWindow
  <1>8. InLastWindow(k, r)'
    BY <1>2, <1>3, <1>4, <1>5 DEF InLastWindow
  <1>9. \A q \in C : InLastWindow(k, q) => /\ SameWindow(k, q, r)' /\ SameWindow(k, r, q)'
                                          /\ count[q] <= c
    BY <1>1, <1>7, <1>8 DEF SameWindow, InLastWindow, Windows, CountsLast
  <1>10. \A q \in C : ~InLastWindow(k, q) => ~SameWindow(k, q, r)' /\ ~SameWindow(k, r, q)'
    BY <1>7, <1>8 DEF SameWindow, InLastWindow
  <1>11. \A n \in 1 .. c : \E q \in C : count[q] = n /\ InLastWindow(k, q)
    BY <1>1 DEF Windows, CountsLast
  <1>12. Outlasts(k)'
    <2>1. Timed(redis[k])' => Timed(redis[k])
      BY <1>2 DEF Timed
    <2>2. Timed(redis[k]) => now < redis[k].expiresAt
      BY <1>2, CounterParts DEF Present
    <2> QED
      BY <1>2, <1>3, <1>5, <2>1, <2>2 DEF Windows, Outlasts, Present
  <1>13. FirstsApart(k)'
    BY <1>3, <1>5 DEF Windows, FirstsApart
  <1>14. CountsDiffer(k)'
    <2>1. ASSUME NEW x \in C \cup {r}, NEW q \in C \cup {r}, x # q, count'[x] = count'[q]
          PROVE  ~SameWindow(k, x, q)'
      <3>1. CASE x \in C /\ q \in C
        BY <1>3, <1>6, <2>1, <3>1 DEF Windows, CountsDiffer
      <3>2. CASE x = r
        <4>1. q \in C /\ count[q] = c + 1
          BY <1>2, <1>3, <2>1, <3>2
        <4> QED
          BY <1>9, <1>10, <3>2, <4>1
      <3>3. CASE q = r
        <4>1. x \in C /\ count[x] = c + 1
          BY <1>2, <1>3, <2>1, <3>3
        <4> QED
          BY <1>9, <1>10, <3>3, <4>1
      <3> QED
        BY <3>1, <3>2, <3>3
    <2> QED
      BY <1>2, <2>1 DEF CountsDiffer
  <1>15. CountsComplete(k)'
    <2>1. ASSUME NEW x \in C, NEW n \in 1 .. count[x]
          PROVE  \E q \in C : /\ count'[q] = n /\ hitAt'[q] <= hitAt'[x]
                             /\ SameWindow(k, q, x)'
      BY <1>3, <1>6 DEF Windows, CountsComplete
    <2>2. ASSUME NEW n \in 1 .. c + 1
          PROVE  \E q \in C \cup {r} : /\ count'[q] = n /\ hitAt'[q] <= hitAt'[r]
                                      /\ SameWindow(k, q, r)'
      <3>1. CASE n = c + 1
        BY <1>2, <3>1 DEF SameWindow
      <3>2. CASE n # c + 1
        <4>1. PICK q \in C : count[q] = n /\ InLastWindow(k, q)
          BY <1>11, <2>2, <3>2
        <4> QED
          BY <1>2, <1>3, <1>4, <1>9, <4>1
      <3> QED
        BY <3>1, <3>2
    <2> QED
      BY <1>2, <1>3, <2>1, <2>2 DEF CountsComplete
  <1>16. CountsLast(k)'
    <2>1. ASSUME NEW q \in C \cup {r}, InLastWindow(k, q)' PROVE count'[q] <= c + 1
      <3>1. CASE q = r
        BY <1>2, <3>1
      <3>2. CASE q \in C
        BY <1>3, <1>4, <1>7, <1>9, <2>1, <3>2
      <3> QED
        BY <3>1, <3>2
    <2>2. ASSUME NEW n \in 1 .. c + 1
          PROVE  \E q \in C \cup {r} : count'[q] = n /\ InLastWindow(k, q)'
      <3>1. CASE n = c + 1
        BY <1>2, <1>8, <3>1
      <3>2. CASE n # c + 1
        <4>1. PICK q \in C : count[q] = n /\ InLastWindow(k, q)
          BY <1>11, <2>2, <3>2
        <4> QED
          BY <1>3, <1>7, <4>1
      <3> QED
        BY <3>1, <3>2
    <2> QED
      BY <1>2, <2>1, <2>2 DEF CountsLast
  <1> QED
    BY <1>12, <1>13, <1>14, <1>15, <1>16 DEF Windows

\* A hit that finds no counter begins a window, after all that came before.
LEMMA IncrementBegins ==
  ASSUME IInv, DecidedByCount, NEW r \in Request, NEW k \in Key \ forgotten,
         Increment(r, k), Windows(k), ~Present(k)
  PROVE  Windows(k)'
  <1> TypeOK
    BY DEF IInv
  <1> DEFINE C == CountedIn(k)
             F == Firsts(k)
  <1>1. /\ CountedIn(k)' = C \cup {r} /\ r \notin C
        /\ hitAt'[r] = now /\ count'[r] = 1 /\ redis'[k].count = 1
        /\ redis'[k] # None /\ ~Timed(redis[k])'
        /\ now' = now /\ now \in Nat
    BY IncrementFacts DEF Timed
  <1>2. \A q \in C : hitAt'[q] = hitAt[q] /\ count'[q] = count[q]
    BY <1>1, IncrementFacts, CountedParts
  <1>3. ASSUME NEW q \in C
        PROVE  /\ q \in Request /\ hitAt[q] \in Nat /\ hitAt[q] < now /\ count[q] \in Nat
               /\ WindowMs[k] \in Nat \ {0}
    BY CountedParts, AbsentIsOver
  <1>4. Firsts(k)' = F \cup {r} /\ F \subseteq C
    BY <1>1, <1>2 DEF Firsts
  <1>5. \A q, x \in C : SameWindow(k, q, x)' <=> SameWindow(k, q, x)
    <2>1. \A q \in C : ~(hitAt'[r] <= hitAt'[q])
      BY <1>1, <1>2, <1>3
    <2> QED
      BY <1>2, <1>4, <2>1 DEF SameWindow
  <1>6. \A q \in C : ~InLastWindow(k, q)'
    BY <1>1, <1>2, <1>3, <1>4 DEF InLastWindow
  <1>7. InLastWindow(k, r)'
    BY <1>1, <1>2, <1>3, <1>4 DEF InLastWindow
  <1>8. \A q \in C : ~SameWindow(k, q, r)' /\ ~SameWindow(k, r, q)'
    BY <1>6, <1>7 DEF SameWindow, InLastWindow
  <1>9. Outlasts(k)'
    BY <1>1 DEF Outlasts
  <1>10. FirstsApart(k)'
    <2>1. \A f \in F : hitAt'[f] + WindowMs[k] <= hitAt'[r]
      BY <1>1, <1>2, <1>4, AbsentIsOver
    <2> QED
      BY <1>2, <1>4, <2>1 DEF Windows, FirstsApart
  <1>11. CountsDiffer(k)'
    BY <1>1, <1>2, <1>5, <1>8 DEF Windows, CountsDiffer
  <1>12. CountsComplete(k)'
    <2>1. ASSUME NEW x \in C, NEW n \in 1 .. count[x]
          PROVE  \E q \in C : /\ count'[q] = n /\ hitAt'[q] <= hitAt'[x]
                             /\ SameWindow(k, q, x)'
      BY <1>2, <1>5 DEF Windows, CountsComplete
    <2>2. ASSUME NEW n \in 1 .. 1
          PROVE  count'[r] = n /\ hitAt'[r] <= hitAt'[r] /\ SameWindow(k, r, r)'
      BY <1>1 DEF SameWindow
    <2> QED
      BY <1>1, <1>2, <2>1, <2>2 DEF CountsComplete
  <1>13. CountsLast(k)'
    BY <1>1, <1>6, <1>7 DEF CountsLast
  <1> QED
    BY <1>9, <1>10, <1>11, <1>12, <1>13 DEF Windows

LEMMA IncrementWindows ==
  ASSUME IInv, DecidedByCount, NEW r \in Request, NEW k \in Key, Increment(r, k),
         NEW j \in Key \ forgotten', Windows(j)
  PROVE  Windows(j)'
  <1>0. j \in Key \ forgotten
    BY IncrementFacts
  <1>1. CASE j = k
    BY <1>0, <1>1, IncrementJoins, IncrementBegins
  <1>2. CASE j # k
    <2>1. CountedIn(j)' = CountedIn(j) /\ redis'[j] = redis[j] /\ now' = now
      BY <1>2, IncrementFacts
    <2>2. \A q \in CountedIn(j) : hitAt'[q] = hitAt[q] /\ count'[q] = count[q]
      BY <1>2, IncrementFacts DEF CountedIn
    <2>3. /\ Firsts(j)' = Firsts(j) /\ Firsts(j) \subseteq CountedIn(j)
          /\ \A q \in CountedIn(j) : InLastWindow(j, q)' <=> InLastWindow(j, q)
          /\ FirstsApart(j)' /\ CountsDiffer(j)' /\ CountsComplete(j)'
      BY <2>1, <2>2, SameCounted DEF Windows, Firsts
    <2>4. Outlasts(j)'
      BY <2>1, <2>2, <2>3 DEF Windows, Outlasts, Timed
    <2>5. CountsLast(j)'
      BY <2>1, <2>2, <2>3 DEF Windows, CountsLast, Present, Timed
    <2> QED
      BY <2>3, <2>4, <2>5 DEF Windows
  <1> QED
    BY <1>1, <1>2

LEMMA NextDecided ==
  ASSUME IInv, DecidedByCount, [Next]_vars
  PROVE  DecidedByCount'
  <1> TypeOK
    BY DEF IInv
  <1>1. ASSUME NEW r \in Request, NEW k \in Key, Increment(r, k) PROVE DecidedByCount'
    BY <1>1 DEF Increment, DecidedByCount, TypeOK
  <1>2. ASSUME NEW r \in Request, Expire(r) \/ Crash(r) PROVE DecidedByCount'
    BY <1>2 DEF Expire, Crash, DecidedByCount, TypeOK
  <1>3. ASSUME NEW r \in Request, Decide(r) PROVE DecidedByCount'
    <2>1. key[r] \in Key /\ Max[key[r]] \in Nat /\ count[r] \in Nat
      BY <1>3, RedisAssumption DEF Decide, TypeOK
    <2> QED
      BY <1>3, <2>1 DEF Decide, DecidedByCount, TypeOK
  <1>4. ASSUME NEW k \in Key, Forget(k) PROVE DecidedByCount'
    BY <1>4 DEF Forget, DecidedByCount, TypeOK
  <1>5. CASE Tick
    BY <1>5 DEF Tick, DecidedByCount, TypeOK
  <1>6. CASE UNCHANGED vars
    BY <1>6 DEF vars, DecidedByCount
  <1> QED
    BY <1>1, <1>2, <1>3, <1>4, <1>5, <1>6 DEF Next

\* The windows of a key whose counter nobody deleted are what INCRBY makes of them.
THEOREM WindowsInvariance == Spec => []WInv
  <1>1. ASSUME IInv, WInv, [Next]_vars PROVE WInv'
    <2>1. DecidedByCount'
      BY <1>1, NextDecided DEF WInv
    <2>2. ASSUME NEW k \in Key \ forgotten' PROVE Windows(k)'
      <3>1. CASE \E r \in Request, j \in Key : Increment(r, j)
        <4>1. PICK r \in Request, j \in Key : Increment(r, j)
          BY <3>1
        <4>2. k \notin forgotten
          BY <4>1 DEF Increment
        <4> QED
          BY <1>1, <4>1, <4>2, IncrementWindows DEF WInv
      <3>2. CASE ~ \E r \in Request, j \in Key : Increment(r, j)
        <4>1. k \notin forgotten
          BY <1>1, <3>2, OtherFacts
        <4> QED
          BY <1>1, <3>2, <4>1, OtherWindows DEF WInv
      <3> QED
        BY <3>1, <3>2
    <2> QED
      BY <2>1, <2>2 DEF WInv
  <1> QED
    BY Invariance, InitWInv, <1>1, PTL DEF Spec

\* The hits within a window length of the one that began the window share it.
LEMMA WithinWindow ==
  ASSUME IInv, NEW k \in Key, Windows(k), NEW first \in Firsts(k),
         NEW r \in CountedIn(k),
         hitAt[r] \in hitAt[first] .. hitAt[first] + WindowMs[k] - 1
  PROVE  \A f \in Firsts(k) : hitAt[f] <= hitAt[r] <=> hitAt[f] <= hitAt[first]
  <1> TypeOK
    BY DEF IInv
  <1> SUFFICES ASSUME NEW f \in Firsts(k)
               PROVE  hitAt[f] <= hitAt[r] <=> hitAt[f] <= hitAt[first]
    OBVIOUS
  <1>1. /\ hitAt[f] \in Nat /\ hitAt[first] \in Nat /\ hitAt[r] \in Nat
        /\ WindowMs[k] \in Nat \ {0}
    BY CountedParts DEF Firsts
  <1>2. CASE f = first
    BY <1>1, <1>2
  <1>3. CASE f # first
    BY <1>1, <1>3 DEF Windows, FirstsApart
  <1> QED
    BY <1>2, <1>3

LEMMA WindowsKeepMax ==
  ASSUME IInv, WInv, NEW k \in Key \ forgotten, NEW first \in CountedIn(k), count[first] = 1
  PROVE  Cardinality({r \in AdmittedIn(k) :
           hitAt[r] \in hitAt[first] .. hitAt[first] + WindowMs[k] - 1}) <= Max[k]
  <1> TypeOK /\ Windows(k)
    BY DEF IInv, WInv
  <1> DEFINE S == {r \in AdmittedIn(k) :
                     hitAt[r] \in hitAt[first] .. hitAt[first] + WindowMs[k] - 1}
  <1>1. first \in Firsts(k) /\ S \subseteq CountedIn(k) /\ Max[k] \in Nat \ {0}
    BY RedisAssumption DEF Firsts, AdmittedIn
  <1>2. ASSUME NEW r \in S PROVE count[r] \in 1 .. Max[k]
    <2>1. r \in CountedIn(k) /\ at[r] = "admitted"
      BY DEF AdmittedIn
    <2>2. count[r] \in Nat /\ count[r] > 0 /\ count[r] <= Max[k]
      BY <2>1, CountedParts DEF WInv, DecidedByCount, TypeOK, CountedIn
    <2> QED
      BY <1>1, <2>2
  <1>3. ASSUME NEW r \in S, NEW q \in S, r # q PROVE count[r] # count[q]
    <2>1. \A f \in Firsts(k) : hitAt[f] <= hitAt[r] <=> hitAt[f] <= hitAt[first]
      BY <1>1, WithinWindow
    <2>2. \A f \in Firsts(k) : hitAt[f] <= hitAt[q] <=> hitAt[f] <= hitAt[first]
      BY <1>1, WithinWindow
    <2>3. SameWindow(k, r, q)
      BY <2>1, <2>2 DEF SameWindow
    <2> QED
      BY <1>1, <1>3, <2>3 DEF Windows, CountsDiffer
  <1> DEFINE counted == [r \in S |-> count[r]]
  <1> HIDE DEF S
  <1>4. counted \in Injection(S, 1 .. Max[k])
    BY <1>2, <1>3 DEF Injection, IsInjective
  <1>5. IsFiniteSet(1 .. Max[k]) /\ Cardinality(1 .. Max[k]) = Max[k]
    BY <1>1, FS_Interval
  <1>6. Cardinality(S) <= Cardinality(1 .. Max[k])
    BY <1>4, <1>5, FS_Injection
  <1> QED
    BY <1>5, <1>6 DEF S

\* Whichever workers serve them and however their commands interleave, at most max
\* requests are admitted in windowMs from the hit that created the counter.
THEOREM MaxPerWindow == Spec => []AtMostMaxPerWindow
  <1>1. IInv /\ WInv => AtMostMaxPerWindow
    BY WindowsKeepMax DEF AtMostMaxPerWindow
  <1> QED
    BY Invariance, WindowsInvariance, <1>1, PTL

\* Nobody is rejected before max others were counted in the window.
THEOREM RejectsOnlyAfterMax == Spec => []RejectedAfterMax
  <1>1. ASSUME IInv, WInv, NEW k \in Key \ forgotten, NEW first \in CountedIn(k),
               NEW r \in CountedIn(k), count[first] = 1, hitAt[first] <= hitAt[r],
               at[r] = "rejected", NEW n \in 1 .. Max[k]
        PROVE  \E q \in CountedIn(k) : count[q] = n /\ hitAt[q] \in hitAt[first] .. hitAt[r]
    <2> TypeOK /\ Windows(k)
      BY <1>1 DEF IInv, WInv
    <2>1. count[r] > Max[k] /\ count[r] \in Nat /\ Max[k] \in Nat
      BY <1>1, RedisAssumption, CountedParts DEF WInv, DecidedByCount, CountedIn
    <2>2. PICK q \in CountedIn(k) :
             count[q] = n /\ hitAt[q] <= hitAt[r] /\ SameWindow(k, q, r)
      BY <1>1, <2>1 DEF Windows, CountsComplete
    <2>3. hitAt[first] <= hitAt[q]
      BY <1>1, <2>2 DEF SameWindow, Firsts
    <2>4. hitAt[first] \in Nat /\ hitAt[q] \in Nat /\ hitAt[r] \in Nat
      BY CountedParts
    <2> QED
      BY <2>2, <2>3, <2>4
  <1>2. IInv /\ WInv => RejectedAfterMax
    BY <1>1 DEF RejectedAfterMax
  <1> QED
    BY Invariance, WindowsInvariance, <1>2, PTL
=============================================================================
