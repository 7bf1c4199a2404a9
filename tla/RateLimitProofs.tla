-------------------------- MODULE RateLimitProofs --------------------------
(***************************************************************************)
(* For every set of requests, clients and limiters, every window length    *)
(* and every max: the limiter never admits more than max of the requests   *)
(* counted in one bucket.                                                  *)
(*                                                                         *)
(* The argument: a bucket object's count is the number of requests hit()   *)
(* handed it to, because only hits change it and the object survives the   *)
(* map forgetting it; a request is admitted only while that number is at   *)
(* most max, and it can only grow.                                         *)
(*                                                                         *)
(* The buckets of a caller are windows that follow each other, and one     *)
(* that is open is in the map: so max holds of any windowMs from a hit     *)
(* that opened one, and each step is one of FixedWindow or a stutter.      *)
(***************************************************************************)
EXTENDS RateLimit, FiniteSetTheorems, TLAPS

\* The requests that hold bucket b.
Holders(b) == {r \in Request : held[r] = b}

\* The count of a bucket is the number of requests counted in it.
CountIsHolders == \A b \in Request : heap[b].count = Cardinality(Holders(b))

\* A bucket named anywhere was opened by the request that names it.
BucketsAreOpened ==
    /\ \A r \in Request : held[r] # None => held[held[r]] = held[r]
    /\ \A k \in Key : buckets[k] # None => held[buckets[k]] = buckets[k]
    /\ \A r \in Request : status[r] = "new" => held[r] = None

IInv == TypeOK /\ BucketsAreOpened /\ CountIsHolders /\ NeverOverAdmitted

AdmittedIn(b, l) == {r \in Admitted : held[r] = b /\ route[r][1] = l}
-----------------------------------------------------------------------------
LEMMA BucketKeyType == ASSUME NEW p \in Caller PROVE BucketKey(p) \in Key
  BY RateLimitAssumption DEF BucketKey, Caller, Key

\* A caller is a pair, which None, the absence of one, is not.
LEMMA CallerNotNone == \A p \in Caller : p # None
  BY RateLimitAssumption DEF Caller

LEMMA RetryAfterType ==
  ASSUME NEW t \in Nat, now \in Nat PROVE RetryAfter(t) \in Nat
  BY RateLimitAssumption DEF RetryAfter

LEMMA SweptType ==
  ASSUME NEW s, NEW hp, NEW bs \in [Key -> Request \cup {None}]
  PROVE  /\ SweepIfNeeded(s, bs, hp) \in [Key -> Request \cup {None}]
         /\ \A k \in Key : SweepIfNeeded(s, bs, hp)[k] \in {bs[k], None}
  BY DEF SweepIfNeeded

\* What Admitted's members hold does not depend on a request not yet admitted.
LEMMA SameAdmitted ==
  ASSUME NeverOverAdmitted, Admitted' = Admitted,
         \A r \in Admitted : held'[r] = held[r] /\ route'[r] = route[r]
  PROVE  NeverOverAdmitted'
  <1> SUFFICES ASSUME NEW b \in Request, NEW l \in Limiter
               PROVE  Cardinality(AdmittedIn(b, l)') <= Max[l]
    BY DEF NeverOverAdmitted, AdmittedIn
  <1>1. AdmittedIn(b, l)' = AdmittedIn(b, l)
    BY DEF AdmittedIn
  <1> QED
    BY <1>1 DEF NeverOverAdmitted, AdmittedIn

LEMMA InitIInv == Init => IInv
  <1> SUFFICES ASSUME Init PROVE IInv
    OBVIOUS
  <1> USE RateLimitAssumption
  <1>1. TypeOK
    BY DEF Init, TypeOK, Bucket, Store
  <1>2. BucketsAreOpened
    BY DEF Init, BucketsAreOpened
  <1>3. CountIsHolders
    <2> SUFFICES ASSUME NEW b \in Request PROVE heap[b].count = Cardinality(Holders(b))
      BY DEF CountIsHolders
    <2>1. Holders(b) = {}
      BY DEF Init, Holders
    <2> QED
      BY <2>1, FS_EmptySet DEF Init
  <1>4. NeverOverAdmitted
    <2> SUFFICES ASSUME NEW b \in Request, NEW l \in Limiter
                 PROVE  Cardinality(AdmittedIn(b, l)) <= Max[l]
      BY DEF NeverOverAdmitted, AdmittedIn
    <2>1. AdmittedIn(b, l) = {}
      BY DEF Init, AdmittedIn, Admitted
    <2> QED
      BY <2>1, FS_EmptySet
  <1> QED
    BY <1>1, <1>2, <1>3, <1>4 DEF IInv

-----------------------------------------------------------------------------
\* hit(): whichever bucket it returns, the request becomes one more holder of it.
LEMMA HitIInv ==
  ASSUME IInv, NEW p \in Caller, NEW r \in Request, Hit(p, r)
  PROVE  IInv'
  <1> USE RateLimitAssumption
  <1> DEFINE k == BucketKey(p)
  <1>1. k \in Key
    BY BucketKeyType
  <1>2. p[1] \in Limiter /\ WindowMs[p[1]] \in Nat /\ WindowMs[p[1]] > 0
    BY DEF Caller
  <1>3. status[r] = "new" /\ held[r] = None /\ r # None
    BY DEF Hit, IInv, BucketsAreOpened
  <1>4. Admitted' = Admitted /\ \A x \in Admitted : held'[x] = held[x] /\ route'[x] = route[x]
    BY <1>3 DEF Hit, HitNew, HitExisting, Admitted, IInv, TypeOK
  <1>5. NeverOverAdmitted'
    BY <1>4, SameAdmitted DEF IInv
  <1>6. CASE HitNew(p, r)
    <2> DEFINE opened == [count |-> 1, resetAt |-> now + WindowMs[p[1]]]
    <2>1. /\ heap' = [heap EXCEPT ![r] = opened]
          /\ held' = [held EXCEPT ![r] = r]
      BY <1>6 DEF HitNew
    <2>2. opened \in Bucket
      BY <1>2 DEF IInv, TypeOK, Bucket
    <2>3. [buckets EXCEPT ![k] = r] \in [Key -> Request \cup {None}]
      BY DEF IInv, TypeOK
    <2>4. /\ buckets' \in [Key -> Request \cup {None}]
          /\ \A j \in Key : buckets'[j] \in {IF j = k THEN r ELSE buckets[j], None}
      <3>1. buckets' = SweepIfNeeded(Kind[p[1]], [buckets EXCEPT ![k] = r], heap')
        BY <1>6 DEF HitNew
      <3>2. \A j \in Key : [buckets EXCEPT ![k] = r][j] = IF j = k THEN r ELSE buckets[j]
        BY <1>1 DEF IInv, TypeOK
      <3> DEFINE mapped == [buckets EXCEPT ![k] = r]
      <3>3. mapped \in [Key -> Request \cup {None}]
        BY <2>3
      <3>4. buckets' = SweepIfNeeded(Kind[p[1]], mapped, heap')
        BY <3>1
      <3>5. \A j \in Key : mapped[j] = IF j = k THEN r ELSE buckets[j]
        BY <3>2
      <3> HIDE DEF mapped, k
      <3> QED
        BY <3>3, <3>4, <3>5, SweptType
    <2>5. TypeOK'
      <3>1. lastSweep' \in [Store -> Nat]
        BY <1>6, <1>2 DEF HitNew, IInv, TypeOK, Store
      <3>2. held' \in [Request -> Request \cup {None}] /\ heap' \in [Request -> Bucket]
        BY <2>1, <2>2 DEF IInv, TypeOK
      <3>3. \A x \in Request : status'[x] # "new" => held'[x] # None /\ route'[x] # None
        BY <2>1, <1>3, CallerNotNone DEF Hit, IInv, TypeOK
      <3> QED
        BY <2>4, <3>1, <3>2, <3>3 DEF Hit, IInv, TypeOK
    <2>6. BucketsAreOpened'
      <3>1. \A x \in Request : held'[x] = IF x = r THEN r ELSE held[x]
        BY <2>1 DEF IInv, TypeOK
      <3>2. \A x \in Request : held[x] # None => held[x] # r
        BY <1>3 DEF IInv, BucketsAreOpened
      <3>3. \A x \in Request : held'[x] # None => held'[held'[x]] = held'[x]
        BY <3>1, <3>2 DEF IInv, TypeOK, BucketsAreOpened
      <3>4. \A j \in Key : buckets'[j] # None => held'[buckets'[j]] = buckets'[j]
        <4> SUFFICES ASSUME NEW j \in Key, buckets'[j] # None
                     PROVE  held'[buckets'[j]] = buckets'[j]
          OBVIOUS
        <4>1. CASE buckets'[j] = r
          BY <4>1, <3>1
        <4>2. CASE buckets'[j] # r
          <5>1. buckets'[j] = buckets[j] /\ buckets[j] \in Request
            BY <4>2, <2>4 DEF IInv, TypeOK
          <5> QED
            BY <5>1, <4>2, <3>1 DEF IInv, BucketsAreOpened
        <4> QED
          BY <4>1, <4>2
      <3>5. \A x \in Request : status'[x] = "new" => held'[x] = None
        BY <3>1 DEF Hit, IInv, TypeOK, BucketsAreOpened
      <3> QED
        BY <3>3, <3>4, <3>5 DEF BucketsAreOpened
    <2>7. CountIsHolders'
      <3> SUFFICES ASSUME NEW b \in Request
                   PROVE  heap'[b].count = Cardinality(Holders(b)')
        BY DEF CountIsHolders
      <3>1. CASE b = r
        <4>1. \A x \in Request : held[x] # r
          BY <1>3 DEF IInv, BucketsAreOpened
        <4>2. Holders(b)' = {r}
          BY <3>1, <4>1, <2>1 DEF Holders, IInv, TypeOK
        <4>3. heap'[b].count = 1
          BY <3>1, <2>1 DEF IInv, TypeOK
        <4> QED
          BY <4>2, <4>3, FS_Singleton
      <3>2. CASE b # r
        <4>1. Holders(b)' = Holders(b)
          BY <3>2, <1>3, <2>1 DEF Holders, IInv, TypeOK
        <4> QED
          BY <3>2, <4>1, <2>1 DEF IInv, TypeOK, CountIsHolders
      <3> QED
        BY <3>1, <3>2
    <2> QED
      BY <2>5, <2>6, <2>7, <1>5 DEF IInv
  <1>7. CASE HitExisting(p, r)
    <2> DEFINE b0 == buckets[k]
    <2>1. /\ heap' = [heap EXCEPT ![b0].count = @ + 1]
          /\ held' = [held EXCEPT ![r] = b0]
          /\ UNCHANGED <<buckets, lastSweep>>
      BY <1>7 DEF HitExisting
    <2>2. b0 \in Request /\ held[b0] = b0 /\ b0 # r
      BY <1>1, <1>3, <1>7 DEF HitExisting, Live, IInv, TypeOK, BucketsAreOpened
    <2>3. TypeOK'
      <3>1. held' \in [Request -> Request \cup {None}] /\ heap' \in [Request -> Bucket]
        BY <2>1, <2>2 DEF IInv, TypeOK, Bucket
      <3>2. \A x \in Request : status'[x] # "new" => held'[x] # None /\ route'[x] # None
        BY <2>1, <2>2, CallerNotNone DEF Hit, IInv, TypeOK
      <3> QED
        BY <2>1, <3>1, <3>2 DEF Hit, IInv, TypeOK
    <2>4. \A x \in Request : held'[x] = IF x = r THEN b0 ELSE held[x]
      BY <2>1 DEF IInv, TypeOK
    <2>5. BucketsAreOpened'
      <3>1. \A x \in Request : held'[x] # None => held'[held'[x]] = held'[x]
        BY <2>2, <2>4, <1>3 DEF IInv, TypeOK, BucketsAreOpened
      <3>2. \A j \in Key : buckets'[j] # None => held'[buckets'[j]] = buckets'[j]
        BY <2>1, <2>4, <1>3 DEF IInv, TypeOK, BucketsAreOpened
      <3>3. \A x \in Request : status'[x] = "new" => held'[x] = None
        BY <2>4 DEF Hit, IInv, TypeOK, BucketsAreOpened
      <3> QED
        BY <3>1, <3>2, <3>3 DEF BucketsAreOpened
    <2>6. CountIsHolders'
      <3> SUFFICES ASSUME NEW b \in Request
                   PROVE  heap'[b].count = Cardinality(Holders(b)')
        BY DEF CountIsHolders
      <3>1. IsFiniteSet(Holders(b)) /\ r \notin Holders(b)
        BY <1>3, FS_Subset DEF Holders
      <3>2. CASE b = b0
        <4>1. Holders(b)' = Holders(b) \cup {r}
          BY <3>2, <2>4, <1>3 DEF Holders
        <4>2. heap'[b].count = heap[b].count + 1
          BY <3>2, <2>1, <2>2 DEF IInv, TypeOK, Bucket
        <4> QED
          BY <3>1, <4>1, <4>2, FS_AddElement DEF IInv, CountIsHolders
      <3>3. CASE b # b0
        <4>1. Holders(b)' = Holders(b)
          BY <3>3, <2>4, <1>3 DEF Holders
        <4> QED
          BY <3>3, <4>1, <2>1 DEF IInv, TypeOK, CountIsHolders
      <3> QED
        BY <3>2, <3>3
    <2> QED
      BY <2>3, <2>5, <2>6, <1>5 DEF IInv
  <1> QED
    BY <1>6, <1>7 DEF Hit

\* An admission: everybody admitted in the bucket holds it, and its holders
\* are no more than max.
LEMMA AdmitIInv ==
  ASSUME IInv, NEW r \in Request, Admit(r)
  PROVE  IInv'
  <1> USE RateLimitAssumption
  <1>1. TypeOK' /\ BucketsAreOpened'
    BY DEF Admit, IInv, TypeOK, BucketsAreOpened, store, history
  <1>2. CountIsHolders'
    BY DEF Admit, IInv, CountIsHolders, Holders, store, history
  <1>3. NeverOverAdmitted'
    <2> SUFFICES ASSUME NEW b \in Request, NEW l \in Limiter
                 PROVE  Cardinality(AdmittedIn(b, l)') <= Max[l]
      BY DEF NeverOverAdmitted, AdmittedIn
    <2>1. Admitted' = Admitted \cup {r}
      BY DEF Admit, Admitted, IInv, TypeOK
    <2>2. CASE held[r] = b /\ route[r][1] = l
      <3>1. AdmittedIn(b, l)' \subseteq Holders(b)
        BY DEF AdmittedIn, Admitted, Holders, Admit, store
      <3>2. IsFiniteSet(Holders(b))
        BY FS_Subset DEF Holders
      <3>3. Cardinality(AdmittedIn(b, l)') <= Cardinality(Holders(b))
        BY <3>1, <3>2, FS_Subset
      <3>4. Cardinality(Holders(b)) <= Max[l]
        BY <2>2 DEF Admit, IInv, CountIsHolders
      <3>5. Cardinality(AdmittedIn(b, l)') \in Nat /\ Cardinality(Holders(b)) \in Nat
        BY <3>1, <3>2, FS_Subset, FS_CardinalityType
      <3> QED
        BY <3>3, <3>4, <3>5
    <2>3. CASE ~(held[r] = b /\ route[r][1] = l)
      <3>1. AdmittedIn(b, l)' = AdmittedIn(b, l)
        BY <2>1, <2>3 DEF AdmittedIn, Admit, store
      <3> QED
        BY <3>1 DEF IInv, NeverOverAdmitted, AdmittedIn
    <2> QED
      BY <2>2, <2>3
  <1> QED
    BY <1>1, <1>2, <1>3 DEF IInv

\* The steps that neither count nor admit anybody.
LEMMA OtherIInv ==
  ASSUME IInv,
         \/ Tick
         \/ \E r \in Request : Reject(r)
         \/ \E k \in Key : Reset(k)
         \/ UseStore
         \/ UNCHANGED vars
  PROVE  IInv'
  <1> USE RateLimitAssumption
  <1>1. UNCHANGED <<heap, held, route>>
    BY DEF Tick, Reject, Reset, UseStore, vars, store
  <1>2. \A r \in Request : /\ (status'[r] = "admitted") <=> (status[r] = "admitted")
                           /\ (status'[r] = "new") <=> (status[r] = "new")
    BY DEF Tick, Reject, Reset, UseStore, vars, store, IInv, TypeOK
  <1>3. \A k \in Key : buckets'[k] \in {buckets[k], None}
    BY DEF Tick, Reject, Reset, UseStore, vars, store, IInv, TypeOK
  <1>4. TypeOK'
    <2>1. CASE \E r \in Request : Reject(r)
      <3>1. PICK r \in Request : Reject(r)
        BY <2>1
      <3>2. retryAt' \in [Request -> Nat]
        <4>1. held[r] \in Request
          BY <3>1 DEF Reject, IInv, TypeOK
        <4>2. heap[held[r]].resetAt \in Nat /\ now \in Nat
          BY <4>1 DEF IInv, TypeOK, Bucket
        <4>3. RetryAfter(heap[held[r]].resetAt) \in Nat
          BY <4>2, RetryAfterType
        <4>4. now + TicksPerSecond * RetryAfter(heap[held[r]].resetAt) \in Nat
          BY <4>2, <4>3
        <4> QED
          BY <3>1, <4>4 DEF Reject, IInv, TypeOK
      <3> QED
        BY <3>1, <3>2 DEF Reject, IInv, TypeOK, store, history
    <2>2. CASE Tick \/ UNCHANGED vars
      BY <2>2 DEF Tick, vars, IInv, TypeOK, store, history
    <2>3. CASE (\E k \in Key : Reset(k)) \/ UseStore
      BY <2>3 DEF Reset, UseStore, IInv, TypeOK, Store
    <2> QED
      BY <2>1, <2>2, <2>3
  <1>5. BucketsAreOpened'
    BY <1>1, <1>2, <1>3 DEF IInv, BucketsAreOpened
  <1>6. CountIsHolders'
    BY <1>1 DEF IInv, CountIsHolders, Holders
  <1>7. NeverOverAdmitted'
    <2>1. Admitted' = Admitted
      BY <1>2 DEF Admitted
    <2> QED
      BY <1>1, <2>1, SameAdmitted DEF IInv
  <1> QED
    BY <1>4, <1>5, <1>6, <1>7 DEF IInv

LEMMA NextIInv == IInv /\ [Next]_vars => IInv'
  BY HitIInv, AdmitIInv, OtherIInv DEF Next

\* The inductive invariant holds throughout.
THEOREM Invariance == Spec => []IInv
  <1>1. IInv /\ [Next]_vars => IInv'
    BY NextIInv
  <1> QED
    BY InitIInv, <1>1, PTL DEF Spec

\* Every variable keeps its type, and every counted request has its bucket.
THEOREM TypeCorrect == Spec => []TypeOK
  <1>1. IInv => TypeOK
    BY DEF IInv
  <1> QED
    BY Invariance, <1>1, PTL

\* No interleaving of hits and awaits admits more than max of a bucket's requests.
THEOREM OverAdmissionImpossible == Spec => []NeverOverAdmitted
  <1>1. IInv => NeverOverAdmitted
    BY DEF IInv
  <1> QED
    BY Invariance, <1>1, PTL

-----------------------------------------------------------------------------
(***************************************************************************)
(* The windows. Limiters that count in the default store must not be two:  *)
(* they would share their clients' buckets, whatever their own windows and *)
(* maxima are.                                                             *)
(***************************************************************************)
OneDefault ==
    \A l, m \in Limiter : Kind[l] = "RateLimit" /\ Kind[m] = "RateLimit" => l = m

\* A bucket counts the requests of one caller, the one whose key it is kept under.
BucketsBelong ==
    /\ \A r \in Request : held[r] # None => route[held[r]] = route[r]
    /\ \A k \in Key : buckets[k] # None => BucketKey(route[buckets[k]]) = k
    /\ \A r \in Request : status[r] = "new" => route[r] = None

\* A bucket is over one window length after it was opened, and every request it
\* counts came in between.
WindowsTimed ==
    /\ \A b \in Request :
          held[b] = b => heap[b].resetAt = hitAt[b] + WindowMs[route[b][1]]
    /\ \A r \in Request :
          held[r] # None => /\ hitAt[held[r]] <= hitAt[r]
                            /\ hitAt[r] < heap[held[r]].resetAt
                            /\ hitAt[r] <= now

\* Two windows of a caller whose counter was not dropped do not overlap.
WindowsApart ==
    \A b, c \in Request :
        /\ held[b] = b /\ held[c] = c /\ b # c
        /\ route[b] = route[c] /\ BucketKey(route[b]) \notin forgiven
        => heap[b].resetAt <= hitAt[c] \/ heap[c].resetAt <= hitAt[b]

\* The map forgets a bucket only when it is over or dropped on purpose.
OpenAreKept ==
    \A b \in Request :
        /\ held[b] = b /\ now < heap[b].resetAt
        /\ BucketKey(route[b]) \notin forgiven
        => buckets[BucketKey(route[b])] = b

Windows == BucketsBelong /\ WindowsTimed /\ WindowsApart /\ OpenAreKept

LEMMA LimiterParts ==
  ASSUME NEW p \in Caller
  PROVE  /\ p[1] \in Limiter /\ WindowMs[p[1]] \in Nat \ {0} /\ Max[p[1]] \in Nat \ {0}
         /\ BucketKey(p) \in Key
  BY RateLimitAssumption, BucketKeyType DEF Caller

\* When the default store has one limiter, a key has one caller.
LEMMA OneCallerPerKey ==
  ASSUME OneDefault, NEW p \in Caller, NEW q \in Caller, BucketKey(p) = BucketKey(q)
  PROVE  p = q
  <1>1. PICK l \in Limiter, c \in Client : p = <<l, c>>
    BY DEF Caller
  <1>2. PICK m \in Limiter, d \in Client : q = <<m, d>>
    BY DEF Caller
  <1>3. Kind[l] \in {"RateLimit", "throttle"} /\ Kind[m] \in {"RateLimit", "throttle"}
    BY RateLimitAssumption
  <1>4. CASE Kind[l] = Kind[m]
    BY <1>1, <1>2, <1>3, <1>4 DEF BucketKey, OneDefault
  <1>5. CASE Kind[l] # Kind[m]
    BY <1>1, <1>2, <1>3, <1>5, RateLimitAssumption DEF BucketKey
  <1> QED
    BY <1>4, <1>5

\* What a sweep leaves in the map: all that is not over.
LEMMA SweptKeeps ==
  ASSUME NEW s, NEW hp, NEW bs \in [Key -> Request \cup {None}], NEW j \in Key,
         bs[j] # None, ~(hp[bs[j]].resetAt <= now)
  PROVE  SweepIfNeeded(s, bs, hp)[j] = bs[j]
  BY DEF SweepIfNeeded

\* hit() where it opens a bucket, field by field.
LEMMA HitNewFacts ==
  ASSUME IInv, NEW p \in Caller, NEW r \in Request, Hit(p, r), HitNew(p, r)
  PROVE  /\ held[r] = None /\ status[r] = "new" /\ ~Live(BucketKey(p))
         /\ \A x \in Request :
               /\ held[x] # r
               /\ held'[x] = IF x = r THEN r ELSE held[x]
               /\ route'[x] = IF x = r THEN p ELSE route[x]
               /\ hitAt'[x] = IF x = r THEN now ELSE hitAt[x]
               /\ status'[x] = IF x = r THEN "hit" ELSE status[x]
               /\ heap'[x].resetAt = IF x = r THEN now + WindowMs[p[1]] ELSE heap[x].resetAt
         /\ \A j \in Key : buckets[j] # r
         /\ buckets'[BucketKey(p)] = r
         /\ \A j \in Key : j # BucketKey(p) =>
               /\ buckets'[j] \in {buckets[j], None}
               /\ Live(j) => buckets'[j] = buckets[j]
         /\ now' = now /\ forgiven' = forgiven /\ retryAt' = retryAt
  <1> DEFINE k == BucketKey(p)
             hp == heap'
  <1>1. k \in Key /\ WindowMs[p[1]] \in Nat \ {0}
    BY LimiterParts
  <1>2. held[r] = None /\ status[r] = "new" /\ r # None /\ ~Live(k)
    BY RateLimitAssumption DEF Hit, HitNew, IInv, BucketsAreOpened
  <1>3. \A x \in Request : held[x] # r
    BY <1>2 DEF IInv, BucketsAreOpened
  <1>4. \A j \in Key : buckets[j] # r
    BY <1>2 DEF IInv, BucketsAreOpened
  <1>5. hp = [heap EXCEPT ![r] = [count |-> 1, resetAt |-> now + WindowMs[p[1]]]]
    BY DEF HitNew
  <1>6. \A x \in Request :
           hp[x].resetAt = IF x = r THEN now + WindowMs[p[1]] ELSE heap[x].resetAt
    BY <1>5 DEF IInv, TypeOK
  <1>7. PICK mapped : mapped = [buckets EXCEPT ![k] = r]
    OBVIOUS
  <1>8. mapped \in [Key -> Request \cup {None}]
    BY <1>7 DEF IInv, TypeOK
  <1>9. \A j \in Key : mapped[j] = IF j = k THEN r ELSE buckets[j]
    BY <1>1, <1>7 DEF IInv, TypeOK
  <1>10. buckets' = SweepIfNeeded(Kind[p[1]], mapped, hp)
    BY <1>7 DEF HitNew
  <1>11. buckets'[k] = r
    <2>1. ~(hp[mapped[k]].resetAt <= now) /\ mapped[k] = r
      BY <1>1, <1>6, <1>9 DEF IInv, TypeOK
    <2> QED
      BY <1>1, <1>2, <1>8, <1>10, <2>1, SweptKeeps
  <1>12. ASSUME NEW j \in Key, j # k
         PROVE  /\ buckets'[j] \in {buckets[j], None}
                /\ Live(j) => buckets'[j] = buckets[j]
    <2>1. buckets'[j] \in {buckets[j], None}
      BY <1>8, <1>9, <1>10, <1>12, SweptType
    <2>2. ASSUME Live(j) PROVE buckets'[j] = buckets[j]
      <3>1. mapped[j] = buckets[j] /\ buckets[j] \in Request /\ heap[buckets[j]].resetAt \in Nat
        BY <1>9, <1>12, <2>2 DEF Live, IInv, TypeOK, Bucket
      <3>2. ~(hp[mapped[j]].resetAt <= now) /\ mapped[j] # None
        BY <1>4, <1>6, <2>2, <3>1 DEF Live, IInv, TypeOK
      <3> QED
        BY <1>8, <1>10, <3>1, <3>2, SweptKeeps
    <2> QED
      BY <2>1, <2>2
  <1>13. \A x \in Request :
               /\ held'[x] = IF x = r THEN r ELSE held[x]
               /\ route'[x] = IF x = r THEN p ELSE route[x]
               /\ hitAt'[x] = IF x = r THEN now ELSE hitAt[x]
               /\ status'[x] = IF x = r THEN "hit" ELSE status[x]
    BY DEF Hit, HitNew, IInv, TypeOK
  <1>14. now' = now /\ forgiven' = forgiven /\ retryAt' = retryAt
    BY DEF Hit
  <1> QED
    BY <1>2, <1>3, <1>4, <1>6, <1>11, <1>12, <1>13, <1>14

\* hit() where it counts in a live bucket, field by field.
LEMMA HitExistingFacts ==
  ASSUME IInv, NEW p \in Caller, NEW r \in Request, Hit(p, r), HitExisting(p, r)
  PROVE  /\ held[r] = None /\ status[r] = "new"
         /\ Live(BucketKey(p)) /\ buckets[BucketKey(p)] \in Request \ {r}
         /\ held[buckets[BucketKey(p)]] = buckets[BucketKey(p)]
         /\ \A x \in Request :
               /\ held[x] # r
               /\ held'[x] = IF x = r THEN buckets[BucketKey(p)] ELSE held[x]
               /\ route'[x] = IF x = r THEN p ELSE route[x]
               /\ hitAt'[x] = IF x = r THEN now ELSE hitAt[x]
               /\ status'[x] = IF x = r THEN "hit" ELSE status[x]
               /\ heap'[x].resetAt = heap[x].resetAt
         /\ buckets' = buckets /\ now' = now /\ forgiven' = forgiven /\ retryAt' = retryAt
  <1> DEFINE k == BucketKey(p)
             b == buckets[k]
  <1>1. k \in Key
    BY LimiterParts
  <1>2. held[r] = None /\ status[r] = "new" /\ r # None /\ Live(k)
    BY RateLimitAssumption DEF Hit, HitExisting, IInv, BucketsAreOpened
  <1>3. \A x \in Request : held[x] # r
    BY <1>2 DEF IInv, BucketsAreOpened
  <1>4. b \in Request /\ held[b] = b /\ b # r
    BY <1>1, <1>2 DEF Live, IInv, TypeOK, BucketsAreOpened
  <1>5. heap' = [heap EXCEPT ![b].count = @ + 1]
    BY DEF HitExisting
  <1>6. \A x \in Request : heap'[x].resetAt = heap[x].resetAt
    BY <1>4, <1>5 DEF IInv, TypeOK, Bucket
  <1>7. \A x \in Request :
               /\ held'[x] = IF x = r THEN b ELSE held[x]
               /\ route'[x] = IF x = r THEN p ELSE route[x]
               /\ hitAt'[x] = IF x = r THEN now ELSE hitAt[x]
               /\ status'[x] = IF x = r THEN "hit" ELSE status[x]
    BY DEF Hit, HitExisting, IInv, TypeOK
  <1> QED
    BY <1>2, <1>3, <1>4, <1>6, <1>7 DEF Hit, HitExisting

\* The steps other than a hit leave what was counted, and when, as it was.
LEMMA OtherFacts ==
  ASSUME IInv, [Next]_vars, ~ \E p \in Caller, r \in Request : Hit(p, r)
  PROVE  /\ UNCHANGED <<heap, held, route, hitAt>>
         /\ \A x \in Request : (status'[x] = "new") <=> (status[x] = "new")
         /\ now' \in Nat /\ now <= now'
         /\ forgiven \subseteq forgiven'
         /\ \A j \in Key : buckets'[j] \in {buckets[j], None}
         /\ \A j \in Key : j \notin forgiven' => buckets'[j] = buckets[j]
  <1>1. CASE Tick
    BY <1>1 DEF Tick, store, history, IInv, TypeOK
  <1>2. CASE \E r \in Request : Admit(r) \/ Reject(r)
    BY <1>2 DEF Admit, Reject, store, history, IInv, TypeOK
  <1>3. CASE \E k \in Key : Reset(k)
    BY <1>3 DEF Reset, IInv, TypeOK
  <1>4. CASE UseStore
    BY <1>4 DEF UseStore, IInv, TypeOK
  <1>5. CASE UNCHANGED vars
    BY <1>5 DEF vars, store, history, IInv, TypeOK
  <1> QED
    BY <1>1, <1>2, <1>3, <1>4, <1>5 DEF Next

\* Seconds that are rounded up are no less than the ticks they stand for.
LEMMA CeilingCovers ==
  ASSUME NEW d \in Nat, NEW t \in Nat \ {0}
  PROVE  d <= t * ((d + t - 1) \div t)
  <1> DEFINE a == d + t - 1
             q == a \div t
             m == a % t
  <1>1. a \in Nat
    OBVIOUS
  <1>2. q \in Nat /\ m \in 0 .. t - 1 /\ a = t * q + m
    BY <1>1
  <1>3. t * q \in Nat
    BY <1>2
  <1> QED
    BY <1>1, <1>2, <1>3

LEMMA RetryAfterReaches ==
  ASSUME NEW t \in Nat, now \in Nat
  PROVE  t <= now + TicksPerSecond * RetryAfter(t)
  <1>1. TicksPerSecond \in Nat \ {0}
    BY RateLimitAssumption
  <1>2. CASE t <= now
    BY <1>1, <1>2 DEF RetryAfter
  <1>3. CASE ~(t <= now)
    <2>1. t - now \in Nat
      BY <1>3
    <2>2. t - now <= TicksPerSecond * ((t - now + TicksPerSecond - 1) \div TicksPerSecond)
      BY <1>1, <2>1, CeilingCovers
    <2>3. RetryAfter(t) = (t - now + TicksPerSecond - 1) \div TicksPerSecond
      BY <1>3 DEF RetryAfter
    <2>4. RetryAfter(t) \in Nat
      BY RetryAfterType
    <2>5. t - now <= TicksPerSecond * RetryAfter(t) /\ TicksPerSecond * RetryAfter(t) \in Nat
      BY <1>1, <2>2, <2>3, <2>4
    <2> QED
      BY <2>1, <2>5
  <1> QED
    BY <1>2, <1>3

LEMMA NextRetryAfter ==
  ASSUME IInv, RetryAfterSuffices, [Next]_vars
  PROVE  RetryAfterSuffices'
  <1> SUFFICES ASSUME NEW x \in Request, status'[x] = "rejected"
               PROVE  heap'[held'[x]].resetAt <= retryAt'[x]
    BY DEF RetryAfterSuffices
  <1>1. CASE \E p \in Caller, r \in Request : Hit(p, r)
    <2>1. PICK p \in Caller, r \in Request : Hit(p, r)
      BY <1>1
    <2>2. CASE HitNew(p, r)
      <3>1. x # r /\ status[x] = "rejected" /\ held'[x] = held[x] /\ held[x] # r
        BY <2>1, <2>2, HitNewFacts
      <3>2. held[x] \in Request
        BY <3>1 DEF IInv, TypeOK
      <3> QED
        BY <2>1, <2>2, <3>1, <3>2, HitNewFacts DEF RetryAfterSuffices
    <2>3. CASE HitExisting(p, r)
      <3>1. x # r /\ status[x] = "rejected" /\ held'[x] = held[x]
        BY <2>1, <2>3, HitExistingFacts
      <3>2. held[x] \in Request
        BY <3>1 DEF IInv, TypeOK
      <3> QED
        BY <2>1, <2>3, <3>1, <3>2, HitExistingFacts DEF RetryAfterSuffices
    <2> QED
      BY <2>1, <2>2, <2>3 DEF Hit
  <1>2. CASE ~ \E p \in Caller, r \in Request : Hit(p, r)
    <2>1. heap' = heap /\ held' = held
      BY <1>2, OtherFacts
    <2>2. CASE \E r \in Request : Reject(r)
      <3>1. PICK r \in Request : Reject(r)
        BY <2>2
      <3>2. CASE x = r
        <4>1. heap[held[r]].resetAt \in Nat /\ now \in Nat
          BY <3>1 DEF Reject, IInv, TypeOK, Bucket
        <4>2. retryAt'[r] = now + TicksPerSecond * RetryAfter(heap[held[r]].resetAt)
          BY <3>1 DEF Reject, IInv, TypeOK
        <4> QED
          BY <2>1, <3>2, <4>1, <4>2, RetryAfterReaches
      <3>3. CASE x # r
        BY <2>1, <3>1, <3>3 DEF Reject, IInv, TypeOK, RetryAfterSuffices
      <3> QED
        BY <3>2, <3>3
    <2>3. CASE ~ \E r \in Request : Reject(r)
      <3>1. retryAt' = retryAt /\ status[x] = "rejected"
        BY <1>2, <2>3 DEF Next, Tick, Admit, Reset, UseStore, vars, store, history, IInv, TypeOK
      <3> QED
        BY <2>1, <3>1 DEF RetryAfterSuffices
    <2> QED
      BY <2>2, <2>3
  <1> QED
    BY <1>1, <1>2

\* A client that waits as long as Retry-After says never comes back into the
\* window that rejected it, whatever the tick, the window and the second are.
THEOREM RetryAfterReachesNextWindow == Spec => []RetryAfterSuffices
  <1>1. Init => RetryAfterSuffices
    BY DEF Init, RetryAfterSuffices
  <1>2. IInv /\ RetryAfterSuffices /\ [Next]_vars => RetryAfterSuffices'
    BY NextRetryAfter
  <1> QED
    BY Invariance, <1>1, <1>2, PTL DEF Spec

-----------------------------------------------------------------------------
LEMMA HitWindows ==
  ASSUME OneDefault, IInv, Windows, NEW p \in Caller, NEW r \in Request, Hit(p, r)
  PROVE  Windows'
  <1> DEFINE k == BucketKey(p)
  <1>1. k \in Key /\ WindowMs[p[1]] \in Nat \ {0} /\ now \in Nat
    BY LimiterParts DEF IInv, TypeOK
  <1>2. \A x \in Request : held[x] # None => held[x] \in Request /\ route[x] \in Caller
    BY DEF IInv, TypeOK, BucketsAreOpened
  <1>3. \A x \in Request : hitAt[x] \in Nat /\ heap[x].resetAt \in Nat
    BY DEF IInv, TypeOK, Bucket
  <1>4. CASE HitNew(p, r)
    <2>1. BucketsBelong'
      BY <1>1, <1>2, <1>4, HitNewFacts DEF Windows, BucketsBelong, IInv, TypeOK, BucketsAreOpened
    <2>2. WindowsTimed'
      BY <1>1, <1>2, <1>3, <1>4, HitNewFacts DEF Windows, WindowsTimed
    <2>3. WindowsApart'
      <3>1. ASSUME NEW c \in Request, held[c] = c, route[c] = p, k \notin forgiven
            PROVE  heap[c].resetAt <= now
        <4>1. SUFFICES ASSUME now < heap[c].resetAt PROVE FALSE
          BY <1>1, <1>3
        <4>2. buckets[k] = c /\ c # None
          BY <3>1, <4>1, RateLimitAssumption DEF Windows, OpenAreKept
        <4> QED
          BY <1>4, <4>1, <4>2, HitNewFacts DEF Live
      <3>2. \A c \in Request \ {r} : /\ held'[c] = held[c] /\ route'[c] = route[c]
                                    /\ hitAt'[c] = hitAt[c]
                                    /\ heap'[c].resetAt = heap[c].resetAt
        BY <1>4, HitNewFacts
      <3>3. route'[r] = p /\ hitAt'[r] = now /\ forgiven' = forgiven
        BY <1>4, HitNewFacts
      <3> QED
        BY <3>1, <3>2, <3>3 DEF Windows, WindowsApart
    <2>4. OpenAreKept'
      <3> SUFFICES ASSUME NEW b \in Request, held'[b] = b, now < heap'[b].resetAt,
                          BucketKey(route'[b]) \notin forgiven
                   PROVE  buckets'[BucketKey(route'[b])] = b
        BY <1>4, HitNewFacts DEF OpenAreKept
      <3>1. CASE b = r
        BY <1>4, <3>1, HitNewFacts
      <3>2. CASE b # r
        <4>1. /\ held[b] = b /\ route'[b] = route[b] /\ route[b] \in Caller
              /\ now < heap[b].resetAt
          BY <1>2, <1>4, <3>2, HitNewFacts, RateLimitAssumption
        <4> DEFINE j == BucketKey(route[b])
        <4>2. buckets[j] = b /\ b # None /\ j \in Key
          BY <4>1, LimiterParts, RateLimitAssumption DEF Windows, OpenAreKept
        <4>3. Live(j)
          BY <4>1, <4>2 DEF Live
        <4>4. j # k /\ buckets'[j] = buckets[j]
          BY <1>4, <4>2, <4>3, HitNewFacts
        <4> QED
          BY <4>1, <4>2, <4>4
      <3> QED
        BY <3>1, <3>2
    <2> QED
      BY <2>1, <2>2, <2>3, <2>4 DEF Windows
  <1>5. CASE HitExisting(p, r)
    <2> DEFINE b0 == buckets[k]
    <2>1. /\ b0 \in Request /\ b0 # r /\ held[b0] = b0 /\ b0 # None
          /\ now < heap[b0].resetAt
      BY <1>1, <1>5, HitExistingFacts DEF Live, IInv, TypeOK, Bucket
    <2>2. route[b0] = p
      <3>1. BucketKey(route[b0]) = k /\ route[b0] \in Caller
        BY <1>1, <1>2, <2>1 DEF Windows, BucketsBelong
      <3> QED
        BY <3>1, OneCallerPerKey
    <2>3. \A c \in Request \ {r} : /\ held'[c] = held[c] /\ route'[c] = route[c]
                                  /\ hitAt'[c] = hitAt[c] /\ status'[c] = status[c]
      BY <1>5, HitExistingFacts
    <2>4. held'[r] = b0 /\ route'[r] = p /\ hitAt'[r] = now /\ status'[r] = "hit"
      BY <1>5, HitExistingFacts
    <2>5. /\ \A c \in Request : heap'[c].resetAt = heap[c].resetAt /\ held[c] # r
          /\ buckets' = buckets /\ now' = now /\ forgiven' = forgiven /\ held[r] = None
      BY <1>5, HitExistingFacts
    <2>6. BucketsBelong'
      <3>1. ASSUME NEW x \in Request, held'[x] # None PROVE route'[held'[x]] = route'[x]
        <4>1. CASE x = r
          BY <2>1, <2>2, <2>3, <2>4, <4>1
        <4>2. CASE x # r
          <5>1. held'[x] = held[x] /\ held[x] \in Request \ {r} /\ route'[x] = route[x]
            BY <1>2, <2>3, <2>5, <3>1, <4>2
          <5> QED
            BY <2>3, <3>1, <5>1 DEF Windows, BucketsBelong
        <4> QED
          BY <4>1, <4>2
      <3>2. ASSUME NEW j \in Key, buckets'[j] # None PROVE BucketKey(route'[buckets'[j]]) = j
        <4>1. buckets[j] \in Request \ {r}
          BY <2>5, <3>2 DEF IInv, TypeOK, BucketsAreOpened
        <4> QED
          BY <2>3, <2>5, <3>2, <4>1 DEF Windows, BucketsBelong
      <3>3. \A x \in Request : status'[x] = "new" => route'[x] = None
        BY <2>3, <2>4 DEF Windows, BucketsBelong
      <3> QED
        BY <3>1, <3>2, <3>3 DEF BucketsBelong
    <2>7. WindowsTimed'
      <3>1. hitAt[b0] <= now
        BY <2>1 DEF Windows, WindowsTimed
      <3>2. ASSUME NEW b \in Request, held'[b] = b
            PROVE  heap'[b].resetAt = hitAt'[b] + WindowMs[route'[b][1]]
        <4>1. b # r /\ held[b] = b
          BY <2>1, <2>3, <2>4, <3>2
        <4> QED
          BY <2>3, <2>5, <4>1 DEF Windows, WindowsTimed
      <3>3. ASSUME NEW x \in Request, held'[x] # None
            PROVE  /\ hitAt'[held'[x]] <= hitAt'[x]
                   /\ hitAt'[x] < heap'[held'[x]].resetAt
                   /\ hitAt'[x] <= now
        <4>1. CASE x = r
          BY <1>1, <2>1, <2>3, <2>4, <2>5, <3>1, <4>1
        <4>2. CASE x # r
          <5>1. held'[x] = held[x] /\ held[x] \in Request \ {r} /\ hitAt'[x] = hitAt[x]
            BY <1>2, <2>3, <2>5, <3>3, <4>2
          <5> QED
            BY <2>3, <2>5, <3>3, <5>1 DEF Windows, WindowsTimed
        <4> QED
          BY <4>1, <4>2
      <3> QED
        BY <2>5, <3>2, <3>3 DEF WindowsTimed
    <2>8. \A c \in Request : held'[c] = c => c # r /\ held[c] = c
      BY <2>1, <2>3, <2>4
    <2>9. WindowsApart' /\ OpenAreKept'
      BY <2>3, <2>5, <2>8 DEF Windows, WindowsApart, OpenAreKept
    <2> QED
      BY <2>6, <2>7, <2>9 DEF Windows
  <1> QED
    BY <1>4, <1>5 DEF Hit

LEMMA OtherWindows ==
  ASSUME IInv, Windows, [Next]_vars, ~ \E p \in Caller, r \in Request : Hit(p, r)
  PROVE  Windows'
  <1>1. UNCHANGED <<heap, held, route, hitAt>>
    BY OtherFacts
  <1>2. \A x \in Request : held[x] # None => held[x] \in Request /\ route[x] \in Caller
    BY DEF IInv, TypeOK, BucketsAreOpened
  <1>3. \A x \in Request : hitAt[x] \in Nat /\ heap[x].resetAt \in Nat
    BY DEF IInv, TypeOK, Bucket
  <1>4. now \in Nat /\ now' \in Nat /\ now <= now' /\ forgiven \subseteq forgiven'
    BY OtherFacts DEF IInv, TypeOK
  <1>5. BucketsBelong'
    BY <1>1, OtherFacts DEF Windows, BucketsBelong
  <1>6. WindowsTimed'
    BY <1>1, <1>2, <1>3, <1>4 DEF Windows, WindowsTimed
  <1>7. WindowsApart'
    BY <1>1, <1>4 DEF Windows, WindowsApart
  <1>8. OpenAreKept'
    <2> SUFFICES ASSUME NEW b \in Request, held[b] = b, now' < heap[b].resetAt,
                        BucketKey(route[b]) \notin forgiven'
                 PROVE  buckets'[BucketKey(route[b])] = b
      BY <1>1 DEF OpenAreKept
    <2>1. BucketKey(route[b]) \in Key
      BY <1>2, LimiterParts, RateLimitAssumption
    <2>2. buckets'[BucketKey(route[b])] = buckets[BucketKey(route[b])]
      BY <2>1, OtherFacts
    <2>3. now < heap[b].resetAt /\ BucketKey(route[b]) \notin forgiven
      BY <1>3, <1>4
    <2> QED
      BY <2>2, <2>3 DEF Windows, OpenAreKept
  <1> QED
    BY <1>5, <1>6, <1>7, <1>8 DEF Windows

LEMMA InitWindows == Init => Windows
  <1> SUFFICES ASSUME Init PROVE Windows
    OBVIOUS
  <1>1. \A r \in Request : held[r] = None /\ route[r] = None /\ r # None
    BY RateLimitAssumption DEF Init
  <1>2. \A k \in Key : buckets[k] = None
    BY DEF Init
  <1> QED
    BY <1>1, <1>2
    DEF Windows, BucketsBelong, WindowsTimed, WindowsApart, OpenAreKept

\* The buckets of a caller are consecutive windows of its limiter's length.
THEOREM WindowsInvariance ==
  ASSUME OneDefault PROVE Spec => []Windows
  <1>1. IInv /\ Windows /\ [Next]_vars => Windows'
    BY HitWindows, OtherWindows
  <1> QED
    BY Invariance, InitWindows, <1>1, PTL DEF Spec

\* All that is admitted within a window length of a caller's first hit was
\* counted in the bucket that hit opened.
LEMMA FirstWindow ==
  ASSUME IInv, Windows, NEW p \in Caller, BucketKey(p) \notin forgiven,
         NEW first \in Request, route[first] = p,
         \A r \in Request : route[r] = p => hitAt[first] <= hitAt[r],
         NEW r \in Request, route[r] = p,
         hitAt[r] < hitAt[first] + WindowMs[p[1]]
  PROVE  held[r] = held[first]
  <1> DEFINE b == held[first]
             c == held[r]
             w == WindowMs[p[1]]
  <1>1. w \in Nat \ {0} /\ p # None
    BY LimiterParts, CallerNotNone
  <1>2. status[first] # "new" /\ status[r] # "new"
    BY <1>1 DEF Windows, BucketsBelong
  <1>3. b \in Request /\ c \in Request /\ b # None /\ c # None
    BY <1>2, RateLimitAssumption DEF IInv, TypeOK
  <1>4. held[b] = b /\ held[c] = c
    BY <1>3 DEF IInv, BucketsAreOpened
  <1>5. route[b] = p /\ route[c] = p
    BY <1>3 DEF Windows, BucketsBelong
  <1>6. \A x \in Request : hitAt[x] \in Nat /\ heap[x].resetAt \in Nat
    BY DEF IInv, TypeOK, Bucket
  <1>7. heap[b].resetAt = hitAt[b] + w /\ heap[c].resetAt = hitAt[c] + w
    BY <1>3, <1>4, <1>5 DEF Windows, WindowsTimed
  <1>8. hitAt[b] <= hitAt[first] /\ hitAt[c] <= hitAt[r]
    BY <1>3 DEF Windows, WindowsTimed
  <1>9. hitAt[first] <= hitAt[b] /\ hitAt[first] <= hitAt[c]
    BY <1>3, <1>5
  <1>10. hitAt[b] = hitAt[first]
    BY <1>3, <1>6, <1>8, <1>9
  <1>11. ~(heap[b].resetAt <= hitAt[c])
    BY <1>1, <1>3, <1>6, <1>7, <1>8, <1>10
  <1>12. ~(heap[c].resetAt <= hitAt[b])
    BY <1>1, <1>3, <1>6, <1>7, <1>9, <1>10
  <1> QED
    BY <1>3, <1>4, <1>5, <1>11, <1>12 DEF Windows, WindowsApart

LEMMA WindowsKeepMax == IInv /\ Windows => AtMostMaxPerWindow
  <1> SUFFICES ASSUME IInv, Windows, NEW p \in Caller, BucketKey(p) \notin forgiven,
                      NEW first \in {r \in Request : route[r] = p},
                      \A r \in {x \in Request : route[x] = p} : hitAt[first] <= hitAt[r]
               PROVE  Cardinality({r \in {x \in Request : route[x] = p} \cap Admitted :
                                     hitAt[r] < hitAt[first] + WindowMs[p[1]]}) <= Max[p[1]]
    BY DEF AtMostMaxPerWindow
  <1> DEFINE early == {r \in {x \in Request : route[x] = p} \cap Admitted :
                         hitAt[r] < hitAt[first] + WindowMs[p[1]]}
             b == held[first]
             l == p[1]
  <1>1. l \in Limiter /\ Max[l] \in Nat /\ p # None
    BY LimiterParts, CallerNotNone
  <1>2. b \in Request
    <2>1. status[first] # "new"
      BY <1>1 DEF Windows, BucketsBelong
    <2> QED
      BY <2>1 DEF IInv, TypeOK
  <1>3. early \subseteq AdmittedIn(b, l)
    BY FirstWindow DEF AdmittedIn, Admitted
  <1>4. IsFiniteSet(AdmittedIn(b, l))
    BY FS_Subset, RateLimitAssumption DEF AdmittedIn, Admitted
  <1>5. Cardinality(early) <= Cardinality(AdmittedIn(b, l))
    BY <1>3, <1>4, FS_Subset
  <1>6. Cardinality(AdmittedIn(b, l)) <= Max[l]
    BY <1>1, <1>2 DEF IInv, NeverOverAdmitted, AdmittedIn
  <1>7. Cardinality(early) \in Nat /\ Cardinality(AdmittedIn(b, l)) \in Nat
    BY <1>3, <1>4, FS_Subset, FS_CardinalityType
  <1> QED
    BY <1>1, <1>5, <1>6, <1>7

\* Of the hits within windowMs of a caller's first, at most max are admitted, for
\* every interleaving of hits, awaits, sweeps and resets of other keys.
THEOREM MaxPerWindow ==
  ASSUME OneDefault PROVE Spec => []AtMostMaxPerWindow
  <1> QED
    BY Invariance, WindowsInvariance, WindowsKeepMax, PTL

-----------------------------------------------------------------------------
(***************************************************************************)
(* The refinement: the limiters implement the promise of FixedWindow.      *)
(***************************************************************************)
\* The caller's open window, when each window closes and whom it let in, as the
\* limiters' state determines them.
Current == [p \in Caller |-> IF Live(BucketKey(p)) THEN buckets[BucketKey(p)] ELSE None]
ClosesAt == [r \in Request |-> heap[r].resetAt]
Granted == [w \in Request |-> {r \in Admitted : held[r] = w}]

\* FixedWindow counts as this module does.
LEMMA AbstractCardinality == \A S : FW!Cardinality(S) = Cardinality(S)
  BY DEF FW!Cardinality, Cardinality

LEMMA MapsInit == Init => FW!Init
  <1> SUFFICES ASSUME Init PROVE FW!Init
    OBVIOUS
  <1>1. now \in Nat /\ route = [r \in Request |-> None]
    BY RateLimitAssumption DEF Init
  <1>2. Current = [p \in Caller |-> None]
    BY LimiterParts DEF Current, Init, Live
  <1>3. ClosesAt = [w \in Request |-> 0]
    BY DEF ClosesAt, Init
  <1>4. Granted = [w \in Request |-> {}]
    BY DEF Granted, Admitted, Init
  <1> QED
    BY <1>1, <1>2, <1>3, <1>4 DEF FW!Init, Current, ClosesAt, Granted

\* A hit admits nobody yet.
LEMMA HitGrantsNobody ==
  ASSUME IInv, NEW p \in Caller, NEW r \in Request, Hit(p, r)
  PROVE  Granted' = Granted
  <1>1. Admitted' = Admitted /\ \A x \in Admitted : held'[x] = held[x]
    BY DEF Hit, HitNew, HitExisting, Admitted, IInv, TypeOK
  <1> QED
    BY <1>1 DEF Granted

LEMMA MapsHitNew ==
  ASSUME OneDefault, IInv, Windows, NEW p \in Caller, NEW r \in Request,
         Hit(p, r), HitNew(p, r)
  PROVE  FW!Open(p, r)
  <1> DEFINE k == BucketKey(p)
  <1>1. route[r] = None
    BY HitNewFacts DEF Windows, BucketsBelong
  <1>2. Current[p] = None
    BY HitNewFacts DEF Current
  <1>3. route' = [route EXCEPT ![r] = p]
    BY DEF Hit
  <1>4. Current' = [Current EXCEPT ![p] = r]
    <2>1. ASSUME NEW q \in Caller
          PROVE  (IF Live(BucketKey(q))' THEN buckets'[BucketKey(q)] ELSE None)
                   = IF q = p THEN r ELSE Current[q]
      <3>1. BucketKey(q) \in Key /\ WindowMs[p[1]] \in Nat \ {0} /\ now \in Nat /\ r # None
        BY LimiterParts, RateLimitAssumption DEF IInv, TypeOK
      <3>2. CASE q = p
        BY <3>1, <3>2, HitNewFacts DEF Live
      <3>3. CASE q # p
        <4> DEFINE j == BucketKey(q)
        <4>1. j # k
          BY <3>3, OneCallerPerKey
        <4>2. buckets'[j] \in {buckets[j], None} /\ buckets[j] # r /\ now' = now
          BY <3>1, <4>1, HitNewFacts
        <4>3. CASE Live(j)
          <5>1. buckets'[j] = buckets[j] /\ buckets[j] \in Request /\ buckets[j] # None
            BY <3>1, <4>1, <4>3, HitNewFacts DEF Live, IInv, TypeOK
          <5>2. heap'[buckets[j]].resetAt = heap[buckets[j]].resetAt
            BY <4>2, <5>1, HitNewFacts
          <5> QED
            BY <3>3, <4>2, <4>3, <5>1, <5>2 DEF Live, Current
        <4>4. CASE ~Live(j)
          <5>1. CASE buckets'[j] = None
            BY <3>3, <4>4, <5>1 DEF Live, Current
          <5>2. CASE buckets'[j] # None
            <6>1. buckets'[j] = buckets[j] /\ buckets[j] \in Request
              BY <3>1, <4>2, <5>2 DEF IInv, TypeOK
            <6>2. heap'[buckets[j]].resetAt = heap[buckets[j]].resetAt
              BY <4>2, <6>1, HitNewFacts
            <6> QED
              BY <3>3, <4>2, <4>4, <6>1, <6>2 DEF Live, Current
          <5> QED
            BY <5>1, <5>2
        <4> QED
          BY <4>3, <4>4
      <3> QED
        BY <3>2, <3>3
    <2> QED
      BY <2>1 DEF Current
  <1>5. ClosesAt' = [ClosesAt EXCEPT ![r] = now + WindowMs[p[1]]]
    <2>1. \A x \in Request :
             heap'[x].resetAt = IF x = r THEN now + WindowMs[p[1]] ELSE heap[x].resetAt
      BY HitNewFacts
    <2> QED
      BY <2>1 DEF ClosesAt
  <1>6. Granted' = Granted /\ now' = now
    BY HitGrantsNobody, HitNewFacts
  <1> QED
    BY <1>1, <1>2, <1>3, <1>4, <1>5, <1>6 DEF FW!Open, Current, ClosesAt, Granted

LEMMA MapsHitExisting ==
  ASSUME IInv, Windows, NEW p \in Caller, NEW r \in Request, Hit(p, r), HitExisting(p, r)
  PROVE  FW!Join(p, r)
  <1>1. route[r] = None
    BY HitExistingFacts DEF Windows, BucketsBelong
  <1>2. Current[p] # None
    BY HitExistingFacts DEF Current, Live
  <1>3. route' = [route EXCEPT ![r] = p]
    BY DEF Hit
  <1>4. Current' = Current
    <2>1. ASSUME NEW j \in Key PROVE Live(j)' <=> Live(j)
      <3>1. buckets' = buckets /\ now' = now
        BY HitExistingFacts
      <3>2. CASE buckets[j] = None
        BY <3>1, <3>2 DEF Live
      <3>3. CASE buckets[j] # None
        <4>1. buckets[j] \in Request
          BY <3>3 DEF IInv, TypeOK
        <4> QED
          BY <3>1, <4>1, HitExistingFacts DEF Live
      <3> QED
        BY <3>2, <3>3
    <2> QED
      BY <2>1, LimiterParts, HitExistingFacts DEF Current
  <1>5. ClosesAt' = ClosesAt
    BY HitExistingFacts DEF ClosesAt
  <1>6. Granted' = Granted /\ now' = now
    BY HitGrantsNobody, HitExistingFacts
  <1> QED
    BY <1>1, <1>2, <1>3, <1>4, <1>5, <1>6 DEF FW!Join, Current, ClosesAt, Granted

LEMMA MapsAdmit ==
  ASSUME IInv, Windows, NEW r \in Request, Admit(r), NEW CONSTANT w, w = held[r]
  PROVE  w \in Request /\ FW!Admit(w, r)
  <1>1. status[r] = "hit" /\ w \in Request /\ w # None /\ route[r] \in Caller /\ route[r] # None
    BY DEF Admit, IInv, TypeOK
  <1>2. route[w] = route[r] /\ held[w] = w
    BY <1>1 DEF Windows, BucketsBelong, IInv, BucketsAreOpened
  <1>3. ClosesAt[w] > 0
    <2>1. heap[w].resetAt = hitAt[w] + WindowMs[route[w][1]]
      BY <1>1, <1>2 DEF Windows, WindowsTimed
    <2>2. WindowMs[route[w][1]] \in Nat \ {0} /\ hitAt[w] \in Nat
      BY <1>1, <1>2, LimiterParts DEF IInv, TypeOK
    <2> QED
      BY <1>1, <2>1, <2>2 DEF ClosesAt
  <1>4. \A v \in Request : r \notin Granted[v]
    BY <1>1 DEF Granted, Admitted
  <1>5. Cardinality(Granted[w]) < [p \in Caller |-> Max[p[1]]][route[w]]
    <2>1. IsFiniteSet(Holders(w))
      BY FS_Subset, RateLimitAssumption DEF Holders
    <2>2. Granted[w] \subseteq Holders(w) \ {r} /\ r \in Holders(w)
      BY <1>1 DEF Granted, Admitted, Holders
    <2>3. Cardinality(Holders(w) \ {r}) = Cardinality(Holders(w)) - 1
          /\ IsFiniteSet(Holders(w) \ {r})
      BY <2>1, <2>2, FS_RemoveElement
    <2>4. Cardinality(Granted[w]) <= Cardinality(Holders(w) \ {r})
      BY <2>2, <2>3, FS_Subset
    <2>5. Cardinality(Holders(w)) <= Max[route[w][1]]
      BY <1>1, <1>2 DEF Admit, IInv, CountIsHolders
    <2>6. Cardinality(Granted[w]) \in Nat /\ Cardinality(Holders(w)) \in Nat
      BY <2>1, <2>2, <2>3, FS_Subset, FS_CardinalityType
    <2>7. Max[route[w][1]] \in Nat /\ route[w] \in Caller
      BY <1>1, <1>2, LimiterParts
    <2> QED
      BY <2>3, <2>4, <2>5, <2>6, <2>7
  <1>6. Granted' = [Granted EXCEPT ![w] = @ \cup {r}]
    <2>1. \A x \in Request : status'[x] = IF x = r THEN "admitted" ELSE status[x]
      BY DEF Admit, IInv, TypeOK
    <2>2. held' = held
      BY DEF Admit
    <2>3. ASSUME NEW v \in Request
          PROVE  {x \in Admitted' : held[x] = v}
                   = IF v = w THEN {x \in Admitted : held[x] = v} \cup {r}
                     ELSE {x \in Admitted : held[x] = v}
      BY <2>1 DEF Admitted
    <2> QED
      BY <2>2, <2>3 DEF Granted
  <1>7. UNCHANGED <<now, route, Current, ClosesAt>>
    BY DEF Admit, store, Current, ClosesAt, Live
  <1> QED
    BY <1>1, <1>2, <1>3, <1>4, <1>5, <1>6, <1>7, AbstractCardinality
    DEF FW!Admit, Current, ClosesAt, Granted

\* Dropping the buckets of some keys is forgetting the windows of their callers.
LEMMA MapsForgive ==
  ASSUME IInv, NEW K \in SUBSET Key,
         buckets' = [k \in Key |-> IF k \in K THEN None ELSE buckets[k]],
         UNCHANGED <<now, heap, status, route, held>>
  PROVE  FW!Forgive({p \in Caller : BucketKey(p) \in K})
  <1> DEFINE S == {p \in Caller : BucketKey(p) \in K}
  <1>1. Current' = [p \in Caller |-> IF p \in S THEN None ELSE Current[p]]
    <2>1. ASSUME NEW p \in Caller
          PROVE  (IF Live(BucketKey(p))' THEN buckets'[BucketKey(p)] ELSE None)
                   = IF p \in S THEN None ELSE Current[p]
      <3>1. BucketKey(p) \in Key
        BY LimiterParts
      <3> QED
        BY <3>1 DEF Live, Current
    <2> QED
      BY <2>1 DEF Current
  <1>2. UNCHANGED <<ClosesAt, Granted>>
    BY DEF ClosesAt, Granted, Admitted
  <1> QED
    BY <1>1, <1>2 DEF FW!Forgive, Current, ClosesAt, Granted

LEMMA MapsTick ==
  ASSUME IInv, Tick
  PROVE  FW!Tick
  <1>1. now' = now + 1 /\ UNCHANGED <<buckets, heap, route, status, held>> /\ now \in Nat
    BY DEF Tick, store, IInv, TypeOK
  <1>2. Current' = [p \in Caller |->
                     IF Current[p] # None /\ ClosesAt[Current[p]] <= now + 1
                     THEN None ELSE Current[p]]
    <2>1. ASSUME NEW p \in Caller
          PROVE  (IF Live(BucketKey(p))' THEN buckets'[BucketKey(p)] ELSE None)
                   = IF Current[p] # None /\ ClosesAt[Current[p]] <= now + 1
                     THEN None ELSE Current[p]
      <3> DEFINE j == BucketKey(p)
      <3>1. j \in Key
        BY LimiterParts
      <3>2. CASE buckets[j] = None
        BY <1>1, <3>2 DEF Live, Current
      <3>3. CASE buckets[j] # None
        <4>1. buckets[j] \in Request /\ heap[buckets[j]].resetAt \in Nat
          BY <3>1, <3>3 DEF IInv, TypeOK, Bucket
        <4> QED
          BY <1>1, <3>3, <4>1 DEF Live, Current, ClosesAt
      <3> QED
        BY <3>2, <3>3
    <2> QED
      BY <2>1 DEF Current
  <1>3. UNCHANGED <<ClosesAt, Granted>>
    BY <1>1 DEF ClosesAt, Granted, Admitted
  <1> QED
    BY <1>1, <1>2, <1>3 DEF FW!Tick, Current, ClosesAt, Granted

LEMMA MapsReject ==
  ASSUME IInv, NEW r \in Request, Reject(r) \/ UNCHANGED vars
  PROVE  UNCHANGED FW!vars
  <1>1. UNCHANGED <<now, route, buckets, heap, held>> /\ Admitted' = Admitted
    BY DEF Reject, vars, store, Admitted, IInv, TypeOK
  <1> QED
    BY <1>1 DEF FW!vars, Live

LEMMA MapsNext ==
  ASSUME OneDefault, IInv, Windows, [Next]_vars
  PROVE  [FW!Next]_(FW!vars)
  <1>1. ASSUME NEW p \in Caller, NEW r \in Request, Hit(p, r) PROVE FW!Next
    BY <1>1, MapsHitNew, MapsHitExisting DEF Hit, FW!Next
  <1>2. ASSUME NEW r \in Request, Admit(r) PROVE FW!Next
    <2>1. PICK w : w = held[r]
      OBVIOUS
    <2>2. w \in Request /\ FW!Admit(w, r)
      BY <1>2, <2>1, MapsAdmit
    <2> QED
      BY <2>2 DEF FW!Next
  <1>3. ASSUME NEW r \in Request, Reject(r) PROVE UNCHANGED FW!vars
    BY <1>3, MapsReject
  <1>4. ASSUME NEW k \in Key, Reset(k) PROVE FW!Next
    <2>1. buckets' = [j \in Key |-> IF j \in {k} THEN None ELSE buckets[j]]
      BY <1>4 DEF Reset, IInv, TypeOK
    <2>2. FW!Forgive({p \in Caller : BucketKey(p) \in {k}})
      BY <1>4, <2>1, MapsForgive DEF Reset
    <2> QED
      BY <2>2 DEF FW!Next
  <1>5. ASSUME UseStore PROVE FW!Next
    <2> DEFINE K == {k \in Key : StoreOfKey(k) = "throttle"}
    <2>1. buckets' = [j \in Key |-> IF j \in K THEN None ELSE buckets[j]]
      BY <1>5 DEF UseStore
    <2>2. FW!Forgive({p \in Caller : BucketKey(p) \in K})
      BY <1>5, <2>1, MapsForgive DEF UseStore
    <2> QED
      BY <2>2 DEF FW!Next
  <1>6. ASSUME Tick PROVE FW!Next
    BY <1>6, MapsTick DEF FW!Next
  <1>7. ASSUME UNCHANGED vars PROVE UNCHANGED FW!vars
    BY <1>7 DEF FW!vars, vars, store, Live, Admitted
  <1> QED
    BY <1>1, <1>2, <1>3, <1>4, <1>5, <1>6, <1>7 DEF Next

\* Every behaviour of the limiters is one of the fixed windows they promise: a
\* hit opens or joins its caller's window, an admission takes one of the window's
\* places, and a rejection changes nothing.
THEOREM Refinement ==
  ASSUME OneDefault PROVE Spec => ImplementsFixedWindow
  <1>1. IInv /\ Windows /\ [Next]_vars => [FW!Next]_(FW!vars)
    BY MapsNext
  <1> QED
    BY Invariance, WindowsInvariance, MapsInit, <1>1, PTL
    DEF Spec, ImplementsFixedWindow, FW!Spec
=============================================================================
