-------------------------------- MODULE Cache -------------------------------
(***************************************************************************)
(* Cache of packages/cache over a MemoryStore: a Map of bounded size, kept *)
(* here as the sequence of its entries in insertion order. Every operation *)
(* of the store is one step, as none of them awaits; remember and pull of  *)
(* the facade make several, and others come in between.                    *)
(*                                                                         *)
(* Data keys cache `source', a number that grows with every change of what *)
(* the factories read; counter keys are incremented.                       *)
(***************************************************************************)
EXTENDS Naturals, Sequences, FiniteSetsExt, Subsequences

CONSTANTS Caller,       \* callers of remember and pull
          Data, Counter,  \* the keys
          Ttl,          \* TTLs in use
          MaxEntries,
          Horizon, MaxSource, MaxCount  \* bounds

ASSUME CacheAssumption ==
    /\ Data \cap Counter = {} /\ Ttl \subseteq Nat \ {0} /\ IsFiniteSet(Ttl)
    /\ MaxEntries \in Nat \ {0}
    /\ Horizon \in Nat /\ MaxSource \in Nat /\ MaxCount \in Nat

VARIABLES now, source,
          entries,   \* MemoryStore.entries
          call,      \* Caller -> what it is at
          \* History, which no step of the code reads:
          fresh,     \* Data -> source when the key was last put or forgotten
          overlap    \* data keys put or forgotten while a remember held an older value

cacheVars == <<now, source, entries, call, fresh, overlap>>
history == <<fresh, overlap>>

\* An expiresAt no clock reaches, for null.
Never == 1 + Horizon + Max(Ttl \cup {0})
Expiry(ttl) == IF ttl = 0 THEN Never ELSE now + ttl  \* 0: no ttl given
Idle == [at |-> "idle"]

CacheInit ==
    /\ now = 0 /\ source = 0 /\ entries = <<>>
    /\ call = [c \in Caller |-> Idle]
    /\ fresh = [k \in Data |-> 0] /\ overlap = {}
-----------------------------------------------------------------------------
Live(e) == e.expires > now
Keys(s) == {s[i].key : i \in DOMAIN s}
Without(s, k) == Only(s, {i \in DOMAIN s : s[i].key # k})
Sweep(s) == Only(s, {i \in DOMAIN s : Live(s[i])})

\* MemoryStore.read deletes a dead entry on the way.
AfterRead(k) ==
    Only(entries, {i \in DOMAIN entries : entries[i].key # k \/ Live(entries[i])})
Found(k) == k \in Keys(Sweep(entries))
Get(k) == entries[CHOOSE i \in DOMAIN entries : entries[i].key = k]

\* Seeded defect: whatever is oldest goes.
EvictOldest(s) == IF Len(Sweep(s)) < MaxEntries THEN Sweep(s) ELSE Tail(Sweep(s))

\* MemoryStore.evictOne: if sweeping makes no room, the first of those that expire soonest
\* goes; entries without expiry come last, the oldest first.
EvictOne(s) ==
    LET live == Sweep(s)
        first == CHOOSE i \in DOMAIN live : \A j \in DOMAIN live :
                    \/ live[i].expires < live[j].expires
                    \/ live[i].expires = live[j].expires /\ i <= j
    IN  IF Len(live) < MaxEntries THEN live ELSE Only(live, DOMAIN live \ {first})

\* MemoryStore.write; the entry of a known key keeps its place in the Map.
Write(s, k, v, expires) ==
    LET e == [key |-> k, value |-> v, expires |-> expires]
    IN  IF k \in Keys(s) THEN [i \in DOMAIN s |-> IF s[i].key = k THEN e ELSE s[i]]
        ELSE Append(IF Len(s) >= MaxEntries THEN EvictOne(s) ELSE s, e)
-----------------------------------------------------------------------------
\* A put or forget of k: it is up to date, but for remembers that hold an older value.
Renews(k) ==
    /\ fresh' = [fresh EXCEPT ![k] = source]
    /\ overlap' = IF \E c \in Caller : /\ call[c].at = "store" /\ call[c].key = k
                                      /\ call[c].value < source
                  THEN overlap \cup {k} ELSE overlap \ {k}

Put(k, ttl) ==
    /\ entries' = Write(entries, k, source, Expiry(ttl))
    /\ Renews(k)
    /\ UNCHANGED <<now, source, call>>

Forget(k) ==
    /\ entries' = Without(entries, k)
    /\ IF k \in Data THEN Renews(k) ELSE UNCHANGED history
    /\ UNCHANGED <<now, source, call>>

Flush ==
    /\ entries' = <<>>
    /\ UNCHANGED <<now, source, call, history>>

\* increment and decrement keep the expiry of a live entry. A TTL is used to create one.
Increment(k, ttl) ==
    /\ Found(k) => Get(k).value < MaxCount
    /\ entries' = IF Found(k) THEN Write(entries, k, Get(k).value + 1, Get(k).expires)
                  ELSE Write(AfterRead(k), k, 1, Expiry(ttl))
    /\ UNCHANGED <<now, source, call, history>>

Becomes(c, state) == call' = [call EXCEPT ![c] = state]

\* remember and rememberForever: read, and if it is a miss await the factory, which looks
\* at the source at some time, and store what it returns.
Remember(c, k) ==
    /\ call[c] = Idle
    /\ entries' = AfterRead(k)
    /\ Becomes(c, IF Found(k) THEN Idle ELSE [at |-> "factory", key |-> k])
    /\ UNCHANGED <<now, source, history>>

Factory(c) ==
    /\ call[c].at = "factory"
    /\ Becomes(c, [at |-> "store", key |-> call[c].key, value |-> source])
    /\ UNCHANGED <<now, source, entries, history>>

\* A factory that throws caches nothing.
FactoryThrows(c) ==
    /\ call[c].at = "factory"
    /\ Becomes(c, Idle)
    /\ UNCHANGED <<now, source, entries, history>>

Store(c, ttl) ==
    /\ call[c].at = "store"
    /\ entries' = Write(entries, call[c].key, call[c].value, Expiry(ttl))
    /\ Becomes(c, Idle)
    /\ UNCHANGED <<now, source, history>>

\* Seeded defect: pull puts back what it has read, without its expiry, when it is done.
PullEndsLate(c) ==
    /\ call[c].at = "pull"
    /\ entries' = Write(entries, call[c].key, call[c].value, Never)
    /\ Becomes(c, Idle) /\ UNCHANGED <<now, source, history>>

\* pull: get, then forget what is there by then.
Pull(c, k) ==
    /\ call[c] = Idle
    /\ entries' = AfterRead(k)
    /\ Becomes(c, IF Found(k) THEN [at |-> "pull", key |-> k, value |-> Get(k).value]
                  ELSE Idle)
    /\ UNCHANGED <<now, source, history>>

PullEnds(c) ==
    /\ call[c].at = "pull"
    /\ entries' = Without(entries, call[c].key)
    /\ Becomes(c, Idle)
    /\ UNCHANGED <<now, source, history>>

Change ==
    /\ source < MaxSource
    /\ source' = source + 1
    /\ UNCHANGED <<now, entries, call, history>>

Tick ==
    /\ now < Horizon
    /\ now' = now + 1
    /\ UNCHANGED <<source, entries, call, history>>

CacheNext ==
    \/ \E k \in Data : \/ \E ttl \in Ttl \cup {0} : Put(k, ttl)
                       \/ \E c \in Caller : Remember(c, k) \/ Pull(c, k)
    \/ \E k \in Counter, ttl \in Ttl : Increment(k, ttl)
    \/ \E k \in Data \cup Counter : Forget(k)
    \/ \E c \in Caller : \/ Factory(c) \/ FactoryThrows(c) \/ PullEnds(c)
                         \/ \E ttl \in Ttl \cup {0} : Store(c, ttl)
    \/ Flush \/ Change \/ Tick

CacheSpec == CacheInit /\ [][CacheNext]_cacheVars
-----------------------------------------------------------------------------
\* "The entry closest to expiry is evicted, preferring expiring entries over ones stored
\* without a TTL", and only where nothing else made room: when a write for another key
\* drops a live entry, the store was full of live ones and none expires sooner. It never
\* grows past maxEntries.
EvictsClosestToExpiry ==
    [][/\ Len(entries') <= MaxEntries
       /\ \A k \in Keys(Sweep(entries)) \ Keys(entries') :
             Keys(entries') \ Keys(entries) # {} =>
                 /\ Len(Sweep(entries)) = MaxEntries
                 /\ \A i \in DOMAIN entries : Get(k).expires <= entries[i].expires]_cacheVars

\* What is cached under a key is no older than its last put or forget, unless a remember
\* had computed its value before it and stored it after.
StaleOnlyByOverlap ==
    \A i \in DOMAIN entries :
        LET e == entries[i]
        IN  e.key \in Data \ overlap => e.value >= fresh[e.key]
=============================================================================
