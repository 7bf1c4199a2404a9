------------------------- MODULE ApplicationProofs -------------------------
(***************************************************************************)
(* For every list of providers and every number of calls that do not       *)
(* overlap a boot(): connections are held by a prefix of the providers,    *)
(* none is lost, terminate() leaves none behind, and an application that   *)
(* counts as booted has them all.                                          *)
(*                                                                         *)
(* The argument: a boot() under way is alone, and the providers before the *)
(* one it is at hold a connection; those after the one a terminate() is at *)
(* hold none, and the one it is at holds no more than is being closed.     *)
(*                                                                         *)
(* For every set of tokens and factories: what a container makes, and why  *)
(* it may fail to. The stack is a chain of needs, of tokens that are bound *)
(* and not resolved; so one that is met again on it needs itself, which is *)
(* shown by induction along the chain, and an error keeps its reason while *)
(* it is on its way out, each caller needing what has failed.              *)
(*                                                                         *)
(* For every text of .env that is built of entries: what parseDotenv reads *)
(* is what was written. An entry is one round of it, with anything behind  *)
(* the entry, and what is written between quotes is read back character by *)
(* character; both by induction on the rounds. And a load() that comes to  *)
(* the end is one in which no file has thrown, now or before.              *)
(***************************************************************************)
EXTENDS Application, Container, Config, SequenceTheorems, FiniteSetTheorems, WellFoundedInduction,
        TLAPS

\* A boot() under way is the only call under way.
BootIsAlone ==
    \A c, d \in Call : Booting(c) /\ (Booting(d) \/ Terminating(d)) => c = d

\* Where boot() has been, connections are held; where it awaits one, none is yet.
BootGoesUp ==
    \A c \in Call : call[c].at \in {"booting", "connecting"} =>
        /\ bound = Provider
        /\ \A p \in Provider : p < call[c].i => held[p] # {}
        /\ call[c].at = "connecting" => held[call[c].i] = {} /\ Kind[call[c].i] # "worker"

\* Where terminate() has been, none is held; what it closes is all that is held.
ShutdownGoesDown ==
    \A c \in Call : Terminating(c) =>
        /\ \A p \in Provider : p > call[c].i => held[p] = {}
        /\ call[c].at = "ending" => held[call[c].i] \subseteq call[c].closes

Prefix == \A p, q \in Provider : p < q /\ held[q] # {} => held[p] # {}
OrLeaked == \A p \in Provider : \A id \in open[p] \ held[p] : <<p, id>> \in leaked

Core == BootIsAlone /\ BootGoesUp /\ ShutdownGoesDown /\ Prefix /\ OrLeaked
IInv == TypeOK /\ (~overlap => Core)
-----------------------------------------------------------------------------
LEMMA KindLength == Len(Kind) \in Nat \ {0} /\ \A p \in Provider : Kind[p] \in Kinds
  BY ApplicationAssumption DEF Provider

CallRecord == [at : Places, i : 0..Len(Kind) + 1, closes : SUBSET Id]
\* A call is at a provider when it awaits one.
Placed(rec) ==
    /\ rec.at = "booting" => rec.i > 0
    /\ rec.at \in {"connecting", "ending"} => rec.i \in Provider
    /\ rec.at = "closing" => rec.i <= Len(Kind)

LEMMA TypeParts ==
  TypeOK <=> /\ booted \in BOOLEAN /\ overlap \in BOOLEAN
             /\ bound \subseteq Provider
             /\ held \in [Provider -> SUBSET Id] /\ open \in [Provider -> SUBSET Id]
             /\ leaked \subseteq Provider \X Id
             /\ call \in [Call -> CallRecord]
             /\ \A c \in Call : Placed(call[c])
  BY Zenon DEF TypeOK, CallRecord, Placed

\* A step of one call keeps the types when it puts the call at a place it may be.
LEMMA TypeStep ==
  ASSUME TypeOK, NEW c \in Call, NEW rec \in CallRecord, Placed(rec),
         call' = [call EXCEPT ![c] = rec],
         booted' \in BOOLEAN, overlap' \in BOOLEAN, bound' \subseteq Provider,
         held' \in [Provider -> SUBSET Id], open' \in [Provider -> SUBSET Id],
         leaked' \subseteq Provider \X Id
  PROVE  /\ TypeOK'
         /\ call'[c] = rec
         /\ \A d \in Call \ {c} : call'[d] = call[d]
  <1>1. call \in [Call -> CallRecord] /\ \A d \in Call : Placed(call[d])
    BY TypeParts
  <1>2. /\ call' \in [Call -> CallRecord]
        /\ call'[c] = rec
        /\ \A d \in Call \ {c} : call'[d] = call[d]
    BY <1>1
  <1>3. \A d \in Call : Placed(call'[d])
    BY <1>1, <1>2
  <1>4. /\ \A d \in Call : call'[d].at = "booting" => call'[d].i > 0
        /\ \A d \in Call : call'[d].at \in {"connecting", "ending"} => call'[d].i \in Provider
        /\ \A d \in Call : call'[d].at = "closing" => call'[d].i <= Len(Kind)
    BY <1>3 DEF Placed
  <1>5. TypeOK'
    BY <1>2, <1>4, Zenon DEF TypeOK, CallRecord
  <1> QED
    BY <1>2, <1>5

LEMMA InitIInv == Init => IInv
  <1> SUFFICES ASSUME Init PROVE IInv
    OBVIOUS
  <1>1. TypeOK
    <2>1. call \in [Call -> [at : Places, i : 0..Len(Kind) + 1, closes : SUBSET Id]]
      BY KindLength DEF Init, Places
    <2>2. held \in [Provider -> SUBSET Id] /\ open \in [Provider -> SUBSET Id]
      BY DEF Init
    <2>3. \A c \in Call : call[c].at = "idle"
      BY DEF Init
    <2> QED
      BY <2>1, <2>2, <2>3 DEF Init, TypeOK
  <1>2. Core
    BY DEF Init, Core, BootIsAlone, BootGoesUp, ShutdownGoesDown, Prefix, OrLeaked,
           Booting, Terminating
  <1> QED
    BY <1>1, <1>2 DEF IInv
-----------------------------------------------------------------------------
\* A step that only moves a call.
LEMMA Moves ==
  ASSUME TypeOK, NEW c \in Call, NEW place \in Places, NEW i \in 0..Len(Kind) + 1,
         Goes(c, place, i), Placed([at |-> place, i |-> i, closes |-> {}]),
         booted' \in BOOLEAN, overlap' \in BOOLEAN, bound' \subseteq Provider,
         UNCHANGED connections
  PROVE  /\ TypeOK'
         /\ call'[c] = [at |-> place, i |-> i, closes |-> {}]
         /\ \A d \in Call \ {c} : call'[d] = call[d]
  <1> DEFINE rec == [at |-> place, i |-> i, closes |-> {}]
  <1>1. rec \in CallRecord
    BY DEF CallRecord
  <1>2. call' = [call EXCEPT ![c] = rec]
    BY DEF Goes
  <1>3. /\ held' \in [Provider -> SUBSET Id] /\ open' \in [Provider -> SUBSET Id]
        /\ leaked' \subseteq Provider \X Id
    BY TypeParts DEF connections
  <1> HIDE DEF rec
  <1>4. TypeOK' /\ call'[c] = rec /\ \A d \in Call \ {c} : call'[d] = call[d]
    BY <1>1, <1>2, <1>3, TypeStep DEF rec
  <1> QED
    BY <1>4 DEF rec
-----------------------------------------------------------------------------
\* The calls a step leaves alone keep what the invariant says of them.
LEMMA BootIInv ==
  ASSUME IInv, NEW c \in Call, Boot(c)
  PROVE  IInv'
  <1>1. TypeOK /\ UNCHANGED <<booted, bound, connections>> /\ overlap' \in BOOLEAN
    BY DEF IInv, Boot
  <1>2. PICK place \in {"done", "loading"} : Goes(c, place, 0)
    BY DEF Boot
  <1>3. /\ TypeOK'
        /\ call'[c] = [at |-> place, i |-> 0, closes |-> {}]
        /\ \A d \in Call \ {c} : call'[d] = call[d]
    BY <1>1, <1>2, Moves, TypeParts, KindLength DEF Places, Placed
  <1>4. ASSUME ~overlap' PROVE Core'
    <2>1. ~overlap /\ \A d \in Call : ~Booting(d) /\ ~Terminating(d)
      BY <1>4 DEF Boot
    <2>2. BootIsAlone' /\ ShutdownGoesDown' /\ BootGoesUp'
      BY <1>3, <2>1 DEF BootIsAlone, ShutdownGoesDown, BootGoesUp, Booting, Terminating
    <2>3. Prefix' /\ OrLeaked'
      BY <1>1, <2>1 DEF IInv, Core, Prefix, OrLeaked, connections
    <2> QED
      BY <2>2, <2>3 DEF Core
  <1> QED
    BY <1>3, <1>4 DEF IInv

LEMMA TerminateIInv ==
  ASSUME IInv, NEW c \in Call, Terminate(c)
  PROVE  IInv'
  <1>1. TypeOK /\ UNCHANGED <<booted, bound, connections>> /\ overlap' \in BOOLEAN
    BY DEF IInv, Terminate
  <1>2. /\ TypeOK'
        /\ call'[c] = [at |-> "closing", i |-> Len(Kind), closes |-> {}]
        /\ \A d \in Call \ {c} : call'[d] = call[d]
    BY <1>1, Moves, TypeParts, KindLength DEF Places, Placed, Terminate
  <1>3. ASSUME ~overlap' PROVE Core'
    <2>1. ~overlap /\ Core /\ \A d \in Call : ~Booting(d)
      BY <1>3 DEF IInv, Terminate
    <2>2. BootIsAlone' /\ BootGoesUp'
      BY <1>2, <2>1 DEF BootIsAlone, BootGoesUp, Booting, Terminating
    <2>3. ShutdownGoesDown'
      BY <1>1, <1>2, <2>1, KindLength
         DEF Core, ShutdownGoesDown, Terminating, connections, Provider
    <2>4. Prefix' /\ OrLeaked'
      BY <1>1, <2>1 DEF Core, Prefix, OrLeaked, connections
    <2> QED
      BY <2>2, <2>3, <2>4 DEF Core
  <1> QED
    BY <1>2, <1>3 DEF IInv

\* A call that fails, or is done, with nothing else changed.
LEMMA RestIInv ==
  ASSUME IInv, NEW c \in Call, NEW place \in {"done", "failed"}, NEW i \in 0..Len(Kind) + 1,
         Goes(c, place, i), booted' \in BOOLEAN, UNCHANGED <<bound, connections, overlap>>
  PROVE  IInv'
  <1>1. TypeOK /\ overlap' \in BOOLEAN /\ bound' \subseteq Provider
    BY DEF IInv, TypeOK
  <1>2. /\ TypeOK'
        /\ call'[c] = [at |-> place, i |-> i, closes |-> {}]
        /\ \A d \in Call \ {c} : call'[d] = call[d]
    <2>1. Placed([at |-> place, i |-> i, closes |-> {}]) /\ place \in Places
      BY DEF Places, Placed
    <2> QED
      BY <1>1, <2>1, Moves
  <1>3. ASSUME ~overlap' PROVE Core'
    <2>1. Core
      BY <1>3 DEF IInv
    <2>2. BootIsAlone' /\ ShutdownGoesDown' /\ BootGoesUp'
      BY <1>2, <2>1
         DEF Core, BootIsAlone, ShutdownGoesDown, BootGoesUp, Booting, Terminating, connections
    <2>3. Prefix' /\ OrLeaked'
      BY <2>1 DEF Core, Prefix, OrLeaked, connections
    <2> QED
      BY <2>2, <2>3 DEF Core
  <1> QED
    BY <1>2, <1>3 DEF IInv

LEMMA RegisterIInv ==
  ASSUME IInv, NEW c \in Call, Register(c)
  PROVE  IInv'
  <1>1. TypeOK /\ UNCHANGED <<booted, connections, overlap>> /\ call[c].at = "loading"
    BY DEF IInv, Register
  <1>2. \/ bound' = Provider /\ Goes(c, "booting", 1)
        \/ bound' \subseteq Provider /\ Goes(c, "failed", 0)
    <2>1. bound \subseteq Provider /\ \A p \in Provider : 1..p - 1 \subseteq Provider
      BY <1>1, KindLength DEF Provider, TypeOK
    <2>2. \/ bound' = Provider /\ Goes(c, "booting", 1)
          \/ (\E p \in Provider : bound' = bound \cup 1..p - 1) /\ Goes(c, "failed", 0)
          \/ bound' = bound /\ Goes(c, "failed", 0)
      BY Zenon DEF Register
    <2>3. ASSUME NEW p \in Provider, bound' = bound \cup 1..p - 1
          PROVE  bound' \subseteq Provider
      BY <2>1, <2>3
    <2> QED
      BY <2>1, <2>2, <2>3
  <1>3. PICK place \in {"booting", "failed"}, i \in {0, 1} :
          /\ Goes(c, place, i)
          /\ place = "booting" => bound' = Provider /\ i = 1
    BY <1>2
  <1>4. /\ TypeOK'
        /\ call'[c] = [at |-> place, i |-> i, closes |-> {}]
        /\ \A d \in Call \ {c} : call'[d] = call[d]
    <2>1. bound' \subseteq Provider /\ booted' \in BOOLEAN /\ overlap' \in BOOLEAN
      BY <1>1, <1>2 DEF TypeOK
    <2>2. Placed([at |-> place, i |-> i, closes |-> {}]) /\ i \in 0..Len(Kind) + 1
      BY <1>3, KindLength DEF Placed
    <2> QED
      BY <1>1, <1>3, <2>1, <2>2, Moves DEF Places
  <1>5. ASSUME ~overlap' PROVE Core'
    <2>1. Core /\ Booting(c) /\ \A d \in Call \ {c} : ~Booting(d) /\ ~Terminating(d)
      BY <1>1, <1>5 DEF IInv, Core, BootIsAlone, Booting
    <2>2. BootIsAlone' /\ ShutdownGoesDown'
      BY <1>4, <2>1 DEF BootIsAlone, ShutdownGoesDown, Booting, Terminating
    <2>3. BootGoesUp'
      BY <1>3, <1>4, <2>1, KindLength DEF BootGoesUp, Booting, Provider
    <2>4. Prefix' /\ OrLeaked'
      BY <1>1, <2>1 DEF Core, Prefix, OrLeaked, connections
    <2> QED
      BY <2>2, <2>3, <2>4 DEF Core
  <1> QED
    BY <1>4, <1>5 DEF IInv

LEMMA ConnectIInv ==
  ASSUME IInv, NEW c \in Call, Connect(c)
  PROVE  IInv'
  <1>p. PICK p \in Provider : p = call[c].i
    BY DEF Connect
  <1>1. /\ TypeOK /\ UNCHANGED <<booted, bound, connections, overlap>>
        /\ call[c].at = "booting" /\ Kind[p] # "worker"
        /\ booted' \in BOOLEAN /\ overlap' \in BOOLEAN /\ bound' \subseteq Provider
    BY <1>p DEF IInv, Connect, TypeOK
  <1>2. \/ held[p] # {} /\ Goes(c, "booting", p + 1)
        \/ held[p] = {} /\ Goes(c, "connecting", p)
    BY <1>p DEF Connect
  <1>3. PICK place \in {"booting", "connecting"}, i \in {p, p + 1} :
          /\ Goes(c, place, i)
          /\ place = "booting" => held[p] # {} /\ i = p + 1
          /\ place = "connecting" => held[p] = {} /\ i = p
    BY <1>2
  <1>4. /\ TypeOK'
        /\ call'[c] = [at |-> place, i |-> i, closes |-> {}]
        /\ \A d \in Call \ {c} : call'[d] = call[d]
    <2>1. Placed([at |-> place, i |-> i, closes |-> {}]) /\ i \in 0..Len(Kind) + 1
      BY <1>3, KindLength DEF Placed, Provider
    <2>2. place \in Places /\ UNCHANGED connections
      BY <1>1 DEF Places
    <2> QED
      BY <1>1, <1>3, <2>1, <2>2, Moves
  <1>5. ASSUME ~overlap' PROVE Core'
    <2>1. Core /\ Booting(c) /\ \A d \in Call \ {c} : ~Booting(d) /\ ~Terminating(d)
      BY <1>1, <1>5 DEF IInv, Core, BootIsAlone, Booting
    <2>2. BootIsAlone' /\ ShutdownGoesDown'
      BY <1>4, <2>1 DEF BootIsAlone, ShutdownGoesDown, Booting, Terminating
    <2>3. bound = Provider /\ \A q \in Provider : q < p => held[q] # {}
      BY <1>p, <1>1, <2>1 DEF Core, BootGoesUp
    <2>4. BootGoesUp'
      BY <1>1, <1>3, <1>4, <2>1, <2>3 DEF BootGoesUp, Booting, Provider, connections
    <2>5. Prefix' /\ OrLeaked'
      BY <1>1, <2>1 DEF Core, Prefix, OrLeaked, connections
    <2> QED
      BY <2>2, <2>4, <2>5 DEF Core
  <1> QED
    BY <1>4, <1>5 DEF IInv

\* A provider gets a connection: connect() came back, or a worker was started.
LEMMA OpenedIInv ==
  ASSUME IInv, NEW c \in Call, NEW p \in Provider, p = call[c].i,
         call[c].at \in {"booting", "connecting"},
         NEW id \in Id, NEW kept \in {held[p], {}}, kept = held[p] \/ call[c].at = "connecting",
         held' = [held EXCEPT ![p] = kept \cup {id}],
         open' = [open EXCEPT ![p] = @ \cup {id}],
         NEW place \in {"booting", "failed"}, NEW i \in {p, p + 1},
         Goes(c, place, i), place = "booting" => i = p + 1, UNCHANGED <<booted, bound, leaked, overlap>>
  PROVE  IInv'
  <1>1. TypeOK /\ held \in [Provider -> SUBSET Id] /\ open \in [Provider -> SUBSET Id]
    BY DEF IInv, TypeOK
  <1>2. /\ TypeOK'
        /\ call'[c] = [at |-> place, i |-> i, closes |-> {}]
        /\ \A d \in Call \ {c} : call'[d] = call[d]
    <2> DEFINE rec == [at |-> place, i |-> i, closes |-> {}]
    <2>1. rec \in CallRecord /\ Placed(rec)
      BY KindLength DEF CallRecord, Placed, Places, Provider
    <2>2. held' \in [Provider -> SUBSET Id] /\ open' \in [Provider -> SUBSET Id]
      BY <1>1
    <2>3. /\ booted' \in BOOLEAN /\ overlap' \in BOOLEAN /\ bound' \subseteq Provider
          /\ leaked' \subseteq Provider \X Id
      BY <1>1 DEF TypeOK
    <2>4. call' = [call EXCEPT ![c] = rec]
      BY DEF Goes
    <2> HIDE DEF rec
    <2>5. TypeOK' /\ call'[c] = rec /\ \A d \in Call \ {c} : call'[d] = call[d]
      BY <1>1, <2>1, <2>2, <2>3, <2>4, TypeStep
    <2> QED
      BY <2>5 DEF rec
  <1>3. ASSUME ~overlap' PROVE Core'
    <2>1. Core /\ \A d \in Call \ {c} : ~Booting(d) /\ ~Terminating(d)
      BY <1>3 DEF IInv, Core, BootIsAlone, Booting
    <2>2. BootIsAlone' /\ ShutdownGoesDown'
      BY <1>2, <2>1 DEF BootIsAlone, ShutdownGoesDown, Booting, Terminating
    <2>3. bound = Provider /\ \A q \in Provider : q < p => held[q] # {}
      BY <2>1 DEF Core, BootGoesUp
    <2>4. /\ held'[p] = kept \cup {id} /\ open'[p] = open[p] \cup {id}
          /\ \A q \in Provider \ {p} : held'[q] = held[q] /\ open'[q] = open[q]
      BY <1>1
    <2>5. BootGoesUp'
      BY <1>2, <2>1, <2>3, <2>4 DEF BootGoesUp, Booting, Provider
    <2>6. Prefix'
      BY <2>1, <2>3, <2>4 DEF Core, Prefix, Provider
    <2>7. OrLeaked'
      <3>1. held[p] \subseteq kept
        BY <1>3, <2>1 DEF Core, BootGoesUp
      <3> QED
        BY <2>1, <2>4, <3>1 DEF Core, OrLeaked
    <2> QED
      BY <2>2, <2>5, <2>6, <2>7 DEF Core
  <1> QED
    BY <1>2, <1>3 DEF IInv

LEMMA ConnectedIInv ==
  ASSUME IInv, NEW c \in Call, Connected(c)
  PROVE  IInv'
  <1>p. PICK p \in Provider : p = call[c].i
    BY DEF Connected, IInv, TypeOK
  <1> DEFINE id == IF Kind[p] = "pool" THEN c ELSE Given
  <1>1. id \in Id
    BY DEF Id
  <1>2. /\ held' = [held EXCEPT ![p] = {} \cup {id}]
        /\ open' = [open EXCEPT ![p] = @ \cup {id}]
        /\ Goes(c, "booting", p + 1) /\ UNCHANGED <<booted, bound, leaked, overlap>>
        /\ call[c].at = "connecting"
    BY <1>p DEF Connected
  <1> HIDE DEF id
  <1>3. PICK place \in {"booting", "failed"}, i \in {p, p + 1} :
          Goes(c, place, i) /\ i = p + 1
    BY <1>2
  <1> QED
    BY <1>p, <1>1, <1>2, <1>3, OpenedIInv

LEMMA StartWorkerIInv ==
  ASSUME IInv, NEW c \in Call, StartWorker(c)
  PROVE  IInv'
  <1>p. PICK p \in Provider : p = call[c].i
    BY DEF StartWorker
  <1>1. c \in Id
    BY DEF Id
  <1>2. /\ held' = [held EXCEPT ![p] = held[p] \cup {c}]
        /\ open' = [open EXCEPT ![p] = @ \cup {c}]
        /\ Goes(c, "booting", p + 1) \/ Goes(c, "failed", p)
        /\ UNCHANGED <<booted, bound, leaked, overlap>>
        /\ call[c].at = "booting"
    BY <1>p DEF StartWorker
  <1>3. PICK place \in {"booting", "failed"}, i \in {p, p + 1} :
          Goes(c, place, i) /\ (place = "booting" => i = p + 1)
    BY <1>2
  <1> QED
    BY <1>p, <1>1, <1>2, <1>3, OpenedIInv

-----------------------------------------------------------------------------
LEMMA ShutdownIInv ==
  ASSUME IInv, NEW c \in Call, Shutdown(c)
  PROVE  IInv'
  <1>p. PICK p \in Provider : p = call[c].i
    BY DEF Shutdown
  <1>1. /\ TypeOK /\ UNCHANGED <<booted, bound, connections, overlap>>
        /\ call[c].at = "closing"
    BY DEF IInv, Shutdown
  <1>2. CASE Goes(c, "failed", p)
    <2>1. p \in 0..Len(Kind) + 1 /\ booted' \in BOOLEAN
      BY <1>1, KindLength DEF Provider, TypeOK
    <2> QED
      BY <1>1, <1>2, <2>1, RestIInv
  <1>3. ASSUME NEW rec \in CallRecord, Placed(rec), call' = [call EXCEPT ![c] = rec],
               \/ rec.at = "closing" /\ rec.i = p - 1 /\ held[p] = {}
               \/ rec.at = "ending" /\ rec.i = p /\ rec.closes = held[p]
        PROVE  IInv'
    <2>1. TypeOK' /\ call'[c] = rec /\ \A d \in Call \ {c} : call'[d] = call[d]
      <3>1. /\ booted' \in BOOLEAN /\ overlap' \in BOOLEAN /\ bound' \subseteq Provider
            /\ held' \in [Provider -> SUBSET Id] /\ open' \in [Provider -> SUBSET Id]
            /\ leaked' \subseteq Provider \X Id
        BY <1>1 DEF TypeOK, connections
      <3> QED
        BY <1>1, <1>3, <3>1, TypeStep
    <2>2. ASSUME ~overlap' PROVE Core'
      <3>1. Core /\ Terminating(c)
        BY <1>1, <2>2 DEF IInv, Terminating
      <3>2. BootIsAlone' /\ BootGoesUp'
        BY <1>1, <1>3, <2>1, <3>1
           DEF Core, BootIsAlone, BootGoesUp, Booting, Terminating, connections
      <3>3. \A q \in Provider : q > rec.i => held[q] = {}
        BY <1>p, <1>3, <3>1, KindLength DEF Core, ShutdownGoesDown, Provider
      <3>4. ShutdownGoesDown'
        BY <1>1, <1>3, <2>1, <3>1, <3>3 DEF Core, ShutdownGoesDown, Terminating, connections
      <3>5. Prefix' /\ OrLeaked'
        BY <1>1, <3>1 DEF Core, Prefix, OrLeaked, connections
      <3> QED
        BY <3>2, <3>4, <3>5 DEF Core
    <2> QED
      BY <2>1, <2>2 DEF IInv
  <1>4. CASE held[p] = {} /\ Goes(c, "closing", p - 1)
    <2> DEFINE rec == [at |-> "closing", i |-> p - 1, closes |-> {}]
    <2>1. rec \in CallRecord /\ Placed(rec)
      BY KindLength DEF CallRecord, Placed, Places, Provider
    <2>2. call' = [call EXCEPT ![c] = rec] /\ rec.at = "closing" /\ rec.i = p - 1
      BY <1>4 DEF Goes
    <2> HIDE DEF rec
    <2> QED
      BY <1>3, <1>4, <2>1, <2>2
  <1>5. CASE call' = [call EXCEPT ![c] = [at |-> "ending", i |-> p, closes |-> held[p]]]
    <2> DEFINE rec == [at |-> "ending", i |-> p, closes |-> held[p]]
    <2>1. rec \in CallRecord /\ Placed(rec)
      BY <1>1, KindLength DEF CallRecord, Placed, Places, Provider, TypeOK
    <2>2. /\ call' = [call EXCEPT ![c] = rec]
          /\ rec.at = "ending" /\ rec.i = p /\ rec.closes = held[p]
      BY <1>5
    <2> HIDE DEF rec
    <2> QED
      BY <1>3, <2>1, <2>2
  <1> QED
    BY <1>p, <1>2, <1>4, <1>5 DEF Shutdown

\* A provider's connections end, or are lost to it, and its call of terminate() moves on.
Closes(c, p, place, i, h, o) ==
    /\ p = call[c].i /\ call[c].at = "ending"
    /\ Goes(c, place, i)
    /\ h \subseteq held[p] /\ held' = [held EXCEPT ![p] = h]
    /\ o \subseteq open[p] /\ open' = [open EXCEPT ![p] = o]
    /\ leaked \subseteq leaked' /\ leaked' \subseteq Provider \X Id
    /\ place = "closing" => i = p - 1
    /\ held[p] \subseteq call[c].closes =>
          /\ place = "closing" => h = {}
          /\ \A id \in o \ h : <<p, id>> \in leaked' \/ id \notin held[p]
    /\ UNCHANGED <<booted, bound, overlap>>

LEMMA ClosedIInv ==
  ASSUME IInv, NEW c \in Call, NEW p \in Provider, NEW place \in {"closing", "failed"},
         NEW i \in {p, p - 1}, NEW h, NEW o, Closes(c, p, place, i, h, o)
  PROVE  IInv'
  <1>1. TypeOK
    BY DEF IInv
  <1>c. /\ p = call[c].i /\ call[c].at = "ending" /\ Goes(c, place, i)
        /\ h \subseteq held[p] /\ held' = [held EXCEPT ![p] = h]
        /\ o \subseteq open[p] /\ open' = [open EXCEPT ![p] = o]
        /\ leaked \subseteq leaked' /\ leaked' \subseteq Provider \X Id
        /\ place = "closing" => i = p - 1
        /\ UNCHANGED <<booted, bound, overlap>>
    BY DEF Closes
  <1>2. /\ TypeOK'
        /\ call'[c] = [at |-> place, i |-> i, closes |-> {}]
        /\ \A d \in Call \ {c} : call'[d] = call[d]
    <2> DEFINE rec == [at |-> place, i |-> i, closes |-> {}]
    <2>1. rec \in CallRecord /\ Placed(rec)
      BY <1>c, KindLength DEF CallRecord, Placed, Places, Provider
    <2>2. held' \in [Provider -> SUBSET Id] /\ open' \in [Provider -> SUBSET Id]
      BY <1>1, <1>c DEF TypeOK
    <2>3. booted' \in BOOLEAN /\ overlap' \in BOOLEAN /\ bound' \subseteq Provider
      BY <1>1, <1>c DEF TypeOK
    <2>4. call' = [call EXCEPT ![c] = rec]
      BY <1>c DEF Goes
    <2> HIDE DEF rec
    <2>5. TypeOK' /\ call'[c] = rec /\ \A d \in Call \ {c} : call'[d] = call[d]
      BY <1>1, <1>c, <2>1, <2>2, <2>3, <2>4, TypeStep
    <2> QED
      BY <2>5 DEF rec
  <1>3. ASSUME ~overlap' PROVE Core'
    <2>1. Core /\ Terminating(c)
      BY <1>3, <1>c DEF IInv, Terminating
    <2>2. /\ held'[p] = h /\ open'[p] = o
          /\ \A q \in Provider \ {p} : held'[q] = held[q] /\ open'[q] = open[q]
      BY <1>1, <1>c DEF TypeOK
    <2>3. /\ held[p] \subseteq call[c].closes
          /\ \A q \in Provider : q > p => held[q] = {}
      BY <1>c, <2>1 DEF Core, ShutdownGoesDown
    <2>c. /\ place = "closing" => h = {}
          /\ \A id \in o \ h : <<p, id>> \in leaked' \/ id \notin held[p]
      BY <2>3 DEF Closes
    <2>4. \A d \in Call : ~Booting(d) /\ ~Booting(d)'
      BY <1>2, <2>1 DEF Core, BootIsAlone, Booting, Terminating
    <2>5. BootIsAlone' /\ BootGoesUp'
      BY <2>4 DEF BootIsAlone, BootGoesUp, Booting
    <2>6. ShutdownGoesDown'
      <3>1. \A q \in Provider : held'[q] \subseteq held[q]
        BY <1>c, <2>2
      <3>2. ASSUME NEW d \in Call \ {c}, Terminating(d)'
            PROVE  /\ \A q \in Provider : q > call'[d].i => held'[q] = {}
                   /\ call'[d].at = "ending" => held'[call'[d].i] \subseteq call'[d].closes
        <4>1. Terminating(d) /\ call'[d] = call[d]
          BY <1>2, <3>2 DEF Terminating
        <4>2. call[d].at = "ending" => call[d].i \in Provider
          BY <1>1 DEF TypeOK
        <4> QED
          BY <2>1, <3>1, <4>1, <4>2 DEF Core, ShutdownGoesDown
      <3>3. ASSUME place = "closing" PROVE \A q \in Provider : q > p - 1 => held'[q] = {}
        BY <2>2, <2>3, <2>c, <3>3 DEF Provider
      <3> QED
        BY <1>2, <1>c, <3>2, <3>3 DEF ShutdownGoesDown, Terminating
    <2>7. Prefix'
      BY <1>c, <2>1, <2>2, <2>3 DEF Core, Prefix, Provider
    <2>8. OrLeaked'
      BY <1>c, <2>1, <2>2, <2>c DEF Core, OrLeaked
    <2> QED
      BY <2>5, <2>6, <2>7, <2>8 DEF Core
  <1> QED
    BY <1>2, <1>3 DEF IInv

LEMMA EndedIInv ==
  ASSUME IInv, NEW c \in Call, Ended(c)
  PROVE  IInv'
  <1>p. PICK p \in Provider : p = call[c].i
    BY DEF Ended, IInv, TypeOK
  <1> DEFINE h == IF Kind[p] = "worker" THEN held[p] \ call[c].closes ELSE {}
             o == open[p] \ call[c].closes
  <1>1. /\ held' = [held EXCEPT ![p] = h] /\ open' = [open EXCEPT ![p] = o]
        /\ Goes(c, "closing", p - 1) /\ call[c].at = "ending"
        /\ UNCHANGED <<booted, bound, leaked, overlap>>
    BY <1>p DEF Ended
  <1>2. h \subseteq held[p] /\ o \subseteq open[p]
    OBVIOUS
  <1>3. held[p] \subseteq call[c].closes =>
          h = {} /\ \A id \in o \ h : <<p, id>> \in leaked' \/ id \notin held[p]
    OBVIOUS
  <1>4. leaked \subseteq leaked' /\ leaked' \subseteq Provider \X Id
    BY <1>1 DEF IInv, TypeOK
  <1> HIDE DEF h, o
  <1>5. Closes(c, p, "closing", p - 1, h, o)
    BY <1>p, <1>1, <1>2, <1>3, <1>4 DEF Closes
  <1> QED
    BY <1>5, ClosedIInv

LEMMA EndFailsIInv ==
  ASSUME IInv, NEW c \in Call, EndFails(c)
  PROVE  IInv'
  <1>p. PICK p \in Provider : p = call[c].i
    BY DEF EndFails, IInv, TypeOK
  <1>1. /\ Goes(c, "failed", p) /\ call[c].at = "ending" /\ TypeOK
        /\ UNCHANGED <<booted, bound, overlap>>
    BY <1>p DEF EndFails, IInv
  <1>2. CASE Kind[p] = "pool"
    <2>1. /\ held' = [held EXCEPT ![p] = {}]
          /\ leaked' = leaked \cup ({p} \X call[c].closes) /\ open' = open
      BY <1>p, <1>2 DEF EndFails
    <2>2. open' = [open EXCEPT ![p] = open[p]]
      BY <1>1, <2>1 DEF TypeOK
    <2>3. leaked \subseteq leaked' /\ leaked' \subseteq Provider \X Id
      BY <1>1, <2>1 DEF TypeOK
    <2>4. held[p] \subseteq call[c].closes =>
             \A id \in open[p] \ {} : <<p, id>> \in leaked' \/ id \notin held[p]
      BY <2>1
    <2>5. Closes(c, p, "failed", p, {}, open[p])
      BY <1>p, <1>1, <2>1, <2>2, <2>3, <2>4 DEF Closes
    <2> QED
      BY <2>5, ClosedIInv
  <1>3. CASE Kind[p] = "client"
    <2>1. UNCHANGED connections
      BY <1>p, <1>3 DEF EndFails
    <2>2. p \in 0..Len(Kind) + 1 /\ booted' \in BOOLEAN
      BY <1>1, KindLength DEF Provider, TypeOK
    <2> QED
      BY <1>1, <2>1, <2>2, RestIInv
  <1>4. CASE Kind[p] = "worker"
    <2>1. PICK stopped \in SUBSET call[c].closes :
            /\ held' = [held EXCEPT ![p] = held[p] \ stopped]
            /\ open' = [open EXCEPT ![p] = open[p] \ stopped]
      BY <1>p, <1>4 DEF EndFails
    <2>2. leaked \subseteq leaked' /\ leaked' \subseteq Provider \X Id
      BY <1>p, <1>1, <1>4 DEF EndFails, TypeOK
    <2> DEFINE h == held[p] \ stopped
               o == open[p] \ stopped
    <2>3. \A id \in o \ h : <<p, id>> \in leaked' \/ id \notin held[p]
      OBVIOUS
    <2>4. h \subseteq held[p] /\ o \subseteq open[p]
      OBVIOUS
    <2> HIDE DEF h, o
    <2>5. held' = [held EXCEPT ![p] = h] /\ open' = [open EXCEPT ![p] = o]
      BY <2>1 DEF h, o
    <2>6. Closes(c, p, "failed", p, h, o)
      BY <1>p, <1>1, <2>2, <2>3, <2>4, <2>5 DEF Closes
    <2> QED
      BY <2>6, ClosedIInv
  <1> QED
    BY <1>2, <1>3, <1>4, KindLength DEF Kinds

LEMMA StepIInv ==
  ASSUME IInv, NEW c \in Call, Step(c)
  PROVE  IInv'
  <1>1. TypeOK /\ booted \in BOOLEAN /\ 0 \in 0..Len(Kind) + 1
    BY KindLength DEF IInv, TypeOK
  <1>2. CASE LoadFails(c)
    BY <1>1, <1>2, RestIInv DEF LoadFails
  <1>3. CASE Register(c)
    BY <1>3, RegisterIInv
  <1>4. CASE Connect(c)
    BY <1>4, ConnectIInv
  <1>5. CASE Connected(c)
    BY <1>5, ConnectedIInv
  <1>6. CASE StartWorker(c)
    BY <1>6, StartWorkerIInv
  <1>7. CASE BootFails(c)
    <2>1. call[c].i \in 0..Len(Kind) + 1
      BY <1>1, TypeParts DEF CallRecord
    <2> QED
      BY <1>1, <1>7, <2>1, RestIInv DEF BootFails
  <1>8. CASE Finish(c)
    BY <1>1, <1>8, RestIInv DEF Finish
  <1>9. CASE Shutdown(c)
    BY <1>9, ShutdownIInv
  <1>10. CASE Ended(c)
    BY <1>10, EndedIInv
  <1>11. CASE EndFails(c)
    BY <1>11, EndFailsIInv
  <1>12. CASE Terminated(c)
    BY <1>1, <1>12, RestIInv DEF Terminated
  <1> QED
    BY <1>2, <1>3, <1>4, <1>5, <1>6, <1>7, <1>8, <1>9, <1>10, <1>11, <1>12 DEF Step

LEMMA NextIInv == IInv /\ [Next]_vars => IInv'
  <1> SUFFICES ASSUME IInv, [Next]_vars PROVE IInv'
    OBVIOUS
  <1>1. ASSUME NEW c \in Call, Boot(c) \/ Terminate(c) \/ Step(c)
        PROVE  IInv'
    BY <1>1, BootIInv, TerminateIInv, StepIInv
  <1>2. CASE UNCHANGED vars
    <2>1. TypeOK'
      BY <1>2 DEF vars, IInv, TypeOK
    <2>2. ~overlap' => Core'
      BY <1>2 DEF vars, IInv, Core, BootIsAlone, BootGoesUp, ShutdownGoesDown, Prefix, OrLeaked,
                  Booting, Terminating
    <2> QED
      BY <2>1, <2>2 DEF IInv
  <1> QED
    BY <1>1, <1>2 DEF Next
-----------------------------------------------------------------------------
\* The inductive invariant holds of every behaviour of boot() and terminate().
THEOREM Invariance == Spec => []IInv
  <1>1. Init => IInv
    BY InitIInv
  <1>2. IInv /\ [Next]_vars => IInv'
    BY NextIInv
  <1> QED
    BY <1>1, <1>2, PTL DEF Spec

\* The state always has its types.
THEOREM TypeCorrect == Spec => []TypeOK
  <1>1. IInv => TypeOK
    BY DEF IInv
  <1> QED
    BY <1>1, Invariance, PTL

\* A provider holds its connection only while those registered before it hold theirs,
\* whatever fails or is retried in boot() and terminate().
THEOREM HeldStaysPrefix == Spec => []HeldIsPrefix
  <1>1. IInv => HeldIsPrefix
    BY DEF IInv, Core, Prefix, HeldIsPrefix
  <1> QED
    BY <1>1, Invariance, PTL

\* Only a pool whose end() failed is open without its provider holding it.
THEOREM NothingGetsLost == Spec => []NothingLost
  <1>1. IInv => NothingLost
    BY DEF IInv, Core, OrLeaked, NothingLost
  <1> QED
    BY <1>1, Invariance, PTL

\* When terminate() resolves, it has gone below the first provider: none holds anything,
\* and what is open and not held is a pool whose end() failed.
THEOREM TerminateLeavesNothing == Spec => TerminateClosesAll
  <1>1. ASSUME IInv, [Next]_vars, NEW c \in Call,
               ~overlap, Terminating(c), call'[c].at = "done"
        PROVE  \A p \in Provider : \A id \in open[p] : <<p, id>> \in leaked
    <2>1. Core /\ TypeOK
      BY <1>1 DEF IInv
    <2>2. Terminated(c)
      <3>1. ~UNCHANGED vars
        BY <1>1 DEF vars, Terminating
      <3>2. PICK d \in Call : Boot(d) \/ Terminate(d) \/ Step(d)
        BY <1>1, <3>1 DEF Next
      <3>3. d = c
        <4>1. call \in [Call -> CallRecord] /\ call[c].at # call'[c].at
          BY <1>1, <2>1, TypeParts DEF Terminating
        <4> QED
          BY <3>2, <4>1
             DEF Boot, Terminate, Step, LoadFails, Register, Connect, Connected, StartWorker,
                 BootFails, Finish, Shutdown, Ended, EndFails, Terminated, Goes
      <3>4. call \in [Call -> CallRecord]
        BY <2>1, TypeParts
      <3> QED
        BY <1>1, <3>2, <3>3, <3>4
           DEF Boot, Terminate, Step, LoadFails, Register, Connect, Connected, StartWorker,
               BootFails, Finish, Shutdown, Ended, EndFails, Terminated, Goes, Terminating
    <2>3. \A p \in Provider : held[p] = {}
      BY <1>1, <2>1, <2>2, KindLength DEF Core, ShutdownGoesDown, Terminated, Provider
    <2> QED
      BY <2>1, <2>3 DEF Core, OrLeaked
  <1>2. IInv /\ [Next]_vars =>
          [\A c \in Call : ~overlap /\ Terminating(c) /\ call'[c].at = "done" =>
             \A p \in Provider : \A id \in open[p] : <<p, id>> \in leaked]_vars
    BY <1>1
  <1> QED
    BY <1>2, Invariance, PTL DEF Spec, TerminateClosesAll

\* boot() reports success only when it has gone past the last provider, and those it has
\* passed are bound and hold a connection.
THEOREM BootedMeansConnected == Spec => BootedIsConnected
  <1>1. ASSUME IInv, [Next]_vars, ~overlap, ~booted, booted'
        PROVE  \A p \in Provider : p \in bound /\ held[p] # {}
    <2>1. Core
      BY <1>1 DEF IInv
    <2>2. PICK c \in Call : Finish(c)
      <3>1. ~UNCHANGED booted
        BY <1>1
      <3> QED
        BY <1>1, <3>1
           DEF Next, vars, Boot, Terminate, Step, LoadFails, Register, Connect, Connected,
               StartWorker, BootFails, Shutdown, Ended, EndFails, Terminated
    <2> QED
      BY <2>1, <2>2, KindLength DEF Core, BootGoesUp, Finish, Provider
  <1>2. IInv /\ [Next]_vars =>
          [~overlap /\ ~booted /\ booted' =>
             \A p \in Provider : p \in bound /\ held[p] # {}]_vars
    BY <1>1
  <1> QED
    BY <1>2, Invariance, PTL DEF Spec, BootedIsConnected
-----------------------------------------------------------------------------
Box == [factory : [Token -> DOMAIN Needs \cup {NoFactory, ItsValue}], singleton : [Token -> BOOLEAN],
        resolved : [Token -> Nat], stack : Seq(Token), frozen : BOOLEAN]

ContainerTypeOK ==
    /\ boxes \in Seq(Box) /\ made \in Nat
    /\ asked = <<>> \/ asked \in (DOMAIN boxes) \X Token
    /\ calls \in Seq([token : Token, begun : Nat])
    /\ back = <<>> \/ back \in Nat \X {"", "BindingNotFound", "CircularDependency", "Threw"}

\* What runs was bound and not resolved when it was called, and still is.
RunningIsNew ==
    \A i \in DOMAIN calls :
        LET box == boxes[asked[1]]
        IN  box.factory[calls[i].token] # NoFactory /\ ~Kept(box, calls[i].token)

RunsOnce == \A i, j \in DOMAIN calls : calls[i].token = calls[j].token => i = j

AskedFirst == calls # <<>> => asked # <<>> /\ calls[1].token = asked[2]

\* On its way out an error keeps its reason: in what the factory it comes to makes.
HasItsReason ==
    Failed /\ ~AtRest => Reason(boxes[asked[1]], Opens(boxes[asked[1]], Last(calls).token), back[2])

ContainerInv == /\ ContainerTypeOK /\ StackFollowsCalls /\ RunningIsNew /\ RunsOnce
                /\ AskedFirst /\ HasItsReason /\ MakesWhatItCan
-----------------------------------------------------------------------------
\* Numbers that have 0 and each one's successor are all: induction without an operator.
LEMMA Induction ==
    ASSUME NEW I \in SUBSET Nat, 0 \in I, \A i \in I : i + 1 \in I
    PROVE  I = Nat
  <1>1. SUFFICES ASSUME Nat \ I # {} PROVE FALSE
    OBVIOUS
  <1>2. PICK n \in Nat \ I : \A m \in Nat \ I : ~(<<m, n>> \in OpToRel(<, Nat))
    <2>1. IsWellFoundedOn(OpToRel(<, Nat), Nat)
      BY NatLessThanWellFounded
    <2>2. Nat \ I \subseteq Nat
      OBVIOUS
    <2> HIDE DEF OpToRel
    <2> QED
      BY <1>1, <2>1, <2>2, WFMin, Zenon
  <1>3. \A m \in Nat \ I : ~(m < n)
    BY <1>2 DEF OpToRel
  <1>4. n # 0 /\ n - 1 \in Nat /\ n - 1 < n
    OBVIOUS
  <1>5. n - 1 \in I
    BY <1>3, <1>4
  <1>6. (n - 1) + 1 \in I
    BY <1>5
  <1> QED
    BY <1>6

\* What a make() may come to depends on what is bound and resolved alone.
LEMMA SameNeeds ==
    ASSUME NEW box, NEW box2, box2.factory = box.factory, box2.singleton = box.singleton,
           box2.resolved = box.resolved
    PROVE  /\ \A t : Kept(box2, t) = Kept(box, t) /\ Opens(box2, t) = Opens(box, t)
           /\ \A ts, why : Reason(box2, ts, why) = Reason(box, ts, why)
  <1>1. \A t : Kept(box2, t) = Kept(box, t) /\ Opens(box2, t) = Opens(box, t)
    BY DEF Kept, Opens
  <1>2. \A S : Closed(box2, S) = Closed(box, S)
    BY <1>1 DEF Closed
  <1>3. \A ts : Near(box2, ts) = Near(box, ts)
    BY <1>2 DEF Near
  <1>4. \A ts, why : Reason(box2, ts, why) = Reason(box, ts, why)
    BY <1>1, <1>3 DEF Reason
  <1> QED
    BY <1>1, <1>4

LEMMA NearSteps ==
    ASSUME NEW box, NEW t \in Token
    PROVE  /\ \A ts : t \in ts => t \in Near(box, ts) /\ Near(box, Opens(box, t)) \subseteq Near(box, ts)
  <1> SUFFICES ASSUME NEW ts, t \in ts, NEW u \in Near(box, Opens(box, t))
               PROVE  t \in Near(box, ts) /\ u \in Near(box, ts)
    BY DEF Near
  <1>1. t \in Near(box, ts)
    BY DEF Near
  <1>2. ASSUME NEW S \in SUBSET Token, ts \subseteq S, Closed(box, S)
        PROVE  u \in S
    <2>1. Opens(box, t) \subseteq S
      BY <1>2 DEF Closed
    <2> QED
      BY <1>2, <2>1 DEF Near
  <1>3. u \in Token
    BY DEF Near
  <1> QED
    BY <1>1, <1>2, <1>3 DEF Near

\* A chain of calls stays in what its first may come to.
LEMMA ChainStays ==
    ASSUME NEW box, NEW s \in Seq(Token), \A k \in DOMAIN s : k > 1 => s[k] \in Opens(box, s[k - 1]),
           NEW S, Closed(box, S), NEW i \in DOMAIN s, s[i] \in S
    PROVE  \A j \in i..Len(s) : s[j] \in S
  <1> DEFINE I == {k \in Nat : i + k <= Len(s) => s[i + k] \in S}
  <1>0. i \in Nat \ {0} /\ Len(s) \in Nat /\ DOMAIN s = 1..Len(s)
    OBVIOUS
  <1>1. 0 \in I
    BY <1>0
  <1>2. ASSUME NEW k \in I PROVE k + 1 \in I
    <2> SUFFICES ASSUME i + (k + 1) <= Len(s) PROVE s[i + (k + 1)] \in S
      BY <1>0
    <2>1. s[i + k] \in S
      BY <1>0
    <2>2. i + (k + 1) \in DOMAIN s /\ i + (k + 1) > 1 /\ (i + (k + 1)) - 1 = i + k
      BY <1>0
    <2>3. s[i + (k + 1)] \in Opens(box, s[i + k])
      BY <2>2
    <2> QED
      BY <2>1, <2>3 DEF Closed
  <1>3. I = Nat
    <2> HIDE DEF I
    <2>1. I \in SUBSET Nat
      BY DEF I
    <2> QED
      BY <1>1, <1>2, <2>1, Induction
  <1> SUFFICES ASSUME NEW j \in i..Len(s) PROVE s[j] \in S
    OBVIOUS
  <1>4. j - i \in I /\ i + (j - i) = j /\ j <= Len(s)
    BY <1>0, <1>3
  <1> QED
    BY <1>4

\* What is on the stack and is needed by its last needs itself.
LEMMA CircleIsReal ==
    ASSUME NEW box, NEW s \in Seq(Token), \A k \in DOMAIN s : k > 1 => s[k] \in Opens(box, s[k - 1]),
           NEW i \in DOMAIN s, s[i] \in Opens(box, s[Len(s)])
    PROVE  s[i] \in Near(box, Opens(box, s[i]))
  <1>1. SUFFICES ASSUME NEW S \in SUBSET Token, Opens(box, s[i]) \subseteq S, Closed(box, S)
                 PROVE  s[i] \in S
    BY DEF Near
  <1>2. i \in 1..Len(s) /\ Len(s) \in Nat
    OBVIOUS
  <1>3. CASE i = Len(s)
    BY <1>1, <1>3
  <1>4. CASE i < Len(s)
    <2>1. i + 1 \in DOMAIN s /\ i + 1 > 1 /\ (i + 1) - 1 = i
      BY <1>2, <1>4
    <2>2. s[i + 1] \in S
      BY <1>1, <2>1
    <2>3. \A j \in (i + 1)..Len(s) : s[j] \in S
      BY <1>1, <2>1, <2>2, ChainStays
    <2>4. s[Len(s)] \in S
      BY <2>1, <2>3
    <2> QED
      BY <1>1, <2>4 DEF Closed
  <1> QED
    BY <1>2, <1>3, <1>4

LEMMA ContainerStarts ==
    ASSUME ContainerInit
    PROVE  ContainerInv
  <1>1. Empty \in Box
    BY DEF Empty, Box
  <1>2. boxes \in Seq(Box) /\ boxes = <<Empty>> /\ Empty.stack = <<>>
    BY <1>1 DEF ContainerInit, Empty
  <1> QED
    BY <1>2 DEF ContainerInit, ContainerInv, ContainerTypeOK, StackFollowsCalls, RunningIsNew, RunsOnce,
                AskedFirst, HasItsReason, MakesWhatItCan, AtRest, Failed

\* What is done between two make() calls; instances that are kept may be replaced.
LEMMA BetweenMakes ==
    ASSUME ContainerInv, AtRest, Anew, boxes' \in Seq(Box), made' \in Nat,
           \A b \in DOMAIN boxes' : boxes'[b].stack = <<>>
    PROVE  ContainerInv'
  <1>1. asked' = <<>> /\ back' = <<>> /\ calls' = <<>>
    BY DEF Anew, AtRest
  <1>2. ContainerTypeOK'
    BY <1>1 DEF ContainerTypeOK
  <1>3. StackFollowsCalls'
    BY <1>1 DEF StackFollowsCalls, AtRest
  <1>4. RunningIsNew' /\ RunsOnce'
    BY <1>1 DEF RunningIsNew, RunsOnce
  <1>5. AskedFirst' /\ HasItsReason' /\ MakesWhatItCan'
    BY <1>1 DEF AskedFirst, HasItsReason, MakesWhatItCan, AtRest
  <1> QED
    BY <1>2, <1>3, <1>4, <1>5 DEF ContainerInv

LEMMA ContainerTypes ==
    ASSUME ContainerInv
    PROVE  /\ boxes \in Seq(Box) /\ made \in Nat
           /\ asked = <<>> \/ asked \in (DOMAIN boxes) \X Token
           /\ \A b \in DOMAIN boxes : boxes[b] \in Box
  <1>1. ContainerTypeOK
    BY DEF ContainerInv
  <1>2. boxes \in Seq(Box)
    BY <1>1 DEF ContainerTypeOK
  <1>3. \A b \in DOMAIN boxes : boxes[b] \in Box
    BY <1>2
  <1> QED
    BY <1>1, <1>3 DEF ContainerTypeOK

LEMMA BoxAtRest ==
    ASSUME ContainerInv, AtRest, NEW b \in DOMAIN boxes
    PROVE  boxes[b] \in Box /\ boxes[b].stack = <<>>
  <1>1. boxes[b] \in Box
    BY ContainerTypes
  <1>2. boxes[b].stack = <<>>
    BY DEF ContainerInv, StackFollowsCalls
  <1> QED
    BY <1>1, <1>2

LEMMA BoxChanges ==
    ASSUME ContainerInv, AtRest, Anew, made' \in Nat,
           NEW b \in DOMAIN boxes, NEW box \in Box, box.stack = <<>>, Changes(b, box)
    PROVE  ContainerInv'
  <1>1. boxes' \in Seq(Box) /\ DOMAIN boxes' = DOMAIN boxes
    BY ContainerTypes DEF Changes
  <1>2. \A c \in DOMAIN boxes' : boxes'[c].stack = <<>>
    BY <1>1, BoxAtRest DEF Changes
  <1> QED
    BY <1>1, <1>2, BetweenMakes

\* A scope has nothing on its stack, whenever it is made, and changes no other container.
LEMMA ScopeIsNew ==
    ASSUME ContainerInv, NEW b \in DOMAIN boxes, CreateScope(b)
    PROVE  ContainerInv'
  <1> DEFINE box == ScopeOf(boxes[b])
  <1>1. boxes \in Seq(Box) /\ boxes[b] \in Box /\ (asked = <<>> \/ asked \in (DOMAIN boxes) \X Token)
    BY ContainerTypes
  <1>2. box \in Box /\ box.stack = <<>>
    <2>1. <<>> \in Seq(Token)
      OBVIOUS
    <2> QED
      BY <1>1, <2>1 DEF Box, ScopeOf
  <1> HIDE DEF box
  <1>3. /\ boxes' = Append(boxes, box) /\ broken' = broken /\ made' = made /\ asked' = asked
        /\ calls' = calls /\ back' = back
    BY DEF CreateScope, box
  <1>4. /\ boxes' \in Seq(Box) /\ DOMAIN boxes' = DOMAIN boxes \cup {Len(boxes) + 1}
        /\ boxes'[Len(boxes) + 1] = box /\ Len(boxes) + 1 \notin DOMAIN boxes
        /\ \A c \in DOMAIN boxes : boxes'[c] = boxes[c]
    BY <1>1, <1>2, <1>3
  <1>5. asked # <<>> => asked[1] \in DOMAIN boxes /\ boxes'[asked[1]] = boxes[asked[1]]
    BY <1>1, <1>4
  <1>6. calls # <<>> => asked # <<>>
    BY DEF ContainerInv, AskedFirst
  <1>7. ContainerTypeOK'
    BY <1>3, <1>4 DEF ContainerInv, ContainerTypeOK
  <1>8. StackFollowsCalls'
    BY <1>2, <1>3, <1>4, <1>5, <1>6 DEF ContainerInv, StackFollowsCalls, AtRest
  <1>9. RunningIsNew'
    <2>1. CASE calls = <<>>
      BY <1>3, <2>1 DEF RunningIsNew
    <2>2. CASE calls # <<>>
      BY <1>3, <1>5, <1>6, <2>2 DEF ContainerInv, RunningIsNew
    <2> QED
      BY <2>1, <2>2
  <1>10. RunsOnce' /\ AskedFirst'
    BY <1>3 DEF ContainerInv, RunsOnce, AskedFirst
  <1>11. HasItsReason'
    BY <1>3, <1>5, <1>6 DEF ContainerInv, HasItsReason, AtRest, Failed, Reason
  <1>12. MakesWhatItCan'
    BY <1>3, <1>5 DEF ContainerInv, MakesWhatItCan, AtRest, Failed, Reason
  <1> QED
    BY <1>7, <1>8, <1>9, <1>10, <1>11, <1>12 DEF ContainerInv

LEMMA SettingUp ==
    ASSUME ContainerInv, ContainerNext, ~(MakeNext \/ Throws \/ Returns),
           ~\E b \in DOMAIN boxes, t \in Token : Make(b, t)
    PROVE  ContainerInv'
  <1>1. ASSUME NEW b \in DOMAIN boxes, NEW t \in Token, NEW f \in Factories[t], NEW singleton \in BOOLEAN,
               Bind(b, t, f, singleton)
        PROVE  ContainerInv'
    <2>1. boxes[b] \in Box /\ boxes[b].stack = <<>> /\ AtRest
      BY <1>1, BoxAtRest DEF Bind
    <2> DEFINE box == [boxes[b] EXCEPT !.factory[t] = f, !.singleton[t] = singleton]
    <2>2. f \in DOMAIN Needs
      BY ContainerAssumption
    <2>3. box \in Box /\ box.stack = <<>>
      BY <2>1, <2>2 DEF Box
    <2>4. made' \in Nat /\ Anew /\ Changes(b, box)
      BY <1>1, ContainerTypes DEF Bind
    <2> QED
      BY <2>1, <2>3, <2>4, BoxChanges
  <1>2. ASSUME NEW b \in DOMAIN boxes, NEW t \in Token, Instance(b, t)
        PROVE  ContainerInv'
    <2>1. boxes[b] \in Box /\ boxes[b].stack = <<>> /\ AtRest
      BY <1>2, BoxAtRest DEF Instance
    <2> DEFINE box == [boxes[b] EXCEPT !.factory[t] = ItsValue, !.singleton[t] = TRUE, !.resolved[t] = made']
    <2>2. made' \in Nat
      BY <1>2, ContainerTypes DEF Instance
    <2>3. box \in Box /\ box.stack = <<>>
      BY <2>1, <2>2 DEF Box
    <2>4. Anew /\ Changes(b, box)
      BY <1>2 DEF Instance
    <2> QED
      BY <2>1, <2>2, <2>3, <2>4, BoxChanges
  <1>3. ASSUME NEW b \in DOMAIN boxes, Freeze(b)
        PROVE  ContainerInv'
    <2>1. boxes[b] \in Box /\ boxes[b].stack = <<>> /\ AtRest
      BY <1>3, BoxAtRest DEF Freeze
    <2> DEFINE box == [boxes[b] EXCEPT !.frozen = TRUE]
    <2>2. box \in Box /\ box.stack = <<>>
      BY <2>1 DEF Box
    <2>3. made' \in Nat /\ Anew /\ Changes(b, box)
      BY <1>3, ContainerTypes DEF Freeze
    <2> QED
      BY <2>1, <2>2, <2>3, BoxChanges
  <1>4. ASSUME NEW b \in DOMAIN boxes, CreateScope(b)
        PROVE  ContainerInv'
    BY <1>4, ScopeIsNew
  <1>5. ASSUME NEW factory, Mend(factory)
        PROVE  ContainerInv'
    <2>1. AtRest /\ Anew /\ boxes' \in Seq(Box) /\ made' \in Nat /\ boxes' = boxes
      BY <1>5, ContainerTypes DEF Mend
    <2> QED
      BY <2>1, BoxAtRest, BetweenMakes
  <1> QED
    BY <1>1, <1>2, <1>3, <1>4, <1>5 DEF ContainerNext

\* What a step of a make() has to leave behind it: cs are its calls, box the container.
Follows(box, cs) ==
    /\ box.stack = [i \in DOMAIN cs |-> cs[i].token]
    /\ \A i \in DOMAIN cs : i > 1 => cs[i].token \in Opens(box, cs[i - 1].token)
    /\ \A i \in DOMAIN cs : box.factory[cs[i].token] # NoFactory /\ ~Kept(box, cs[i].token)
    /\ \A i, j \in DOMAIN cs : cs[i].token = cs[j].token => i = j
Frames == Seq([token : Token, begun : Nat])
Backs == Nat \X {"", "BindingNotFound", "CircularDependency", "Threw"}
Wanted(box, cs, u) == IF cs = <<>> THEN {u} ELSE Opens(box, Last(cs).token)

LEMMA Settles ==
    ASSUME ContainerInv, NEW b \in DOMAIN boxes, NEW u \in Token, NEW box \in Box, NEW cs \in Frames,
           boxes' = [boxes EXCEPT ![b] = box], made' \in Nat, broken' = broken,
           asked' = <<b, u>>, calls' = cs, back' \in Backs \/ (back' = <<>> /\ cs # <<>>),
           \A c \in DOMAIN boxes : c # b => boxes[c].stack = <<>>,
           Follows(box, cs), cs # <<>> => cs[1].token = u,
           Failed' => Reason(box, Wanted(box, cs, u), back'[2]),
           cs = <<>> /\ ~Failed' /\ box.singleton[u] => box.resolved[u] = back'[1]
    PROVE  ContainerInv'
  <1>1. boxes \in Seq(Box)
    BY ContainerTypes
  <1>2. boxes' \in Seq(Box) /\ DOMAIN boxes' = DOMAIN boxes /\ boxes'[b] = box
    BY <1>1
  <1>3. ContainerTypeOK'
    BY <1>2 DEF ContainerTypeOK, Frames, Backs
  <1>4. AtRest' <=> cs = <<>>
    BY DEF AtRest
  <1>5. asked'[1] = b /\ asked'[2] = u /\ asked' # <<>>
    OBVIOUS
  <1>6. StackFollowsCalls'
    <2>1. \A t : Opens(box, t)' = Opens(box, t)
      BY DEF Opens, Kept
    <2> SUFFICES ASSUME NEW c \in DOMAIN boxes
                 PROVE  IF AtRest' \/ c # asked'[1] THEN boxes'[c].stack = <<>>
                        ELSE /\ boxes'[c].stack = [i \in DOMAIN calls' |-> calls'[i].token]
                             /\ \A i \in DOMAIN calls' : i > 1 =>
                                   calls'[i].token \in Opens(boxes'[c], calls'[i - 1].token)
      BY <1>2 DEF StackFollowsCalls, Opens, Kept
    <2>2. CASE c # b
      BY <1>1, <1>2, <1>5, <2>2
    <2>3. CASE c = b /\ cs = <<>>
      BY <1>2, <1>4, <2>3 DEF Follows
    <2>4. CASE c = b /\ cs # <<>>
      BY <1>2, <1>4, <1>5, <2>4 DEF Follows
    <2> QED
      BY <2>2, <2>3, <2>4
  <1>7. RunningIsNew'
    BY <1>2, <1>5 DEF RunningIsNew, Follows, Kept
  <1>8. RunsOnce'
    BY DEF RunsOnce, Follows
  <1>9. AskedFirst'
    BY <1>5 DEF AskedFirst
  <1>10. boxes'[asked'[1]] = box
    BY <1>2, <1>5
  <1>11. HasItsReason'
    BY <1>4, <1>10 DEF HasItsReason, Wanted, Reason
  <1>12. MakesWhatItCan'
    BY <1>4, <1>5, <1>10 DEF MakesWhatItCan, Wanted, Reason
  <1> QED
    BY <1>3, <1>6, <1>7, <1>8, <1>9, <1>11, <1>12 DEF ContainerInv

LEMMA SameAgain ==
    ASSUME NEW S, NEW s \in Seq(S), NEW i \in DOMAIN s
    PROVE  s = [s EXCEPT ![i] = s[i]]
  OBVIOUS

\* make() up to its factory, whoever calls it.
LEMMA Enters ==
    ASSUME ContainerInv, NEW b \in DOMAIN boxes, NEW u \in Token, NEW t \in Token, NEW cs \in Frames,
           Enter(b, t, cs), UNCHANGED <<broken, made>>, asked' = <<b, u>>,
           \A c \in DOMAIN boxes : c # b => boxes[c].stack = <<>>,
           Follows(boxes[b], cs), cs # <<>> => cs[1].token = u, t \in Wanted(boxes[b], cs, u)
    PROVE  ContainerInv'
  <1> DEFINE E == boxes[b]
  <1>1. E \in Box /\ made' \in Nat /\ boxes \in Seq(Box)
    BY ContainerTypes
  <1>2. t \in Near(E, Wanted(E, cs, u))
    BY NearSteps
  <1>3. ASSUME NEW instance \in Nat, NEW why \in {"", "BindingNotFound", "CircularDependency", "Threw"},
               back' = <<instance, why>>, calls' = cs, UNCHANGED boxes,
               why # "" => Reason(E, Wanted(E, cs, u), why),
               cs = <<>> /\ why = "" /\ E.singleton[u] => E.resolved[u] = instance
        PROVE  ContainerInv'
    <2>1. boxes' = [boxes EXCEPT ![b] = E]
      BY <1>1, <1>3, SameAgain
    <2>2. back' \in Backs /\ (Failed' <=> why # "") /\ back'[1] = instance /\ back'[2] = why
      BY <1>3 DEF Backs, Failed
    <2> HIDE DEF E
    <2>3. Follows(E, cs) /\ (Failed' => Reason(E, Wanted(E, cs, u), back'[2]))
      BY <1>3, <2>2 DEF E
    <2>4. cs = <<>> /\ ~Failed' /\ E.singleton[u] => E.resolved[u] = back'[1]
      BY <1>3, <2>2
    <2>5. broken' = broken
      OBVIOUS
    <2> QED
      BY <1>1, <1>3, <2>1, <2>2, <2>3, <2>4, <2>5, Settles
  <1>4. CASE E.factory[t] = NoFactory
    <2>1. back' = <<0, "BindingNotFound">> /\ calls' = cs /\ UNCHANGED boxes
      BY <1>4 DEF Enter
    <2>2. Reason(E, Wanted(E, cs, u), "BindingNotFound")
      BY <1>2, <1>4 DEF Reason
    <2> QED
      BY <1>3, <2>1, <2>2
  <1>5. CASE E.factory[t] # NoFactory /\ Kept(E, t)
    <2>1. back' = <<E.resolved[t], "">> /\ calls' = cs /\ UNCHANGED boxes
      BY <1>5 DEF Enter
    <2>2. E.resolved[t] \in Nat
      BY <1>1 DEF Box
    <2>3. cs = <<>> => t = u
      BY DEF Wanted
    <2> QED
      BY <1>3, <2>1, <2>2, <2>3
  <1>6. CASE E.factory[t] # NoFactory /\ ~Kept(E, t) /\ Contains(E.stack, t)
    <2>1. back' = <<0, "CircularDependency">> /\ calls' = cs /\ UNCHANGED boxes
      BY <1>6 DEF Enter
    <2>2. E.stack \in Seq(Token)
      BY <1>1 DEF Box
    <2>3. PICK i \in DOMAIN E.stack : E.stack[i] = t
      BY <1>6, <2>2 DEF Contains
    <2>4. DOMAIN E.stack = DOMAIN cs /\ cs # <<>> /\ Len(E.stack) = Len(cs)
          /\ \A k \in DOMAIN cs : E.stack[k] = cs[k].token
      <3>1. DOMAIN E.stack = DOMAIN cs /\ \A k \in DOMAIN cs : E.stack[k] = cs[k].token
        BY DEF Follows
      <3>2. DOMAIN cs = 1..Len(cs) /\ DOMAIN E.stack = 1..Len(E.stack) /\ Len(cs) \in Nat /\ Len(E.stack) \in Nat
        BY <2>2 DEF Frames
      <3> QED
        BY <2>3, <3>1, <3>2
    <2>5. E.stack[Len(E.stack)] = Last(cs).token
      BY <2>4 DEF Last, Frames
    <2>6. \A k \in DOMAIN E.stack : k > 1 => E.stack[k] \in Opens(E, E.stack[k - 1])
      <3> SUFFICES ASSUME NEW k \in DOMAIN E.stack, k > 1 PROVE E.stack[k] \in Opens(E, E.stack[k - 1])
        OBVIOUS
      <3>1. k \in DOMAIN cs /\ k - 1 \in DOMAIN cs
        BY <2>2, <2>4
      <3> QED
        BY <2>4, <3>1 DEF Follows
    <2>7. t \in Near(E, Opens(E, t))
      <3>1. t \in Opens(E, E.stack[Len(E.stack)])
        BY <2>4, <2>5 DEF Wanted
      <3> HIDE DEF E
      <3> QED
        BY <2>2, <2>3, <2>6, <3>1, CircleIsReal
    <2>8. Reason(E, Wanted(E, cs, u), "CircularDependency")
      BY <1>2, <2>7 DEF Reason
    <2> QED
      BY <1>3, <2>1, <2>8
  <1>7. CASE E.factory[t] # NoFactory /\ ~Kept(E, t) /\ ~Contains(E.stack, t)
    <2> DEFINE box == [E EXCEPT !.stack = Append(E.stack, t)]
               f == [token |-> t, begun |-> 0]
               ds == Append(cs, f)
    <2>1. boxes' = [boxes EXCEPT ![b] = box] /\ calls' = ds /\ back' = <<>>
      BY <1>7 DEF Enter, Changes
    <2>2. E.stack \in Seq(Token) /\ box \in Box /\ box.stack = Append(E.stack, t)
          /\ box.factory = E.factory /\ box.singleton = E.singleton /\ box.resolved = E.resolved
      <3>1. E.stack \in Seq(Token)
        BY <1>1 DEF Box
      <3>2. Append(E.stack, t) \in Seq(Token)
        BY <3>1
      <3> HIDE DEF E
      <3> QED
        BY <1>1, <3>1, <3>2 DEF Box
    <2>3. /\ ds \in Frames /\ ds # <<>> /\ DOMAIN ds = 1..Len(cs) + 1 /\ Len(cs) \in Nat
          /\ ds[Len(cs) + 1] = f /\ f.token = t /\ DOMAIN cs = 1..Len(cs)
          /\ \A i \in DOMAIN cs : i \in DOMAIN ds /\ ds[i] = cs[i]
      BY DEF Frames
    <2> HIDE DEF ds, f
    <2>4. DOMAIN E.stack = DOMAIN cs /\ Len(E.stack) = Len(cs)
          /\ \A k \in DOMAIN cs : E.stack[k] = cs[k].token
      <3>1. DOMAIN E.stack = DOMAIN cs /\ \A k \in DOMAIN cs : E.stack[k] = cs[k].token
        BY DEF Follows
      <3>2. DOMAIN cs = 1..Len(cs) /\ DOMAIN E.stack = 1..Len(E.stack) /\ Len(cs) \in Nat /\ Len(E.stack) \in Nat
        BY <2>2 DEF Frames
      <3> QED
        BY <3>1, <3>2
    <2>5. \A v : Kept(box, v) = Kept(E, v) /\ Opens(box, v) = Opens(E, v)
      <3> HIDE DEF box, E
      <3> QED
        BY <2>2, SameNeeds
    <2>6. box.stack = [i \in DOMAIN ds |-> ds[i].token]
      BY <2>2, <2>3, <2>4
    <2>7. \A i \in DOMAIN ds : i > 1 => ds[i].token \in Opens(box, ds[i - 1].token)
      <3> SUFFICES ASSUME NEW i \in DOMAIN ds, i > 1 PROVE ds[i].token \in Opens(E, ds[i - 1].token)
        BY <2>5
      <3>1. CASE i \in DOMAIN cs
        BY <2>3, <3>1 DEF Follows
      <3>2. CASE i = Len(cs) + 1
        <4>1. cs # <<>> /\ ds[i - 1] = cs[Len(cs)] /\ Last(cs) = cs[Len(cs)]
          BY <2>3, <3>2 DEF Last
        <4> QED
          BY <2>3, <3>2, <4>1 DEF Wanted
      <3> QED
        BY <2>3, <3>1, <3>2
    <2>8. \A i \in DOMAIN ds : box.factory[ds[i].token] # NoFactory /\ ~Kept(box, ds[i].token)
      <3> SUFFICES ASSUME NEW i \in DOMAIN ds PROVE E.factory[ds[i].token] # NoFactory /\ ~Kept(E, ds[i].token)
        BY <2>2, <2>5
      <3>1. CASE i \in DOMAIN cs
        BY <2>3, <3>1 DEF Follows
      <3>2. CASE i = Len(cs) + 1
        BY <1>7, <2>3, <3>2
      <3> QED
        BY <2>3, <3>1, <3>2
    <2>9. \A i, j \in DOMAIN ds : ds[i].token = ds[j].token => i = j
      <3>1. \A i \in DOMAIN cs : cs[i].token # t
        BY <1>7, <2>4 DEF Contains
      <3> QED
        BY <2>3, <3>1 DEF Follows
    <2>10. Follows(box, ds)
      <3> HIDE DEF box
      <3> QED
        BY <2>6, <2>7, <2>8, <2>9 DEF Follows
    <2>11. ds[1].token = u
      BY <2>3 DEF Wanted
    <2>12. ~Failed' /\ broken' = broken
      BY <2>1 DEF Failed
    <2> HIDE DEF box
    <2> QED
      BY <1>1, <2>1, <2>2, <2>3, <2>10, <2>11, <2>12, Settles
  <1> QED
    BY <1>4, <1>5, <1>6, <1>7

LEMMA ElementOf ==
    ASSUME NEW S, NEW s \in Seq(S)
    PROVE  \A i \in DOMAIN s : s[i] \in S
  OBVIOUS

LEMMA UpTo ==
    ASSUME NEW S, NEW s \in Seq(S), NEW n \in Nat, n <= Len(s)
    PROVE  /\ SubSeq(s, 1, n) \in Seq(S) /\ Len(SubSeq(s, 1, n)) = n
           /\ \A i \in 1..n : SubSeq(s, 1, n)[i] = s[i]
  OBVIOUS

LEMMA FrontOf ==
    ASSUME NEW S, NEW s \in Seq(S), Len(s) > 0
    PROVE  /\ Front(s) \in Seq(S) /\ DOMAIN Front(s) = 1..Len(s) - 1 /\ Len(Front(s)) = Len(s) - 1
           /\ \A i \in 1..Len(s) - 1 : Front(s)[i] = s[i]
  <1>1. Len(s) - 1 \in Nat /\ Len(s) - 1 <= Len(s)
    OBVIOUS
  <1>2. Front(s) = SubSeq(s, 1, Len(s) - 1)
    BY DEF Front
  <1>3. /\ Front(s) \in Seq(S) /\ Len(Front(s)) = Len(s) - 1
        /\ \A i \in 1..Len(s) - 1 : Front(s)[i] = s[i]
    BY <1>1, <1>2, UpTo
  <1>4. DOMAIN Front(s) = 1..Len(s) - 1
    BY <1>3
  <1> QED
    BY <1>3, <1>4

LEMMA CallsAre ==
    ASSUME NEW cs \in Frames
    PROVE  \A i \in DOMAIN cs : cs[i] \in [token : Token, begun : Nat] /\ cs[i].token \in Token
  <1> SUFFICES ASSUME NEW i \in DOMAIN cs
               PROVE  cs[i] \in [token : Token, begun : Nat] /\ cs[i].token \in Token
    OBVIOUS
  <1>1. cs[i] \in [token : Token, begun : Nat]
    BY ElementOf DEF Frames
  <1> QED
    BY <1>1

LEMMA WhileRunning ==
    ASSUME ContainerInv, ~AtRest
    PROVE  /\ asked = <<asked[1], asked[2]>> /\ asked[1] \in DOMAIN boxes /\ asked[2] \in Token
           /\ calls \in Frames /\ calls # <<>> /\ Here \in Box /\ Follows(Here, calls)
           /\ calls[1].token = asked[2]
           /\ \A c \in DOMAIN boxes : c # asked[1] => boxes[c].stack = <<>>
           /\ DOMAIN calls = 1..Len(calls) /\ Len(calls) \in Nat \ {0}
           /\ Running = calls[Len(calls)].token /\ Running \in Token
           /\ Last(calls) = calls[Len(calls)] /\ Last(calls) \in [token : Token, begun : Nat]
           /\ back = <<>> \/ back \in Backs
  <1>1. ContainerTypeOK /\ StackFollowsCalls /\ RunningIsNew /\ RunsOnce /\ AskedFirst
    BY DEF ContainerInv
  <1>2. calls \in Frames /\ calls # <<>> /\ asked # <<>> /\ calls[1].token = asked[2]
    BY <1>1 DEF ContainerTypeOK, AtRest, AskedFirst, Frames
  <1>3. asked \in (DOMAIN boxes) \X Token
    BY <1>1, <1>2 DEF ContainerTypeOK
  <1>4. Here \in Box
    BY <1>3, ContainerTypes DEF Here
  <1>5. DOMAIN calls = 1..Len(calls) /\ Len(calls) \in Nat \ {0}
    BY <1>2 DEF Frames
  <1>6. /\ Running = calls[Len(calls)].token /\ Running \in Token
        /\ Last(calls) = calls[Len(calls)] /\ Last(calls) \in [token : Token, begun : Nat]
    <2>1. Len(calls) \in DOMAIN calls
      BY <1>5
    <2> QED
      BY <1>2, <2>1, CallsAre DEF Running, Last
  <1>7. Follows(Here, calls)
    BY <1>1, <1>2, <1>3 DEF Follows, Here, StackFollowsCalls, RunningIsNew, RunsOnce, AtRest
  <1>8. \A c \in DOMAIN boxes : c # asked[1] => boxes[c].stack = <<>>
    BY <1>1 DEF StackFollowsCalls
  <1>9. back = <<>> \/ back \in Backs
    BY <1>1 DEF ContainerTypeOK, Backs
  <1> QED
    BY <1>2, <1>3, <1>4, <1>5, <1>6, <1>7, <1>8, <1>9

LEMMA Makes ==
    ASSUME ContainerInv, NEW b \in DOMAIN boxes, NEW t \in Token, Make(b, t)
    PROVE  ContainerInv'
  <1>1. AtRest /\ asked' = <<b, t>> /\ Enter(b, t, <<>>) /\ UNCHANGED <<broken, made>>
    BY DEF Make
  <1>2. \A c \in DOMAIN boxes : boxes[c].stack = <<>>
    BY <1>1, BoxAtRest
  <1> DEFINE cs == <<>>
  <1>3. cs \in Frames /\ Follows(boxes[b], cs) /\ t \in Wanted(boxes[b], cs, t)
    BY <1>2 DEF Frames, Follows, Wanted
  <1>4. Enter(b, t, cs)
    BY <1>1
  <1>5. cs # <<>> => cs[1].token = t
    OBVIOUS
  <1> HIDE DEF cs
  <1> QED
    BY <1>1, <1>2, <1>3, <1>4, <1>5, Enters

LEMMA MakesNext ==
    ASSUME ContainerInv, MakeNext
    PROVE  ContainerInv'
  <1> DEFINE n == Last(calls).begun + 1
             cs == [calls EXCEPT ![Len(calls)].begun = n]
             t == ToMake[n]
             b == asked[1]
             u == asked[2]
  <1>1. ~AtRest /\ n <= Len(ToMake) /\ Enter(b, t, cs) /\ UNCHANGED <<broken, made, asked>>
    BY DEF MakeNext
  <1>2. /\ asked = <<b, u>> /\ b \in DOMAIN boxes /\ u \in Token
        /\ calls \in Frames /\ Here \in Box /\ Follows(Here, calls)
        /\ calls[1].token = u
        /\ \A c \in DOMAIN boxes : c # b => boxes[c].stack = <<>>
        /\ DOMAIN calls = 1..Len(calls) /\ Len(calls) \in Nat \ {0}
        /\ Running = calls[Len(calls)].token /\ Running \in Token
        /\ Last(calls) = calls[Len(calls)] /\ Last(calls) \in [token : Token, begun : Nat]
    BY <1>1, WhileRunning
  <1>3. n \in Nat \ {0}
    BY <1>2
  <1> HIDE DEF n
  <1>4. /\ cs \in Frames /\ DOMAIN cs = DOMAIN calls /\ Len(cs) = Len(calls) /\ cs # <<>>
        /\ \A i \in DOMAIN calls : cs[i].token = calls[i].token
    <2> DEFINE r == [Last(calls) EXCEPT !.begun = n]
    <2>1. r \in [token : Token, begun : Nat] /\ r.token = Last(calls).token
      BY <1>2, <1>3
    <2>2. cs = [calls EXCEPT ![Len(calls)] = r]
      BY <1>2
    <2> HIDE DEF r, cs
    <2> QED
      BY <1>2, <2>1, <2>2 DEF Frames
  <1> HIDE DEF cs
  <1>5. Last(cs).token = Running
    BY <1>2, <1>4 DEF Last
  <1>6. t \in Opens(Here, Running) /\ t \in Token
    <2>1. Here.factory[Running] \in DOMAIN Needs \cup {NoFactory, ItsValue}
      BY <1>2 DEF Box
    <2>2. Here.factory[Running] # NoFactory /\ ~Kept(Here, Running)
      BY <1>2 DEF Follows
    <2>3. Here.factory[Running] # ItsValue
      BY <1>1, <1>3 DEF ToMake, Making
    <2>4. Here.factory[Running] \in DOMAIN Needs
      BY <2>1, <2>2, <2>3
    <2>5. ToMake = Needs[Here.factory[Running]] /\ ToMake \in Seq(Token)
      BY <2>3, <2>4, ContainerAssumption DEF ToMake, Making
    <2>6. n \in DOMAIN ToMake
      BY <1>1, <1>3, <2>5
    <2> QED
      BY <2>2, <2>4, <2>5, <2>6 DEF Opens, ToSet
  <1>7. Follows(boxes[b], cs)
    BY <1>2, <1>4 DEF Follows, Here
  <1>8. t \in Wanted(boxes[b], cs, u)
    BY <1>4, <1>5, <1>6 DEF Wanted, Here
  <1>9. cs # <<>> => cs[1].token = u
    BY <1>2, <1>4
  <1>10. asked' = <<b, u>> /\ UNCHANGED <<broken, made>>
    BY <1>1, <1>2
  <1> HIDE DEF t, b, u
  <1> QED
    BY <1>1, <1>2, <1>4, <1>6, <1>7, <1>8, <1>9, <1>10, Enters

\* A factory that is done was made for the one before it, or for who asked; the calls that
\* stay are as they were, whatever becomes of its own token.
LEMMA Unwinds ==
    ASSUME ContainerInv, ~AtRest, NEW box \in Box, box.stack = Front(Here.stack),
           box.factory = Here.factory, box.singleton = Here.singleton,
           \A t \in Token \ {Running} : box.resolved[t] = Here.resolved[t]
    PROVE  /\ Front(calls) \in Frames /\ Follows(box, Front(calls))
           /\ Front(calls) # <<>> => Front(calls)[1].token = asked[2]
           /\ Running \in Wanted(Here, Front(calls), asked[2])
           /\ Front(calls) = <<>> => Running = asked[2]
  <1> DEFINE cs == Front(calls)
             m == Len(calls)
  <1>1. /\ calls \in Frames /\ Here \in Box /\ Follows(Here, calls) /\ calls[1].token = asked[2]
        /\ DOMAIN calls = 1..m /\ m \in Nat \ {0} /\ Running = calls[m].token /\ Running \in Token
    BY WhileRunning
  <1>2. /\ cs \in Frames /\ DOMAIN cs = 1..m - 1 /\ Len(cs) = m - 1
        /\ \A i \in 1..m - 1 : cs[i] = calls[i]
    <2>1. PICK R : Frames = Seq(R)
      BY DEF Frames
    <2>2. calls \in Seq(R) /\ Len(calls) > 0
      BY <1>1, <2>1
    <2> HIDE DEF cs, m
    <2>3. /\ cs \in Seq(R) /\ DOMAIN cs = 1..m - 1 /\ Len(cs) = m - 1
          /\ \A i \in 1..m - 1 : cs[i] = calls[i]
      BY <2>2, FrontOf DEF cs, m
    <2> QED
      BY <2>1, <2>3
  <1>3. Here.stack \in Seq(Token) /\ DOMAIN Here.stack = 1..m /\ Len(Here.stack) = m
        /\ \A i \in 1..m : Here.stack[i] = calls[i].token
    <2>1. Here.stack \in Seq(Token) /\ DOMAIN Here.stack = 1..m /\ \A i \in 1..m : Here.stack[i] = calls[i].token
      BY <1>1 DEF Follows, Box
    <2> QED
      BY <1>1, <2>1
  <1> HIDE DEF cs, m
  <1>4. box.stack \in Seq(Token) /\ DOMAIN box.stack = 1..m - 1 /\ \A i \in 1..m - 1 : box.stack[i] = calls[i].token
    <2> DEFINE s == Here.stack
    <2>1. s \in Seq(Token) /\ Len(s) = m /\ Len(s) > 0 /\ \A i \in 1..m : s[i] = calls[i].token
      BY <1>1, <1>3
    <2> HIDE DEF s
    <2>2. /\ Front(s) \in Seq(Token) /\ DOMAIN Front(s) = 1..m - 1
          /\ \A i \in 1..m - 1 : Front(s)[i] = calls[i].token
      BY <1>1, <2>1, FrontOf
    <2>3. box.stack = Front(s)
      BY Zenon DEF s
    <2> QED
      BY <2>2, <2>3
  <1>5. \A i \in 1..m - 1 : calls[i].token \in Token \ {Running}
    <2> SUFFICES ASSUME NEW i \in 1..m - 1 PROVE calls[i].token \in Token \ {Running}
      OBVIOUS
    <2>1. i \in 1..m /\ m \in 1..m /\ i # m
      BY <1>1
    <2>2. calls[i].token # calls[m].token
      BY <1>1, <2>1 DEF Follows
    <2> QED
      BY <1>1, <2>1, <2>2, CallsAre
  <1>6. \A t \in Token \ {Running} : Kept(box, t) = Kept(Here, t) /\ Opens(box, t) = Opens(Here, t)
    BY DEF Kept, Opens
  <1>7. box.stack = [i \in DOMAIN cs |-> cs[i].token]
    BY <1>1, <1>2, <1>4
  <1>8. \A i \in DOMAIN cs : i > 1 => cs[i].token \in Opens(box, cs[i - 1].token)
    <2> SUFFICES ASSUME NEW i \in 1..m - 1, i > 1 PROVE cs[i].token \in Opens(box, cs[i - 1].token)
      BY <1>2
    <2>1. i \in 1..m /\ i - 1 \in 1..m - 1
      BY <1>1
    <2>2. calls[i].token \in Opens(Here, calls[i - 1].token)
      BY <1>1, <2>1 DEF Follows
    <2> QED
      BY <1>2, <1>5, <1>6, <2>1, <2>2
  <1>9. \A i \in DOMAIN cs : box.factory[cs[i].token] # NoFactory /\ ~Kept(box, cs[i].token)
    <2> SUFFICES ASSUME NEW i \in 1..m - 1 PROVE box.factory[cs[i].token] # NoFactory /\ ~Kept(box, cs[i].token)
      BY <1>2
    <2>1. i \in 1..m
      BY <1>1
    <2>2. Here.factory[calls[i].token] # NoFactory /\ ~Kept(Here, calls[i].token)
      BY <1>1, <2>1 DEF Follows
    <2> QED
      BY <1>2, <1>5, <1>6, <2>2
  <1>10. \A i, j \in DOMAIN cs : cs[i].token = cs[j].token => i = j
    <2> SUFFICES ASSUME NEW i \in 1..m - 1, NEW j \in 1..m - 1, cs[i].token = cs[j].token PROVE i = j
      BY <1>2
    <2>1. i \in 1..m /\ j \in 1..m
      BY <1>1
    <2> QED
      BY <1>1, <1>2, <2>1 DEF Follows
  <1>11. Follows(box, cs)
    BY <1>7, <1>8, <1>9, <1>10 DEF Follows
  <1>12. CASE m = 1
    <2>1. cs = <<>>
      BY <1>2, <1>12 DEF Frames
    <2> QED
      BY <1>1, <1>2, <1>11, <1>12, <2>1 DEF cs, Wanted
  <1>13. CASE m > 1
    <2>1. cs # <<>> /\ m \in 1..m /\ m - 1 \in 1..m - 1 /\ 1 \in 1..m - 1
      BY <1>1, <1>2, <1>13
    <2>2. Last(cs) = calls[m - 1]
      BY <1>2, <2>1 DEF Last
    <2>3. calls[m].token \in Opens(Here, calls[m - 1].token)
      BY <1>1, <1>13, <2>1 DEF Follows
    <2> QED
      BY <1>1, <1>2, <1>11, <2>1, <2>2, <2>3 DEF cs, Wanted
  <1> QED
    BY <1>1, <1>12, <1>13

LEMMA PairIsThere ==
    ASSUME NEW S, NEW T, NEW x \in S \X T
    PROVE  x # <<>>
  OBVIOUS

LEMMA BackIsThere ==
    ASSUME NEW x \in Backs
    PROVE  x # <<>>
  <1>1. PICK T : Backs = Nat \X T
    BY DEF Backs
  <1> QED
    BY <1>1, PairIsThere

LEMMA MadeIsNumber ==
    ASSUME ContainerInv
    PROVE  made \in Nat
  BY ContainerTypes

LEMMA ThrowsOn ==
    ASSUME ContainerInv, Throws
    PROVE  ContainerInv'
  <1> DEFINE cs == Front(calls)
             box == [Here EXCEPT !.stack = Front(Here.stack)]
             b == asked[1]
             u == asked[2]
  <1>1. /\ ~AtRest /\ UNCHANGED <<broken, made, asked>> /\ calls' = cs
        /\ boxes' = [boxes EXCEPT ![b] = box]
    BY DEF Throws, Changes, Pop
  <1>2. /\ asked = <<b, u>> /\ b \in DOMAIN boxes /\ u \in Token
        /\ Here \in Box /\ Running \in Token /\ (back = <<>> \/ back \in Backs)
        /\ \A c \in DOMAIN boxes : c # b => boxes[c].stack = <<>>
        /\ Follows(Here, calls) /\ calls \in Frames /\ DOMAIN calls = 1..Len(calls) /\ Len(calls) \in Nat \ {0}
    BY <1>1, WhileRunning
  <1>3. Front(Here.stack) \in Seq(Token)
    <2>1. Here.stack \in Seq(Token) /\ DOMAIN Here.stack = 1..Len(calls)
      BY <1>2 DEF Box, Follows
    <2>2. Len(Here.stack) > 0
      BY <1>2, <2>1
    <2> QED
      BY <2>1, <2>2, FrontOf
  <1>4. /\ box \in Box /\ box.stack = Front(Here.stack)
        /\ box.factory = Here.factory /\ box.singleton = Here.singleton /\ box.resolved = Here.resolved
    BY <1>2, <1>3 DEF Box
  <1> HIDE DEF box
  <1>5. /\ cs \in Frames /\ Follows(box, cs) /\ (cs # <<>> => cs[1].token = u)
        /\ Running \in Wanted(Here, cs, u)
    BY <1>1, <1>4, Unwinds
  <1> HIDE DEF cs
  <1>6. /\ \A ts, why : Reason(box, ts, why) = Reason(Here, ts, why)
        /\ Wanted(box, cs, u) = Wanted(Here, cs, u)
    BY <1>4, SameNeeds DEF Wanted
  <1>7. /\ Running \in Near(Here, Wanted(Here, cs, u))
        /\ Near(Here, Opens(Here, Running)) \subseteq Near(Here, Wanted(Here, cs, u))
    BY <1>2, <1>5, NearSteps
  <1>8. back' \in Backs /\ back'[2] # "" /\ Reason(Here, Wanted(Here, cs, u), back'[2])
    <2>1. CASE ~GoesOn /\ UNCHANGED back
      <3>1. Failed /\ back' = back /\ back \in Backs
        BY <1>2, <2>1 DEF GoesOn, Failed
      <3>2. Reason(Here, Opens(Here, Running), back[2])
        BY <1>1, <3>1 DEF ContainerInv, HasItsReason, Here, Running
      <3> QED
        BY <1>7, <3>1, <3>2 DEF Reason, Failed
    <2>2. CASE Making \in broken /\ back' = <<0, "Threw">>
      <3>1. back' \in Backs /\ back'[2] = "Threw"
        BY <2>2 DEF Backs
      <3> QED
        BY <1>7, <2>2, <3>1 DEF Reason, Making
    <2> QED
      BY <2>1, <2>2 DEF Throws
  <1>9. Failed' /\ broken' = broken /\ made' \in Nat /\ asked' = <<b, u>>
    <2>1. made \in Nat
      BY MadeIsNumber
    <2>2. Failed'
      BY <1>8, BackIsThere DEF Failed
    <2>3. made' = made
      BY DEF Throws
    <2>4. broken' = broken /\ asked' = <<b, u>>
      BY <1>1, <1>2, Zenon
    <2> QED
      BY <2>1, <2>2, <2>3, <2>4, Zenon
  <1>10. Reason(box, Wanted(box, cs, u), back'[2])
    BY <1>6, <1>8
  <1> HIDE DEF b, u
  <1> QED
    BY <1>1, <1>2, <1>4, <1>5, <1>8, <1>9, <1>10, Settles

LEMMA ReturnsToCaller ==
    ASSUME ContainerInv, Returns
    PROVE  ContainerInv'
  <1> DEFINE cs == Front(calls)
             popped == [Here EXCEPT !.stack = Front(Here.stack)]
             box == Keep(popped, Running, made')
             b == asked[1]
             u == asked[2]
  <1>1. /\ ~AtRest /\ UNCHANGED <<broken, asked>> /\ calls' = cs /\ made' = made + 1
        /\ back' = <<made', "">> /\ boxes' = [boxes EXCEPT ![b] = box]
    BY DEF Returns, Changes, Pop
  <1>2. /\ asked = <<b, u>> /\ b \in DOMAIN boxes /\ u \in Token
        /\ Here \in Box /\ Running \in Token
        /\ \A c \in DOMAIN boxes : c # b => boxes[c].stack = <<>>
        /\ Follows(Here, calls) /\ DOMAIN calls = 1..Len(calls) /\ Len(calls) \in Nat \ {0}
    BY <1>1, WhileRunning
  <1>3. Front(Here.stack) \in Seq(Token)
    <2>1. Here.stack \in Seq(Token) /\ DOMAIN Here.stack = 1..Len(calls)
      BY <1>2 DEF Box, Follows
    <2>2. Len(Here.stack) > 0
      BY <1>2, <2>1
    <2> QED
      BY <2>1, <2>2, FrontOf
  <1>4. /\ popped \in Box /\ popped.stack = Front(Here.stack)
        /\ popped.factory = Here.factory /\ popped.singleton = Here.singleton /\ popped.resolved = Here.resolved
    BY <1>2, <1>3 DEF Box
  <1>5. made' \in Nat
    <2>1. made \in Nat
      BY MadeIsNumber
    <2>2. made' = made + 1
      BY DEF Returns
    <2> HIDE DEF popped, box, cs, b, u
    <2> QED
      BY <2>1, <2>2
  <1> HIDE DEF popped
  <1>6. /\ box \in Box /\ box.stack = Front(Here.stack)
        /\ box.factory = Here.factory /\ box.singleton = Here.singleton
        /\ \A t \in Token \ {Running} : box.resolved[t] = Here.resolved[t]
        /\ box.singleton[Running] => box.resolved[Running] = made'
    <2>1. CASE ~popped.singleton[Running]
      BY <1>4, <2>1 DEF Keep
    <2>2. CASE popped.singleton[Running]
      <3> DEFINE r == [popped.resolved EXCEPT ![Running] = made']
      <3>1. r \in [Token -> Nat] /\ r[Running] = made' /\ \A t \in Token \ {Running} : r[t] = popped.resolved[t]
        BY <1>2, <1>4, <1>5 DEF Box
      <3>2. box = [popped EXCEPT !.resolved = r]
        BY <1>4, <2>2 DEF Keep, Box
      <3> HIDE DEF r, box
      <3>3. box \in Box /\ box.stack = popped.stack /\ box.factory = popped.factory
            /\ box.singleton = popped.singleton /\ box.resolved = r
        BY <1>4, <3>1, <3>2 DEF Box
      <3> QED
        BY <1>4, <3>1, <3>3
    <2> QED
      BY <2>1, <2>2
  <1> HIDE DEF box
  <1>7. /\ cs \in Frames /\ Follows(box, cs) /\ (cs # <<>> => cs[1].token = u)
        /\ (cs = <<>> => Running = u)
    BY <1>1, <1>6, Unwinds
  <1> HIDE DEF cs
  <1>8. back' \in Backs /\ ~Failed' /\ back'[1] = made'
    BY <1>1, <1>5 DEF Backs, Failed
  <1>9. cs = <<>> /\ ~Failed' /\ box.singleton[u] => box.resolved[u] = back'[1]
    BY <1>6, <1>7, <1>8
  <1>10. broken' = broken /\ asked' = <<b, u>>
    BY <1>1, <1>2
  <1> HIDE DEF b, u
  <1> QED
    BY <1>1, <1>2, <1>5, <1>6, <1>7, <1>8, <1>9, <1>10, Settles

LEMMA ContainerSteps ==
    ASSUME ContainerInv, [ContainerNext]_containerVars
    PROVE  ContainerInv'
  <1>1. CASE ContainerNext /\ ~(MakeNext \/ Throws \/ Returns) /\ ~\E b \in DOMAIN boxes, t \in Token : Make(b, t)
    BY <1>1, SettingUp
  <1>2. CASE \E b \in DOMAIN boxes, t \in Token : Make(b, t)
    BY <1>2, Makes
  <1>3. CASE MakeNext \/ Throws \/ Returns
    BY <1>3, MakesNext, ThrowsOn, ReturnsToCaller
  <1>4. CASE UNCHANGED containerVars
    <2>1. /\ boxes' = boxes /\ broken' = broken /\ made' = made /\ asked' = asked
          /\ calls' = calls /\ back' = back
      BY <1>4 DEF containerVars
    <2>2. ContainerTypeOK' /\ StackFollowsCalls' /\ RunningIsNew' /\ RunsOnce' /\ AskedFirst'
      BY <2>1 DEF ContainerInv, ContainerTypeOK, StackFollowsCalls, RunningIsNew, RunsOnce, AskedFirst, AtRest
    <2>3. HasItsReason' /\ MakesWhatItCan'
      BY <2>1 DEF ContainerInv, HasItsReason, MakesWhatItCan, Reason, AtRest, Failed
    <2> QED
      BY <2>2, <2>3 DEF ContainerInv
  <1> QED
    BY <1>1, <1>2, <1>3, <1>4

\* A container keeps its invariant, whatever is bound, whatever the factories need, catch and
\* throw, and however many scopes there are.
THEOREM ContainerInvariance == ContainerSpec => []ContainerInv
  <1>1. ContainerInit => ContainerInv
    BY ContainerStarts
  <1>2. ContainerInv /\ [ContainerNext]_containerVars => ContainerInv'
    BY ContainerSteps
  <1> QED
    BY <1>1, <1>2, PTL DEF ContainerSpec

\* make() reports a circle only where there is one, an unbound token or a failure only where
\* something it needs is unbound or broken, and gives every caller of a singleton the
\* instance that is kept: whatever failed before and whatever factories have caught.
THEOREM FailuresHaveReasons == ContainerSpec => []MakesWhatItCan
  <1>1. ContainerInv => MakesWhatItCan
    BY DEF ContainerInv
  <1> QED
    BY <1>1, ContainerInvariance, PTL

\* The resolution stack is the factories that run, each made for the one before it, and is
\* empty between two make() calls, however they ended.
THEOREM StackIsTheCalls == ContainerSpec => []StackFollowsCalls
  <1>1. ContainerInv => StackFollowsCalls
    BY DEF ContainerInv
  <1> QED
    BY <1>1, ContainerInvariance, PTL

LEMMA ReturnsKeeps ==
    ASSUME ContainerInv, Returns, NEW b \in DOMAIN boxes, NEW t \in Token, boxes[b].resolved[t] # 0
    PROVE  boxes'[b].resolved[t] = boxes[b].resolved[t]
  <1> DEFINE popped == Pop(Here, TRUE)
             a == asked[1]
  <1>1. ~AtRest /\ boxes' = [boxes EXCEPT ![a] = Keep(popped, Running, made')]
    BY DEF Returns, Changes
  <1>2. a \in DOMAIN boxes /\ Here \in Box /\ Running \in Token /\ Follows(Here, calls)
        /\ DOMAIN calls = 1..Len(calls) /\ Len(calls) \in Nat \ {0} /\ Running = calls[Len(calls)].token
    BY <1>1, WhileRunning
  <1>3. CASE b # a
    BY <1>1, <1>2, <1>3
  <1>4. CASE b = a
    <2>1. boxes'[b] = Keep(popped, Running, made') /\ boxes[b] = Here
      BY <1>1, <1>2, <1>4, ContainerTypes DEF Here
    <2>2. popped.resolved = Here.resolved /\ popped.singleton = Here.singleton /\ Here.resolved \in [Token -> Nat]
      BY <1>2 DEF Pop, Box
    <2>3. CASE ~Here.singleton[Running]
      BY <2>1, <2>2, <2>3 DEF Keep
    <2>4. CASE Here.singleton[Running]
      <3>1. Here.resolved[Running] = 0
        BY <1>2, <2>4 DEF Follows, Kept
      <3>2. Keep(popped, Running, made').resolved = [popped.resolved EXCEPT ![Running] = made']
        BY <1>2, <2>2, <2>4 DEF Keep, Pop, Box
      <3>3. t # Running
        BY <2>1, <3>1
      <3> HIDE DEF popped
      <3> QED
        BY <2>1, <2>2, <3>2, <3>3
    <2> QED
      BY <2>3, <2>4
  <1> QED
    BY <1>3, <1>4

LEMMA StepsKeep ==
    ASSUME ContainerInv, ContainerNext, NEW b \in DOMAIN boxes, NEW t \in Token,
           boxes[b].resolved[t] # 0, boxes'[b].resolved[t] # boxes[b].resolved[t]
    PROVE  AtRest /\ asked' = <<>> /\ boxes'[b].factory[t] = ItsValue
  <1>0. boxes \in Seq(Box) /\ \A c \in DOMAIN boxes : boxes[c] \in Box
    BY ContainerTypes
  <1>1. ASSUME NEW c \in DOMAIN boxes, NEW box, Changes(c, box), box.resolved = boxes[c].resolved
        PROVE  FALSE
    BY <1>0, <1>1 DEF Changes
  <1>2. ASSUME UNCHANGED boxes PROVE FALSE
    BY <1>2
  <1>3. ASSUME NEW c \in DOMAIN boxes, NEW u \in Token, NEW f, NEW singleton, Bind(c, u, f, singleton)
        PROVE  FALSE
    <2> DEFINE box == [boxes[c] EXCEPT !.factory[u] = f, !.singleton[u] = singleton]
    <2>1. Changes(c, box)
      BY <1>3 DEF Bind
    <2>2. box.resolved = boxes[c].resolved
      BY <1>0 DEF Box
    <2> HIDE DEF box
    <2> QED
      BY <1>1, <2>1, <2>2
  <1>4. ASSUME NEW c \in DOMAIN boxes, NEW u \in Token, Instance(c, u)
        PROVE  AtRest /\ asked' = <<>> /\ boxes'[b].factory[t] = ItsValue
    <2> DEFINE box == [boxes[c] EXCEPT !.factory[u] = ItsValue, !.singleton[u] = TRUE, !.resolved[u] = made']
    <2>1. Changes(c, box) /\ AtRest /\ asked' = <<>>
      BY <1>4 DEF Instance, Anew
    <2>2. boxes[c] \in Box
      BY <1>0
    <2>3. /\ box.factory = [boxes[c].factory EXCEPT ![u] = ItsValue]
          /\ box.resolved = [boxes[c].resolved EXCEPT ![u] = made']
      BY <2>2 DEF Box
    <2>4. boxes[c].factory \in [Token -> DOMAIN Needs \cup {NoFactory, ItsValue}] /\ boxes[c].resolved \in [Token -> Nat]
      BY <2>2 DEF Box
    <2> HIDE DEF box
    <2>5. b = c /\ boxes'[b] = box
      BY <1>0, <2>1 DEF Changes
    <2>6. t = u
      BY <2>3, <2>4, <2>5
    <2> QED
      BY <2>1, <2>3, <2>4, <2>5, <2>6
  <1>5. ASSUME NEW c \in DOMAIN boxes, CreateScope(c) PROVE FALSE
    <2>1. PICK box : boxes' = Append(boxes, box)
      BY <1>5 DEF CreateScope
    <2>2. boxes'[b] = boxes[b]
      BY <1>0, <2>1
    <2> QED
      BY <2>2
  <1>6. ASSUME NEW c \in DOMAIN boxes, Freeze(c) PROVE FALSE
    <2>1. [boxes[c] EXCEPT !.frozen = TRUE].resolved = boxes[c].resolved
      BY <1>0 DEF Box
    <2> QED
      BY <1>1, <1>6, <2>1 DEF Freeze
  <1>7. ASSUME NEW factory, Mend(factory) PROVE FALSE
    BY <1>7 DEF Mend
  <1>8. ASSUME NEW c \in DOMAIN boxes, NEW u, NEW cs, Enter(c, u, cs) PROVE FALSE
    <2>1. [boxes[c] EXCEPT !.stack = Append(boxes[c].stack, u)].resolved = boxes[c].resolved
      BY <1>0 DEF Box
    <2>2. CASE UNCHANGED boxes
      BY <2>2
    <2>3. CASE Changes(c, [boxes[c] EXCEPT !.stack = Append(boxes[c].stack, u)])
      BY <1>1, <2>1, <2>3
    <2> QED
      BY <1>8, <2>2, <2>3 DEF Enter
  <1>9. ASSUME MakeNext PROVE FALSE
    <2>1. asked[1] \in DOMAIN boxes
      BY <1>9, WhileRunning DEF MakeNext
    <2> QED
      BY <1>8, <1>9, <2>1 DEF MakeNext
  <1>10. ASSUME Throws PROVE FALSE
    <2>1. asked[1] \in DOMAIN boxes /\ Here \in Box /\ Here = boxes[asked[1]]
      BY <1>10, WhileRunning DEF Throws, Here
    <2>2. [Here EXCEPT !.stack = Front(Here.stack)].resolved = Here.resolved
      BY <2>1 DEF Box
    <2>3. Changes(asked[1], [Here EXCEPT !.stack = Front(Here.stack)])
      BY <1>10 DEF Throws, Pop
    <2> QED
      BY <1>1, <2>1, <2>2, <2>3
  <1>11. ASSUME Returns PROVE FALSE
    BY <1>11, ReturnsKeeps
  <1>12. ASSUME NEW c \in DOMAIN boxes, NEW u \in Token, Make(c, u) PROVE FALSE
    BY <1>8, <1>12 DEF Make
  <1> QED
    BY <1>3, <1>4, <1>5, <1>6, <1>7, <1>9, <1>10, <1>11, <1>12 DEF ContainerNext

\* The instance kept of a singleton is replaced by instance() alone, never by a make().
THEOREM SingletonsAreOne == ContainerSpec => KeptForGood
  <1>1. ContainerInv /\ [ContainerNext]_containerVars =>
          [\A b \in DOMAIN boxes : \A t \in Token :
              boxes[b].resolved[t] \notin {0, boxes'[b].resolved[t]} =>
                  AtRest /\ asked' = <<>> /\ boxes'[b].factory[t] = ItsValue]_containerVars
    BY StepsKeep
  <1> QED
    BY <1>1, ContainerInvariance, PTL DEF ContainerSpec, KeptForGood
-----------------------------------------------------------------------------
\* A function of 0..n into S that starts with a and goes on with step.
GoesOnFrom(S, n, a, step) ==
    \E g \in [0..n -> S] : g[0] = a /\ \A i \in 1..n : g[i] = step[i][g[i - 1]]

\* It is there.
LEMMA Recursion ==
    ASSUME NEW S, NEW n \in Nat, NEW a \in S, NEW step \in [1..n -> [S -> S]]
    PROVE  GoesOnFrom(S, n, a, step)
  <1> DEFINE Fits(m) == \E g \in [0..m -> S] : g[0] = a /\ \A i \in 1..m : g[i] = step[i][g[i - 1]]
  <1> DEFINE I == {m \in Nat : m <= n => Fits(m)}
  <1>1. 0 \in I
    <2> DEFINE g == [i \in {0} |-> a]
    <2>1. 0..0 = {0} /\ 1..0 = {}
      OBVIOUS
    <2>2. g \in [{0} -> S] /\ g[0] = a
      OBVIOUS
    <2>3. Fits(0)
      BY <2>1, <2>2
    <2> QED
      BY <2>3
  <1>2. ASSUME NEW m \in I PROVE m + 1 \in I
    <2>1. SUFFICES ASSUME m + 1 <= n PROVE Fits(m + 1)
      <3> HIDE DEF Fits
      <3> QED
        OBVIOUS
    <2>2. m \in Nat
      OBVIOUS
    <2>3. Fits(m)
      BY <2>1, <2>2
    <2>4. PICK g \in [0..m -> S] : g[0] = a /\ \A i \in 1..m : g[i] = step[i][g[i - 1]]
      BY <2>3
    <2> DEFINE b == step[m + 1][g[m]]
    <2> DEFINE h == [i \in 0..m + 1 |-> IF i = m + 1 THEN b ELSE g[i]]
    <2>5. b \in S
      BY <2>1, <2>2, <2>4
    <2> HIDE DEF b
    <2>6. h \in [0..m + 1 -> S] /\ h[0] = a /\ h[m + 1] = b /\ \A i \in 0..m : h[i] = g[i]
      BY <2>2, <2>4, <2>5
    <2> HIDE DEF h
    <2>7. ASSUME NEW i \in 1..m + 1 PROVE h[i] = step[i][h[i - 1]]
      <3>1. CASE i = m + 1
        BY <3>1, <2>2, <2>6 DEF b
      <3>2. CASE i \in 1..m
        <4>1. i - 1 \in 0..m /\ i \in 0..m
          BY <3>2, <2>2
        <4> QED
          BY <4>1, <3>2, <2>4, <2>6
      <3> QED
        BY <3>1, <3>2, <2>2
    <2> QED
      BY <2>6, <2>7
  <1> HIDE DEF Fits
  <1>3. n \in I
    <2>1. I \in SUBSET Nat
      OBVIOUS
    <2> HIDE DEF I
    <2> QED
      BY <1>1, <1>2, <2>1, Induction
  <1>4. Fits(n)
    BY <1>3
  <1> QED
    BY <1>4 DEF Fits, GoesOnFrom

\* The greatest and the least element of a set of numbers.
LEMMA Largest ==
    ASSUME NEW n \in Nat, NEW X \in SUBSET (0..n), X # {}
    PROVE  Max(X) \in X /\ \A y \in X : y <= Max(X)
  <1> DEFINE HasOne(Y) == \E x \in Y : \A y \in Y : y <= x
  <1> DEFINE I == {m \in Nat : \A Y \in SUBSET (0..m) : Y # {} => HasOne(Y)}
  <1>1. 0 \in I
    <2>1. 0..0 = {0}
      OBVIOUS
    <2>2. ASSUME NEW Y \in SUBSET {0}, Y # {} PROVE HasOne(Y)
      <3>1. 0 \in Y /\ \A y \in Y : y = 0
        BY <2>2
      <3> QED
        BY <3>1
    <2> HIDE DEF HasOne
    <2> QED
      BY <2>1, <2>2
  <1>2. ASSUME NEW m \in I PROVE m + 1 \in I
    <2>1. SUFFICES ASSUME NEW Y \in SUBSET (0..m + 1), Y # {} PROVE HasOne(Y)
      OBVIOUS
    <2>2. CASE m + 1 \in Y
      BY <2>2
    <2>3. CASE m + 1 \notin Y
      <3>1. Y \in SUBSET (0..m)
        BY <2>3
      <3> QED
        BY <3>1, <2>1
    <2> QED
      BY <2>2, <2>3
  <1>3. n \in I
    <2>1. I \in SUBSET Nat
      OBVIOUS
    <2> HIDE DEF I
    <2> QED
      BY <1>1, <1>2, <2>1, Induction
  <1>4. PICK x \in X : \A y \in X : y <= x
    BY <1>3
  <1> QED
    BY <1>4 DEF Max

LEMMA Smallest ==
    ASSUME NEW X \in SUBSET Nat, X # {}
    PROVE  Min(X) \in X /\ \A y \in X : Min(X) <= y
  <1> DEFINE I == {m \in Nat : \A y \in X : m <= y}
  <1>1. \E x \in X : \A y \in X : x <= y
    <2>1. SUFFICES ASSUME \A x \in X : \E y \in X : ~(x <= y) PROVE FALSE
      OBVIOUS
    <2>2. 0 \in I
      OBVIOUS
    <2>3. ASSUME NEW m \in I PROVE m + 1 \in I
      <3>1. m \notin X
        BY <2>1
      <3> QED
        BY <3>1
    <2>4. I = Nat
      <3>1. I \in SUBSET Nat
        OBVIOUS
      <3> HIDE DEF I
      <3> QED
        BY <2>2, <2>3, <3>1, Induction
    <2>5. PICK x \in X : TRUE
      OBVIOUS
    <2>6. x + 1 \in I
      BY <2>4
    <2> QED
      BY <2>6
  <1> QED
    BY <1>1 DEF Min

\* Where the first of a kind is, and that it is somewhere.
LEMMA FirstIs ==
    ASSUME NEW S, NEW s \in Seq(S), NEW c, NEW i \in 1..Len(s) + 1,
           i <= Len(s) => s[i] = c, \A j \in 1..i - 1 : s[j] # c
    PROVE  First(s, c) = i
  <1> DEFINE X == {j \in DOMAIN s : s[j] = c} \cup {Len(s) + 1}
  <1>1. DOMAIN s = 1..Len(s) /\ Len(s) \in Nat
    BY LenProperties
  <1>2. i \in X /\ \A j \in X : i <= j
    BY <1>1
  <1>3. \A j \in X : j \in Nat
    BY <1>1
  <1> HIDE DEF X
  <1>4. Min(X) \in X /\ \A j \in X : Min(X) <= j
    BY <1>2, <1>3, Smallest
  <1>5. Min(X) = i
    <2>1. i \in Nat /\ Min(X) \in Nat /\ i <= Min(X) /\ Min(X) <= i
      BY <1>2, <1>3, <1>4
    <2> QED
      BY <2>1
  <1> QED
    BY <1>5 DEF First, X

LEMMA FirstIn ==
    ASSUME NEW S, NEW s \in Seq(S), NEW c
    PROVE  /\ First(s, c) \in 1..Len(s) + 1
           /\ First(s, c) <= Len(s) => s[First(s, c)] = c
  <1> DEFINE X == {j \in DOMAIN s : s[j] = c} \cup {Len(s) + 1}
  <1>1. DOMAIN s = 1..Len(s) /\ Len(s) \in Nat
    BY LenProperties
  <1>2. X \in SUBSET (1..Len(s) + 1) /\ X # {} /\ X \in SUBSET Nat
    BY <1>1
  <1>3. \A i \in X : i <= Len(s) => s[i] = c
    BY <1>1
  <1> HIDE DEF X
  <1>4. Min(X) \in X
    BY <1>2, Smallest
  <1>5. Min(X) \in 1..Len(s) + 1 /\ (Min(X) <= Len(s) => s[Min(X)] = c)
    BY <1>2, <1>3, <1>4
  <1> QED
    BY <1>5 DEF First, X

LEMMA Joined ==
    ASSUME NEW S, NEW u \in Seq(S), NEW v \in Seq(S), NEW w \in Seq(S)
    PROVE  /\ u \o v \in Seq(S) /\ Len(u \o v) = Len(u) + Len(v)
           /\ (u \o v) \o w = u \o (v \o w)
  BY ConcatProperties, ConcatAssociative

\* A text is cut where its parts meet.
LEMMA CutAt ==
    ASSUME NEW S, NEW u \in Seq(S), NEW t \in Seq(S)
    PROVE  From(u \o t, Len(u) + 1) = t /\ Upto(u \o t, Len(u) + 1) = u
  <1>1. /\ Len(u) \in Nat /\ Len(t) \in Nat /\ u \o t \in Seq(S) /\ Len(u \o t) = Len(u) + Len(t)
        /\ \A i \in 1..Len(u) + Len(t) : (u \o t)[i] = IF i <= Len(u) THEN u[i] ELSE t[i - Len(u)]
    BY LenProperties, ConcatProperties
  <1>2. \A i \in 1..Len(u \o t) : (u \o t)[i] \in S
    BY <1>1, ElementOfSeq
  <1>3. From(u \o t, Len(u) + 1) = t
    <2> DEFINE v == SubSeq(u \o t, Len(u) + 1, Len(u \o t))
    <2>1. v \in Seq(S) /\ Len(v) = Len(t) /\ \A i \in 1..Len(t) : v[i] = (u \o t)[Len(u) + i]
      BY <1>1, <1>2, SubSeqProperties
    <2>2. \A i \in 1..Len(v) : v[i] = t[i]
      BY <1>1, <2>1
    <2> HIDE DEF v
    <2>3. v = t
      BY <2>1, <2>2, SeqEqual
    <2> QED
      BY <2>3 DEF v, From
  <1>4. Upto(u \o t, Len(u) + 1) = u
    <2> DEFINE v == SubSeq(u \o t, 1, Len(u) + 1 - 1)
    <2>1. v \in Seq(S) /\ Len(v) = Len(u) /\ \A i \in 1..Len(u) : v[i] = (u \o t)[i]
      BY <1>1, <1>2, SubSeqProperties
    <2>2. \A i \in 1..Len(v) : v[i] = u[i]
      BY <1>1, <2>1
    <2> HIDE DEF v
    <2>3. v = u
      BY <2>1, <2>2, SeqEqual
    <2> QED
      BY <2>3 DEF v, Upto
  <1> QED
    BY <1>3, <1>4

\* A part of a text is a text.
LEMMA Parts ==
    ASSUME NEW S, NEW s \in Seq(S), NEW i \in Nat \ {0}, NEW j \in 0..Len(s)
    PROVE  SubSeq(s, i, j) \in Seq(S) /\ From(s, i) \in Seq(S)
  <1>1. Len(s) \in Nat /\ \A m \in i..Len(s) : s[m] \in S
    BY LenProperties, ElementOfSeq
  <1>2. \A m \in i..j : s[m] \in S
    BY <1>1
  <1>3. SubSeq(s, i, j) \in Seq(S)
    BY <1>1, <1>2, SubSeqProperties
  <1>4. SubSeq(s, i, Len(s)) \in Seq(S)
    BY <1>1, SubSeqProperties
  <1> QED
    BY <1>3, <1>4 DEF From

LEMMA InkedIn ==
    ASSUME NEW S, NEW s \in Seq(S), Inked(s) # {}
    PROVE  /\ Min(Inked(s)) \in Inked(s) /\ Max(Inked(s)) \in Inked(s)
           /\ \A i \in Inked(s) : Min(Inked(s)) <= i /\ i <= Max(Inked(s))
           /\ Inked(s) \in SUBSET (1..Len(s))
  <1>1. DOMAIN s = 1..Len(s) /\ Len(s) \in Nat
    BY LenProperties
  <1>2. Inked(s) \in SUBSET (1..Len(s)) /\ Inked(s) \in SUBSET Nat /\ Inked(s) \in SUBSET (0..Len(s))
    BY <1>1 DEF Inked
  <1> QED
    BY <1>1, <1>2, Smallest, Largest

\* What begins with something else than a space is not trimmed on the left; what does begin
\* with one loses it.
LEMMA NotTrimmed ==
    ASSUME NEW S, NEW s \in Seq(S), s # <<>>, s[1] # "SPACE"
    PROVE  LeftTrim(s) = s
  <1>1. DOMAIN s = 1..Len(s) /\ Len(s) \in Nat \ {0}
    BY LenProperties, EmptySeq
  <1>2. 1 \in Inked(s)
    BY <1>1 DEF Inked
  <1>3. Min(Inked(s)) = 1
    BY <1>1, <1>2, InkedIn
  <1>4. From(s, 1) = s
    BY SubSeqFull DEF From
  <1> QED
    BY <1>2, <1>3, <1>4 DEF LeftTrim

LEMMA TrimmedOnce ==
    ASSUME NEW S, NEW s \in Seq(S), s # <<>>, s[1] # "SPACE", "SPACE" \in S
    PROVE  LeftTrim(<<"SPACE">> \o s) = s
  <1> DEFINE t == <<"SPACE">> \o s
  <1>1. <<"SPACE">> \in Seq(S) /\ Len(<<"SPACE">>) = 1 /\ <<"SPACE">>[1] = "SPACE"
    OBVIOUS
  <1>2. DOMAIN s = 1..Len(s) /\ Len(s) \in Nat \ {0}
    BY LenProperties, EmptySeq
  <1>3. t \in Seq(S) /\ Len(t) = Len(s) + 1 /\ t[1] = "SPACE" /\ t[2] = s[1]
    BY <1>1, <1>2, ConcatProperties
  <1>4. DOMAIN t = 1..Len(t)
    BY <1>3, LenProperties
  <1>5. From(t, 2) = s
    <2>1. From(t, Len(<<"SPACE">>) + 1) = s
      BY <1>1, CutAt
    <2>2. Len(<<"SPACE">>) + 1 = 2
      OBVIOUS
    <2> HIDE DEF t
    <2> QED
      BY <2>1, <2>2, Zenon
  <1> HIDE DEF t
  <1>6. 2 \in Inked(t) /\ 1 \notin Inked(t)
    BY <1>2, <1>3, <1>4 DEF Inked
  <1>7. Min(Inked(t)) \in Inked(t) /\ Min(Inked(t)) <= 2 /\ Inked(t) \in SUBSET (1..Len(t))
    BY <1>3, <1>6, InkedIn
  <1>8. Min(Inked(t)) = 2
    BY <1>2, <1>3, <1>6, <1>7
  <1>9. LeftTrim(t) = s
    BY <1>5, <1>6, <1>8 DEF LeftTrim
  <1> QED
    BY <1>9 DEF t

\* A line, or what is before another character, and what follows it.
LEMMA Splits ==
    ASSUME NEW S, NEW u \in Seq(S), NEW t \in Seq(S), NEW c \in S,
           \A i \in 1..Len(u) : u[i] # c
    PROVE  LET s == u \o (<<c>> \o t)
           IN  /\ First(s, c) = Len(u) + 1
               /\ Upto(s, First(s, c)) = u /\ From(s, First(s, c) + 1) = t
  <1> DEFINE v == <<c>> \o t
             s == u \o v
             w == u \o <<c>>
  <1>1. <<c>> \in Seq(S) /\ Len(<<c>>) = 1 /\ <<c>>[1] = c
    OBVIOUS
  <1>2. Len(u) \in Nat /\ Len(t) \in Nat
    BY LenProperties
  <1>3. v \in Seq(S) /\ Len(v) = Len(t) + 1 /\ v[1] = c
    BY <1>1, <1>2, ConcatProperties
  <1>4. w \in Seq(S) /\ Len(w) = Len(u) + 1 /\ w \o t = s
    BY <1>1, <1>2, ConcatProperties, ConcatAssociative
  <1> HIDE DEF v
  <1>5. /\ s \in Seq(S) /\ Len(s) = Len(u) + Len(t) + 1 /\ s[Len(u) + 1] = c
        /\ \A i \in 1..Len(u) : s[i] # c
    <2>1. /\ s \in Seq(S) /\ Len(s) = Len(u) + Len(v)
          /\ \A i \in 1..Len(u) + Len(v) : s[i] = IF i <= Len(u) THEN u[i] ELSE v[i - Len(u)]
      BY <1>3, ConcatProperties
    <2> HIDE DEF s
    <2>2. Len(u) + 1 \in 1..Len(u) + Len(v) /\ \A i \in 1..Len(u) : i \in 1..Len(u) + Len(v)
      BY <1>2, <1>3
    <2>3. s[Len(u) + 1] = v[1]
      BY <1>2, <2>1, <2>2
    <2>4. \A i \in 1..Len(u) : s[i] = u[i]
      BY <1>2, <2>1, <2>2
    <2> QED
      BY <1>2, <1>3, <2>1, <2>3, <2>4
  <1>6. Upto(s, Len(u) + 1) = u
    BY <1>3, CutAt
  <1> HIDE DEF w, s
  <1>7. First(s, c) = Len(u) + 1
    <2> DEFINE i == Len(u) + 1
    <2>1. i \in 1..Len(s) + 1 /\ \A j \in 1..i - 1 : s[j] # c
      BY <1>2, <1>5
    <2>2. s[i] = c
      BY <1>5
    <2> HIDE DEF i
    <2>3. First(s, c) = i
      BY <1>5, <2>1, <2>2, FirstIs
    <2> QED
      BY <2>3 DEF i
  <1>8. From(s, Len(w) + 1) = t
    BY <1>4, CutAt
  <1> QED
    BY <1>4, <1>6, <1>7, <1>8 DEF s, v

LEMMA LineIs ==
    ASSUME NEW S, NEW u \in Seq(S), NEW t \in Seq(S), "nl" \in S,
           \A i \in 1..Len(u) : u[i] # "nl"
    PROVE  Line(u \o (<<"nl">> \o t)) = u /\ Below(u \o (<<"nl">> \o t)) = t
  BY Splits DEF Line, Below

\* Spaces and an export before a key are passed over.
LEMMA WithoutBefore ==
    ASSUME NEW before \in Before, NEW t \in Seq(Char), t # <<>>, t[1] \notin Mark
    PROVE  WithoutExport(before \o t) = t
  <1>1. "SPACE" \in Char /\ "export" \in Char /\ t[1] # "SPACE" /\ t[1] # "export"
    BY DEF Char, Mark
  <1>2. LeftTrim(t) = t
    BY <1>1, NotTrimmed
  <1>3. CASE before = <<>>
    <2>1. before \o t = t
      BY <1>3, ConcatEmptySeq
    <2> QED
      BY <1>1, <1>2, <2>1 DEF WithoutExport
  <1>4. CASE before = <<"SPACE", "export", "SPACE">>
    <2> DEFINE a == <<"SPACE">> \o t
               b == <<"export">> \o a
    <2>1. /\ <<"SPACE">> \in Seq(Char) /\ Len(<<"SPACE">>) = 1 /\ <<"SPACE">>[1] = "SPACE"
          /\ <<"export">> \in Seq(Char) /\ Len(<<"export">>) = 1 /\ <<"export">>[1] = "export"
      BY <1>1
    <2>2. Len(t) \in Nat
      BY LenProperties
    <2>3. a \in Seq(Char) /\ Len(a) = Len(t) + 1 /\ a[1] = "SPACE"
      BY <2>1, <2>2, ConcatProperties
    <2>4. LeftTrim(a) = t
      BY <1>1, TrimmedOnce
    <2> HIDE DEF a
    <2>5. b \in Seq(Char) /\ Len(b) = Len(a) + 1 /\ b[1] = "export" /\ b[2] = "SPACE"
      BY <2>1, <2>2, <2>3, ConcatProperties
    <2>6. From(b, Len(<<"export">>) + 1) = a
      BY <2>1, <2>3, CutAt
    <2> HIDE DEF b
    <2>7. b # <<>> /\ b[1] # "SPACE"
      BY <2>2, <2>3, <2>5
    <2>8. Tail(b) = a
      BY <2>1, <2>5, <2>6, <2>7, TailIsSubSeq DEF From
    <2>9. LeftTrim(<<"SPACE">> \o b) = b
      BY <1>1, <2>5, <2>7, TrimmedOnce
    <2>10. before \o t = <<"SPACE">> \o b
      <3>1. <<"SPACE", "export", "SPACE">> = <<"SPACE">> \o (<<"export">> \o <<"SPACE">>)
        OBVIOUS
      <3>2. <<"export">> \o <<"SPACE">> \in Seq(Char)
        BY <2>1, ConcatProperties
      <3>3. (<<"SPACE">> \o (<<"export">> \o <<"SPACE">>)) \o t = <<"SPACE">> \o ((<<"export">> \o <<"SPACE">>) \o t)
        BY <2>1, <3>2, ConcatAssociative
      <3>4. (<<"export">> \o <<"SPACE">>) \o t = <<"export">> \o (<<"SPACE">> \o t)
        BY <2>1, ConcatAssociative
      <3> QED
        BY <1>4, <3>1, <3>3, <3>4, Zenon DEF a, b
    <2>11. Len(b) > 1
      BY <2>2, <2>3, <2>5
    <2> QED
      BY <2>4, <2>5, <2>8, <2>9, <2>10, <2>11 DEF WithoutExport
  <1> QED
    BY <1>3, <1>4 DEF Before

LEMMA NothingToTrim ==
    ASSUME NEW S, NEW s \in Seq(S), s # <<>>, s[1] # "SPACE", s[Len(s)] # "SPACE"
    PROVE  Trim(s) = s
  <1>1. DOMAIN s = 1..Len(s) /\ Len(s) \in Nat \ {0}
    BY LenProperties, EmptySeq
  <1>2. 1 \in Inked(s) /\ Len(s) \in Inked(s)
    BY <1>1 DEF Inked
  <1>3. Min(Inked(s)) = 1 /\ Max(Inked(s)) = Len(s)
    BY <1>1, <1>2, InkedIn
  <1>4. SubSeq(s, 1, Len(s)) = s
    BY SubSeqFull
  <1> QED
    BY <1>2, <1>3, <1>4 DEF Trim

\* What a line is read as that begins with a key.
ReadOf(s, after) ==
    IF after # <<>> /\ after[1] \in Quotes THEN ReadQuoted(Tail(after), after[1])
    ELSE [value |-> Unquoted(Line(after)), rest |-> s]

KeyRead(k, at, read) ==
    [rest |-> Below(read.rest),
     result |-> [x \in Key |-> IF x = k THEN {read.value} ELSE at.result[x]]]

LEMMA KeyLine ==
    ASSUME ConfigAssumption, NEW k \in Key, NEW before \in Before, NEW w \in Seq(Char), NEW at,
           at.rest = before \o (<<k, "=">> \o w)
    PROVE  ParseLine(at) = KeyRead(k, at, ReadOf(<<k, "=">> \o w, LeftTrim(w)))
  <1> DEFINE t == <<k, "=">> \o w
             line == Line(t)
  <1>1. /\ k \in Char /\ "=" \in Char /\ "nl" \in Char /\ k \in Letter /\ k \notin Mark
        /\ k # "nl" /\ k # "=" /\ k # "#" /\ k # "SPACE"
    BY ConfigAssumption DEF Char, Mark, Letter
  <1>2. /\ <<k, "=">> \in Seq(Char) /\ Len(<<k, "=">>) = 2
        /\ <<k, "=">>[1] = k /\ <<k, "=">>[2] = "="
    BY <1>1
  <1>3. Len(w) \in Nat
    BY LenProperties
  <1>4. t \in Seq(Char) /\ Len(t) = Len(w) + 2 /\ t[1] = k /\ t[2] = "="
    BY <1>2, <1>3, ConcatProperties
  <1>5. From(t, 3) = w
    <2>1. From(t, Len(<<k, "=">>) + 1) = w
      BY <1>2, CutAt
    <2>2. Len(<<k, "=">>) + 1 = 3
      BY <1>2
    <2> HIDE DEF t
    <2> QED
      BY <2>1, <2>2, Zenon
  <1> HIDE DEF t
  <1>6. First(t, "=") = 2
    <2>1. 2 \in 1..Len(t) + 1 /\ \A j \in 1..2 - 1 : t[j] # "="
      BY <1>1, <1>3, <1>4
    <2> QED
      BY <1>4, <2>1, FirstIs
  <1>7. t # <<>>
    BY <1>3, <1>4
  <1>8. WithoutExport(at.rest) = t
    BY <1>1, <1>4, <1>7, WithoutBefore DEF t
  <1>9. First(t, "nl") \in 3..Len(t) + 1
    BY <1>1, <1>3, <1>4, FirstIn
  <1>10. line \in Seq(Char) /\ Len(line) = First(t, "nl") - 1 /\ line[1] = k /\ line[2] = "="
    <2> DEFINE f == First(t, "nl")
    <2>1. \A i \in 1..f - 1 : t[i] \in Char
      BY <1>3, <1>4, <1>9, ElementOfSeq
    <2>2. f - 1 \in Int /\ 1 <= f - 1 /\ 1 \in 1..f - 1 - 1 + 1 /\ 2 \in 1..f - 1 - 1 + 1
      BY <1>9
    <2> HIDE DEF f
    <2>3. /\ SubSeq(t, 1, f - 1) \in Seq(Char) /\ Len(SubSeq(t, 1, f - 1)) = f - 1
          /\ SubSeq(t, 1, f - 1)[1] = t[1] /\ SubSeq(t, 1, f - 1)[2] = t[2]
      BY <2>1, <2>2, SubSeqProperties
    <2> QED
      BY <1>4, <2>3 DEF f, Line, Upto
  <1> HIDE DEF line
  <1>11. Len(line) \in Nat /\ Len(line) >= 2
    BY <1>9, <1>10
  <1>12. First(line, "=") = 2
    <2>1. 2 \in 1..Len(line) + 1 /\ \A j \in 1..2 - 1 : line[j] # "="
      BY <1>1, <1>10, <1>11
    <2>2. line \in Seq(Char) /\ (2 <= Len(line) => line[2] = "=")
      BY <1>10
    <2> QED
      BY <2>1, <2>2, FirstIs
  <1>13. Upto(line, 2) = <<k>>
    <2>1. /\ SubSeq(line, 1, 1) \in Seq(Char) /\ Len(SubSeq(line, 1, 1)) = 1
          /\ SubSeq(line, 1, 1)[1] = k
      <3>1. \A i \in 1..1 : line[i] \in Char
        BY <1>10, <1>1
      <3> QED
        BY <1>10, <3>1, SubSeqProperties
    <2>2. <<k>> \in Seq(Char) /\ Len(<<k>>) = 1 /\ <<k>>[1] = k
      BY <1>1
    <2>3. \A i \in 1..Len(<<k>>) : SubSeq(line, 1, 1)[i] = <<k>>[i]
      BY <2>1, <2>2
    <2> DEFINE u == SubSeq(line, 1, 1)
               v == <<k>>
    <2>4. u = v
      <3>1. u \in Seq(Char) /\ v \in Seq(Char) /\ Len(u) = Len(v) /\ \A i \in 1..Len(u) : u[i] = v[i]
        BY <2>1, <2>2, <2>3
      <3> HIDE DEF u, v
      <3> QED
        BY <3>1, SeqEqual
    <2>5. 2 - 1 = 1
      OBVIOUS
    <2> QED
      BY <2>4, <2>5 DEF Upto
  <1>14. Trim(<<k>>) = <<k>>
    <2>1. <<k>> \in Seq(Char) /\ Len(<<k>>) = 1 /\ <<k>>[1] = k /\ <<k>> # <<>>
      BY <1>1
    <2> QED
      BY <1>1, <2>1, NothingToTrim
  <1>15. line # <<>> /\ "=" \in ToSet(line)
    <2>1. DOMAIN line = 1..Len(line)
      BY <1>10, LenProperties
    <2>2. 2 \in DOMAIN line /\ line # <<>>
      BY <1>11, <2>1
    <2> QED
      BY <1>10, <2>2 DEF ToSet
  <1>16. <<k>> # <<>> /\ ToSet(<<k>>) \subseteq Letter /\ \A x : (<<x>> = <<k>>) <=> (x = k)
    BY <1>1 DEF ToSet
  <1>17. From(t, First(t, "=") + 1) = w
    BY <1>5, <1>6
  <1>18. Trim(Upto(line, First(line, "="))) = <<k>>
    BY <1>12, <1>13, <1>14
  <1> DEFINE read == ReadOf(t, LeftTrim(w))
  <1>19. ParseLine(at) = [rest |-> Below(read.rest),
              result |-> [x \in Key |-> IF <<x>> = <<k>> THEN {read.value} ELSE at.result[x]]]
    <2>1. ~(line = <<>> \/ t[1] = "#" \/ "=" \notin ToSet(line)
           \/ <<k>> = <<>> \/ ~(ToSet(<<k>>) \subseteq Letter))
      BY <1>1, <1>4, <1>15, <1>16
    <2> QED
      BY <1>8, <1>17, <1>18, <2>1, Zenon DEF ParseLine, ReadOf, line
  <1> HIDE DEF read
  <1>20. [x \in Key |-> IF <<x>> = <<k>> THEN {read.value} ELSE at.result[x]]
          = [x \in Key |-> IF x = k THEN {read.value} ELSE at.result[x]]
    BY <1>16
  <1>21. ParseLine(at) = KeyRead(k, at, read)
    BY <1>19, <1>20, Zenon DEF KeyRead
  <1> QED
    BY <1>21 DEF read, t

\* What is written between quotes, and how it is read.
LEMMA EscapeIs ==
    ASSUME NEW c \in Char, NEW quote
    PROVE  Escape(c, quote) \in Seq(Char) /\ Len(Escape(c, quote)) \in Nat /\ Len(Escape(c, quote)) >= 1
  <1>1. "BACKSLASH" \in Char /\ "n" \in Char
    BY DEF Char, Mark, Letter
  <1>2. <<c>> \in Seq(Char) /\ <<"BACKSLASH", c>> \in Seq(Char) /\ <<"BACKSLASH", "n">> \in Seq(Char)
    BY <1>1
  <1>3. Len(<<c>>) = 1 /\ Len(<<"BACKSLASH", c>>) = 2 /\ Len(<<"BACKSLASH", "n">>) = 2
    OBVIOUS
  <1> QED
    BY <1>2, <1>3 DEF Escape

LEMMA EscapingIs ==
    ASSUME NEW value \in Seq(Char), NEW quote
    PROVE  /\ \A i \in 0..Len(value) : Escaping(value, quote)[i] \in Seq(Char)
           /\ Escaping(value, quote)[0] = <<>>
           /\ \A i \in 1..Len(value) : Escaping(value, quote)[i] =
                 Escape(value[Len(value) + 1 - i], quote) \o Escaping(value, quote)[i - 1]
  <1> DEFINE n == Len(value)
             S == Seq(Char)
             Behind(i, x) == Escape(value[n + 1 - i], quote) \o x
             step == [i \in 1..n |-> [x \in S |-> Behind(i, x)]]
  <1>1. n \in Nat /\ <<>> \in S
    BY LenProperties, EmptySeq
  <1>2. \A i \in 1..n : Escape(value[n + 1 - i], quote) \in S
    <2> TAKE i \in 1..n
    <2>1. n + 1 - i \in 1..Len(value)
      BY <1>1
    <2>2. value[n + 1 - i] \in Char
      BY <2>1, ElementOfSeq
    <2> QED
      BY <2>2, EscapeIs
  <1>3. \A i \in 1..n, x \in S : Behind(i, x) \in S
    BY <1>2, ConcatProperties
  <1>4. step \in [1..n -> [S -> S]]
    <2> HIDE DEF n, S, Behind
    <2> QED
      BY <1>3
  <1>5. \A i \in 1..n, x \in S : step[i][x] = Behind(i, x)
    <2> HIDE DEF n, S, Behind
    <2> QED
      OBVIOUS
  <1> HIDE DEF step, S
  <1>6. PICK g \in [0..n -> S] : g[0] = <<>> /\ \A i \in 1..n : g[i] = step[i][g[i - 1]]
    <2>1. GoesOnFrom(S, n, <<>>, step)
      BY <1>1, <1>4, Recursion
    <2> QED
      BY <2>1, Zenon DEF GoesOnFrom
  <1>7. \A i \in 1..n : g[i] = Behind(i, g[i - 1])
    <2> TAKE i \in 1..n
    <2>1. g[i - 1] \in S
      BY <1>6
    <2> HIDE DEF Behind
    <2> QED
      BY <1>5, <1>6, <2>1
  <1> DEFINE E == Escaping(value, quote)
  <1>8. E = CHOOSE h : h = [i \in 0..n |-> IF i = 0 THEN <<>> ELSE Behind(i, h[i - 1])]
    BY Zenon DEF Escaping, Behind
  <1> HIDE DEF Behind, E
  <1>9. g = [i \in 0..n |-> IF i = 0 THEN <<>> ELSE Behind(i, g[i - 1])]
    <2>1. \A i \in 0..n : i = 0 \/ i \in 1..n
      OBVIOUS
    <2> QED
      BY <1>6, <1>7, <2>1
  <1>10. E = [i \in 0..n |-> IF i = 0 THEN <<>> ELSE Behind(i, E[i - 1])]
    BY <1>8, <1>9, Zenon
  <1>11. E[0] = <<>> /\ \A i \in 1..n : E[i] = Behind(i, E[i - 1])
    <2>1. 0 \in 0..n /\ \A i \in 1..n : i \in 0..n /\ i # 0
      BY <1>1
    <2> HIDE DEF n
    <2> QED
      BY <1>10, <2>1
  <1> DEFINE I == {m \in Nat : m <= n => E[m] \in S}
  <1>12. 0 \in I
    BY <1>1, <1>11
  <1>13. ASSUME NEW m \in I PROVE m + 1 \in I
    <2>1. m \in Nat /\ (m <= n => E[m] \in S)
      OBVIOUS
    <2>2. SUFFICES ASSUME m + 1 <= n PROVE E[m + 1] \in S
      BY <2>1
    <2> HIDE DEF I
    <2>3. m + 1 \in 1..n /\ E[m] \in S /\ (m + 1) - 1 = m
      BY <1>1, <2>1, <2>2
    <2>4. E[m + 1] = Behind(m + 1, E[m])
      BY <1>11, <2>3
    <2> QED
      BY <1>3, <2>3, <2>4 DEF Behind
  <1>14. I = Nat
    <2>1. I \in SUBSET Nat
      OBVIOUS
    <2> HIDE DEF I
    <2> QED
      BY <1>12, <1>13, <2>1, Induction
  <1>15. \A i \in 0..n : E[i] \in S
    BY <1>1, <1>14
  <1> QED
    BY <1>11, <1>15 DEF E, Behind, S

LEMMA EscapedLength ==
    ASSUME NEW value \in Seq(Char), NEW quote, NEW i \in 0..Len(value)
    PROVE  Len(Escaping(value, quote)[i]) >= i
  <1> DEFINE E == Escaping(value, quote)
             n == Len(value)
             I == {m \in Nat : m <= n => Len(E[m]) >= m}
  <1>1. n \in Nat
    BY LenProperties
  <1>2. 0 \in I
    BY EscapingIs, EmptySeq
  <1>3. ASSUME NEW m \in I PROVE m + 1 \in I
    <2>1. m \in Nat /\ (m <= n => Len(E[m]) >= m)
      OBVIOUS
    <2>2. SUFFICES ASSUME m + 1 <= n PROVE Len(E[m + 1]) >= m + 1
      BY <2>1
    <2> DEFINE e == Escape(value[n + 1 - (m + 1)], quote)
    <2> HIDE DEF I
    <2>3. m + 1 \in 1..n /\ m \in 0..n /\ (m + 1) - 1 = m /\ n + 1 - (m + 1) \in 1..n
      BY <1>1, <2>1, <2>2
    <2>4. E[m + 1] = e \o E[m] /\ E[m] \in Seq(Char)
      BY <2>3, EscapingIs
    <2>5. value[n + 1 - (m + 1)] \in Char
      BY <2>3, ElementOfSeq
    <2>6. e \in Seq(Char) /\ Len(e) \in Nat /\ Len(e) >= 1
      BY <2>5, EscapeIs
    <2> HIDE DEF e, E, n
    <2>7. Len(E[m + 1]) = Len(e) + Len(E[m]) /\ Len(E[m]) \in Nat
      BY <2>4, <2>6, ConcatProperties, LenProperties
    <2>8. Len(E[m]) >= m
      BY <2>1, <2>2, <1>1
    <2> QED
      BY <2>1, <2>6, <2>7, <2>8
  <1>4. i \in I
    <2>1. I \in SUBSET Nat
      OBVIOUS
    <2>2. i \in Nat
      BY <1>1
    <2> HIDE DEF I
    <2> QED
      BY <1>2, <1>3, <2>1, <2>2, Induction
  <1> QED
    BY <1>1, <1>4

\* What readQuoted has read, and what is left.
HasRead == [value : Seq(Char), rest : Seq(Char)]

LEMMA ReadsOn ==
    ASSUME NEW read \in HasRead, NEW quote
    PROVE  ReadOn(read, quote) \in HasRead
  <1> DEFINE s == read.rest
             c == s[1]
             d == Unescape(s[2])
  <1>1. s \in Seq(Char) /\ read.value \in Seq(Char) /\ Len(s) \in Nat
    BY LenProperties DEF HasRead
  <1>2. CASE s # <<>>
    <2>1. c \in Char /\ From(s, 2) \in Seq(Char) /\ From(s, 3) \in Seq(Char)
      <3>1. Len(s) \in Nat \ {0}
        BY <1>1, <1>2, EmptySeq
      <3>2. 1 \in 1..Len(s) /\ 0 \in 0..Len(s) /\ 2 \in Nat \ {0} /\ 3 \in Nat \ {0}
        BY <3>1
      <3> QED
        BY <1>1, <3>2, ElementOfSeq, Parts
    <2>2. Len(s) > 1 => d \in Char
      <3>1. Len(s) > 1 => s[2] \in Char
        BY <1>1, ElementOfSeq
      <3>2. "nl" \in Char
        BY DEF Char, Mark
      <3> QED
        BY <3>1, <3>2 DEF Unescape
    <2>3. Append(read.value, c) \in Seq(Char) /\ (Len(s) > 1 => Append(read.value, d) \in Seq(Char))
      BY <1>1, <2>1, <2>2, AppendProperties
    <2> HIDE DEF d
    <2> QED
      BY <1>1, <2>1, <2>3 DEF ReadOn, HasRead, d
  <1>3. CASE s = <<>>
    BY <1>3 DEF ReadOn
  <1> QED
    BY <1>2, <1>3

LEMMA ReadingIs ==
    ASSUME NEW s \in Seq(Char), NEW quote
    PROVE  /\ \A i \in 0..Len(s) : Reading(s, quote)[i] \in HasRead
           /\ Reading(s, quote)[0] = [value |-> <<>>, rest |-> s]
           /\ \A i \in 1..Len(s) : Reading(s, quote)[i] = ReadOn(Reading(s, quote)[i - 1], quote)
  <1> DEFINE n == Len(s)
             first == [value |-> <<>>, rest |-> s]
             Round(x) == ReadOn(x, quote)
             round == [i \in 1..n |-> [x \in HasRead |-> Round(x)]]
  <1>1. n \in Nat /\ first \in HasRead
    BY LenProperties, EmptySeq DEF HasRead
  <1>2. \A x \in HasRead : Round(x) \in HasRead
    BY ReadsOn
  <1> HIDE DEF Round, first
  <1>3. round \in [1..n -> [HasRead -> HasRead]] /\ \A i \in 1..n, x \in HasRead : round[i][x] = Round(x)
    <2> HIDE DEF n
    <2> QED
      BY <1>2
  <1> HIDE DEF round
  <1>4. PICK g \in [0..n -> HasRead] : g[0] = first /\ \A i \in 1..n : g[i] = round[i][g[i - 1]]
    <2>1. GoesOnFrom(HasRead, n, first, round)
      BY <1>1, <1>3, Recursion
    <2> QED
      BY <2>1, Zenon DEF GoesOnFrom
  <1>5. \A i \in 1..n : g[i] = Round(g[i - 1])
    <2> TAKE i \in 1..n
    <2>1. g[i - 1] \in HasRead
      BY <1>4
    <2> QED
      BY <1>3, <1>4, <2>1
  <1> DEFINE R == Reading(s, quote)
  <1>6. R = CHOOSE h : h = [i \in 0..n |-> IF i = 0 THEN first ELSE Round(h[i - 1])]
    BY Zenon DEF Reading, Round, first
  <1> HIDE DEF R
  <1>7. g = [i \in 0..n |-> IF i = 0 THEN first ELSE Round(g[i - 1])]
    <2>1. \A i \in 0..n : i = 0 \/ i \in 1..n
      OBVIOUS
    <2> QED
      BY <1>4, <1>5, <2>1
  <1>8. R = [i \in 0..n |-> IF i = 0 THEN first ELSE Round(R[i - 1])]
    BY <1>6, <1>7, Zenon
  <1>9. R[0] = first /\ \A i \in 1..n : R[i] = Round(R[i - 1])
    <2>1. 0 \in 0..n /\ \A i \in 1..n : i \in 0..n /\ i # 0
      BY <1>1
    <2> HIDE DEF n
    <2> QED
      BY <1>8, <2>1
  <1> DEFINE I == {m \in Nat : m <= n => R[m] \in HasRead}
  <1>10. 0 \in I
    BY <1>1, <1>9
  <1>11. ASSUME NEW m \in I PROVE m + 1 \in I
    <2>1. m \in Nat /\ (m <= n => R[m] \in HasRead)
      OBVIOUS
    <2>2. SUFFICES ASSUME m + 1 <= n PROVE R[m + 1] \in HasRead
      BY <2>1
    <2> HIDE DEF I
    <2>3. m + 1 \in 1..n /\ R[m] \in HasRead /\ (m + 1) - 1 = m
      BY <1>1, <2>1, <2>2
    <2>4. R[m + 1] = Round(R[m])
      BY <1>9, <2>3
    <2> QED
      BY <1>2, <2>3, <2>4
  <1>12. I = Nat
    <2>1. I \in SUBSET Nat
      OBVIOUS
    <2> HIDE DEF I
    <2> QED
      BY <1>10, <1>11, <2>1, Induction
  <1>13. \A i \in 0..n : R[i] \in HasRead
    BY <1>1, <1>12
  <1> QED
    BY <1>9, <1>13 DEF R, Round, first

\* A round of readQuoted takes back what was written for a character.
LEMMA ReadsOne ==
    ASSUME NEW c \in Char, NEW quote \in Quotes, quote = "SQUOTE" => c # quote,
           NEW t \in Seq(Char), NEW v \in Seq(Char)
    PROVE  ReadOn([value |-> v, rest |-> Escape(c, quote) \o t], quote)
              = [value |-> Append(v, c), rest |-> t]
  <1> DEFINE e == Escape(c, quote)
             s == e \o t
  <1>1. e \in Seq(Char) /\ Len(t) \in Nat
    BY EscapeIs, LenProperties
  <1>2. /\ s \in Seq(Char) /\ Len(s) = Len(e) + Len(t)
        /\ \A i \in 1..Len(e) + Len(t) : s[i] = IF i <= Len(e) THEN e[i] ELSE t[i - Len(e)]
    BY <1>1, ConcatProperties
  <1>3. From(s, Len(e) + 1) = t
    BY <1>1, CutAt
  <1> HIDE DEF s
  <1>4. CASE e = <<c>>
    <2>1. Len(e) = 1 /\ e[1] = c
      BY <1>4
    <2>2. ~(quote = "DQUOTE" /\ c = "BACKSLASH") /\ c # quote
      <3>1. c \in {"DQUOTE", "BACKSLASH"} /\ quote = "DQUOTE" => Len(e) = 2
        BY DEF Escape
      <3> QED
        BY <2>1, <3>1 DEF Quotes
    <2> HIDE DEF e
    <2>3. s # <<>> /\ s[1] = c /\ From(s, 2) = t
      BY <1>1, <1>2, <1>3, <2>1
    <2>4. ReadOn([value |-> v, rest |-> s], quote) = [value |-> Append(v, c), rest |-> t]
      BY <2>2, <2>3 DEF ReadOn
    <2> QED
      BY <2>4 DEF s, e
  <1>5. ASSUME NEW d, e = <<"BACKSLASH", d>>, d # "nl", Unescape(d) = c, quote = "DQUOTE"
        PROVE  ReadOn([value |-> v, rest |-> s], quote) = [value |-> Append(v, c), rest |-> t]
    <2>1. Len(e) = 2 /\ e[1] = "BACKSLASH" /\ e[2] = d
      BY <1>5
    <2> HIDE DEF e
    <2>2. s # <<>> /\ s[1] = "BACKSLASH" /\ s[2] = d /\ From(s, 3) = t /\ Len(s) > 1
      BY <1>1, <1>2, <1>3, <2>1
    <2>3. s[1] # quote
      BY <1>5, <2>2
    <2> QED
      BY <1>5, <2>2, <2>3 DEF ReadOn
  <1>6. CASE quote = "DQUOTE" /\ c \in {"DQUOTE", "BACKSLASH"}
    <2>1. e = <<"BACKSLASH", c>> /\ c # "nl" /\ Unescape(c) = c
      BY <1>6 DEF Escape, Unescape
    <2> HIDE DEF e
    <2>2. ReadOn([value |-> v, rest |-> s], quote) = [value |-> Append(v, c), rest |-> t]
      BY <1>5, <1>6, <2>1
    <2> QED
      BY <2>2 DEF s, e
  <1>7. CASE quote = "DQUOTE" /\ c = "nl"
    <2>1. e = <<"BACKSLASH", "n">> /\ Unescape("n") = c
      BY <1>7 DEF Escape, Unescape
    <2> HIDE DEF e
    <2>2. ReadOn([value |-> v, rest |-> s], quote) = [value |-> Append(v, c), rest |-> t]
      BY <1>5, <1>7, <2>1
    <2> QED
      BY <2>2 DEF s, e
  <1>8. CASE ~(quote = "DQUOTE" /\ c \in {"DQUOTE", "BACKSLASH", "nl"})
    <2>1. e = <<c>>
      BY <1>8 DEF Escape
    <2> QED
      BY <1>4, <2>1
  <1> QED
    BY <1>6, <1>7, <1>8

\* So readQuoted takes back the value, and stops at the quote behind it.
LEMMA ReadsBack ==
    ASSUME NEW value \in Seq(Char), NEW quote \in Quotes, NEW z \in Seq(Char),
           quote = "SQUOTE" => quote \notin ToSet(value)
    PROVE  ReadQuoted(Escaped(value, quote) \o (<<quote>> \o z), quote)
              = [value |-> value, rest |-> <<quote>> \o z]
  <1> DEFINE E == Escaping(value, quote)
             m == Len(value)
             u == <<quote>> \o z
             s == E[m] \o u
             R == Reading(s, quote)
             At(j) == [value |-> SubSeq(value, 1, j), rest |-> E[m - j] \o u]
  <1>1. m \in Nat /\ DOMAIN value = 1..m /\ \A i \in 1..m : value[i] \in Char
    BY LenProperties, ElementOfSeq
  <1>2. u \in Seq(Char) /\ u # <<>> /\ u[1] = quote
    <2>1. quote \in Char
      BY DEF Char, Mark
    <2>2. <<quote>> \in Seq(Char) /\ Len(<<quote>>) = 1 /\ <<quote>>[1] = quote
      BY <2>1
    <2>3. u \in Seq(Char) /\ Len(u) = 1 + Len(z) /\ Len(z) \in Nat /\ u[1] = quote
      BY <2>2, ConcatProperties, LenProperties
    <2> HIDE DEF u
    <2> QED
      BY <2>3
  <1> HIDE DEF u
  <1>3. /\ \A i \in 0..m : E[i] \in Seq(Char)
        /\ E[0] = <<>>
        /\ \A i \in 1..m : E[i] = Escape(value[m + 1 - i], quote) \o E[i - 1]
    BY EscapingIs
  <1>4. Len(E[m]) >= m
    BY <1>1, EscapedLength
  <1> HIDE DEF E
  <1>5. s \in Seq(Char) /\ Len(s) \in Nat /\ m <= Len(s)
    <2>1. E[m] \in Seq(Char)
      BY <1>1, <1>3
    <2>2. s \in Seq(Char) /\ Len(s) = Len(E[m]) + Len(u) /\ Len(E[m]) \in Nat /\ Len(u) \in Nat
      BY <1>2, <2>1, ConcatProperties, LenProperties
    <2> HIDE DEF s
    <2> QED
      BY <1>1, <1>4, <2>2
  <1>6. /\ R[0] = [value |-> <<>>, rest |-> s]
        /\ \A i \in 1..Len(s) : R[i] = ReadOn(R[i - 1], quote)
    <2> HIDE DEF s
    <2> QED
      BY <1>5, ReadingIs
  <1> HIDE DEF R, s
  <1> DEFINE I == {j \in Nat : j <= m => R[j] = At(j)}
  <1>7. 0 \in I
    <2>1. SubSeq(value, 1, 0) = <<>> /\ m - 0 = m
      BY <1>1, SubSeqEmpty
    <2>2. R[0] = At(0)
      BY <1>6, <2>1 DEF s
    <2> HIDE DEF At
    <2> QED
      BY <2>2
  <1>8. ASSUME NEW j \in I PROVE j + 1 \in I
    <2>1. j \in Nat /\ (j <= m => R[j] = At(j))
      OBVIOUS
    <2>2. SUFFICES ASSUME j + 1 <= m PROVE R[j + 1] = At(j + 1)
      BY <2>1
    <2> DEFINE c == value[j + 1]
               t == E[m - (j + 1)] \o u
               v == SubSeq(value, 1, j)
    <2> HIDE DEF I
    <2>3. /\ j + 1 \in 1..m /\ j + 1 \in 1..Len(s) /\ (j + 1) - 1 = j /\ j \in 0..m /\ m - j \in 1..m
          /\ m + 1 - (m - j) = j + 1 /\ m - j - 1 = m - (j + 1) /\ m - (j + 1) \in 0..m
      BY <1>1, <1>5, <2>1, <2>2
    <2>4. c \in Char /\ (quote = "SQUOTE" => c # quote)
      BY <1>1, <2>3 DEF ToSet
    <2>5. t \in Seq(Char) /\ E[m - (j + 1)] \in Seq(Char)
      BY <1>2, <1>3, <2>3, ConcatProperties
    <2>6. v \in Seq(Char) /\ Append(v, c) = SubSeq(value, 1, j + 1)
      <3>1. v \in Seq(Char)
        BY <2>3, Parts
      <3>2. SubSeq(value, 1, j + 1) = SubSeq(value, 1, (j + 1) - 1) \o <<value[j + 1]>>
        <4>1. 1 \in 1..Len(value) /\ j + 1 \in 1..Len(value)
          BY <2>1, <2>3
        <4> QED
          BY <4>1, SubSeqRecursiveSecond
      <3>3. Append(v, c) = v \o <<c>>
        BY <2>4, <3>1, AppendIsConcat
      <3> QED
        BY <2>3, <3>1, <3>2, <3>3
    <2>7. E[m - j] \o u = Escape(c, quote) \o t
      <3>1. E[m - j] = Escape(c, quote) \o E[m - (j + 1)]
        BY <1>3, <2>3
      <3>2. Escape(c, quote) \in Seq(Char)
        BY <2>4, EscapeIs
      <3> DEFINE x == E[m - (j + 1)]
                 y == Escape(c, quote)
      <3>3. u \in Seq(Char) /\ x \in Seq(Char) /\ y \in Seq(Char)
        BY <1>2, <2>5, <3>2
      <3>4. E[m - j] = y \o x /\ t = x \o u
        BY <3>1
      <3> HIDE DEF x, y, t
      <3>5. (y \o x) \o u = y \o (x \o u)
        BY <3>3, Joined
      <3>6. E[m - j] \o u = y \o t
        BY <3>4, <3>5
      <3> QED
        BY <3>6 DEF y
    <2>8. R[j + 1] = ReadOn(R[j], quote) /\ R[j] = At(j)
      BY <1>6, <2>1, <2>3
    <2>9. ReadOn([value |-> v, rest |-> Escape(c, quote) \o t], quote) = [value |-> Append(v, c), rest |-> t]
      BY <2>4, <2>5, <2>6, ReadsOne
    <2>10. At(j) = [value |-> v, rest |-> Escape(c, quote) \o t]
      BY <2>7
    <2>11. At(j + 1) = [value |-> Append(v, c), rest |-> t]
      BY <2>6
    <2> HIDE DEF At, v, c, t
    <2> QED
      BY <2>8, <2>9, <2>10, <2>11
  <1>9. R[m] = At(m)
    <2>1. I \in SUBSET Nat
      OBVIOUS
    <2>2. I = Nat
      <3> HIDE DEF I
      <3> QED
        BY <1>7, <1>8, <2>1, Induction
    <2>3. m \in I
      <3> HIDE DEF I
      <3> QED
        BY <1>1, <2>2
    <2>4. m <= m => R[m] = At(m)
      <3> HIDE DEF At
      <3> QED
        BY <2>3
    <2> QED
      BY <1>1, <2>4
  <1>10. At(m) = [value |-> value, rest |-> u]
    <2>1. SubSeq(value, 1, m) = value
      BY SubSeqFull
    <2>2. m - m = 0 /\ E[0] \o u = u
      BY <1>1, <1>2, <1>3, ConcatEmptySeq
    <2> QED
      BY <2>1, <2>2
  <1> DEFINE end == [value |-> value, rest |-> u]
             J == {j \in Nat : m <= j /\ j <= Len(s) => R[j] = end}
  <1>11. ReadOn(end, quote) = end
    BY <1>2 DEF ReadOn
  <1> HIDE DEF At, end
  <1>12. 0 \in J
    <2>1. m <= 0 => m = 0
      BY <1>1
    <2> QED
      BY <1>9, <1>10, <2>1 DEF end
  <1>13. ASSUME NEW j \in J PROVE j + 1 \in J
    <2>1. j \in Nat /\ (m <= j /\ j <= Len(s) => R[j] = end)
      OBVIOUS
    <2>2. SUFFICES ASSUME m <= j + 1, j + 1 <= Len(s) PROVE R[j + 1] = end
      BY <2>1
    <2> HIDE DEF J
    <2>3. CASE m = j + 1
      BY <1>9, <1>10, <2>3 DEF end
    <2>4. CASE m # j + 1
      <3>1. m <= j /\ j <= Len(s) /\ j + 1 \in 1..Len(s) /\ (j + 1) - 1 = j
        <4>1. m \in Nat /\ Len(s) \in Nat /\ j \in Nat
          BY <1>1, <1>5, <2>1
        <4> HIDE DEF m
        <4> QED
          BY <4>1, <2>2, <2>4
      <3> QED
        BY <1>6, <1>11, <2>1, <3>1
    <2> QED
      BY <2>3, <2>4
  <1>14. R[Len(s)] = end
    <2>1. J \in SUBSET Nat
      OBVIOUS
    <2>2. J = Nat
      <3> HIDE DEF J
      <3> QED
        BY <1>12, <1>13, <2>1, Induction
    <2> QED
      BY <1>5, <2>2
  <1> QED
    BY <1>14 DEF ReadQuoted, Escaped, R, s, E, end, u

\* A comment, and an entry with what follows it.
LEMMA Comments ==
    ASSUME NEW comment \in Comment
    PROVE  /\ comment \in Seq(Char) /\ \A i \in 1..Len(comment) : comment[i] # "nl"
           /\ comment = <<>> \/ (/\ Len(comment) = 3 /\ comment[1] = "SPACE"
                                 /\ comment[2] = "#" /\ comment[3] = "a")
  <1>1. "SPACE" \in Char /\ "#" \in Char /\ "a" \in Char
    BY DEF Char, Mark, Letter
  <1>2. CASE comment = <<>>
    BY <1>2, EmptySeq
  <1>3. CASE comment = <<"SPACE", "#", "a">>
    BY <1>1, <1>3
  <1> QED
    BY <1>2, <1>3 DEF Comment

LEMMA Befores == Before \subseteq Seq(Char)
  <1>1. "SPACE" \in Char /\ "export" \in Char
    BY DEF Char, Mark
  <1>2. <<>> \in Seq(Char) /\ <<"SPACE", "export", "SPACE">> \in Seq(Char)
    BY <1>1
  <1> QED
    BY <1>2 DEF Before

LEMMA EntrySplits ==
    ASSUME NEW k \in Key, NEW written \in Seq(Char), NEW before \in Before, NEW comment \in Comment,
           NEW s \in Seq(Char)
    PROVE  /\ Entry(k, written, before, comment) \in Seq(Char)
           /\ Len(Entry(k, written, before, comment)) > 0
           /\ Entry(k, written, before, comment) \o s
                 = before \o (<<k, "=">> \o (written \o (comment \o (<<"nl">> \o s))))
  <1> DEFINE key == <<k, "=">>
             nl == <<"nl">>
             a == comment \o nl
             b == written \o a
             c == key \o b
  <1>1. key \in Seq(Char) /\ Len(key) = 2 /\ nl \in Seq(Char)
    <2>1. k \in Char /\ "=" \in Char /\ "nl" \in Char
      BY DEF Char, Mark, Letter
    <2> QED
      BY <2>1
  <1>2. before \in Seq(Char) /\ comment \in Seq(Char)
    BY Befores, Comments
  <1> HIDE DEF key, nl
  <1>3. a \in Seq(Char) /\ a \o s = comment \o (nl \o s)
    BY <1>1, <1>2, Joined
  <1>4. b \in Seq(Char) /\ b \o s = written \o (a \o s)
    <2>1. a \in Seq(Char)
      BY <1>3
    <2> HIDE DEF a
    <2> QED
      BY <2>1, Joined
  <1>5. c \in Seq(Char) /\ c \o s = key \o (b \o s) /\ Len(c) = Len(key) + Len(b)
    <2>1. b \in Seq(Char) /\ key \in Seq(Char)
      BY <1>1, <1>4
    <2> HIDE DEF b
    <2> QED
      BY <2>1, Joined
  <1>6. /\ before \o c \in Seq(Char) /\ (before \o c) \o s = before \o (c \o s)
        /\ Len(before \o c) = Len(before) + Len(c)
    <2>1. c \in Seq(Char) /\ before \in Seq(Char)
      BY <1>2, <1>5
    <2> HIDE DEF c
    <2> QED
      BY <2>1, Joined
  <1> HIDE DEF a, b, c
  <1>7. Len(before) \in Nat /\ Len(b) \in Nat
    BY <1>2, <1>4, LenProperties
  <1>8. Len(before \o c) > 0
    BY <1>1, <1>5, <1>6, <1>7
  <1>9. Entry(k, written, before, comment) = before \o c
    BY DEF Entry, c, b, a, key, nl
  <1>10. (before \o c) \o s = before \o (key \o (written \o (comment \o (nl \o s))))
    BY <1>3, <1>4, <1>5, <1>6
  <1> QED
    BY <1>6, <1>8, <1>9, <1>10 DEF key, nl

\* What is in a plain value: no space at either end, and no comment.
LEMMA PlainIs ==
    ASSUME NEW value \in Seq(Char), Plain(value), NEW comment \in Comment
    PROVE  /\ value[1] # "SPACE" /\ Len(value) > 0
           /\ Unquoted(value \o comment) = value
  <1> DEFINE n == Len(value)
             Hash(line) == {i \in 1..Len(line) - 1 : line[i] = "SPACE" /\ line[i + 1] = "#"}
             x == IF Hash(value) = {} THEN value ELSE Upto(value, Min(Hash(value)))
  <1>1. n \in Nat \ {0} /\ value # <<>> /\ DOMAIN value = 1..n
    BY LenProperties, EmptySeq DEF Plain
  <1>2. Trim(x) = value
    BY DEF Plain, Unquoted
  <1>3. x \in Seq(Char) /\ (Hash(value) # {} => Len(x) < n)
    <2>1. CASE Hash(value) = {}
      BY <2>1
    <2>2. CASE Hash(value) # {}
      <3> DEFINE m == Min(Hash(value))
      <3>1. Hash(value) \in SUBSET (1..n - 1) /\ Hash(value) \in SUBSET Nat
        BY <1>1
      <3> HIDE DEF Hash
      <3>2. m \in 1..n - 1
        BY <2>2, <3>1, Smallest
      <3> HIDE DEF m
      <3>3. m - 1 \in 0..Len(value) /\ 1 \in Int /\ m - 1 \in Int
        BY <1>1, <3>2
      <3>4. \A i \in 1..m - 1 : value[i] \in Char
        BY <1>1, <3>2, ElementOfSeq
      <3>5. SubSeq(value, 1, m - 1) \in Seq(Char) /\ Len(SubSeq(value, 1, m - 1)) <= m - 1
        BY <3>2, <3>3, <3>4, SubSeqProperties
      <3>6. x = SubSeq(value, 1, m - 1)
        BY <2>2 DEF Upto, m
      <3> QED
        BY <1>1, <3>2, <3>5, <3>6
    <2> QED
      BY <2>1, <2>2
  <1> DEFINE a == Min(Inked(x))
             b == Max(Inked(x))
  <1> HIDE DEF x
  <1>4. Inked(x) # {} /\ SubSeq(x, a, b) = value
    BY <1>1, <1>2 DEF Trim
  <1>5. a \in 1..Len(x) /\ b \in 1..Len(x) /\ a \in Inked(x) /\ b \in Inked(x)
    BY <1>3, <1>4, InkedIn
  <1> HIDE DEF a, b
  <1>6. Len(x) \in Nat /\ \A i \in a..b : x[i] \in Char
    BY <1>3, <1>5, LenProperties, ElementOfSeq
  <1>7. Len(SubSeq(x, a, b)) = IF a <= b THEN b - a + 1 ELSE 0
    BY <1>5, <1>6, SubSeqProperties
  <1>8. Len(x) >= n
    BY <1>1, <1>4, <1>5, <1>6, <1>7
  <1>9. Hash(value) = {}
    BY <1>3, <1>6, <1>8, <1>1
  <1>10. x = value
    BY <1>9 DEF x
  <1>11. a = 1 /\ b = n
    <2>1. a \in 1..n /\ b \in 1..n /\ n = IF a <= b THEN b - a + 1 ELSE 0
      BY <1>4, <1>5, <1>7, <1>10
    <2> HIDE DEF n
    <2> QED
      BY <1>1, <2>1
  <1>12. value[1] # "SPACE" /\ value[n] # "SPACE"
    BY <1>5, <1>10, <1>11 DEF Inked
  <1>13. Trim(value) = value
    BY <1>1, <1>12, NothingToTrim
  <1>14. CASE comment = <<>>
    <2>1. value \o comment = value
      BY <1>14, ConcatEmptySeq
    <2> QED
      BY <1>1, <1>12, <2>1 DEF Plain
  <1>15. CASE comment # <<>>
    <2> DEFINE line == value \o comment
    <2>1. /\ comment \in Seq(Char) /\ Len(comment) = 3 /\ comment[1] = "SPACE"
          /\ comment[2] = "#" /\ comment[3] = "a"
      BY <1>15, Comments
    <2>2. /\ line \in Seq(Char) /\ Len(line) = n + 3
          /\ \A i \in 1..n + 3 : line[i] = IF i <= n THEN value[i] ELSE comment[i - n]
      <3>1. Len(comment) = 3 /\ comment \in Seq(Char)
        BY <2>1
      <3>2. /\ line \in Seq(Char) /\ Len(line) = n + Len(comment)
            /\ \A i \in 1..n + Len(comment) : line[i] = IF i <= n THEN value[i] ELSE comment[i - n]
        BY <3>1, ConcatProperties
      <3> HIDE DEF line, n
      <3> QED
        BY <3>1, <3>2
    <2>3. Upto(line, n + 1) = value
      BY <2>1, CutAt
    <2> HIDE DEF line
    <2>4. /\ \A i \in 1..n : line[i] = value[i]
          /\ line[n + 1] = "SPACE" /\ line[n + 2] = "#" /\ line[n + 3] = "a"
      BY <1>1, <2>1, <2>2
    <2>5. \A i \in 1..n - 1 : ~(line[i] = "SPACE" /\ line[i + 1] = "#")
      <3> TAKE i \in 1..n - 1
      <3>1. ~(value[i] = "SPACE" /\ value[i + 1] = "#")
        BY <1>9
      <3>2. i \in 1..n /\ i + 1 \in 1..n
        BY <1>1
      <3> QED
        BY <2>4, <3>1, <3>2
    <2>6. \A i \in 1..n + 2 : (line[i] = "SPACE" /\ line[i + 1] = "#") <=> i = n + 1
      <3>0. n \in Nat \ {0}
        BY <1>1
      <3> HIDE DEF n
      <3> TAKE i \in 1..n + 2
      <3>1. i \in 1..n - 1 \/ i = n \/ i = n + 1 \/ i = n + 2
        BY <3>0
      <3>2. line[n] # "SPACE" /\ line[n + 1 + 1] = "#"
        <4>1. n \in 1..n /\ n + 1 + 1 = n + 2
          BY <3>0
        <4> QED
          BY <1>12, <2>4, <4>1
      <3>3. (i \in 1..n - 1 => i # n + 1) /\ n # n + 1 /\ n + 2 # n + 1
        BY <3>0
      <3> QED
        BY <2>4, <2>5, <3>1, <3>2, <3>3
    <2>7. Hash(line) = {n + 1}
      <3>1. Len(line) - 1 = n + 2 /\ n + 1 \in 1..n + 2
        BY <1>1, <2>2
      <3> HIDE DEF n
      <3> QED
        BY <2>6, <3>1
    <2>8. Min({n + 1}) = n + 1
      <3>1. {n + 1} \in SUBSET Nat /\ {n + 1} # {}
        BY <1>1
      <3> QED
        BY <3>1, Smallest
    <2>9. Unquoted(line) = value
      <3>1. Hash(line) # {}
        BY <2>7
      <3>2. Unquoted(line) = Trim(IF Hash(line) = {} THEN line ELSE Upto(line, Min(Hash(line))))
        BY DEF Unquoted
      <3> QED
        BY <1>13, <2>3, <2>7, <2>8, <3>1, <3>2
    <2> QED
      BY <1>1, <1>12, <2>9 DEF line
  <1> QED
    BY <1>14, <1>15

LEMMA TailOf ==
    ASSUME NEW S, NEW c \in S, NEW t \in Seq(S)
    PROVE  /\ <<c>> \o t \in Seq(S) /\ <<c>> \o t # <<>> /\ (<<c>> \o t)[1] = c
           /\ Tail(<<c>> \o t) = t
  <1> DEFINE s == <<c>> \o t
  <1>1. <<c>> \in Seq(S) /\ Len(<<c>>) = 1 /\ <<c>>[1] = c
    OBVIOUS
  <1>2. s \in Seq(S) /\ Len(s) = 1 + Len(t) /\ Len(t) \in Nat /\ s[1] = c
    BY <1>1, ConcatProperties, LenProperties
  <1>3. From(s, Len(<<c>>) + 1) = t
    BY <1>1, CutAt
  <1> HIDE DEF s
  <1>4. s # <<>>
    BY <1>2
  <1>5. From(s, 2) = t
    BY <1>1, <1>3
  <1>6. Tail(s) = t
    BY <1>2, <1>4, <1>5, TailIsSubSeq DEF From
  <1> QED
    BY <1>2, <1>4, <1>6 DEF s

\* What an entry is with what follows it.
EntryIs(k, written, before, comment, s) ==
    Entry(k, written, before, comment) \o s
       = before \o (<<k, "=">> \o (written \o (comment \o (<<"nl">> \o s))))

LEMMA EntryText ==
    ASSUME NEW k \in Key, NEW written \in Seq(Char), NEW before \in Before, NEW comment \in Comment,
           NEW s \in Seq(Char)
    PROVE  EntryIs(k, written, before, comment, s)
  BY EntrySplits DEF EntryIs

\* An entry is read as the value that it was written for, and no further than its end.
EntryRead(k, at, value, s) ==
    [rest |-> s, result |-> [x \in Key |-> IF x = k THEN {value} ELSE at.result[x]]]

ReadsIt(k, value, written, before, comment, s, at) ==
    at.rest = Entry(k, written, before, comment) \o s
       => written \in Seq(Char) /\ ParseLine(at) = EntryRead(k, at, value, s)

LEMMA QuotedEntry ==
    ASSUME ConfigAssumption, NEW k \in Key, NEW value \in Seq(Char), NEW quote \in Quotes,
           quote = "SQUOTE" => quote \notin ToSet(value), NEW before \in Before,
           NEW comment \in Comment, NEW s \in Seq(Char), NEW at
    PROVE  ReadsIt(k, value, Quote(value, quote), before, comment, s, at)
  <1> SUFFICES ASSUME at.rest = Entry(k, Quote(value, quote), before, comment) \o s
               PROVE  /\ Quote(value, quote) \in Seq(Char)
                      /\ ParseLine(at) = EntryRead(k, at, value, s)
    BY DEF ReadsIt
  <1> DEFINE q == <<quote>>
             e == Escaped(value, quote)
             z == comment \o (<<"nl">> \o s)
             r == e \o (q \o z)
             w == q \o r
  <1>1. quote \in Char /\ "nl" \in Char /\ "=" \in Char /\ k \in Char /\ quote \in Quotes
    BY DEF Char, Mark, Letter
  <1>2. q \in Seq(Char) /\ <<"nl">> \in Seq(Char) /\ <<k, "=">> \in Seq(Char)
    BY <1>1
  <1>3. comment \in Seq(Char) /\ <<"nl">> \o s \in Seq(Char)
    BY <1>1, Comments, TailOf
  <1>4. e \in Seq(Char)
    <2>1. Len(value) \in 0..Len(value)
      BY LenProperties
    <2> QED
      BY <2>1, EscapingIs DEF Escaped
  <1>5. z \in Seq(Char)
    BY <1>3, ConcatProperties
  <1> HIDE DEF e, z
  <1>6. Quote(value, quote) \in Seq(Char) /\ Quote(value, quote) \o z = w
    <2>1. Quote(value, quote) = (q \o e) \o q
      BY DEF Quote, e
    <2> HIDE DEF q
    <2>2. q \o e \in Seq(Char) /\ q \o z \in Seq(Char)
      BY <1>2, <1>4, <1>5, Joined
    <2>3. (q \o e) \o q \in Seq(Char) /\ ((q \o e) \o q) \o z = (q \o e) \o (q \o z)
      <3> DEFINE y == q \o e
      <3>1. y \in Seq(Char)
        BY <2>2
      <3> HIDE DEF y
      <3>2. y \o q \in Seq(Char) /\ (y \o q) \o z = y \o (q \o z)
        BY <1>2, <1>5, <3>1, Joined
      <3> QED
        BY <3>2 DEF y
    <2>4. (q \o e) \o (q \o z) = q \o (e \o (q \o z))
      <3> DEFINE y == q \o z
      <3>1. y \in Seq(Char)
        BY <2>2
      <3> HIDE DEF y
      <3>2. (q \o e) \o y = q \o (e \o y)
        BY <1>2, <1>4, <3>1, Joined
      <3> QED
        BY <3>2 DEF y
    <2> QED
      BY <2>1, <2>3, <2>4
  <1>7. r \in Seq(Char)
    <2>1. q \o z \in Seq(Char)
      BY <1>2, <1>5, ConcatProperties
    <2> QED
      BY <1>4, <2>1, ConcatProperties
  <1>8. ReadQuoted(r, quote) = [value |-> value, rest |-> q \o z]
    BY <1>5, ReadsBack DEF e
  <1> HIDE DEF r
  <1>9. w \in Seq(Char) /\ w # <<>> /\ w[1] = quote /\ Tail(w) = r
    BY <1>1, <1>7, TailOf
  <1> HIDE DEF w
  <1>10. LeftTrim(w) = w
    <2>1. quote # "SPACE"
      BY DEF Quotes
    <2> QED
      BY <1>9, <2>1, NotTrimmed
  <1>11. at.rest = before \o (<<k, "=">> \o w)
    <2> DEFINE v == Quote(value, quote)
    <2>1. v \in Seq(Char) /\ v \o z = w
      BY <1>6
    <2>2. at.rest = Entry(k, v, before, comment) \o s
      OBVIOUS
    <2> HIDE DEF v
    <2>3. Entry(k, v, before, comment) \o s = before \o (<<k, "=">> \o (v \o z))
      <3>1. v \in Seq(Char)
        BY <2>1
      <3>2. EntryIs(k, v, before, comment, s)
        BY <3>1, EntryText, Zenon
      <3> QED
        BY <3>2, Zenon DEF EntryIs, z
    <2> QED
      BY <2>1, <2>2, <2>3, Zenon
  <1>12. ParseLine(at) = KeyRead(k, at, ReadOf(<<k, "=">> \o w, w))
    BY <1>9, <1>10, <1>11, KeyLine
  <1>13. ReadOf(<<k, "=">> \o w, w) = [value |-> value, rest |-> q \o z]
    BY <1>1, <1>8, <1>9 DEF ReadOf
  <1>14. Below(q \o z) = s
    <2> DEFINE u == q \o comment
    <2>1. u \in Seq(Char) /\ Len(u) = 1 + Len(comment)
          /\ \A i \in 1..1 + Len(comment) : u[i] = IF i <= 1 THEN q[i] ELSE comment[i - 1]
      <3>1. Len(q) = 1 /\ q \in Seq(Char) /\ comment \in Seq(Char)
        BY <1>2, <1>3
      <3> HIDE DEF q
      <3>2. /\ u \in Seq(Char) /\ Len(u) = Len(q) + Len(comment)
            /\ \A i \in 1..Len(q) + Len(comment) :
                  u[i] = IF i <= Len(q) THEN q[i] ELSE comment[i - Len(q)]
        BY <3>1, ConcatProperties
      <3> HIDE DEF u
      <3> QED
        BY <3>1, <3>2
    <2>2. \A i \in 1..Len(u) : u[i] # "nl"
      <3>1. q[1] # "nl"
        BY DEF Quotes
      <3>2. \A i \in 1..Len(comment) : comment[i] # "nl"
        BY Comments
      <3>3. Len(comment) \in Nat
        BY <1>3, LenProperties
      <3> HIDE DEF u, q
      <3>4. ASSUME NEW i \in 1..Len(u) PROVE u[i] # "nl"
        <4>1. CASE i = 1
          BY <2>1, <3>1, <3>3, <4>1
        <4>2. CASE i # 1
          <5>1. i - 1 \in 1..Len(comment) /\ i \in 1..1 + Len(comment) /\ ~(i <= 1)
            BY <2>1, <3>3, <4>2
          <5> QED
            BY <2>1, <3>2, <5>1
        <4> QED
          BY <4>1, <4>2
      <3> QED
        BY <3>4
    <2>3. u \o (<<"nl">> \o s) = q \o z
      <3> DEFINE y == <<"nl">> \o s
      <3> HIDE DEF y, q
      <3>1. (q \o comment) \o y = q \o (comment \o y)
        BY <1>2, <1>3, Joined DEF y
      <3> QED
        BY <3>1 DEF y, z
    <2> HIDE DEF u, q
    <2>4. Below(u \o (<<"nl">> \o s)) = s
      BY <1>1, <2>1, <2>2, LineIs
    <2> QED
      BY <2>3, <2>4
  <1> HIDE DEF q
  <1> DEFINE read == [value |-> value, rest |-> q \o z]
  <1>15. read.value = value /\ read.rest = q \o z
    OBVIOUS
  <1>16. ParseLine(at) = KeyRead(k, at, read)
    BY <1>12, <1>13
  <1> HIDE DEF read
  <1>17. KeyRead(k, at, read) = EntryRead(k, at, value, s)
    BY <1>14, <1>15, Zenon DEF KeyRead, EntryRead
  <1> QED
    BY <1>6, <1>16, <1>17

LEMMA PlainEntry ==
    ASSUME ConfigAssumption, NEW k \in Key, NEW value \in Seq(Char), Plain(value),
           NEW before \in Before, NEW comment \in Comment, NEW s \in Seq(Char), NEW at
    PROVE  ReadsIt(k, value, value, before, comment, s, at)
  <1> SUFFICES ASSUME at.rest = Entry(k, value, before, comment) \o s
               PROVE  ParseLine(at) = EntryRead(k, at, value, s)
    BY DEF ReadsIt
  <1> DEFINE key == <<k, "=">>
             u == value \o comment
             y == <<"nl">> \o s
             w == u \o y
             t == key \o w
  <1>1. "nl" \in Char /\ "=" \in Char /\ k \in Char /\ k # "nl" /\ "=" # "nl"
    BY ConfigAssumption DEF Char, Mark, Letter
  <1>2. key \in Seq(Char) /\ Len(key) = 2 /\ key[1] = k /\ key[2] = "="
    BY <1>1
  <1>3. comment \in Seq(Char) /\ y \in Seq(Char) /\ \A i \in 1..Len(comment) : comment[i] # "nl"
    BY <1>1, Comments, TailOf
  <1>4. value[1] # "SPACE" /\ value[1] \notin Quotes /\ Len(value) \in Nat \ {0} /\ Unquoted(u) = value
    BY PlainIs, LenProperties DEF Plain
  <1>5. \A i \in 1..Len(value) : value[i] # "nl"
    <2>1. DOMAIN value = 1..Len(value)
      BY LenProperties
    <2> QED
      BY <2>1 DEF Plain, ToSet
  <1>6. /\ u \in Seq(Char) /\ Len(u) = Len(value) + Len(comment)
        /\ \A i \in 1..Len(value) + Len(comment) :
              u[i] = IF i <= Len(value) THEN value[i] ELSE comment[i - Len(value)]
    BY <1>3, ConcatProperties
  <1>7. Len(comment) \in Nat
    BY <1>3, LenProperties
  <1> HIDE DEF y
  <1>8. value \o (comment \o y) = u \o y
    BY <1>3, Joined
  <1> HIDE DEF u
  <1>9. u[1] = value[1] /\ Len(u) \in Nat \ {0}
    BY <1>4, <1>6, <1>7
  <1>10. \A i \in 1..Len(u) : u[i] # "nl"
    <2> TAKE i \in 1..Len(u)
    <2>1. CASE i <= Len(value)
      BY <1>4, <1>5, <1>6, <1>7, <2>1
    <2>2. CASE ~(i <= Len(value))
      <3>1. i - Len(value) \in 1..Len(comment) /\ i \in 1..Len(value) + Len(comment)
        BY <1>4, <1>6, <1>7, <2>2
      <3> QED
        BY <1>3, <1>6, <2>2, <3>1
    <2> QED
      BY <2>1, <2>2
  <1>11. w \in Seq(Char) /\ Len(w) = Len(u) + Len(y) /\ Len(y) \in Nat /\ w[1] = u[1]
    <2>1. /\ w \in Seq(Char) /\ Len(w) = Len(u) + Len(y)
          /\ \A i \in 1..Len(u) + Len(y) : w[i] = IF i <= Len(u) THEN u[i] ELSE y[i - Len(u)]
      BY <1>3, <1>6, ConcatProperties
    <2>2. Len(y) \in Nat
      BY <1>3, LenProperties
    <2> HIDE DEF w
    <2> QED
      BY <1>9, <2>1, <2>2
  <1>12. Line(w) = u
    BY <1>1, <1>6, <1>10, LineIs DEF y
  <1>13. Below(t) = s
    <2> DEFINE x == key \o u
    <2>1. /\ x \in Seq(Char) /\ Len(x) = Len(key) + Len(u)
          /\ \A i \in 1..Len(key) + Len(u) : x[i] = IF i <= Len(key) THEN key[i] ELSE u[i - Len(key)]
      <3>1. key \in Seq(Char)
        BY <1>2
      <3> HIDE DEF key
      <3> QED
        BY <1>6, <3>1, ConcatProperties
    <2>2. x \o y = t
      <3>1. key \in Seq(Char)
        BY <1>2
      <3> HIDE DEF key
      <3> QED
        BY <1>3, <1>6, <3>1, Joined
    <2>3. \A i \in 1..Len(x) : x[i] # "nl"
      <3> TAKE i \in 1..Len(x)
      <3> HIDE DEF key, x
      <3>1. CASE i <= 2
        <4>1. i = 1 \/ i = 2
          BY <3>1, <1>2, <1>9, <2>1
        <4>2. i \in 1..Len(key) + Len(u) /\ i <= Len(key)
          BY <1>2, <1>9, <2>1, <3>1
        <4> QED
          BY <1>1, <1>2, <2>1, <4>1, <4>2
      <3>2. CASE ~(i <= 2)
        <4>1. i - 2 \in 1..Len(u) /\ i \in 1..Len(key) + Len(u) /\ ~(i <= Len(key))
          BY <1>2, <1>9, <2>1, <3>2
        <4> QED
          BY <1>2, <1>10, <2>1, <4>1
      <3> QED
        BY <3>1, <3>2
    <2> HIDE DEF x, t, key
    <2>4. Below(x \o (<<"nl">> \o s)) = s
      BY <1>1, <2>1, <2>3, LineIs
    <2> QED
      BY <2>2, <2>4 DEF y
  <1> HIDE DEF w
  <1>14. w # <<>> /\ LeftTrim(w) = w
    <2>1. w # <<>>
      BY <1>9, <1>11
    <2> QED
      BY <1>4, <1>9, <1>11, <2>1, NotTrimmed
  <1>15. at.rest = before \o t
    <2>1. EntryIs(k, value, before, comment, s)
      BY EntryText, Zenon
    <2>2. at.rest = before \o (key \o (value \o (comment \o y)))
      BY <2>1, Zenon DEF EntryIs, y
    <2> QED
      BY <1>8, <2>2, Zenon DEF w
  <1>16. ParseLine(at) = KeyRead(k, at, ReadOf(t, w))
    BY <1>11, <1>14, <1>15, KeyLine
  <1> HIDE DEF t, key
  <1> DEFINE read == ReadOf(t, w)
  <1>17. read.value = value /\ read.rest = t
    <2>1. read = [value |-> Unquoted(Line(w)), rest |-> t]
      BY <1>4, <1>9, <1>11 DEF ReadOf
    <2> QED
      BY <1>4, <1>12, <2>1
  <1> HIDE DEF read
  <1>18. KeyRead(k, at, read) = EntryRead(k, at, value, s)
    BY <1>13, <1>17, Zenon DEF KeyRead, EntryRead
  <1> QED
    BY <1>16, <1>18 DEF read

\* However a value is written, it is read.
LEMMA WritingRead ==
    ASSUME ConfigAssumption, NEW k \in Key, NEW value \in Value, NEW written \in Writings(value),
           NEW before \in Before, NEW comment \in Comment, NEW s \in Seq(Char), NEW at
    PROVE  ReadsIt(k, value, written, before, comment, s, at)
  <1>1. value \in Seq(Char)
    BY ConfigAssumption
  <1>2. CASE written = value /\ Plain(value)
    <2>1. ReadsIt(k, value, value, before, comment, s, at)
      BY <1>1, <1>2, PlainEntry
    <2> QED
      BY <1>2, <2>1
  <1>3. ASSUME NEW quote \in Quotes, quote = "SQUOTE" => quote \notin ToSet(value),
               written = Quote(value, quote)
        PROVE  ReadsIt(k, value, written, before, comment, s, at)
    <2>1. ReadsIt(k, value, Quote(value, quote), before, comment, s, at)
      BY <1>1, <1>3, QuotedEntry
    <2> QED
      BY <1>3, <2>1
  <1>4. \/ written = value /\ Plain(value)
        \/ \E quote \in Quotes : /\ quote = "SQUOTE" => quote \notin ToSet(value)
                                 /\ written = Quote(value, quote)
    BY DEF Writings
  <1> QED
    BY <1>2, <1>3, <1>4

\* Whatever a text is, the parts that a round takes of it are texts.
LEMMA LeftTrimIs ==
    ASSUME NEW S, NEW s \in Seq(S)
    PROVE  LeftTrim(s) \in Seq(S)
  <1>1. Len(s) \in Nat /\ 0 \in 0..Len(s) /\ <<>> \in Seq(S)
    BY LenProperties, EmptySeq
  <1>2. CASE Inked(s) # {}
    <2>1. Min(Inked(s)) \in Nat \ {0}
      <3>1. Min(Inked(s)) \in Inked(s) /\ Inked(s) \in SUBSET (1..Len(s))
        BY <1>2, InkedIn
      <3> QED
        BY <1>1, <3>1
    <2>2. From(s, Min(Inked(s))) \in Seq(S)
      BY <1>1, <2>1, Parts
    <2> QED
      BY <1>2, <2>2 DEF LeftTrim
  <1> QED
    BY <1>1, <1>2 DEF LeftTrim

LEMMA TrimIs ==
    ASSUME NEW S, NEW s \in Seq(S)
    PROVE  Trim(s) \in Seq(S)
  <1>1. Len(s) \in Nat /\ <<>> \in Seq(S)
    BY LenProperties, EmptySeq
  <1>2. CASE Inked(s) # {}
    <2>1. /\ Min(Inked(s)) \in Inked(s) /\ Max(Inked(s)) \in Inked(s)
          /\ Inked(s) \in SUBSET (1..Len(s))
      BY <1>2, InkedIn
    <2>2. Min(Inked(s)) \in Nat \ {0} /\ Max(Inked(s)) \in 0..Len(s)
      BY <1>1, <2>1
    <2>3. SubSeq(s, Min(Inked(s)), Max(Inked(s))) \in Seq(S)
      BY <2>2, Parts
    <2> QED
      BY <1>2, <2>3 DEF Trim
  <1> QED
    BY <1>1, <1>2 DEF Trim

LEMMA LinesAre ==
    ASSUME NEW S, NEW s \in Seq(S)
    PROVE  Line(s) \in Seq(S) /\ Below(s) \in Seq(S) /\ Unquoted(s) \in Seq(S)
  <1>1. Len(s) \in Nat
    BY LenProperties
  <1>2. Line(s) \in Seq(S) /\ Below(s) \in Seq(S)
    <2> DEFINE i == First(s, "nl")
    <2>1. i \in 1..Len(s) + 1
      BY FirstIn
    <2> HIDE DEF i
    <2>2. i - 1 \in 0..Len(s) /\ i + 1 \in Nat \ {0} /\ 1 \in Nat \ {0} /\ 0 \in 0..Len(s)
      BY <1>1, <2>1
    <2>3. SubSeq(s, 1, i - 1) \in Seq(S) /\ From(s, i + 1) \in Seq(S)
      BY <2>2, Parts
    <2> QED
      BY <2>3 DEF Line, Below, Upto, i
  <1> DEFINE hash == {i \in 1..Len(s) - 1 : s[i] = "SPACE" /\ s[i + 1] = "#"}
             x == IF hash = {} THEN s ELSE Upto(s, Min(hash))
  <1>3. x \in Seq(S)
    <2>1. CASE hash # {}
      <3>1. hash \in SUBSET Nat /\ hash \in SUBSET (1..Len(s) - 1)
        OBVIOUS
      <3>2. Min(hash) \in hash
        <4> HIDE DEF hash
        <4> QED
          BY <2>1, <3>1, Smallest
      <3> DEFINE m == Min(hash)
      <3>3. m \in 1..Len(s) - 1
        BY <3>2
      <3> HIDE DEF m
      <3>4. m - 1 \in 0..Len(s) /\ 1 \in Nat \ {0}
        BY <1>1, <3>3
      <3>5. SubSeq(s, 1, m - 1) \in Seq(S)
        BY <3>4, Parts
      <3> QED
        BY <2>1, <3>5 DEF Upto, m
    <2> QED
      BY <2>1
  <1>4. Unquoted(s) = Trim(x)
    BY DEF Unquoted
  <1> HIDE DEF x
  <1> QED
    BY <1>2, <1>3, <1>4, TrimIs

LEMMA TailIs ==
    ASSUME NEW S, NEW s \in Seq(S), s # <<>>
    PROVE  Tail(s) \in Seq(S) /\ s[1] \in S
  <1>1. Len(s) \in Nat \ {0}
    BY LenProperties, EmptySeq
  <1>2. 1 \in 1..Len(s)
    BY <1>1
  <1> QED
    BY <1>2, HeadTailProperties, ElementOfSeq

LEMMA WithoutExportIs ==
    ASSUME NEW S, NEW s \in Seq(S)
    PROVE  WithoutExport(s) \in Seq(S)
  <1> DEFINE start == LeftTrim(s)
  <1>1. start \in Seq(S)
    BY LeftTrimIs
  <1> HIDE DEF start
  <1>2. Len(start) > 1 => LeftTrim(Tail(start)) \in Seq(S)
    <2>1. Len(start) > 1 => start # <<>>
      BY EmptySeq
    <2> QED
      BY <1>1, <2>1, TailIs, LeftTrimIs
  <1> QED
    BY <1>1, <1>2 DEF WithoutExport, start

\* What parseDotenv has left to read, and its result.
HasParsed == [rest : Seq(Char), result : [Key -> SUBSET Seq(Char)]]

LEMMA ParsesOn ==
    ASSUME NEW at \in HasParsed
    PROVE  ParseLine(at) \in HasParsed
  <1> DEFINE s == WithoutExport(at.rest)
             key == Trim(Upto(Line(s), First(Line(s), "=")))
             after == LeftTrim(From(s, First(s, "=") + 1))
             read == ReadOf(s, after)
             skipped == [at EXCEPT !.rest = Below(s)]
             parsed == [rest |-> Below(read.rest),
                        result |-> [k \in Key |-> IF <<k>> = key THEN {read.value} ELSE at.result[k]]]
  <1>1. at.rest \in Seq(Char) /\ at.result \in [Key -> SUBSET Seq(Char)]
    BY DEF HasParsed
  <1>2. ParseLine(at) = skipped \/ ParseLine(at) = parsed
    BY Zenon DEF ParseLine, ReadOf
  <1>3. s \in Seq(Char)
    BY <1>1, WithoutExportIs
  <1> HIDE DEF s
  <1>4. after \in Seq(Char)
    <2>1. First(s, "=") \in 1..Len(s) + 1 /\ Len(s) \in Nat
      BY <1>3, FirstIn, LenProperties
    <2>2. First(s, "=") + 1 \in Nat \ {0} /\ 0 \in 0..Len(s)
      BY <2>1
    <2>3. From(s, First(s, "=") + 1) \in Seq(Char)
      BY <1>3, <2>2, Parts
    <2> QED
      BY <2>3, LeftTrimIs
  <1> HIDE DEF after
  <1>5. read \in HasRead
    <2>1. CASE after # <<>> /\ after[1] \in Quotes
      <3> DEFINE t == Tail(after)
      <3>1. t \in Seq(Char)
        BY <1>4, <2>1, TailIs
      <3> HIDE DEF t
      <3>2. Len(t) \in 0..Len(t)
        BY <3>1, LenProperties
      <3>3. ReadQuoted(t, after[1]) \in HasRead
        BY <3>1, <3>2, ReadingIs DEF ReadQuoted
      <3> QED
        BY <2>1, <3>3 DEF ReadOf, t
    <2>2. CASE ~(after # <<>> /\ after[1] \in Quotes)
      <3>1. Unquoted(Line(after)) \in Seq(Char)
        BY <1>4, LinesAre
      <3> QED
        BY <1>3, <2>2, <3>1 DEF ReadOf, HasRead
    <2> QED
      BY <2>1, <2>2
  <1> HIDE DEF read, key
  <1>6. read.value \in Seq(Char) /\ Below(read.rest) \in Seq(Char) /\ Below(s) \in Seq(Char)
    BY <1>3, <1>5, LinesAre DEF HasRead
  <1>7. skipped \in HasParsed
    BY <1>1, <1>6 DEF HasParsed
  <1>8. parsed \in HasParsed
    BY <1>1, <1>6 DEF HasParsed
  <1> QED
    BY <1>2, <1>7, <1>8

LEMMA ParsingIs ==
    ASSUME NEW s \in Seq(Char)
    PROVE  /\ \A i \in 0..Len(s) : Parsing(s)[i] \in HasParsed
           /\ Parsing(s)[0] = [rest |-> s, result |-> Unset]
           /\ \A i \in 1..Len(s) : Parsing(s)[i] = ParseLine(Parsing(s)[i - 1])
  <1> DEFINE n == Len(s)
             first == [rest |-> s, result |-> Unset]
             step == [i \in 1..n |-> [x \in HasParsed |-> ParseLine(x)]]
  <1>1. n \in Nat /\ first \in HasParsed
    BY LenProperties DEF HasParsed, Unset
  <1>2. \A x \in HasParsed : ParseLine(x) \in HasParsed
    BY ParsesOn
  <1> HIDE DEF first
  <1>3. /\ step \in [1..n -> [HasParsed -> HasParsed]]
        /\ \A i \in 1..n, x \in HasParsed : step[i][x] = ParseLine(x)
    <2> HIDE DEF n
    <2> QED
      BY <1>2
  <1> HIDE DEF step
  <1>4. PICK g \in [0..n -> HasParsed] : g[0] = first /\ \A i \in 1..n : g[i] = step[i][g[i - 1]]
    <2>1. GoesOnFrom(HasParsed, n, first, step)
      BY <1>1, <1>3, Recursion
    <2> QED
      BY <2>1, Zenon DEF GoesOnFrom
  <1>5. \A i \in 1..n : g[i] = ParseLine(g[i - 1])
    <2> TAKE i \in 1..n
    <2>1. g[i - 1] \in HasParsed
      BY <1>4
    <2> QED
      BY <1>3, <1>4, <2>1
  <1> DEFINE R == Parsing(s)
  <1>6. R = CHOOSE h : h = [i \in 0..n |-> IF i = 0 THEN first ELSE ParseLine(h[i - 1])]
    BY Zenon DEF Parsing, first
  <1> HIDE DEF R
  <1>7. g = [i \in 0..n |-> IF i = 0 THEN first ELSE ParseLine(g[i - 1])]
    <2>1. \A i \in 0..n : i = 0 \/ i \in 1..n
      OBVIOUS
    <2> QED
      BY <1>4, <1>5, <2>1
  <1>8. R = [i \in 0..n |-> IF i = 0 THEN first ELSE ParseLine(R[i - 1])]
    BY <1>6, <1>7, Zenon
  <1>9. R[0] = first /\ \A i \in 1..n : R[i] = ParseLine(R[i - 1])
    <2>1. 0 \in 0..n /\ \A i \in 1..n : i \in 0..n /\ i # 0
      BY <1>1
    <2> HIDE DEF n
    <2> QED
      BY <1>8, <2>1
  <1> DEFINE I == {m \in Nat : m <= n => R[m] \in HasParsed}
  <1>10. 0 \in I
    BY <1>1, <1>9
  <1>11. ASSUME NEW m \in I PROVE m + 1 \in I
    <2>1. m \in Nat /\ (m <= n => R[m] \in HasParsed)
      OBVIOUS
    <2>2. SUFFICES ASSUME m + 1 <= n PROVE R[m + 1] \in HasParsed
      BY <2>1
    <2> HIDE DEF I
    <2>3. m + 1 \in 1..n /\ R[m] \in HasParsed /\ (m + 1) - 1 = m
      BY <1>1, <2>1, <2>2
    <2>4. R[m + 1] = ParseLine(R[m])
      BY <1>9, <2>3
    <2> QED
      BY <1>2, <2>3, <2>4
  <1>12. I = Nat
    <2>1. I \in SUBSET Nat
      OBVIOUS
    <2> HIDE DEF I
    <2> QED
      BY <1>10, <1>11, <2>1, Induction
  <1>13. \A i \in 0..n : R[i] \in HasParsed
    BY <1>1, <1>12
  <1> QED
    BY <1>9, <1>13 DEF R, first

\* After some rounds d is behind, whatever follows it, and r is the result.
ReadsTo(d, r) ==
    \E n \in 0..Len(d) : \A s \in Seq(Char) : Parsing(d \o s)[n] = [rest |-> s, result |-> r]

LEMMA NothingReadYet == ReadsTo(<<>>, Unset)
  <1>1. 0 \in 0..Len(<<>>)
    BY EmptySeq
  <1>2. ASSUME NEW s \in Seq(Char) PROVE Parsing(<<>> \o s)[0] = [rest |-> s, result |-> Unset]
    <2>1. <<>> \o s = s
      BY ConcatEmptySeq
    <2> QED
      BY <2>1, ParsingIs
  <1> QED
    BY <1>1, <1>2 DEF ReadsTo

LEMMA ReadsEntry ==
    ASSUME ConfigAssumption, NEW k \in Key, NEW value \in Value, NEW written \in Writings(value),
           NEW before \in Before, NEW comment \in Comment,
           NEW d \in Seq(Char), NEW r \in [Key -> SUBSET Seq(Char)], ReadsTo(d, r)
    PROVE  /\ d \o Entry(k, written, before, comment) \in Seq(Char)
           /\ ReadsTo(d \o Entry(k, written, before, comment), [r EXCEPT ![k] = {value}])
  <1> DEFINE e == Entry(k, written, before, comment)
             d2 == d \o e
             r2 == [r EXCEPT ![k] = {value}]
  <1>1. written \in Seq(Char)
    <2> DEFINE at == [rest |-> Entry(k, written, before, comment) \o <<>>, result |-> r]
    <2>1. at.rest = Entry(k, written, before, comment) \o <<>>
      OBVIOUS
    <2> HIDE DEF at
    <2>2. <<>> \in Seq(Char)
      BY EmptySeq
    <2>3. ReadsIt(k, value, written, before, comment, <<>>, at)
      BY <2>2, WritingRead
    <2> QED
      BY <2>1, <2>3 DEF ReadsIt
  <1>2. e \in Seq(Char) /\ Len(e) > 0 /\ Len(e) \in Nat
    <2>1. <<>> \in Seq(Char)
      BY EmptySeq
    <2> QED
      BY <1>1, <2>1, EntrySplits, LenProperties
  <1>3. PICK n \in 0..Len(d) : \A s \in Seq(Char) : Parsing(d \o s)[n] = [rest |-> s, result |-> r]
    BY Zenon DEF ReadsTo
  <1>4. ASSUME NEW s \in Seq(Char), NEW at, at = [rest |-> e \o s, result |-> r]
        PROVE  ParseLine(at) = [rest |-> s, result |-> r2]
    <2>1. at.rest = e \o s /\ at.result = r
      BY <1>4
    <2>2. ReadsIt(k, value, written, before, comment, s, at)
      BY WritingRead
    <2>3. ParseLine(at) = EntryRead(k, at, value, s)
      BY <2>1, <2>2 DEF ReadsIt
    <2>4. r2 = [x \in Key |-> IF x = k THEN {value} ELSE at.result[x]]
      BY <2>1
    <2> HIDE DEF r2
    <2> QED
      BY <2>3, <2>4, Zenon DEF EntryRead
  <1> HIDE DEF e, r2
  <1>5. d2 \in Seq(Char) /\ Len(d2) = Len(d) + Len(e) /\ Len(d) \in Nat
    BY <1>2, ConcatProperties, LenProperties
  <1>6. n + 1 \in 0..Len(d2) /\ n \in Nat
    BY <1>2, <1>5
  <1>7. ASSUME NEW s \in Seq(Char) PROVE Parsing(d2 \o s)[n + 1] = [rest |-> s, result |-> r2]
    <2>1. d2 \o s = d \o (e \o s) /\ e \o s \in Seq(Char) /\ d2 \o s \in Seq(Char)
      <3>1. d2 \o s = d \o (e \o s) /\ e \o s \in Seq(Char)
        BY <1>2, Joined
      <3> HIDE DEF d2
      <3> QED
        BY <1>5, <3>1, ConcatProperties
    <2>2. Len(d2 \o s) = Len(d2) + Len(s) /\ Len(s) \in Nat
      <3> HIDE DEF d2
      <3> QED
        BY <1>5, ConcatProperties, LenProperties
    <2> DEFINE t == d2 \o s
               v == e \o s
    <2>3. Parsing(d \o v)[n] = [rest |-> v, result |-> r]
      BY <1>3, <2>1
    <2>4. t = d \o v /\ t \in Seq(Char)
      BY <2>1
    <2>5. n + 1 \in 1..Len(t) /\ (n + 1) - 1 = n
      BY <1>5, <1>6, <2>2
    <2> HIDE DEF t, d2
    <2>6. Parsing(t)[n + 1] = ParseLine(Parsing(t)[n])
      BY <2>4, <2>5, ParsingIs
    <2>7. Parsing(t)[n] = [rest |-> e \o s, result |-> r]
      BY <2>3, <2>4
    <2>8. ParseLine(Parsing(t)[n]) = [rest |-> s, result |-> r2]
      BY <1>4, <2>7
    <2> QED
      BY <2>6, <2>8 DEF t
  <1> HIDE DEF d2
  <1>8. ReadsTo(d2, r2)
    BY <1>6, <1>7 DEF ReadsTo
  <1> QED
    BY <1>5, <1>8 DEF d2, e, r2

LEMMA NothingLeft ==
    ASSUME NEW r
    PROVE  ParseLine([rest |-> <<>>, result |-> r]) = [rest |-> <<>>, result |-> r]
  <1> DEFINE at == [rest |-> <<>>, result |-> r]
             s == <<>>
  <1>1. at.rest = s /\ s \in Seq(Char) /\ Len(s) = 0 /\ DOMAIN s = {}
    BY EmptySeq
  <1>2. Inked(s) = {}
    BY <1>1 DEF Inked
  <1>3. LeftTrim(s) = s
    BY <1>2 DEF LeftTrim
  <1>4. WithoutExport(s) = s
    BY <1>1, <1>3 DEF WithoutExport
  <1>5. First(s, "nl") = 1
    <2> HIDE DEF s
    <2>1. 1 \in 1..Len(s) + 1 /\ (1 <= Len(s) => s[1] = "nl") /\ \A j \in 1..1 - 1 : s[j] # "nl"
      BY <1>1
    <2>2. s \in Seq(Char)
      BY <1>1
    <2> QED
      BY <2>1, <2>2, FirstIs
  <1>6. Line(s) = <<>> /\ Below(s) = <<>>
    <2>1. SubSeq(s, 1, 0) = <<>> /\ SubSeq(s, 2, 0) = <<>>
      BY <1>1, SubSeqEmpty
    <2> HIDE DEF s
    <2> QED
      BY <1>1, <1>5, <2>1 DEF Line, Below, Upto, From
  <1>7. ParseLine(at) = [at EXCEPT !.rest = Below(s)]
    BY <1>1, <1>4, <1>6, Zenon DEF ParseLine
  <1> QED
    BY <1>6, <1>7

LEMMA ParsedAs ==
    ASSUME NEW d \in Seq(Char), NEW r, ReadsTo(d, r)
    PROVE  ParseDotenv(d) = r
  <1> DEFINE end == [rest |-> <<>>, result |-> r]
             P == Parsing(d)
             m == Len(d)
  <1>1. PICK n \in 0..m : \A s \in Seq(Char) : Parsing(d \o s)[n] = [rest |-> s, result |-> r]
    BY Zenon DEF ReadsTo
  <1>2. P[n] = end
    <2>1. <<>> \in Seq(Char) /\ d \o <<>> = d
      BY EmptySeq, ConcatEmptySeq
    <2>2. Parsing(d \o <<>>)[n] = end
      BY <1>1, <2>1
    <2> QED
      BY <2>1, <2>2
  <1>3. ParseLine(end) = end
    BY NothingLeft
  <1>4. \A i \in 1..m : P[i] = ParseLine(P[i - 1])
    BY ParsingIs
  <1>5. m \in Nat /\ n \in Nat /\ n <= m
    <2>1. m \in Nat
      BY LenProperties
    <2> HIDE DEF m
    <2> QED
      BY <2>1
  <1> HIDE DEF end, P, m
  <1> DEFINE J == {j \in Nat : n <= j /\ j <= m => P[j] = end}
  <1>6. 0 \in J
    <2>1. n <= 0 => n = 0
      BY <1>5
    <2> QED
      BY <1>2, <2>1
  <1>7. ASSUME NEW j \in J PROVE j + 1 \in J
    <2>1. j \in Nat /\ (n <= j /\ j <= m => P[j] = end)
      OBVIOUS
    <2>2. SUFFICES ASSUME n <= j + 1, j + 1 <= m PROVE P[j + 1] = end
      BY <2>1
    <2> HIDE DEF J
    <2>3. CASE n = j + 1
      BY <1>2, <2>3
    <2>4. CASE n # j + 1
      <3>1. n <= j /\ j <= m /\ j + 1 \in 1..m /\ (j + 1) - 1 = j
        BY <1>5, <2>1, <2>2, <2>4
      <3> QED
        BY <1>3, <1>4, <2>1, <3>1
    <2> QED
      BY <2>3, <2>4
  <1>8. m \in J
    <2>1. J \in SUBSET Nat
      OBVIOUS
    <2> HIDE DEF J
    <2> QED
      BY <1>5, <1>6, <1>7, <2>1, Induction
  <1>9. P[m] = end
    BY <1>5, <1>8
  <1>10. end.result = r
    BY DEF end
  <1> QED
    BY <1>9, <1>10 DEF ParseDotenv, P, m

\* What load() has done, if no file has thrown yet. Once one has, no call of boot() comes to
\* the end.
Loads ==
    IF threw = {}
    THEN /\ loaded => loading = {} /\ \A k \in Key : store[k] = Env(k)
         /\ ~loaded => \A k \in Key : store[k] = IF loading = {} \/ k \in loading THEN {} ELSE Env(k)
    ELSE ~loaded /\ (loading # {} => threw \subseteq loading)

\* The file reads as what was written to it, with anything behind it.
ConfigInvariant ==
    /\ dotenv \in Seq(Char) /\ wrote \in [Key -> SUBSET Seq(Char)] /\ ReadsTo(dotenv, wrote)
    /\ store = [k \in Key |-> store[k]]
    /\ loading \subseteq Key /\ threw \subseteq Key /\ loaded \in BOOLEAN
    /\ Loads

\* The invariant holds in every state.
THEOREM ConfigInvariance == ConfigSpec => []ConfigInvariant
  <1>1. ASSUME ConfigInit PROVE ConfigInvariant
    <2>1. dotenv = <<>> /\ dotenv \in Seq(Char) /\ wrote = Unset
      BY <1>1, EmptySeq DEF ConfigInit
    <2>2. ReadsTo(dotenv, wrote)
      BY <2>1, NothingReadYet
    <2>3. wrote \in [Key -> SUBSET Seq(Char)] /\ store = [k \in Key |-> store[k]]
      BY <1>1 DEF ConfigInit, Unset
    <2>4. Loads
      BY <1>1 DEF ConfigInit, Loads, Unset
    <2> QED
      BY <1>1, <2>1, <2>2, <2>3, <2>4 DEF ConfigInit, ConfigInvariant
  <1>2. ASSUME ConfigInvariant, [ConfigNext]_configVars PROVE ConfigInvariant'
    <2> USE DEF ConfigInvariant
    <2>1. CASE UNCHANGED configVars
      BY <1>2, <2>1 DEF configVars, Loads, Env, ReadsTo
    <2>2. ASSUME NEW k \in Key, NEW value \in Value, NEW written \in Writings(value),
                 NEW before \in Before, NEW comment \in Comment,
                 AddLine(k, value, written, before, comment)
          PROVE  ConfigInvariant'
      <3> DEFINE d == dotenv \o Entry(k, written, before, comment)
                 r == [wrote EXCEPT ![k] = {value}]
      <3>1. d \in Seq(Char) /\ ReadsTo(d, r)
        BY <1>2, ConfigAssumption, ReadsEntry
      <3>2. dotenv' = d /\ wrote' = r
        BY <2>2 DEF AddLine
      <3>3. r \in [Key -> SUBSET Seq(Char)]
        BY <1>2, ConfigAssumption
      <3> HIDE DEF d, r
      <3>4. ReadsTo(dotenv', wrote')
        BY <3>1, <3>2
      <3>5. UNCHANGED <<environ, store, loaded, loading, threw>>
        BY <2>2 DEF AddLine
      <3>6. Loads'
        BY <1>2, <3>5 DEF Loads, Env
      <3>7. ReadsTo(dotenv, wrote)'
        BY <3>4 DEF ReadsTo
      <3> QED
        BY <1>2, <3>1, <3>2, <3>3, <3>5, <3>6, <3>7
    <2>3. CASE BootBegins
      <3>1. UNCHANGED <<dotenv, wrote, store, loaded, threw>> /\ loading' = Key /\ loading = {} /\ ~loaded
            /\ environ' = [k \in Key |-> IF environ[k] # {} THEN environ[k] ELSE ParseDotenv(dotenv)[k]]
        BY <2>3 DEF BootBegins
      <3>2. Loads'
        <4>1. CASE threw = {}
          <5>1. \A k \in Key : store[k] = {}
            BY <1>2, <3>1, <4>1 DEF Loads
          <5> QED
            BY <3>1, <4>1, <5>1 DEF Loads
        <4>2. CASE threw # {}
          BY <1>2, <3>1, <4>2 DEF Loads
        <4> QED
          BY <4>1, <4>2
      <3>3. ReadsTo(dotenv, wrote)'
        BY <1>2, <3>1 DEF ReadsTo
      <3> QED
        BY <1>2, <3>1, <3>2, <3>3
    <2>4. ASSUME NEW k \in Key, Import(k) PROVE ConfigInvariant'
      <3>1. /\ k \in loading /\ k \notin threw /\ loading' = loading \ {k} /\ loaded' = (loading' = {})
            /\ UNCHANGED <<dotenv, wrote, environ, threw>>
            /\ \/ store[k] # {} /\ UNCHANGED store
               \/ store[k] = {} /\ Env(k) # {} /\ store' = [store EXCEPT ![k] = Env(k)]
        BY <2>4 DEF Import
      <3>2. store' = [x \in Key |-> store'[x]]
        BY <1>2, <3>1
      <3>3. Loads'
        <4>1. CASE threw = {}
          <5>1. /\ ~loaded /\ store[k] = {} /\ \A x \in Key : Env(x)' = Env(x)
                /\ \A x \in Key : store[x] = IF x \in loading THEN {} ELSE Env(x)
            BY <1>2, <3>1, <4>1 DEF Loads, Env
          <5>2. \A x \in Key : store'[x] = IF x = k THEN Env(x) ELSE store[x]
            BY <1>2, <3>1, <5>1
          <5>3. \A x \in Key : store'[x] = IF x \in loading' THEN {} ELSE Env(x)'
            BY <3>1, <5>1, <5>2
          <5> QED
            BY <3>1, <4>1, <5>3 DEF Loads
        <4>2. CASE threw # {}
          BY <1>2, <3>1, <4>2 DEF Loads
        <4> QED
          BY <4>1, <4>2
      <3>4. ReadsTo(dotenv, wrote)'
        BY <1>2, <3>1 DEF ReadsTo
      <3> QED
        BY <1>2, <3>1, <3>2, <3>3, <3>4
    <2>5. ASSUME NEW k \in Key, ImportFails(k) PROVE ConfigInvariant'
      <3>1. /\ k \in loading /\ threw' = threw \cup {k} /\ loading' = {}
            /\ UNCHANGED <<dotenv, wrote, environ, store, loaded>>
        BY <2>5 DEF ImportFails
      <3>2. ~loaded
        BY <1>2, <3>1 DEF Loads
      <3>3. Loads'
        BY <3>1, <3>2 DEF Loads
      <3>4. ReadsTo(dotenv, wrote)'
        BY <1>2, <3>1 DEF ReadsTo
      <3> QED
        BY <1>2, <3>1, <3>3, <3>4
    <2> QED
      BY <1>2, <2>1, <2>2, <2>3, <2>4, <2>5 DEF ConfigNext
  <1> QED
    BY <1>1, <1>2, PTL DEF ConfigSpec

\* What boot() puts into the environment was last written to .env for that variable, it
\* never replaces one that was set, and when it goes on config/ is loaded with those values:
\* for every value, every way to write it, and every number of lines.
THEOREM ReadAsWritten == ConfigSpec => ConfigAsWritten
  <1>1. ConfigInvariant /\ ConfigInvariant' /\ [ConfigNext]_configVars
        => [/\ \A k \in Key : environ'[k] # environ[k] => environ[k] = {} /\ environ'[k] = wrote[k]
            /\ \A k \in Key : loading = {} /\ loading' # {} /\ wrote[k] # {} => environ'[k] # {}
            /\ loaded' => \A k \in Key : store'[k] = Env(k)]_configVars
    <2>1. SUFFICES ASSUME ConfigInvariant, ConfigInvariant', [ConfigNext]_configVars, NEW k \in Key
                   PROVE  /\ environ'[k] # environ[k] => environ[k] = {} /\ environ'[k] = wrote[k]
                          /\ loading = {} /\ loading' # {} /\ wrote[k] # {} => environ'[k] # {}
                          /\ loaded' => store'[k] = Env(k)
      OBVIOUS
    <2>2. CASE BootBegins
      <3>1. /\ ~loaded'
            /\ environ' = [x \in Key |-> IF environ[x] # {} THEN environ[x] ELSE ParseDotenv(dotenv)[x]]
        BY <2>2 DEF BootBegins
      <3>2. ParseDotenv(dotenv) = wrote
        BY <2>1, ParsedAs DEF ConfigInvariant
      <3> QED
        BY <3>1, <3>2
    <2>3. CASE ~BootBegins
      <3>1. environ' = environ /\ loading' \subseteq loading
        BY <2>1, <2>3 DEF ConfigNext, AddLine, Import, ImportFails, configVars
      <3>2. loaded' => store'[k] = Env(k)
        BY <2>1, <3>1 DEF ConfigInvariant, Loads, Env
      <3> QED
        BY <3>1, <3>2
    <2> QED
      BY <2>2, <2>3
  <1> QED
    BY <1>1, ConfigInvariance, PTL DEF ConfigSpec, ConfigAsWritten
=============================================================================
