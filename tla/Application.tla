---------------------------- MODULE Application ----------------------------
(***************************************************************************)
(* boot() and terminate() of packages/core over the providers that keep    *)
(* connections: DatabaseServiceProvider with its adapters, and             *)
(* QueueServiceProvider with its workers. Each step is the code between    *)
(* two awaits. Any step of a provider may fail; a boot that failed may be  *)
(* tried again; several signals may each call terminate().                 *)
(*                                                                         *)
(* Providers are numbered in the order of register(). A connection pool or *)
(* worker is named by the call of boot() that made it.                     *)
(***************************************************************************)
EXTENDS Naturals, Sequences

CONSTANTS Call,     \* the calls of boot() and terminate()
          Kind,     \* sequence: what each provider keeps
          Given     \* the client the application handed to its adapter

Kinds == {"pool",   \* NoneAdapter, DrizzleAdapter: connect makes a pool
          "client", \* PrismaAdapter, TypeORMAdapter: connect opens what it was given
          "worker"} \* QueueServiceProvider: boot starts a worker

ASSUME ApplicationAssumption ==
    /\ Kind \in Seq(Kinds) /\ Kind # <<>>
    /\ Given \notin Call

VARIABLES booted,  \* Application.booted; the container is frozen with it
          bound,   \* providers whose register() has bound their tokens
          held,    \* provider -> what its adapter, or its worker list, refers to
          open,    \* provider -> the connections that are really open
          call,    \* Call -> where it is, at which provider, what it is closing
          leaked,  \* history: <<provider, pool>> whose end() has failed
          overlap  \* history: boot() was called though another call had not settled,
                   \* or terminate() though a boot() had not

vars == <<booted, bound, held, open, call, leaked, overlap>>
connections == <<held, open, leaked>>

Provider == 1..Len(Kind)
Id == Call \cup {Given}
Booting(c) == call[c].at \in {"loading", "booting", "connecting"}
Terminating(c) == call[c].at \in {"closing", "ending"}
Goes(c, place, i) == call' = [call EXCEPT ![c] = [at |-> place, i |-> i, closes |-> {}]]
-----------------------------------------------------------------------------
Init ==
    /\ booted = FALSE
    /\ bound = {}
    /\ held = [p \in Provider |-> {}]
    /\ open = [p \in Provider |-> {}]
    /\ call = [c \in Call |-> [at |-> "idle", i |-> 0, closes |-> {}]]
    /\ leaked = {}
    /\ overlap = FALSE

Boot(c) ==
    /\ call[c].at = "idle"
    /\ overlap' = (overlap \/ \E d \in Call : Booting(d) \/ Terminating(d))
    /\ IF booted THEN Goes(c, "done", 0) ELSE Goes(c, "loading", 0)
    /\ UNCHANGED <<booted, bound, connections>>

\* await config.load() rejects.
LoadFails(c) ==
    /\ call[c].at = "loading"
    /\ Goes(c, "failed", 0)
    /\ UNCHANGED <<booted, bound, connections, overlap>>

\* All providers register in one go; one may throw, as all do on a frozen container.
Register(c) ==
    /\ call[c].at = "loading"
    /\ \/ ~booted /\ bound' = Provider /\ Goes(c, "booting", 1)
       \/ /\ ~booted
          /\ \E p \in Provider : bound' = bound \cup 1..p - 1
          /\ Goes(c, "failed", 0)
       \/ booted /\ Goes(c, "failed", 0) /\ UNCHANGED bound
    /\ UNCHANGED <<booted, connections, overlap>>

\* Seeded defect: connect() does not look whether it is connected.
ConnectAlways(c) ==
    LET p == call[c].i IN
    /\ call[c].at = "booting" /\ p \in Provider /\ Kind[p] # "worker"
    /\ Goes(c, "connecting", p)
    /\ UNCHANGED <<booted, bound, connections, overlap>>

\* DatabaseServiceProvider.boot: connect() returns at once when it is connected.
Connect(c) ==
    LET p == call[c].i IN
    /\ call[c].at = "booting" /\ p \in Provider /\ Kind[p] # "worker"
    /\ IF held[p] # {} THEN Goes(c, "booting", p + 1) ELSE Goes(c, "connecting", p)
    /\ UNCHANGED <<booted, bound, connections, overlap>>

\* connect() after its await, whatever came between: the pool or client is kept.
Connected(c) ==
    LET p == call[c].i
        id == IF Kind[p] = "pool" THEN c ELSE Given
    IN /\ call[c].at = "connecting"
       /\ held' = [held EXCEPT ![p] = {id}]
       /\ open' = [open EXCEPT ![p] = @ \cup {id}]
       /\ Goes(c, "booting", p + 1)
       /\ UNCHANGED <<booted, bound, leaked, overlap>>

\* QueueServiceProvider.boot: every boot() starts one more worker, with its queue in the
\* manager; the next one in the provider's list may throw.
StartWorker(c) ==
    LET p == call[c].i IN
    /\ call[c].at = "booting" /\ p \in Provider /\ Kind[p] = "worker"
    /\ held' = [held EXCEPT ![p] = @ \cup {c}]
    /\ open' = [open EXCEPT ![p] = @ \cup {c}]
    /\ Goes(c, "booting", p + 1) \/ Goes(c, "failed", p)
    /\ UNCHANGED <<booted, bound, leaked, overlap>>

\* ProviderBootError: nothing that was started is undone.
BootFails(c) ==
    LET p == call[c].i IN
    /\ \/ call[c].at = "connecting"
       \/ call[c].at = "booting" /\ p \in Provider /\ Kind[p] = "worker"
    /\ Goes(c, "failed", p)
    /\ UNCHANGED <<booted, bound, connections, overlap>>

Finish(c) ==
    /\ call[c].at = "booting" /\ call[c].i = Len(Kind) + 1
    /\ booted' = TRUE
    /\ Goes(c, "done", 0)
    /\ UNCHANGED <<bound, connections, overlap>>

Terminate(c) ==
    /\ call[c].at = "idle"
    /\ overlap' = (overlap \/ \E d \in Call : Booting(d))
    /\ Goes(c, "closing", Len(Kind))
    /\ UNCHANGED <<booted, bound, connections>>

\* Seeded defects: nothing is shut down unless boot() succeeded; the loop does not move
\* past a provider that holds nothing.
ShutdownIfBooted(c) ==
    LET p == call[c].i IN
    /\ call[c].at = "closing" /\ p \in Provider
    /\ IF held[p] = {} \/ ~booted
       THEN Goes(c, "closing", p - 1)
       ELSE call' = [call EXCEPT ![c] = [at |-> "ending", i |-> p, closes |-> held[p]]]
    /\ UNCHANGED <<booted, bound, connections, overlap>>
ShutdownStuck(c) ==
    LET p == call[c].i IN
    /\ call[c].at = "closing" /\ p \in Provider
    /\ held[p] # {}
    /\ call' = [call EXCEPT ![c] = [at |-> "ending", i |-> p, closes |-> held[p]]]
    /\ UNCHANGED <<booted, bound, connections, overlap>>

\* shutdown() of the next provider in reverse: it fails to resolve what was never bound,
\* has nothing to close, or awaits the end of what it holds now.
Shutdown(c) ==
    LET p == call[c].i IN
    /\ call[c].at = "closing" /\ p \in Provider
    /\ \/ p \notin bound /\ Goes(c, "failed", p)
       \/ p \in bound /\ held[p] = {} /\ Goes(c, "closing", p - 1)
       \/ /\ p \in bound /\ held[p] # {}
          /\ call' = [call EXCEPT ![c] = [at |-> "ending", i |-> p, closes |-> held[p]]]
    /\ UNCHANGED <<booted, bound, connections, overlap>>

\* The end of what was being closed; an adapter forgets whatever it holds by then.
Ended(c) ==
    LET p == call[c].i IN
    /\ call[c].at = "ending"
    /\ open' = [open EXCEPT ![p] = @ \ call[c].closes]
    /\ held' = [held EXCEPT ![p] = IF Kind[p] = "worker" THEN @ \ call[c].closes ELSE {}]
    /\ Goes(c, "closing", p - 1)
    /\ UNCHANGED <<booted, bound, leaked, overlap>>

\* Seeded defect: terminate() goes on past a shutdown() that fails.
EndFailureSwallowed(c) ==
    /\ call[c].at = "ending"
    /\ Goes(c, "closing", call[c].i - 1)
    /\ UNCHANGED <<booted, bound, connections, overlap>>

\* end() rejects, and terminate() with it. A pool is forgotten all the same (finally), a
\* client is kept, and of several workers some have stopped.
EndFails(c) ==
    LET p == call[c].i IN
    /\ call[c].at = "ending"
    /\ \/ /\ Kind[p] = "pool"
          /\ held' = [held EXCEPT ![p] = {}]
          /\ leaked' = leaked \cup ({p} \X call[c].closes)
          /\ UNCHANGED open
       \/ Kind[p] = "client" /\ UNCHANGED connections
       \/ /\ Kind[p] = "worker"
          /\ \E stopped \in (SUBSET call[c].closes) \ {call[c].closes} :
                /\ held' = [held EXCEPT ![p] = @ \ stopped]
                /\ open' = [open EXCEPT ![p] = @ \ stopped]
          /\ UNCHANGED leaked
    /\ Goes(c, "failed", p)
    /\ UNCHANGED <<booted, bound, overlap>>

Terminated(c) ==
    /\ call[c].at = "closing" /\ call[c].i = 0
    /\ Goes(c, "done", 0)
    /\ UNCHANGED <<booted, bound, connections, overlap>>

\* A call under way goes on.
Step(c) ==
    \/ LoadFails(c) \/ Register(c)
    \/ Connect(c) \/ Connected(c) \/ StartWorker(c) \/ BootFails(c) \/ Finish(c)
    \/ Shutdown(c) \/ Ended(c) \/ EndFails(c) \/ Terminated(c)

Next == \E c \in Call : Boot(c) \/ Terminate(c) \/ Step(c)

\* What is awaited (an import, a driver, a drain) resolves or rejects.
Spec == Init /\ [][Next]_vars /\ \A c \in Call : WF_vars(Step(c))
-----------------------------------------------------------------------------
Places == {"idle", "loading", "booting", "connecting", "closing", "ending", "done", "failed"}

\* Every variable has its type, and a call is at a provider when it awaits one.
TypeOK ==
    /\ booted \in BOOLEAN
    /\ bound \subseteq Provider
    /\ held \in [Provider -> SUBSET Id]
    /\ open \in [Provider -> SUBSET Id]
    /\ call \in [Call -> [at : Places, i : 0..Len(Kind) + 1, closes : SUBSET Id]]
    /\ leaked \subseteq Provider \X Id
    /\ overlap \in BOOLEAN
    /\ \A c \in Call :
        /\ call[c].at = "booting" => call[c].i > 0
        /\ call[c].at \in {"connecting", "ending"} => call[c].i \in Provider
        /\ call[c].at = "closing" => call[c].i <= Len(Kind)

\* "order matters" (packages/core/README.md): whichever steps of boot() and terminate()
\* fail or are retried, a provider holds its connection only while all the providers
\* registered before it, on which it may rely, hold theirs.
HeldIsPrefix ==
    ~overlap => \A p, q \in Provider : p < q /\ held[q] # {} => held[p] # {}

\* No connection is open that its provider has lost sight of, but for pools whose end()
\* failed: a boot() tried again finds what the failed one opened.
NothingLost ==
    ~overlap => \A p \in Provider : \A id \in open[p] \ held[p] : <<p, id>> \in leaked

\* "Lets each provider close its connections" (the worker of packages/cli new): when
\* terminate() resolves, though boot() may have failed half way and other calls of
\* terminate() are under way, nothing is open that could be closed.
TerminateClosesAll ==
    [][\A c \in Call : ~overlap /\ Terminating(c) /\ call'[c].at = "done" =>
            \A p \in Provider : \A id \in open[p] : <<p, id>> \in leaked]_vars

\* The application counts as booted, and its container is frozen, only when every
\* provider has its connection.
BootedIsConnected ==
    [][~overlap /\ ~booted /\ booted' => \A p \in Provider : p \in bound /\ held[p] # {}]_vars

\* Every boot() and terminate() settles.
CallsSettle == \A c \in Call : (Booting(c) \/ Terminating(c)) ~> call[c].at \in {"done", "failed"}

=============================================================================
