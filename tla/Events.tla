------------------------------- MODULE Events -------------------------------
(***************************************************************************)
(* EventDispatcher of packages/events. Everything up to a listener's first *)
(* await runs on one JavaScript stack: a listener may subscribe, remove or *)
(* dispatch (the same event too) while the dispatch that called it has not *)
(* called the others yet. What a listener does after an await is a task of *)
(* its own, which the event loop starts when the stack is empty.           *)
(*                                                                         *)
(* `stack' has the running listener on top, or is empty while other code   *)
(* of the application runs; both may use the dispatcher. A frame that is   *)
(* `mapping' belongs to entries.map(...): when its listener leaves, the    *)
(* next one is called. map visits the entries there were when it began,    *)
(* also if some are pushed into the array meanwhile.                       *)
(***************************************************************************)
EXTENDS Naturals, SequencesExt, Subsequences

CONSTANTS Event,
          Listener,       \* listener classes and functions
          Retries,        \* Listener -> its `retries'; 0 for a function
          Function,       \* the listeners that are plain functions
          ListenMap,         \* EventServiceProvider.listen, as <<event, class>> pairs
          MaxSubscriptions, MaxDispatches  \* bounds

ASSUME EventsAssumption ==
    /\ Retries \in [Listener -> Nat]
    /\ Function \subseteq Listener /\ \A l \in Function : Retries[l] = 0
    /\ ListenMap \in Seq(Event \X Listener)
    /\ MaxSubscriptions \in Nat /\ MaxDispatches \in Nat

VARIABLES listeners,   \* Event -> sequence of entries
          wildcards,   \* wildcardListeners
          dispatches,  \* the dispatches so far: what each calls and how it went
          stack,       \* listeners on the JavaScript stack, the running one first
          count,       \* subscriptions so far; numbers the entries
          dropped      \* history: entries removed by off, forget and forgetAll

eventVars == <<listeners, wildcards, dispatches, stack, count, dropped>>

EventsInit ==
    /\ listeners = [e \in Event |-> <<>>] /\ wildcards = <<>>
    /\ dispatches = <<>> /\ stack = <<>>
    /\ count = 0 /\ dropped = {}

Entry(l, once, n) == [listener |-> l, once |-> once, id |-> n]
KeptAll(entries) == entries  \* seeded defect: once entries are not removed
Kept(entries) == Only(entries, {i \in DOMAIN entries : ~entries[i].once})
-----------------------------------------------------------------------------
On(e, l, once) ==
    /\ count < MaxSubscriptions
    /\ count' = count + 1
    /\ listeners' = [listeners EXCEPT ![e] = Append(@, Entry(l, once, count'))]
    /\ UNCHANGED <<wildcards, dispatches, stack, dropped>>

OnAny(l, once) ==
    /\ l \in Function /\ count < MaxSubscriptions
    /\ count' = count + 1
    /\ wildcards' = Append(wildcards, Entry(l, once, count'))
    /\ UNCHANGED <<listeners, dispatches, stack, dropped>>

\* EventServiceProvider.boot; a boot() that is tried again subscribes everyone again.
Boot ==
    LET mapped(e) == Only([i \in DOMAIN ListenMap |-> Entry(ListenMap[i][2], FALSE, count + i)],
                          {i \in DOMAIN ListenMap : ListenMap[i][1] = e})
    IN /\ Len(ListenMap) > 0 /\ count + Len(ListenMap) <= MaxSubscriptions /\ stack = <<>>
       /\ count' = count + Len(ListenMap)
       /\ listeners' = [e \in Event |-> listeners[e] \o mapped(e)]
       /\ UNCHANGED <<wildcards, dispatches, stack, dropped>>

Off(e, l) ==
    /\ listeners' = [listeners EXCEPT ![e] = Only(@, {i \in DOMAIN @ : @[i].listener # l})]
    /\ dropped' = dropped \cup {en \in ToSet(listeners[e]) : en.listener = l}
    /\ UNCHANGED <<wildcards, dispatches, stack, count>>

ForgetEvent(e) ==
    /\ listeners' = [listeners EXCEPT ![e] = <<>>]
    /\ dropped' = dropped \cup ToSet(listeners[e])
    /\ UNCHANGED <<wildcards, dispatches, stack, count>>

ForgetAll ==
    /\ listeners' = [e \in Event |-> <<>>] /\ wildcards' = <<>>
    /\ dropped' = dropped \cup ToSet(wildcards) \cup UNION {ToSet(listeners[e]) : e \in Event}
    /\ UNCHANGED <<dispatches, stack, count>>
-----------------------------------------------------------------------------
\* What a dispatch calls, in order, and the calls before any of them has been made
\* but the first, which runs at once. awaited: suspended once already in this attempt.
Targets(e) == listeners[e] \o wildcards
Calls(targets) ==
    [i \in DOMAIN targets |->
        [at |-> IF i = 1 THEN "running" ELSE "waiting", tries |-> 0, awaited |-> FALSE]]

\* dispatch, and dispatchSync, which differs only in who learns of the rejection.
\* Without listeners Promise.all([]) resolves.
Dispatch(e) ==
    LET targets == Targets(e)
    IN /\ Len(dispatches) < MaxDispatches
       /\ dispatches' = Append(dispatches,
             [targets |-> targets, calls |-> Calls(targets),
              result |-> IF targets = <<>> THEN "resolved" ELSE "pending"])
       /\ listeners' = [listeners EXCEPT ![e] = Kept(@)]
       /\ wildcards' = Kept(wildcards)
       /\ stack' = IF targets = <<>> THEN stack
                   ELSE <<[dispatch |-> Len(dispatches'), index |-> 1, mapping |-> TRUE]>>
                        \o stack
       /\ UNCHANGED <<count, dropped>>

Top == Head(stack)
Call == dispatches[Top.dispatch].calls[Top.index]
Running == dispatches[Top.dispatch].targets[Top.index].listener

\* Seeded defect: a listener that fails before its first await ends the map.
LeavesAndStops(c) ==
    LET i == Top.index
        left == [dispatches[Top.dispatch].calls EXCEPT ![i] = c]
        next == Top.mapping /\ i < Len(left) /\ c.at # "failed"
    IN /\ dispatches' = [dispatches EXCEPT ![Top.dispatch].calls =
             IF next THEN [left EXCEPT ![i + 1].at = "running"] ELSE left]
       /\ stack' = IF next THEN [stack EXCEPT ![1].index = i + 1] ELSE Tail(stack)
       /\ UNCHANGED <<listeners, wildcards, count, dropped>>

\* The running listener gives up the stack with its call in state c, to the next listener
\* of the dispatch if this is its map, else to the code below.
Leaves(c) ==
    LET i == Top.index
        left == [dispatches[Top.dispatch].calls EXCEPT ![i] = c]
        next == Top.mapping /\ i < Len(left)
    IN /\ dispatches' = [dispatches EXCEPT ![Top.dispatch].calls =
             IF next THEN [left EXCEPT ![i + 1].at = "running"] ELSE left]
       /\ stack' = IF next THEN [stack EXCEPT ![1].index = i + 1] ELSE Tail(stack)
       /\ UNCHANGED <<listeners, wildcards, count, dropped>>

Await ==
    /\ stack # <<>> /\ ~Call.awaited
    /\ Leaves([Call EXCEPT !.at = "parked", !.awaited = TRUE])

\* handle returns, or shouldHandle said no.
Return == stack # <<>> /\ Leaves([Call EXCEPT !.at = "done"])

\* Seeded defect: retries counts the attempts.
GiveUpEarly ==
    /\ stack # <<>> /\ Call.tries + 1 >= Retries[Running]
    /\ Leaves([Call EXCEPT !.at = "failed", !.tries = @ + 1])

\* The last attempt fails, and with it the dispatch.
GiveUp ==
    /\ stack # <<>> /\ Call.tries = Retries[Running]
    /\ Leaves([Call EXCEPT !.at = "failed", !.tries = @ + 1])

\* Another attempt, at once if handle threw before any await, in a task of its own else.
Retry ==
    /\ stack # <<>> /\ Call.tries < Retries[Running]
    /\ Leaves([Call EXCEPT !.at = "parked", !.tries = @ + 1, !.awaited = FALSE])

RetryAtOnce ==
    /\ stack # <<>> /\ Call.tries < Retries[Running] /\ ~Call.awaited
    /\ dispatches' = [dispatches EXCEPT ![Top.dispatch].calls[Top.index].tries = @ + 1]
    /\ UNCHANGED <<listeners, wildcards, stack, count, dropped>>

Resume(d, i) ==
    /\ stack = <<>> /\ dispatches[d].calls[i].at = "parked"
    /\ dispatches' = [dispatches EXCEPT ![d].calls[i].at = "running"]
    /\ stack' = <<[dispatch |-> d, index |-> i, mapping |-> FALSE]>>
    /\ UNCHANGED <<listeners, wildcards, count, dropped>>

Ended(d, at) == {i \in DOMAIN dispatches[d].calls : dispatches[d].calls[i].at = at}

\* Promise.all: the first failure rejects, whoever is still at work.
Settle(d) ==
    /\ stack = <<>> /\ dispatches[d].result = "pending"
    /\ dispatches' = [dispatches EXCEPT ![d].result =
             IF Ended(d, "failed") # {} THEN "rejected" ELSE "resolved"]
    /\ Ended(d, "failed") # {} \/ Ended(d, "done") = DOMAIN dispatches[d].calls
    /\ UNCHANGED <<listeners, wildcards, stack, count, dropped>>

ListenerStep ==
    \/ Await \/ Return \/ GiveUp \/ Retry \/ RetryAtOnce
    \/ \E d \in DOMAIN dispatches :
          Settle(d) \/ \E i \in DOMAIN dispatches[d].calls : Resume(d, i)

EventsNext ==
    \/ \E e \in Event, l \in Listener : On(e, l, TRUE) \/ On(e, l, FALSE) \/ Off(e, l)
    \/ \E l \in Listener : OnAny(l, TRUE) \/ OnAny(l, FALSE)
    \/ \E e \in Event : ForgetEvent(e) \/ Dispatch(e)
    \/ Boot \/ ForgetAll
    \/ ListenerStep

EventsSpec == EventsInit /\ [][EventsNext]_eventVars /\ WF_eventVars(ListenerStep)
-----------------------------------------------------------------------------
Registered == ToSet(wildcards) \cup UNION {ToSet(listeners[e]) : e \in Event}
Heard(en) == {d \in DOMAIN dispatches : en \in ToSet(dispatches[d].targets)}
Spent == {en \in UNION {ToSet(dispatches[d].targets) : d \in DOMAIN dispatches} : en.once}

\* "Remove before invoking to avoid double-fire": a once entry is called by one dispatch at
\* most, nested ones included, leaves the registry for it, and no subscription gets lost
\* or comes back: it is registered, was dropped on request, or was once and is spent.
OnceAndForAll ==
    /\ \A en \in Spent : Cardinality(Heard(en)) = 1
    /\ Registered \cap Spent = {} /\ (Registered \cup Spent) \cap dropped = {}
    /\ \A n \in 1..count : \E en \in Registered \cup Spent \cup dropped : en.id = n

\* A dispatch resolves only when every listener has succeeded, and rejects only for one
\* that has used up its attempts.
SettlesAfterRetries ==
    \A d \in DOMAIN dispatches :
        /\ dispatches[d].result = "resolved" =>
              Ended(d, "done") = DOMAIN dispatches[d].calls
        /\ dispatches[d].result = "rejected" =>
              \E i \in Ended(d, "failed") :
                  dispatches[d].calls[i].tries = Retries[dispatches[d].targets[i].listener] + 1

\* One listener's failure stops neither the others nor their retries: every listener of a
\* dispatch comes to an end, and the dispatch settles.
AllListenersFinish ==
    \A d \in 1..MaxDispatches :
        (d \in DOMAIN dispatches) ~>
            /\ d \in DOMAIN dispatches /\ dispatches[d].result # "pending"
            /\ Ended(d, "done") \cup Ended(d, "failed") = DOMAIN dispatches[d].calls
=============================================================================
