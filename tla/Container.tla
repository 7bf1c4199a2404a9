----------------------------- MODULE Container ------------------------------
(***************************************************************************)
(* Container of packages/core and the scopes made of it. make() runs the   *)
(* factory a token is bound to, which makes the tokens it needs, in order, *)
(* gives up when one of them fails unless it tolerates that, and may throw *)
(* for reasons of its own. Each of these is a step; all of it is           *)
(* synchronous, so that nothing else happens between them.                 *)
(***************************************************************************)
EXTENDS Naturals, SequencesExt

CONSTANTS Token,
          Needs,      \* factory -> the tokens it makes
          Tolerant,   \* factories that catch what the make() of a token throws
          Factories,  \* Token -> factories it may be bound to
          Fragile,    \* factories that may throw
          Scopes,     \* how many containers there may be: a bound
          MaxMade     \* bound on instances

NoFactory == "none"
ItsValue == "value"  \* () => value, of instance()

ASSUME ContainerAssumption ==
    /\ \A f \in DOMAIN Needs : Needs[f] \in Seq(Token) /\ f \notin {NoFactory, ItsValue}
    /\ Factories \in [Token -> SUBSET DOMAIN Needs]

VARIABLES boxes,     \* containers: bindings, resolved, the resolution stack, frozen
          broken,    \* factories that throw at present
          made,      \* instances made so far, each a number
          asked,     \* the container and the token of the last make() from outside, or <<>>
          calls,     \* its make() calls that run a factory: the token, and how many are made
          back       \* the instance, or the error, that the last make() ended with, or <<>>

containerVars == <<boxes, broken, made, asked, calls, back>>

Empty == [factory |-> [t \in Token |-> NoFactory], singleton |-> [t \in Token |-> FALSE],
          resolved |-> [t \in Token |-> 0], stack |-> <<>>, frozen |-> FALSE]

ContainerInit ==
    /\ boxes = <<Empty>> /\ broken = {} /\ made = 0
    /\ asked = <<>> /\ calls = <<>> /\ back = <<>>

AtRest == calls = <<>>
Anew == asked' = <<>> /\ back' = <<>> /\ UNCHANGED calls
Changes(b, box) == boxes' = [boxes EXCEPT ![b] = box]
-----------------------------------------------------------------------------
\* bind and singleton; what is resolved already stays.
Bind(b, t, factory, singleton) ==
    /\ AtRest /\ ~boxes[b].frozen
    /\ Changes(b, [boxes[b] EXCEPT !.factory[t] = factory, !.singleton[t] = singleton])
    /\ UNCHANGED <<broken, made>> /\ Anew

Instance(b, t) ==
    /\ AtRest /\ ~boxes[b].frozen /\ made < MaxMade
    /\ made' = made + 1
    /\ Changes(b, [boxes[b] EXCEPT !.factory[t] = ItsValue, !.singleton[t] = TRUE,
                                  !.resolved[t] = made'])
    /\ UNCHANGED broken /\ Anew

Freeze(b) ==
    /\ AtRest /\ ~boxes[b].frozen
    /\ Changes(b, [boxes[b] EXCEPT !.frozen = TRUE])
    /\ UNCHANGED <<broken, made>> /\ Anew

\* What a factory reads is mended, or breaks.
Mend(factory) ==
    /\ AtRest
    /\ broken' = SymDiff(broken, {factory})
    /\ UNCHANGED <<boxes, made>> /\ Anew
-----------------------------------------------------------------------------
Kept(box, t) == box.singleton[t] /\ box.resolved[t] # 0

\* make(t) up to its factory, called behind the running ones.
Enter(b, t, running) ==
    LET box == boxes[b]
        Ends(instance, why) == back' = <<instance, why>> /\ calls' = running /\ UNCHANGED boxes
    IN  \/ box.factory[t] = NoFactory /\ Ends(0, "BindingNotFound")
        \/ box.factory[t] # NoFactory /\ Kept(box, t) /\ Ends(box.resolved[t], "")
        \/ /\ box.factory[t] # NoFactory /\ ~Kept(box, t)
           /\ \/ Contains(box.stack, t) /\ Ends(0, "CircularDependency")
              \/ /\ ~Contains(box.stack, t)
                 /\ Changes(b, [box EXCEPT !.stack = Append(@, t)])
                 /\ calls' = Append(running, [token |-> t, begun |-> 0])
                 /\ back' = <<>>

Make(b, t) ==
    /\ AtRest
    /\ asked' = <<b, t>>
    /\ Enter(b, t, <<>>)
    /\ UNCHANGED <<broken, made>>

Here == boxes[asked[1]]
Running == Last(calls).token
Making == Here.factory[Running]
ToMake == IF Making = ItsValue THEN <<>> ELSE Needs[Making]

Failed == back # <<>> /\ back[2] # ""
GoesOn == ~Failed \/ Making \in Tolerant

\* The factory makes the next token it needs.
MakeNext ==
    LET n == Last(calls).begun + 1
    IN  /\ ~AtRest /\ GoesOn /\ n <= Len(ToMake)
        /\ Enter(asked[1], ToMake[n], [calls EXCEPT ![Len(calls)].begun = n])
        /\ UNCHANGED <<broken, made, asked>>

\* Seeded defect: a factory that throws stays on the stack.
PopReturned(box, ok) == IF ok THEN [box EXCEPT !.stack = Front(@)] ELSE box
Pop(box, ok) == [box EXCEPT !.stack = Front(@)]

\* It throws what a token it needs has thrown, or an error of its own.
Throws ==
    /\ ~AtRest
    /\ \/ ~GoesOn /\ UNCHANGED back
       \/ /\ GoesOn /\ Last(calls).begun = Len(ToMake) /\ Making \in broken
          /\ back' = <<0, "Threw">>
    /\ Changes(asked[1], Pop(Here, FALSE))
    /\ calls' = Front(calls)
    /\ UNCHANGED <<broken, made, asked>>

Keep(box, t, instance) == IF box.singleton[t] THEN [box EXCEPT !.resolved[t] = instance] ELSE box

\* It returns, and make() keeps the instance of a singleton.
Returns ==
    /\ ~AtRest /\ GoesOn /\ Last(calls).begun = Len(ToMake) /\ Making \notin broken
    /\ made < MaxMade
    /\ made' = made + 1
    /\ Changes(asked[1], Keep(Pop(Here, TRUE), Running, made'))
    /\ calls' = Front(calls) /\ back' = <<made', "">>
    /\ UNCHANGED <<broken, asked>>

ScopeOf(box) == [box EXCEPT !.stack = <<>>, !.frozen = FALSE]

\* createScope, also from within a factory: it copies what is bound and what is resolved.
CreateScope(b) ==
    /\ AtRest \/ (~AtRest /\ GoesOn)
    /\ Len(boxes) < Scopes
    /\ boxes' = Append(boxes, ScopeOf(boxes[b]))
    /\ UNCHANGED <<broken, made, asked, calls, back>>

ContainerNext ==
    \/ \E b \in DOMAIN boxes :
          \/ \E t \in Token : \/ Instance(b, t) \/ Make(b, t)
                              \/ \E f \in Factories[t], singleton \in BOOLEAN : Bind(b, t, f, singleton)
          \/ CreateScope(b) \/ Freeze(b)
    \/ \E factory \in Fragile : Mend(factory)
    \/ MakeNext \/ Throws \/ Returns

ContainerSpec == ContainerInit /\ [][ContainerNext]_containerVars
-----------------------------------------------------------------------------
\* The tokens that make(t) makes in a box, and those that a make() of ts may come to.
Opens(box, t) ==
    IF box.factory[t] \in DOMAIN Needs /\ ~Kept(box, t) THEN ToSet(Needs[box.factory[t]]) ELSE {}
Closed(box, S) == \A t \in S : Opens(box, t) \subseteq S
Near(box, ts) == {u \in Token : \A S \in SUBSET Token : ts \subseteq S /\ Closed(box, S) => u \in S}

\* Why a make() of one of ts may fail: a token that needs itself, one that is not bound, or
\* one whose factory throws today.
Reason(box, ts, why) ==
    \E u \in Near(box, ts) :
        \/ why = "CircularDependency" /\ u \in Near(box, Opens(box, u))
        \/ why = "BindingNotFound" /\ box.factory[u] = NoFactory
        \/ why = "Threw" /\ box.factory[u] \in broken

\* Whatever failed before, and whatever the factories have caught: make() reports a circle
\* only where there is one, finds unbound only what something it needs is not bound to, and
\* throws only what a factory throws today; and every caller of a singleton gets the
\* instance that is kept.
MakesWhatItCan ==
    AtRest /\ asked # <<>> =>
        LET box == boxes[asked[1]]
            t == asked[2]
        IN  IF Failed THEN Reason(box, {t}, back[2])
            ELSE box.singleton[t] => box.resolved[t] = back[1]

\* The resolution stack of a container is the tokens whose factories are running, each made
\* for the one before it; between two make() calls it is empty in every container.
StackFollowsCalls ==
    \A b \in DOMAIN boxes :
        IF AtRest \/ b # asked[1] THEN boxes[b].stack = <<>>
        ELSE /\ boxes[b].stack = [i \in DOMAIN calls |-> calls[i].token]
             /\ \A i \in DOMAIN calls : i > 1 =>
                   calls[i].token \in Opens(boxes[b], calls[i - 1].token)

\* The instance kept of a singleton is never replaced by a make(), however its factories
\* call each other: only instance() puts another in its place.
KeptForGood ==
    [][\A b \in DOMAIN boxes : \A t \in Token :
          boxes[b].resolved[t] \notin {0, boxes'[b].resolved[t]} =>
              AtRest /\ asked' = <<>> /\ boxes'[b].factory[t] = ItsValue]_containerVars
=============================================================================
