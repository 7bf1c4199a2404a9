------------------------- MODULE SessionGuardProofs -------------------------
(***************************************************************************)
(* Sessions stay with the browser they were issued to, and rotation never  *)
(* takes the last one of a browser, for any browsers, requests, stacks of  *)
(* session() middlewares and lifetimes.                                    *)
(*                                                                         *)
(* The argument is about where an id may be. While a request is at work    *)
(* only it knows the ids it has issued; they reach a jar, and from there   *)
(* other requests, when it is done and will issue no more. So nobody else  *)
(* destroys a replacement that is still to be announced, and an id that a  *)
(* browser holds is never saved a second time.                             *)
(*                                                                         *)
(* The second part is about browsers that nothing disturbed, which have one *)
(* request at work at a time: it follows that request from the cookie it   *)
(* came with to the one its answer leaves, and says at each place which    *)
(* sessions of the browser the store has.                                  *)
(***************************************************************************)
EXTENDS SessionGuard, TLAPS

\* The request that issued an id is over, unless the id was there at the start.
GivenOut(i) == i[2] = 0 \/ at[i[1]] = "done"
\* A session of this id, if there is one, was issued to b.
Belongs(i, b) == store[i] # None => store[i].browser = b

\* What a request at p with context c may have found out and issued.
OwnAs(r, p, c) ==
    /\ c.presented # None => GivenOut(c.presented) /\ Belongs(c.presented, c.browser)
    /\ \A l \in Levels : Belongs(<<r, l>>, c.browser)
    /\ c.cookie \in {<<>>, <<None>>} \cup {<<(<<r, l>>)>> : l \in Levels}
    /\ c.token \in {None, c.presented} \cup {<<r, l>> : l \in Levels}
    /\ c.user \in {None, UserOf[c.browser]}
    /\ p \in {"found", "looked", "saved"} =>
         /\ c.presented # None
         /\ c.found # None => c.found.user = UserOf[c.browser]
         /\ p = "found" => store[c.presented] \in {None, c.found}
         /\ p # "found" => c.found # None
         /\ c.level <= Len(Guards[c.kind])
    /\ p = "saved" => store[c.presented] = None \/ store[<<r, c.level>>] # None

UsersMatch == \A i \in Id : store[i] # None => store[i].user = UserOf[store[i].browser]
JarsOwn == \A b \in Browser : jar[b] # None => GivenOut(jar[b]) /\ Belongs(jar[b], b)
Unissued == \A r \in Request, l \in Levels : at[r] = "new" => store[<<r, l>>] = None
RequestsOwn == \A r \in InFlight : OwnAs(r, at[r], req[r])
Ownership == UsersMatch /\ JarsOwn /\ Unissued /\ RequestsOwn

IInv == TypeOK /\ Ownership
-----------------------------------------------------------------------------
\* Initially nobody is at work, and each browser that is logged in holds its own session.
LEMMA InitOwn == Init => IInv
<1>1. SUFFICES ASSUME Init PROVE TypeOK /\ Ownership
  BY DEF IInv
<1>2. PICK loggedIn \in SUBSET Browser :
        /\ jar = [b \in Browser |-> IF b \in loggedIn THEN <<b, 0>> ELSE None]
        /\ store = [i \in Id |->
              IF \E b \in loggedIn : i = <<b, 0>>
              THEN [user |-> UserOf[i[1]], expires |-> Lifetime, browser |-> i[1]]
              ELSE None]
  BY <1>1 DEF Init
<1>3. \A b \in Browser : <<b, 0>> \in Id
  BY DEF Id
<1>4. ASSUME NEW i \in Id, store[i] # None
      PROVE  \E b \in Browser : /\ i = <<b, 0>>
                                /\ store[i].user = UserOf[b] /\ store[i].browser = b
                                /\ store[i] = [user |-> UserOf[b], expires |-> Lifetime, browser |-> b]
  <2>1. PICK b \in loggedIn : i = <<b, 0>>
    BY <1>2, <1>4
  <2>2. i[1] = b
    BY <2>1
  <2>3. store[i] = [user |-> UserOf[b], expires |-> Lifetime, browser |-> b]
    BY <1>2, <2>1, <2>2
  <2> QED
    BY <2>1, <2>3
<1>5. store \in [Id -> Session \cup {None}]
  <2>1. \A b \in Browser :
          [user |-> UserOf[b], expires |-> Lifetime, browser |-> b] \in Session
    BY SessionAssumption DEF Session
  <2>2. \A i \in Id : store[i] \in Session \cup {None}
    BY <1>4, <2>1
  <2> QED
    BY <1>2, <2>2
<1>6. jar \in [Browser -> Id \cup {None}]
  BY <1>2, <1>3
<1>7. InFlight = {} /\ \A r \in Request : at[r] = "new"
  BY <1>1 DEF Init, InFlight
<1>8. TypeOK
  BY <1>1, <1>5, <1>6, <1>7 DEF Init, TypeOK, Places
<1>9. UsersMatch
  BY <1>4 DEF UsersMatch
<1>10. JarsOwn
  <2>1. SUFFICES ASSUME NEW b \in Browser, jar[b] # None
                 PROVE  GivenOut(jar[b]) /\ Belongs(jar[b], b)
    BY DEF JarsOwn
  <2>2. jar[b] = <<b, 0>> /\ jar[b] \in Id
    BY <1>2, <1>3, <2>1
  <2>3. ASSUME store[jar[b]] # None PROVE store[jar[b]].browser = b
    <3>1. PICK d \in Browser : jar[b] = <<d, 0>> /\ store[jar[b]].browser = d
      BY <1>4, <2>2, <2>3
    <3> QED
      BY <2>2, <3>1
  <2> QED
    BY <2>2, <2>3 DEF GivenOut, Belongs
<1>11. Unissued
  <2>1. ASSUME NEW r \in Request, NEW l \in Levels, store[<<r, l>>] # None PROVE FALSE
    <3>1. <<r, l>> \in Id /\ l # 0
      BY DEF Id, Levels
    <3>2. PICK d \in Browser : <<r, l>> = <<d, 0>>
      BY <1>4, <2>1, <3>1
    <3> QED
      BY <3>1, <3>2
  <2> QED
    BY <2>1 DEF Unissued
<1> QED
  BY <1>7, <1>8, <1>9, <1>10, <1>11 DEF Ownership, RequestsOwn

\* A request that goes on changes its own place and context, and no other's.
LEMMA GoesOn ==
    ASSUME TypeOK, NEW r \in Request, NEW p \in Places, NEW c \in Context \cup {None},
           Goes(r, p, c)
    PROVE  /\ at' \in [Request -> Places]
           /\ req' \in [Request -> Context \cup {None}]
           /\ at'[r] = p /\ req'[r] = c
           /\ \A o \in Request \ {r} : at'[o] = at[o] /\ req'[o] = req[o]
  BY DEF TypeOK, Goes

\* What a step of a request may do to the store: destroy sessions, or save one of its own
\* browser under the id that it issues now.
Stored(r) ==
    /\ store' \in [Id -> Session \cup {None}]
    /\ \A i \in Id :
        \/ store'[i] \in {store[i], None}
        \/ /\ i = NewId(r) /\ store'[i] # None
           /\ store'[i].browser = req[r].browser
           /\ store'[i].user = UserOf[req[r].browser]
\* Nobody's replacement is taken away while what it replaces is there.
SparesReplacements(r) ==
    \A o \in InFlight \ {r} :
        at[o] = "saved" =>
            \/ store'[req[o].presented] = None
            \/ store[NewId(o)] # None => store'[NewId(o)] # None
\* The context keeps what the request came with.
Keeps(r, c) ==
    /\ c \in Context
    /\ c.kind = req[r].kind /\ c.browser = req[r].browser
    /\ c.presented = req[r].presented
    /\ c.level <= Len(Guards[c.kind]) + 1
    /\ c.token # None => c.user # None

\* Stated apart, because Guards[...] hides from the prover that it is a sequence.
LEMMA LengthIsNat == ASSUME NEW S, NEW s \in Seq(S) PROVE Len(s) \in Nat
  OBVIOUS

\* The facts about contexts that the steps below use.
LEMMA InFlightFacts ==
    ASSUME TypeOK, NEW r \in InFlight
    PROVE  /\ r \in Request /\ req[r] \in Context
           /\ at[r] \in Places \ {"new", "done"}
           /\ req[r].kind \in Kind /\ req[r].browser \in Browser
           /\ req[r].presented \in Id \cup {None}
           /\ req[r].level \in Levels /\ req[r].level <= Len(Guards[req[r].kind]) + 1
           /\ Len(Guards[req[r].kind]) \in 0..2
           /\ NewId(r) = <<r, req[r].level>> /\ NewId(r) \in Id
<1>1. r \in Request /\ req[r] \in Context /\ at[r] \in Places \ {"new", "done"}
  BY DEF InFlight, TypeOK
<1>2. req[r].kind \in Kind /\ req[r].browser \in Browser /\ req[r].level \in Levels
      /\ req[r].presented \in Id \cup {None}
  BY <1>1 DEF Context
<1>3. Len(Guards[req[r].kind]) \in 0..2
  <2>1. PICK S : Guards \in [Kind -> Seq(S)]
    BY SessionAssumption
  <2>2. Guards[req[r].kind] \in Seq(S)
    BY <1>2, <2>1
  <2>3. Len(Guards[req[r].kind]) \in Nat
    BY <2>2, LengthIsNat
  <2>4. PICK n \in Nat : n = Len(Guards[req[r].kind])
    BY <2>3
  <2>5. n <= 2
    BY <1>2, <2>4, SessionAssumption
  <2>6. n \in 0..2
    BY <2>5
  <2> QED
    BY <2>4, <2>6, Zenon
<1>4. req[r].level <= Len(Guards[req[r].kind]) + 1
  BY DEF TypeOK, Stack
<1>5. NewId(r) = <<r, req[r].level>> /\ NewId(r) \in Id
  BY <1>1, <1>2 DEF NewId, Id
<1> QED
  BY <1>1, <1>2, <1>3, <1>4, <1>5

\* An id that was given out is not the one a request at work issues, so it is not saved.
LEMMA GivenOutIsNotSaved ==
    ASSUME TypeOK, NEW r \in InFlight, Stored(r), NEW i \in Id,
           GivenOut(i) \/ (\E o \in Request \ {r}, l \in Levels : i = <<o, l>>)
    PROVE  store'[i] \in {store[i], None}
<1>1. NewId(r) = <<r, req[r].level>> /\ req[r].level # 0 /\ at[r] # "done"
  BY InFlightFacts DEF Levels
<1>2. i # NewId(r)
  <2>1. CASE GivenOut(i)
    <3>1. i[2] = 0 \/ at[i[1]] = "done"
      BY <2>1 DEF GivenOut
    <3>2. NewId(r)[1] = r /\ NewId(r)[2] = req[r].level
      BY <1>1
    <3> QED
      BY <1>1, <3>1, <3>2
  <2>2. CASE \E o \in Request \ {r}, l \in Levels : i = <<o, l>>
    BY <1>1, <2>2
  <2> QED
    BY <2>1, <2>2
<1> QED
  BY <1>2 DEF Stored

\* A step of one request takes nothing from the others that are at work.
LEMMA OthersKeep ==
    ASSUME TypeOK, Ownership, NEW r \in InFlight, NEW o \in InFlight \ {r},
           Stored(r), SparesReplacements(r),
           \A q \in Request : at[q] = "done" => at'[q] = "done",
           at'[o] = at[o], req'[o] = req[o]
    PROVE  OwnAs(o, at[o], req[o])'
<1>1. OwnAs(o, at[o], req[o])
  BY DEF Ownership, RequestsOwn
<1>2. /\ o \in Request \ {r} /\ req[o].presented \in Id \cup {None}
      /\ NewId(o) = <<o, req[o].level>> /\ req[o].level \in Levels
  BY InFlightFacts DEF InFlight
<1>3. \A l \in Levels : store'[<<o, l>>] \in {store[<<o, l>>], None}
  <2> TAKE l \in Levels
  <2>1. <<o, l>> \in Id
    BY <1>2 DEF Id
  <2> QED
    BY <1>2, <2>1, GivenOutIsNotSaved
<1>4. req[o].presented # None =>
          /\ GivenOut(req[o].presented) /\ GivenOut(req[o].presented)'
          /\ store'[req[o].presented] \in {store[req[o].presented], None}
  <2>1. SUFFICES ASSUME req[o].presented # None
                 PROVE  /\ GivenOut(req[o].presented) /\ GivenOut(req[o].presented)'
                        /\ store'[req[o].presented] \in {store[req[o].presented], None}
    OBVIOUS
  <2>2. GivenOut(req[o].presented)
    BY <1>1, <2>1 DEF OwnAs
  <2>3. req[o].presented \in Id
    BY <1>2, <2>1
  <2>4. store'[req[o].presented] \in {store[req[o].presented], None}
    BY <2>2, <2>3, GivenOutIsNotSaved
  <2>5. req[o].presented[2] = 0 \/ req[o].presented[1] \in Request
    BY <2>3 DEF Id
  <2>6. GivenOut(req[o].presented)'
    BY <2>2, <2>5 DEF GivenOut
  <2> QED
    BY <2>2, <2>4, <2>6
<1>5. at[o] = "saved" =>
          store'[req[o].presented] = None \/ store'[<<o, req[o].level>>] # None
  <2>1. SUFFICES ASSUME at[o] = "saved", store'[req[o].presented] # None
                 PROVE  store'[<<o, req[o].level>>] # None
    OBVIOUS
  <2>2. req[o].presented # None /\ store[req[o].presented] # None
    BY <1>1, <1>4, <2>1 DEF OwnAs
  <2>3. store[NewId(o)] # None
    BY <1>1, <1>2, <2>1, <2>2 DEF OwnAs
  <2> QED
    BY <1>2, <2>1, <2>3 DEF SparesReplacements
<1>6. req[o].presented # None => Belongs(req[o].presented, req[o].browser)'
  BY <1>1, <1>4 DEF OwnAs, Belongs
<1>7. \A l \in Levels : Belongs(<<o, l>>, req[o].browser)'
  BY <1>1, <1>3 DEF OwnAs, Belongs
<1> QED
  BY <1>1, <1>4, <1>5, <1>6, <1>7 DEF OwnAs, GivenOut, Belongs

\* A step of a request at work keeps the invariant, if what it has found out and issued
\* is right afterwards; the jar may get the cookie of a request that is done.
LEMMA StepOwns ==
    ASSUME TypeOK, Ownership, NEW r \in InFlight, NEW p \in Places \ {"new", "done"},
           NEW c, Keeps(r, c), Goes(r, p, c),
           Stored(r), SparesReplacements(r), OwnAs(r, p, c)',
           jar' = jar, now' = now, accounts' = accounts,
           ended' \subseteq Id, disturbed' = disturbed
    PROVE  TypeOK' /\ Ownership'
<1>1. r \in Request /\ p \in Places /\ c \in Context \cup {None} /\ c # None
  <2>1. c # None
    BY SessionAssumption DEF Keeps
  <2> QED
    BY <2>1, InFlightFacts DEF Keeps
<1>2. /\ at' \in [Request -> Places] /\ req' \in [Request -> Context \cup {None}]
      /\ at'[r] = p /\ req'[r] = c
      /\ \A o \in Request \ {r} : at'[o] = at[o] /\ req'[o] = req[o]
  BY <1>1, GoesOn
<1>3. InFlight' = InFlight /\ at[r] \notin {"new", "done"}
  BY <1>1, <1>2 DEF InFlight
<1>4. TypeOK'
  <2>1. now' \in Nat /\ store' \in [Id -> Session \cup {None}] /\ accounts' \subseteq User
        /\ jar' \in [Browser -> Id \cup {None}] /\ disturbed' \subseteq Browser
    BY DEF TypeOK, Stored
  <2>2. \A o \in Request : o \notin InFlight' => req'[o] = None
    BY <1>2, <1>3 DEF TypeOK
  <2>3. \A o \in InFlight' :
          /\ req'[o] # None
          /\ req'[o].level <= Len(Guards[req'[o].kind]) + 1
          /\ req'[o].token # None => req'[o].user # None
    <3> TAKE o \in InFlight'
    <3>1. CASE o = r
      BY <1>1, <1>2, <3>1 DEF Keeps
    <3>2. CASE o # r
      BY <1>2, <1>3, <3>2 DEF TypeOK, Stack, InFlight
    <3> QED
      BY <3>1, <3>2
  <2> QED
    BY <1>2, <2>1, <2>2, <2>3 DEF TypeOK, Stack
<1>5. UsersMatch'
  <2>1. SUFFICES ASSUME NEW i \in Id, store'[i] # None
                 PROVE  store'[i].user = UserOf[store'[i].browser]
    BY DEF UsersMatch
  <2>2. CASE store'[i] = store[i]
    BY <2>1, <2>2 DEF Ownership, UsersMatch
  <2>3. CASE store'[i] # store[i]
    BY <2>1, <2>3 DEF Stored
  <2> QED
    BY <2>2, <2>3
<1>6. JarsOwn'
  <2>1. SUFFICES ASSUME NEW b \in Browser, jar[b] # None
                 PROVE  GivenOut(jar[b])' /\ Belongs(jar[b], b)'
    BY DEF JarsOwn, GivenOut, Belongs
  <2>2. jar[b] \in Id /\ GivenOut(jar[b]) /\ Belongs(jar[b], b)
    BY <2>1 DEF TypeOK, Ownership, JarsOwn
  <2>3. store'[jar[b]] \in {store[jar[b]], None}
    BY <2>2, GivenOutIsNotSaved
  <2>4. jar[b][2] = 0 \/ jar[b][1] \in Request
    BY <2>2 DEF Id
  <2> QED
    BY <1>2, <1>3, <2>2, <2>3, <2>4 DEF GivenOut, Belongs
<1>7. Unissued'
  <2>1. SUFFICES ASSUME NEW o \in Request, NEW l \in Levels, at'[o] = "new"
                 PROVE  store'[<<o, l>>] = None
    BY DEF Unissued
  <2>2. o # r /\ at[o] = "new" /\ <<o, l>> \in Id
    BY <1>2, <2>1 DEF Id
  <2>3. store[<<o, l>>] = None
    BY <2>2 DEF Ownership, Unissued
  <2> QED
    BY <2>2, <2>3, GivenOutIsNotSaved
<1>8. RequestsOwn'
  <2>1. SUFFICES ASSUME NEW o \in InFlight PROVE OwnAs(o, at[o], req[o])'
    BY <1>3 DEF RequestsOwn
  <2>2. CASE o = r
    BY <1>2, <2>2 DEF OwnAs, GivenOut, Belongs
  <2>3. CASE o # r
    <3>1. \A q \in Request : at[q] = "done" => at'[q] = "done"
      BY <1>2, <1>3
    <3>2. at'[o] = at[o] /\ req'[o] = req[o]
      BY <1>2, <2>3 DEF InFlight
    <3> QED
      BY <2>3, <3>1, <3>2, OthersKeep
  <2> QED
    BY <2>2, <2>3
<1> QED
  BY <1>4, <1>5, <1>6, <1>7, <1>8 DEF Ownership

\* Ids that other requests at work are about to announce: nobody holds them.
LEMMA OthersIds ==
    ASSUME TypeOK, NEW r \in InFlight, NEW o \in InFlight \ {r}
    PROVE  /\ NewId(o) \in Id /\ NewId(o) # NewId(r) /\ ~GivenOut(NewId(o))
           /\ \A l \in Levels : NewId(o) # <<r, l>>
<1>1. /\ NewId(o) = <<o, req[o].level>> /\ NewId(o) \in Id /\ req[o].level # 0
      /\ at[o] # "done" /\ NewId(r) = <<r, req[r].level>>
  BY InFlightFacts DEF Levels
<1> QED
  BY <1>1 DEF GivenOut

\* Destroying an id that is not another request's replacement spares the replacements.
LEMMA DestroyingSpares ==
    ASSUME TypeOK, NEW r \in InFlight, NEW ids,
           \A i \in Id : store'[i] = IF i \in ids THEN None ELSE store[i],
           \A o \in InFlight \ {r} : NewId(o) \notin ids
    PROVE  SparesReplacements(r)
  BY OthersIds DEF SparesReplacements

\* A stack has at most two guards, and the level after the last is the handler.
LEMMA NextLevel ==
    ASSUME NEW l \in Levels, NEW n \in 0..2, l <= n
    PROVE  l + 1 \in Levels /\ l + 1 <= n + 1
  BY DEF Levels

\* session() with no valid session: the request goes on, or is answered, with the context.
LEMMA TurnAwayGoesOn ==
    ASSUME TypeOK, NEW r \in InFlight, NEW d, Keeps(r, d), d.level = req[r].level,
           req[r].level <= Len(Guards[req[r].kind]), TurnAway(r, d)
    PROVE  \E c, p : /\ p \in {"guard", "answered"} /\ Keeps(r, c) /\ Goes(r, p, c)
                     /\ c.cookie = d.cookie /\ c.token = d.token /\ c.user = d.user
                     /\ p = "answered" => c.level = d.level
                     /\ p = "guard" => c.status = d.status
<1>0. /\ d \in Context /\ d.level \in Levels /\ Len(Guards[req[r].kind]) \in 0..2
  BY InFlightFacts DEF Keeps
<1>1. CASE Stack(r)[req[r].level] = "required"
  <2>1. PICK c : c = [d EXCEPT !.status = "401"]
    OBVIOUS
  <2>2. Goes(r, "answered", c)
    BY <1>1, <2>1 DEF TurnAway, Answers
  <2>3. c \in Context
    BY <1>0, <2>1 DEF Context
  <2>4. /\ c.kind = d.kind /\ c.browser = d.browser /\ c.presented = d.presented
        /\ c.level = d.level /\ c.token = d.token /\ c.user = d.user /\ c.cookie = d.cookie
    BY <1>0, <2>1 DEF Context
  <2> QED
    BY <2>2, <2>3, <2>4 DEF Keeps
<1>2. CASE Stack(r)[req[r].level] # "required"
  <2>1. PICK c : c = [d EXCEPT !.level = @ + 1]
    OBVIOUS
  <2>2. Goes(r, "guard", c)
    BY <1>2, <2>1 DEF TurnAway
  <2>3. d.level + 1 \in Levels /\ d.level + 1 <= Len(Guards[req[r].kind]) + 1
    BY <1>0, NextLevel
  <2>4. c \in Context /\ c.level = d.level + 1
    BY <1>0, <2>1, <2>3 DEF Context
  <2>5. /\ c.kind = d.kind /\ c.browser = d.browser /\ c.presented = d.presented
        /\ c.token = d.token /\ c.user = d.user /\ c.cookie = d.cookie
        /\ c.status = d.status
    BY <1>0, <2>1 DEF Context
  <2>6. c.level <= Len(Guards[c.kind]) + 1
    <3>1. c.kind = req[r].kind
      BY <2>5 DEF Keeps
    <3> QED
      BY <2>3, <2>4, <3>1
  <2>7. Keeps(r, c)
    BY <2>4, <2>5, <2>6 DEF Keeps
  <2> QED
    BY <2>2, <2>5, <2>7
<1> QED
  BY <1>1, <1>2

\* session() with a user: the request goes on, with a token if it had none.
LEMMA ProceedGoesOn ==
    ASSUME TypeOK, NEW r \in InFlight, NEW d \in Context, d.kind = req[r].kind, d.browser = req[r].browser,
           d.presented = req[r].presented, d.level = req[r].level,
           req[r].level <= Len(Guards[req[r].kind]), Proceed(r, d),
           d.found \in Session, d.presented # None
    PROVE  \E c : /\ Keeps(r, c) /\ Goes(r, "guard", c)
                  /\ c.cookie = d.cookie /\ c.user = d.found.user
                  /\ c.token \in {d.token, d.presented}
                  /\ c.token = IF d.token = None THEN d.presented ELSE d.token
                  /\ c.level = d.level + 1 /\ c.status = d.status /\ c.user # None
<1>0. /\ d \in Context /\ d.level \in Levels /\ Len(Guards[req[r].kind]) \in 0..2
  BY InFlightFacts
<1>1. PICK c : c = [d EXCEPT !.user = d.found.user,
                            !.token = IF @ = None THEN d.presented ELSE @,
                            !.found = None, !.level = @ + 1]
  OBVIOUS
<1>2. Goes(r, "guard", c)
  BY <1>1 DEF Proceed
<1>3. d.level + 1 \in Levels /\ d.level + 1 <= Len(Guards[req[r].kind]) + 1
  BY <1>0, NextLevel
<1>4. d.found.user \in User /\ d.found.user # None
  BY SessionAssumption DEF Session
<1>5. c \in Context
  BY <1>0, <1>1, <1>3, <1>4 DEF Context
<1>6. /\ c.kind = d.kind /\ c.browser = d.browser /\ c.presented = d.presented
      /\ c.cookie = d.cookie /\ c.level = d.level + 1 /\ c.user = d.found.user
      /\ c.token = IF d.token = None THEN d.presented ELSE d.token
      /\ c.token \in {d.token, d.presented} /\ c.status = d.status
  BY <1>0, <1>1 DEF Context
<1>7. c.level <= Len(Guards[c.kind]) + 1
  <2>1. c.kind = req[r].kind
    BY <1>6
  <2> QED
    BY <1>3, <1>6, <2>1
<1>8. Keeps(r, c)
  BY <1>4, <1>5, <1>6, <1>7 DEF Keeps
<1> QED
  BY <1>2, <1>4, <1>6, <1>8

\* What a request knows of its own ids, and of the one it came with, stays true.
LEMMA OwnStays ==
    ASSUME TypeOK, Ownership, NEW r \in InFlight, NEW p \in Places \ {"new", "done"},
           NEW c, Keeps(r, c), Goes(r, p, c), Stored(r)
    PROVE  /\ c.presented # None =>
                /\ GivenOut(c.presented)' /\ Belongs(c.presented, c.browser)'
                /\ c.presented \in Id /\ store'[c.presented] \in {store[c.presented], None}
           /\ \A l \in Levels : Belongs(<<r, l>>, c.browser)'
<1>1. OwnAs(r, at[r], req[r]) /\ r \in Request /\ req[r].presented \in Id \cup {None}
      /\ at[r] \notin {"new", "done"} /\ NewId(r) = <<r, req[r].level>>
  BY InFlightFacts DEF Ownership, RequestsOwn
<1>2. c.browser = req[r].browser /\ c.presented = req[r].presented /\ c \in Context
  BY DEF Keeps
<1>3. at'[r] = p /\ \A o \in Request \ {r} : at'[o] = at[o]
  BY <1>1, <1>2, GoesOn
<1>4. ASSUME c.presented # None
      PROVE  /\ GivenOut(c.presented)' /\ Belongs(c.presented, c.browser)'
             /\ c.presented \in Id /\ store'[c.presented] \in {store[c.presented], None}
  <2>1. /\ c.presented \in Id /\ GivenOut(c.presented) /\ Belongs(c.presented, c.browser)
    BY <1>1, <1>2, <1>4 DEF OwnAs
  <2>2. store'[c.presented] \in {store[c.presented], None}
    BY <2>1, GivenOutIsNotSaved
  <2>3. c.presented[2] = 0 \/ c.presented[1] \in Request
    BY <2>1 DEF Id
  <2>4. GivenOut(c.presented)'
    BY <1>1, <1>3, <2>1, <2>3 DEF GivenOut
  <2> QED
    BY <2>1, <2>2, <2>4 DEF Belongs
<1>5. ASSUME NEW l \in Levels PROVE Belongs(<<r, l>>, c.browser)'
  <2>1. <<r, l>> \in Id /\ Belongs(<<r, l>>, c.browser)
    BY <1>1, <1>2 DEF Id, OwnAs
  <2>2. CASE store'[<<r, l>>] \in {store[<<r, l>>], None}
    BY <2>1, <2>2 DEF Belongs
  <2>3. CASE store'[<<r, l>>] \notin {store[<<r, l>>], None}
    BY <1>2, <2>1, <2>3 DEF Stored, Belongs
  <2> QED
    BY <2>2, <2>3
<1> QED
  BY <1>4, <1>5

\* A step that leaves the store alone.
LEMMA NothingStored ==
    ASSUME TypeOK, NEW r \in InFlight, store' = store
    PROVE  Stored(r) /\ SparesReplacements(r)
  BY DEF TypeOK, Stored, SparesReplacements

\* A step that destroys sessions, none of them a replacement of another request.
LEMMA OnlyDestroyed ==
    ASSUME TypeOK, NEW r \in InFlight, NEW ids,
           store' = [i \in Id |-> IF i \in ids THEN None ELSE store[i]]
    PROVE  /\ Stored(r)
           /\ (\A o \in InFlight \ {r} : NewId(o) \notin ids) => SparesReplacements(r)
<1>1. \A i \in Id : store'[i] = IF i \in ids THEN None ELSE store[i]
  OBVIOUS
<1>2. Stored(r)
  BY <1>1 DEF TypeOK, Stored
<1> QED
  BY <1>1, <1>2, DestroyingSpares

\* The id a request came with is nobody's replacement, and neither is one of its own.
LEMMA DestroyOne ==
    ASSUME TypeOK, Ownership, NEW r \in InFlight, NEW x \in Id,
           x = req[r].presented \/ (\E l \in Levels : x = <<r, l>>),
           store' = [store EXCEPT ![x] = None]
    PROVE  Stored(r) /\ SparesReplacements(r)
<1>1. store' = [i \in Id |-> IF i \in {x} THEN None ELSE store[i]]
  BY DEF TypeOK
<1>2. ASSUME NEW o \in InFlight \ {r} PROVE NewId(o) \notin {x}
  <2>1. CASE x = req[r].presented
    <3>1. x # None
      BY SessionAssumption
    <3>2. GivenOut(x)
      BY <2>1, <3>1 DEF Ownership, RequestsOwn, OwnAs
    <3> QED
      BY <3>2, OthersIds
  <2>2. CASE \E l \in Levels : x = <<r, l>>
    BY <2>2, OthersIds
  <2> QED
    BY <2>1, <2>2
<1> QED
  BY <1>1, <1>2, OnlyDestroyed

\* A step that saves a session of this browser under the id the request issues now.
LEMMA SaveOne ==
    ASSUME TypeOK, NEW r \in InFlight, NEW u \in User, u = UserOf[req[r].browser],
           store' = [store EXCEPT ![NewId(r)] = NewSession(r, u)]
    PROVE  Stored(r) /\ SparesReplacements(r) /\ store'[NewId(r)] # None
<1>1. NewSession(r, u) \in Session
  <2>1. now + Lifetime \in Nat
    BY SessionAssumption DEF TypeOK
  <2> QED
    BY <2>1, InFlightFacts DEF NewSession, Session
<1>2. NewSession(r, u) # None /\ NewId(r) \in Id
  BY <1>1, SessionAssumption, InFlightFacts
<1>3. \A i \in Id : store'[i] = IF i = NewId(r) THEN NewSession(r, u) ELSE store[i]
  BY DEF TypeOK
<1>4. store' \in [Id -> Session \cup {None}]
  BY <1>1 DEF TypeOK
<1>5. Stored(r)
  <2>1. NewSession(r, u).browser = req[r].browser /\ NewSession(r, u).user = u
    BY DEF NewSession
  <2> QED
    BY <1>2, <1>3, <1>4, <2>1 DEF Stored
<1>6. SparesReplacements(r)
  BY <1>3, OthersIds DEF SparesReplacements
<1> QED
  BY <1>2, <1>3, <1>5, <1>6
-----------------------------------------------------------------------------
\* The steps of a request, one by one.
LEMMA NoCookieOwns ==
    ASSUME TypeOK, Ownership, NEW r \in InFlight, NoCookie(r)
    PROVE  TypeOK' /\ Ownership'
<1>1. /\ req[r].level <= Len(Guards[req[r].kind]) /\ Keeps(r, req[r])
      /\ OwnAs(r, at[r], req[r])
  BY InFlightFacts DEF NoCookie, AtGuard, Stack, Keeps, TypeOK, Ownership, RequestsOwn
<1>2. PICK c, p : /\ p \in {"guard", "answered"} /\ Keeps(r, c) /\ Goes(r, p, c)
                  /\ c.cookie = req[r].cookie /\ c.token = req[r].token
                  /\ c.user = req[r].user
  BY <1>1, TurnAwayGoesOn DEF NoCookie
<1>3. p \in Places \ {"new", "done"}
  BY <1>2 DEF Places
<1>4. Stored(r) /\ SparesReplacements(r)
  BY NothingStored DEF NoCookie
<1>5. OwnAs(r, p, c)'
  BY <1>1, <1>2, <1>3, <1>4, OwnStays DEF OwnAs, Keeps
<1> QED
  BY <1>2, <1>3, <1>4, <1>5, StepOwns DEF NoCookie, history, TypeOK

LEMMA FindOwns ==
    ASSUME TypeOK, Ownership, NEW r \in InFlight, Find(r)
    PROVE  TypeOK' /\ Ownership'
<1>1. PICK c : c = [req[r] EXCEPT !.found = store[req[r].presented]]
  OBVIOUS
<1>2. Goes(r, "found", c) /\ req[r].presented \in Id /\ req[r].presented # None
      /\ req[r].level <= Len(Guards[req[r].kind])
  BY <1>1, InFlightFacts DEF Find, AtGuard, Stack
<1>3. c \in Context /\ c.found = store[req[r].presented]
  BY <1>1, <1>2, InFlightFacts DEF TypeOK, Context
<1>4. /\ c.kind = req[r].kind /\ c.browser = req[r].browser /\ c.presented = req[r].presented
      /\ c.level = req[r].level /\ c.token = req[r].token /\ c.user = req[r].user
      /\ c.cookie = req[r].cookie
  BY <1>1, InFlightFacts DEF Context
<1>5. Keeps(r, c)
  BY <1>2, <1>3, <1>4, InFlightFacts DEF Keeps, TypeOK
<1>6. Stored(r) /\ SparesReplacements(r) /\ store' = store
  BY NothingStored DEF Find
<1>7. OwnAs(r, at[r], req[r])
  BY DEF Ownership, RequestsOwn
<1>8. c.found # None => c.found.user = UserOf[c.browser]
  BY <1>2, <1>3, <1>4, <1>7 DEF OwnAs, Belongs, Ownership, UsersMatch
<1>9. OwnAs(r, "found", c)'
  <2>1. "found" \in Places \ {"new", "done"}
    BY DEF Places
  <2>2. c.level <= Len(Guards[c.kind])
    BY <1>2, <1>4
  <2> QED
    BY <1>2, <1>3, <1>4, <1>5, <1>6, <1>7, <1>8, <2>1, <2>2, OwnStays DEF OwnAs
<1> QED
  BY <1>2, <1>5, <1>6, <1>9, StepOwns DEF Find, history, TypeOK, Places

\* The context whose cookie is cleared is the old one otherwise.
LEMMA Cleared ==
    ASSUME TypeOK, NEW r \in InFlight, NEW d, d = [req[r] EXCEPT !.cookie = <<None>>]
    PROVE  /\ Keeps(r, d) /\ d.level = req[r].level /\ d.cookie = <<None>>
           /\ d.token = req[r].token /\ d.user = req[r].user
           /\ d.status = req[r].status
<1>1. <<None>> \in SetCookies
  BY DEF SetCookies
<1>2. /\ d \in Context /\ d.level = req[r].level /\ d.cookie = <<None>>
      /\ d.token = req[r].token /\ d.user = req[r].user /\ d.kind = req[r].kind
      /\ d.browser = req[r].browser /\ d.presented = req[r].presented
      /\ d.status = req[r].status
  BY <1>1, InFlightFacts DEF Context
<1>3. req[r].token # None => req[r].user # None
  BY DEF TypeOK
<1> QED
  BY <1>2, <1>3, InFlightFacts DEF Keeps

LEMMA RejectOwns ==
    ASSUME TypeOK, Ownership, NEW r \in InFlight, Reject(r)
    PROVE  TypeOK' /\ Ownership'
<1>1. /\ OwnAs(r, "found", req[r]) /\ req[r].presented \in Id
      /\ req[r].level <= Len(Guards[req[r].kind])
  <2>1. OwnAs(r, "found", req[r])
    BY DEF Reject, Ownership, RequestsOwn
  <2> QED
    BY <2>1, InFlightFacts DEF OwnAs
<1>2. PICK d : d = [req[r] EXCEPT !.cookie = <<None>>]
  OBVIOUS
<1>3. TurnAway(r, d)
  BY <1>2 DEF Reject
<1>4. PICK c, p : /\ p \in {"guard", "answered"} /\ Keeps(r, c) /\ Goes(r, p, c)
                  /\ c.cookie = <<None>> /\ c.token = req[r].token /\ c.user = req[r].user
  BY <1>1, <1>2, <1>3, Cleared, TurnAwayGoesOn
<1>5. p \in Places \ {"new", "done"}
  BY <1>4 DEF Places
<1>6. Stored(r) /\ SparesReplacements(r) /\ ended' \subseteq Id
  <2>1. CASE UNCHANGED <<store, ended>>
    BY <2>1, NothingStored DEF TypeOK
  <2>2. CASE End({req[r].presented})
    <3>1. store' = [store EXCEPT ![req[r].presented] = None]
      BY <2>2 DEF End, TypeOK
    <3>2. ended' \subseteq Id
      BY <1>1, <2>2 DEF End, TypeOK
    <3> QED
      BY <1>1, <3>1, <3>2, DestroyOne
  <2> QED
    BY <2>1, <2>2 DEF Reject
<1>7. OwnAs(r, p, c)'
  BY <1>1, <1>4, <1>5, <1>6, OwnStays DEF OwnAs, Keeps
<1> QED
  BY <1>4, <1>5, <1>6, <1>7, StepOwns DEF Reject

LEMMA LookUpOwns ==
    ASSUME TypeOK, Ownership, NEW r \in InFlight, LookUp(r)
    PROVE  TypeOK' /\ Ownership'
<1>1. /\ OwnAs(r, "found", req[r]) /\ req[r].presented \in Id
      /\ req[r].level <= Len(Guards[req[r].kind])
  <2>1. OwnAs(r, "found", req[r])
    BY DEF LookUp, Ownership, RequestsOwn
  <2> QED
    BY <2>1, InFlightFacts DEF OwnAs
<1>2. Stored(r) /\ SparesReplacements(r)
  BY NothingStored DEF LookUp
<1>3. CASE Goes(r, "looked", req[r])
  <2>1. PICK c : c = req[r]
    OBVIOUS
  <2>2. Keeps(r, c) /\ Goes(r, "looked", c) /\ "looked" \in Places \ {"new", "done"}
    BY <1>3, <2>1, InFlightFacts DEF Keeps, TypeOK, Places
  <2>3. OwnAs(r, "looked", c)'
    <3>1. c.found # None /\ c.found.user = UserOf[c.browser]
      BY <1>1, <2>1 DEF OwnAs, LookUp
    <3> QED
      BY <1>1, <1>2, <2>1, <2>2, <3>1, OwnStays DEF OwnAs
  <2> QED
    BY <1>2, <2>2, <2>3, StepOwns DEF LookUp, history, TypeOK
<1>4. CASE TurnAway(r, [req[r] EXCEPT !.cookie = <<None>>])
  <2>1. PICK d : d = [req[r] EXCEPT !.cookie = <<None>>]
    OBVIOUS
  <2>2. TurnAway(r, d)
    BY <1>4, <2>1
  <2>3. PICK c, p : /\ p \in {"guard", "answered"} /\ Keeps(r, c) /\ Goes(r, p, c)
                    /\ c.cookie = <<None>> /\ c.token = req[r].token
                    /\ c.user = req[r].user
    BY <1>1, <2>1, <2>2, Cleared, TurnAwayGoesOn
  <2>4. p \in Places \ {"new", "done"}
    BY <2>3 DEF Places
  <2>5. OwnAs(r, p, c)'
    BY <1>1, <1>2, <2>3, <2>4, OwnStays DEF OwnAs, Keeps
  <2> QED
    BY <1>2, <2>3, <2>4, <2>5, StepOwns DEF LookUp, history, TypeOK
<1> QED
  BY <1>3, <1>4 DEF LookUp

LEMMA AcceptOwns ==
    ASSUME TypeOK, Ownership, NEW r \in InFlight, Accept(r)
    PROVE  TypeOK' /\ Ownership'
<1>1. /\ OwnAs(r, "looked", req[r]) /\ Proceed(r, req[r])
  BY DEF Accept, Ownership, RequestsOwn
<1>2. /\ Keeps(r, req[r]) /\ req[r].found \in Session /\ req[r].presented # None
      /\ req[r].level <= Len(Guards[req[r].kind])
  BY <1>1, InFlightFacts DEF OwnAs, Keeps, TypeOK, Context
<1>3. PICK c : /\ Keeps(r, c) /\ Goes(r, "guard", c)
               /\ c.cookie = req[r].cookie /\ c.user = req[r].found.user
               /\ c.token \in {req[r].token, req[r].presented}
  BY <1>1, <1>2, ProceedGoesOn DEF Keeps
<1>4. Stored(r) /\ SparesReplacements(r) /\ "guard" \in Places \ {"new", "done"}
  BY NothingStored DEF Accept, Places
<1>5. OwnAs(r, "guard", c)'
  BY <1>1, <1>2, <1>3, <1>4, OwnStays DEF OwnAs, Keeps
<1> QED
  BY <1>3, <1>4, <1>5, StepOwns DEF Accept, history, TypeOK

LEMMA SaveNewOwns ==
    ASSUME TypeOK, Ownership, NEW r \in InFlight, SaveNew(r)
    PROVE  TypeOK' /\ Ownership'
<1>1. OwnAs(r, "looked", req[r])
  BY DEF SaveNew, Ownership, RequestsOwn
<1>2. PICK u : u = req[r].found.user
  OBVIOUS
<1>3. req[r].found \in Session /\ u \in User /\ u = UserOf[req[r].browser]
  BY <1>1, <1>2, InFlightFacts DEF OwnAs, Context, Session
<1>4. Stored(r) /\ SparesReplacements(r) /\ store'[NewId(r)] # None
  BY <1>2, <1>3, SaveOne DEF SaveNew
<1>5. PICK c : c = req[r]
  OBVIOUS
<1>6. Keeps(r, c) /\ Goes(r, "saved", c) /\ "saved" \in Places \ {"new", "done"}
  BY <1>5, InFlightFacts DEF SaveNew, Keeps, TypeOK, Places
<1>7. OwnAs(r, "saved", c)'
  <2>1. store'[<<r, c.level>>] # None
    BY <1>4, <1>5, InFlightFacts
  <2> QED
    BY <1>1, <1>4, <1>5, <1>6, <2>1, OwnStays DEF OwnAs
<1> QED
  BY <1>4, <1>6, <1>7, StepOwns DEF SaveNew, history, TypeOK

LEMMA DestroyOldOwns ==
    ASSUME TypeOK, Ownership, NEW r \in InFlight, DestroyOld(r)
    PROVE  TypeOK' /\ Ownership'
<1>1. OwnAs(r, "saved", req[r])
  BY DEF DestroyOld, Ownership, RequestsOwn
<1>2. /\ req[r].found \in Session /\ req[r].presented \in Id
      /\ req[r].level <= Len(Guards[req[r].kind])
  BY <1>1, InFlightFacts DEF OwnAs, Context
<1>3. PICK d : d = [req[r] EXCEPT !.cookie = <<NewId(r)>>, !.token = NewId(r)]
  OBVIOUS
<1>4. Proceed(r, d)
  BY <1>3 DEF DestroyOld
<1>5. /\ d \in Context /\ d.level = req[r].level /\ d.cookie = <<NewId(r)>>
      /\ d.token = NewId(r) /\ d.kind = req[r].kind /\ d.found = req[r].found
      /\ d.browser = req[r].browser /\ d.presented = req[r].presented
  <2>1. <<NewId(r)>> \in SetCookies
    BY InFlightFacts DEF SetCookies
  <2> QED
    BY <1>3, <2>1, InFlightFacts DEF Context
<1>6. PICK c : /\ Keeps(r, c) /\ Goes(r, "guard", c)
               /\ c.cookie = <<NewId(r)>> /\ c.user = req[r].found.user
               /\ c.token \in {NewId(r), req[r].presented}
  <2>1. req[r].presented # None
    BY <1>1 DEF OwnAs
  <2> QED
    BY <1>2, <1>4, <1>5, <2>1, ProceedGoesOn
<1>7. Stored(r) /\ SparesReplacements(r) /\ "guard" \in Places \ {"new", "done"}
  BY <1>2, DestroyOne DEF DestroyOld, Places
<1>8. OwnAs(r, "guard", c)'
  <2>1. NewId(r) = <<r, req[r].level>> /\ req[r].level \in Levels
    BY InFlightFacts
  <2>2. /\ c.cookie \in {<<(<<r, l>>)>> : l \in Levels}
        /\ c.token \in {c.presented} \cup {<<r, l>> : l \in Levels}
    BY <1>6, <2>1 DEF Keeps
  <2>3. c.user = UserOf[c.browser]
    BY <1>1, <1>6 DEF OwnAs, Keeps
  <2> QED
    BY <1>6, <1>7, <2>2, <2>3, OwnStays DEF OwnAs
<1> QED
  BY <1>6, <1>7, <1>8, StepOwns DEF DestroyOld, history, TypeOK

\* The handlers' answers: the context gets a status, and a login a new session.
LEMMA AnswersWith ==
    ASSUME TypeOK, Ownership, NEW r \in InFlight, AtHandler(r),
           NEW d \in Context, NEW status \in {"200", "401"}, Answers(r, status, d),
           Stored(r), SparesReplacements(r), ended' \subseteq Id,
           UNCHANGED <<now, accounts, jar, disturbed>>,
           d.kind = req[r].kind, d.browser = req[r].browser,
           d.presented = req[r].presented, d.level = req[r].level,
           d.cookie \in {req[r].cookie, <<None>>, <<NewId(r)>>},
           d.token \in {req[r].token, NewId(r)},
           d.user \in {req[r].user, UserOf[req[r].browser]},
           d.token # None => d.user # None
    PROVE  TypeOK' /\ Ownership'
<1>1. PICK c : c = [d EXCEPT !.status = status]
  OBVIOUS
<1>2. Goes(r, "answered", c) /\ "answered" \in Places \ {"new", "done"}
  BY <1>1 DEF Answers, Places
<1>3. /\ c \in Context /\ c.kind = d.kind /\ c.browser = d.browser
      /\ c.presented = d.presented /\ c.level = d.level /\ c.cookie = d.cookie
      /\ c.token = d.token /\ c.user = d.user
  BY <1>1 DEF Context
<1>4. Keeps(r, c)
  BY <1>3, InFlightFacts DEF Keeps
<1>5. OwnAs(r, "answered", c)'
  <2>1. NewId(r) = <<r, req[r].level>> /\ req[r].level \in Levels
    BY InFlightFacts
  <2>2. OwnAs(r, at[r], req[r])
    BY DEF Ownership, RequestsOwn
  <2>3. /\ c.cookie \in {<<>>, <<None>>} \cup {<<(<<r, l>>)>> : l \in Levels}
        /\ c.token \in {None, c.presented} \cup {<<r, l>> : l \in Levels}
        /\ c.user \in {None, UserOf[c.browser]}
    BY <1>3, <2>1, <2>2 DEF OwnAs
  <2> QED
    BY <1>2, <1>4, <2>3, OwnStays DEF OwnAs
<1> QED
  BY <1>2, <1>4, <1>5, StepOwns

LEMMA VisitOwns ==
    ASSUME TypeOK, Ownership, NEW r \in InFlight, Visit(r)
    PROVE  TypeOK' /\ Ownership'
<1>1. req[r].token # None => req[r].user # None
  BY DEF TypeOK
<1>2. Stored(r) /\ SparesReplacements(r) /\ ended' \subseteq Id
  BY NothingStored DEF Visit, history, TypeOK
<1> QED
  BY <1>1, <1>2, AnswersWith, InFlightFacts DEF Visit, history

LEMMA LoginOwns ==
    ASSUME TypeOK, Ownership, NEW r \in InFlight, Login(r)
    PROVE  TypeOK' /\ Ownership'
<1>1. PICK u : u = UserOf[req[r].browser]
  OBVIOUS
<1>2. u \in User /\ u # None /\ ended' \subseteq Id
  BY <1>1, InFlightFacts, SessionAssumption DEF Login, history, TypeOK
<1>3. CASE u \in accounts
  <2>1. PICK d : d = [req[r] EXCEPT !.cookie = <<NewId(r)>>, !.token = NewId(r), !.user = u]
    OBVIOUS
  <2>2. /\ d \in Context /\ d.kind = req[r].kind /\ d.browser = req[r].browser
        /\ d.presented = req[r].presented /\ d.level = req[r].level
        /\ d.cookie = <<NewId(r)>> /\ d.token = NewId(r) /\ d.user = u
    <3>1. <<NewId(r)>> \in SetCookies
      BY InFlightFacts DEF SetCookies
    <3> QED
      BY <1>2, <2>1, <3>1, InFlightFacts DEF Context
  <2>3. Answers(r, "200", d)
    BY <1>1, <1>3, <2>1 DEF Login
  <2>4. Stored(r) /\ SparesReplacements(r)
    BY <1>1, <1>2, <1>3, SaveOne DEF Login
  <2> QED
    BY <1>1, <1>2, <2>2, <2>3, <2>4, AnswersWith DEF Login, history
<1>4. CASE u \notin accounts
  <2>1. Answers(r, "401", req[r]) /\ Stored(r) /\ SparesReplacements(r)
    BY <1>1, <1>4, NothingStored DEF Login
  <2>2. req[r].token # None => req[r].user # None
    BY DEF TypeOK
  <2> QED
    BY <1>2, <2>1, <2>2, AnswersWith, InFlightFacts DEF Login, history
<1> QED
  BY <1>3, <1>4

\* endSession destroys the id the request came with, or the one it has issued itself.
LEMMA LogoutOwns ==
    ASSUME TypeOK, Ownership, NEW r \in InFlight, Logout(r)
    PROVE  TypeOK' /\ Ownership'
<1>1. PICK d : d = [req[r] EXCEPT !.cookie = <<None>>]
  OBVIOUS
<1>2. Answers(r, "200", d)
  BY <1>1 DEF Logout
<1>3. Stored(r) /\ SparesReplacements(r) /\ ended' \subseteq Id
  <2>1. CASE req[r].token = None
    <3>1. {req[r].token} \ {None} = {}
      BY <2>1
    <3>2. End({})
      BY <3>1 DEF Logout
    <3>3. store' = store /\ ended' = ended
      BY <3>2 DEF End, TypeOK
    <3> QED
      BY <3>3, NothingStored DEF TypeOK
  <2>2. CASE req[r].token # None
    <3>1. req[r].token \in Id
      BY <2>2, InFlightFacts DEF Context
    <3>2. store' = [store EXCEPT ![req[r].token] = None] /\ ended' = ended \cup {req[r].token}
      <4>1. {req[r].token} \ {None} = {req[r].token}
        BY <2>2
      <4>2. End({req[r].token})
        BY <4>1 DEF Logout
      <4> QED
        BY <3>1, <4>2 DEF End, TypeOK
    <3>3. req[r].token = req[r].presented \/ \E l \in Levels : req[r].token = <<r, l>>
      BY <2>2 DEF Ownership, RequestsOwn, OwnAs
    <3> QED
      BY <3>1, <3>2, <3>3, DestroyOne DEF TypeOK
  <2> QED
    BY <2>1, <2>2
<1>4. AtHandler(r) /\ UNCHANGED <<now, accounts, jar, disturbed>>
  BY DEF Logout
<1>5. /\ Keeps(r, d) /\ d.level = req[r].level /\ d.cookie = <<None>>
      /\ d.token = req[r].token /\ d.user = req[r].user
  BY <1>1, Cleared
<1> QED
  BY <1>2, <1>3, <1>4, <1>5, AnswersWith DEF Keeps

\* destroyAll takes a replacement only together with what it replaces: both are sessions
\* of one browser, so of one user.
LEMMA LogoutAllOwns ==
    ASSUME TypeOK, Ownership, NEW r \in InFlight, LogoutAll(r)
    PROVE  TypeOK' /\ Ownership'
<1>1. PICK ids : ids = {i \in Id : store[i] # None /\ store[i].user = req[r].user}
  OBVIOUS
<1>2. store' = [i \in Id |-> IF i \in ids THEN None ELSE store[i]] /\ ended' = ended \cup ids
  BY <1>1 DEF LogoutAll, End
<1>3. Stored(r) /\ ended' \subseteq Id
  BY <1>1, <1>2, OnlyDestroyed DEF TypeOK
<1>4. SparesReplacements(r)
  <2>1. SUFFICES ASSUME NEW o \in InFlight \ {r}, at[o] = "saved",
                        store[NewId(o)] # None, store'[NewId(o)] = None
                 PROVE  store'[req[o].presented] = None
    BY DEF SparesReplacements
  <2>2. OwnAs(o, "saved", req[o])
    BY <2>1 DEF Ownership, RequestsOwn
  <2>3. /\ NewId(o) \in Id /\ NewId(o) = <<o, req[o].level>> /\ req[o].level \in Levels
        /\ req[o].presented \in Id
    BY <2>2, InFlightFacts DEF OwnAs
  <2>4. store[NewId(o)].user = req[r].user
    BY <1>1, <1>2, <2>1, <2>3
  <2>5. store[NewId(o)].user = UserOf[req[o].browser]
    BY <2>1, <2>2, <2>3 DEF OwnAs, Belongs, Ownership, UsersMatch
  <2>6. store[req[o].presented] # None => store[req[o].presented].user = req[r].user
    BY <2>2, <2>3, <2>4, <2>5 DEF OwnAs, Belongs, Ownership, UsersMatch
  <2> QED
    BY <1>1, <1>2, <2>3, <2>6
<1>5. PICK status \in {"200", "401"} : Answers(r, status, req[r])
  BY DEF LogoutAll
<1>6. req[r].token # None => req[r].user # None
  BY DEF TypeOK
<1>7. AtHandler(r) /\ UNCHANGED <<now, accounts, jar, disturbed>>
  BY DEF LogoutAll
<1> QED
  BY <1>3, <1>4, <1>5, <1>6, <1>7, AnswersWith, InFlightFacts

-----------------------------------------------------------------------------
\* A new request knows its browser's cookie, and has issued nothing.
LEMMA SendOwns ==
    ASSUME TypeOK, Ownership, NEW r \in Request, NEW b \in Browser, NEW kind \in Kind,
           Send(r, b, kind)
    PROVE  TypeOK' /\ Ownership'
<1>1. PICK c : c = [kind |-> kind, browser |-> b, presented |-> jar[b], level |-> 1,
                    found |-> None, user |-> None, token |-> None, cookie |-> <<>>,
                    status |-> "none"]
  OBVIOUS
<1>2. c \in Context /\ c # None
  <2>1. c \in Context
    BY <1>1 DEF TypeOK, Context, Levels, SetCookies
  <2> QED
    BY <2>1, SessionAssumption
<1>3. Goes(r, "guard", c) /\ at[r] = "new" /\ "guard" \in Places
  BY <1>1 DEF Send, Places
<1>4. /\ at' \in [Request -> Places] /\ req' \in [Request -> Context \cup {None}]
      /\ at'[r] = "guard" /\ req'[r] = c
      /\ \A o \in Request \ {r} : at'[o] = at[o] /\ req'[o] = req[o]
  BY <1>2, <1>3, GoesOn
<1>5. /\ now' = now /\ store' = store /\ accounts' = accounts /\ jar' = jar
      /\ ended' = ended /\ disturbed' \subseteq Browser
  BY DEF Send, TypeOK
<1>6. InFlight' = InFlight \cup {r} /\ r \notin InFlight
  BY <1>3, <1>4 DEF InFlight
<1>7. TypeOK'
  <2>1. \A o \in Request : o \notin InFlight' => req'[o] = None
    BY <1>4, <1>6 DEF TypeOK
  <2>2. c.level <= Len(Guards[c.kind]) + 1 /\ c.token = None
    <3>1. PICK S : Guards \in [Kind -> Seq(S)]
      BY SessionAssumption
    <3>2. Guards[kind] \in Seq(S)
      BY <3>1
    <3>3. Len(Guards[kind]) \in Nat
      BY <3>2, LengthIsNat
    <3>4. PICK n \in Nat : n = Len(Guards[kind])
      BY <3>3
    <3>5. 1 <= n + 1
      OBVIOUS
    <3>6. c.level = 1 /\ c.kind = kind /\ c.token = None
      BY <1>1
    <3> QED
      BY <3>4, <3>5, <3>6, Zenon
  <2>3. \A o \in InFlight' :
          /\ req'[o] # None
          /\ req'[o].level <= Len(Guards[req'[o].kind]) + 1
          /\ req'[o].token # None => req'[o].user # None
    <3> TAKE o \in InFlight'
    <3>1. CASE o = r
      BY <1>2, <1>4, <2>2, <3>1
    <3>2. CASE o # r
      BY <1>4, <1>6, <3>2 DEF TypeOK, Stack, InFlight
    <3> QED
      BY <3>1, <3>2
  <2> QED
    BY <1>4, <1>5, <2>1, <2>3 DEF TypeOK, Stack
<1>8. \A i \in Id : GivenOut(i) => GivenOut(i)'
  <2>1. SUFFICES ASSUME NEW i \in Id, at[i[1]] = "done", i[2] # 0
                 PROVE  at'[i[1]] = "done"
    BY DEF GivenOut
  <2>2. i[1] \in Request /\ i[1] # r
    BY <1>3, <2>1 DEF Id
  <2> QED
    BY <1>4, <2>1, <2>2
<1>9. UsersMatch' /\ JarsOwn' /\ Unissued'
  <2>1. UsersMatch'
    BY <1>5 DEF Ownership, UsersMatch
  <2>2. JarsOwn'
    BY <1>5, <1>8 DEF Ownership, JarsOwn, Belongs, TypeOK
  <2>3. Unissued'
    BY <1>4, <1>5 DEF Ownership, Unissued
  <2> QED
    BY <2>1, <2>2, <2>3
<1>10. RequestsOwn'
  <2>1. OwnAs(r, at[r], req[r])'
    <3>1. /\ at'[r] = "guard" /\ req'[r] = c /\ c.presented = jar[b] /\ c.browser = b /\ c.cookie = <<>>
          /\ c.token = None /\ c.user = None
      BY <1>1, <1>4
    <3>2. jar[b] # None => GivenOut(jar[b])' /\ Belongs(jar[b], b)'
      BY <1>9, <1>5 DEF JarsOwn, GivenOut, Belongs
    <3>3. \A l \in Levels : Belongs(<<r, l>>, b)'
      BY <1>3, <1>5 DEF Ownership, Unissued, Belongs
    <3> QED
      BY <1>5, <3>1, <3>2, <3>3 DEF OwnAs, GivenOut, Belongs
  <2>2. ASSUME NEW o \in InFlight PROVE OwnAs(o, at[o], req[o])'
    <3>1. OwnAs(o, at[o], req[o]) /\ at'[o] = at[o] /\ req'[o] = req[o]
      BY <1>4, <1>6 DEF Ownership, RequestsOwn, InFlight
    <3>2. req[o].presented \in Id \cup {None}
      BY InFlightFacts
    <3>3. req[o].presented # None => GivenOut(req[o].presented)'
      BY <1>8, <3>1, <3>2 DEF OwnAs
    <3> QED
      BY <1>5, <3>1, <3>3 DEF OwnAs, GivenOut, Belongs
  <2>3. ASSUME NEW o \in InFlight \cup {r} PROVE OwnAs(o, at[o], req[o])'
    BY <2>1, <2>2 DEF OwnAs, GivenOut, Belongs
  <2> QED
    BY <1>6, <2>3 DEF RequestsOwn
<1> QED
  BY <1>7, <1>9, <1>10 DEF Ownership

\* A request that is done will issue no more, so its cookie may be in a jar from now on.
LEMMA DoneOwns ==
    ASSUME TypeOK, Ownership, NEW r \in InFlight, Deliver(r) \/ Lose(r)
    PROVE  TypeOK' /\ Ownership'
<1>1. Goes(r, "done", None) /\ r \in Request /\ "done" \in Places
      /\ at[r] \notin {"new", "done"} /\ OwnAs(r, at[r], req[r])
  BY InFlightFacts DEF Deliver, Lose, Places, Ownership, RequestsOwn
<1>2. /\ at' \in [Request -> Places] /\ req' \in [Request -> Context \cup {None}]
      /\ at'[r] = "done" /\ req'[r] = None
      /\ \A o \in Request \ {r} : at'[o] = at[o] /\ req'[o] = req[o]
  BY <1>1, GoesOn
<1>3. /\ now' = now /\ store' = store /\ accounts' = accounts /\ ended' = ended
      /\ disturbed' \subseteq Browser
  BY InFlightFacts DEF Deliver, Lose, history, TypeOK
<1>4. InFlight' = InFlight \ {r}
  BY <1>1, <1>2 DEF InFlight
<1>5. \A b \in Browser :
          \/ jar'[b] = jar[b]
          \/ jar'[b] = None
          \/ b = req[r].browser /\ \E l \in Levels : jar'[b] = <<r, l>>
  <2>1. CASE jar' = jar
    BY <2>1
  <2>2. CASE Deliver(r)
    <3> TAKE b \in Browser
    <3>1. CASE b = req[r].browser /\ req[r].cookie # <<>>
      <4>1. jar'[b] = req[r].cookie[1]
        BY <2>2, <3>1 DEF Deliver, TypeOK
      <4>2. CASE req[r].cookie = <<None>>
        BY <4>1, <4>2
      <4>3. CASE \E l \in Levels : req[r].cookie = <<(<<r, l>>)>>
        BY <3>1, <4>1, <4>3
      <4> QED
        BY <1>1, <3>1, <4>2, <4>3 DEF OwnAs
    <3>2. CASE ~(b = req[r].browser /\ req[r].cookie # <<>>)
      BY <2>2, <3>2 DEF Deliver, TypeOK
    <3> QED
      BY <3>1, <3>2
  <2> QED
    BY <2>1, <2>2 DEF Lose
<1>6. jar' \in [Browser -> Id \cup {None}]
  <2>1. \A l \in Levels : <<r, l>> \in Id
    BY <1>1 DEF Id
  <2>2. \A b \in Browser : jar'[b] \in Id \cup {None}
    BY <1>5, <2>1 DEF TypeOK
  <2>3. CASE jar' = jar
    BY <2>3 DEF TypeOK
  <2>4. CASE Deliver(r)
    <3>1. PICK x : x = IF req[r].cookie = <<>> THEN jar[req[r].browser] ELSE req[r].cookie[1]
      OBVIOUS
    <3>2. jar' = [jar EXCEPT ![req[r].browser] = x]
      BY <2>4, <3>1 DEF Deliver
    <3>3. x = jar'[req[r].browser]
      BY <3>2, InFlightFacts DEF TypeOK
    <3>4. x \in Id \cup {None}
      BY <2>2, <3>3, InFlightFacts
    <3> QED
      BY <3>2, <3>4 DEF TypeOK
  <2> QED
    BY <2>3, <2>4 DEF Lose
<1>7. TypeOK'
  <2>1. \A o \in Request : o \notin InFlight' => req'[o] = None
    BY <1>2, <1>4 DEF TypeOK
  <2>2. \A o \in InFlight' :
          /\ req'[o] # None
          /\ req'[o].level <= Len(Guards[req'[o].kind]) + 1
          /\ req'[o].token # None => req'[o].user # None
    BY <1>2, <1>4 DEF TypeOK, Stack, InFlight
  <2>3. /\ now' \in Nat /\ store' \in [Id -> Session \cup {None}]
        /\ accounts' \subseteq User /\ ended' \subseteq Id
    BY <1>3 DEF TypeOK
  <2> QED
    BY <1>2, <1>3, <1>6, <2>1, <2>2, <2>3 DEF TypeOK, Stack
<1>8. \A i \in Id : GivenOut(i) => GivenOut(i)'
  <2>1. SUFFICES ASSUME NEW i \in Id, at[i[1]] = "done", i[2] # 0
                 PROVE  at'[i[1]] = "done"
    BY DEF GivenOut
  <2>2. i[1] \in Request /\ i[1] # r
    BY <1>1, <2>1 DEF Id
  <2> QED
    BY <1>2, <2>1, <2>2
<1>9. UsersMatch' /\ Unissued'
  BY <1>1, <1>2, <1>3 DEF Ownership, UsersMatch, Unissued
<1>10. JarsOwn'
  <2>1. SUFFICES ASSUME NEW b \in Browser, jar'[b] # None
                 PROVE  GivenOut(jar[b])' /\ Belongs(jar[b], b)'
    BY DEF JarsOwn, GivenOut, Belongs
  <2>2. CASE jar'[b] = jar[b]
    BY <1>3, <1>8, <2>1, <2>2 DEF Ownership, JarsOwn, GivenOut, Belongs, TypeOK
  <2>3. CASE b = req[r].browser /\ \E l \in Levels : jar'[b] = <<r, l>>
    BY <1>1, <1>2, <1>3, <2>3 DEF OwnAs, GivenOut, Belongs
  <2> QED
    BY <1>5, <2>1, <2>2, <2>3
<1>11. RequestsOwn'
  <2>1. ASSUME NEW o \in InFlight \ {r} PROVE OwnAs(o, at[o], req[o])'
    <3>1. OwnAs(o, at[o], req[o]) /\ at'[o] = at[o] /\ req'[o] = req[o]
      BY <1>2 DEF Ownership, RequestsOwn, InFlight
    <3>2. req[o].presented \in Id \cup {None}
      BY InFlightFacts
    <3>3. req[o].presented # None => GivenOut(req[o].presented)'
      BY <1>8, <3>1, <3>2 DEF OwnAs
    <3> QED
      BY <1>3, <3>1, <3>3 DEF OwnAs, GivenOut, Belongs
  <2> QED
    BY <1>4, <2>1 DEF RequestsOwn
<1> QED
  BY <1>7, <1>9, <1>10, <1>11 DEF Ownership

\* Nobody's ids move when an account is closed or time passes.
LEMMA OutsideOwns ==
    ASSUME TypeOK, Ownership,
           (\E u \in User : CloseAccount(u)) \/ Tick \/ UNCHANGED vars
    PROVE  TypeOK' /\ Ownership'
<1>1. /\ store' = store /\ jar' = jar /\ at' = at /\ req' = req
      /\ ended' = ended /\ disturbed' = disturbed
  BY DEF CloseAccount, Tick, vars, history
<1>2. now' \in Nat /\ accounts' \subseteq User
  BY DEF CloseAccount, Tick, vars, TypeOK
<1>3. InFlight' = InFlight
  BY <1>1 DEF InFlight
<1>4. TypeOK'
  BY <1>1, <1>2, <1>3 DEF TypeOK, Stack
<1>5. UsersMatch' /\ JarsOwn' /\ Unissued'
  BY <1>1 DEF Ownership, UsersMatch, JarsOwn, Unissued, GivenOut, Belongs
<1>6. RequestsOwn'
  BY <1>1, <1>3 DEF Ownership, RequestsOwn, OwnAs, GivenOut, Belongs
<1> QED
  BY <1>4, <1>5, <1>6 DEF Ownership

\* The steps of a request at work.
Works(r) ==
    \/ NoCookie(r) \/ Find(r) \/ Reject(r) \/ LookUp(r)
    \/ Accept(r) \/ SaveNew(r) \/ DestroyOld(r)
    \/ Visit(r) \/ Login(r) \/ Logout(r) \/ LogoutAll(r)
    \/ Deliver(r) \/ Lose(r)

LEMMA WorkIsInFlight ==
    ASSUME NEW r \in Request, Works(r) PROVE r \in InFlight
<1>1. CASE Lose(r)
  BY <1>1 DEF Lose
<1>2. CASE ~Lose(r)
  <2>1. at[r] \in {"guard", "found", "looked", "saved", "answered"}
    BY <1>2 DEF Works, NoCookie, Find, Reject, LookUp, Accept, SaveNew, DestroyOld, Visit,
                Login, Logout, LogoutAll, Deliver, AtGuard, AtHandler
  <2> QED
    BY <2>1 DEF InFlight
<1> QED
  BY <1>1, <1>2

LEMMA NextOwns == IInv /\ [Next]_vars => IInv'
<1>1. SUFFICES ASSUME TypeOK, Ownership, [Next]_vars PROVE TypeOK' /\ Ownership'
  BY DEF IInv
<1>2. CASE \E r \in Request, b \in Browser, kind \in Kind : Send(r, b, kind)
  BY <1>1, <1>2, SendOwns
<1>3. ASSUME NEW r \in Request, Works(r) PROVE TypeOK' /\ Ownership'
  <2>1. r \in InFlight
    BY <1>3, WorkIsInFlight
  <2> QED
    BY <1>1, <1>3, <2>1, NoCookieOwns, FindOwns, RejectOwns, LookUpOwns, AcceptOwns,
       SaveNewOwns, DestroyOldOwns, VisitOwns, LoginOwns, LogoutOwns, LogoutAllOwns,
       DoneOwns DEF Works
<1>4. CASE (\E u \in User : CloseAccount(u)) \/ Tick \/ UNCHANGED vars
  BY <1>1, <1>4, OutsideOwns
<1> QED
  BY <1>1, <1>2, <1>3, <1>4 DEF Next, Works

\* The inductive invariant holds of the specification.
THEOREM Invariance == Spec => []IInv
<1>1. Init => IInv
  BY InitOwn
<1>2. IInv /\ [Next]_vars => IInv'
  BY NextOwns
<1> QED
  BY <1>1, <1>2, PTL DEF Spec

\* The types of SessionGuard are right, for any browsers, requests and guards.
THEOREM TypeCorrect == Spec => []TypeOK
<1>1. IInv => TypeOK
  BY DEF IInv
<1> QED
  BY <1>1, Invariance, PTL

\* No browser comes to hold another's session, and no request to act for another's user,
\* however the rotations of guard.user interleave on the one guard that serves them all.
THEOREM NobodyGetsAnothersSession == Spec => []OwnSessionsOnly
<1>1. IInv => OwnSessionsOnly
  BY DEF IInv, Ownership, JarsOwn, RequestsOwn, OwnAs, Belongs, OwnSessionsOnly
<1> QED
  BY <1>1, Invariance, PTL

\* "Issue the replacement before destroying the old id" (guard.user, rotateOnUse): a
\* session that nothing ends leaves the store only when its browser has another there.
THEOREM NoGapInRotation == Spec => ReplacementFirst
<1>1. ASSUME IInv, [Next]_vars, NEW i \in Id, store[i] # None, store'[i] = None
      PROVE  \/ store[i].expires < now
             \/ \E r \in InFlight : /\ AtHandler(r) /\ at'[r] = "answered"
                                   /\ req[r].kind \in {"logout", "logoutAll"}
             \/ \E j \in Id \ {i} : store[j] # None /\ store[j].browser = store[i].browser
  <2>0. TypeOK /\ Ownership /\ store' # store
    BY <1>1 DEF IInv
  <2>1. PICK r \in Request : \/ Reject(r) \/ SaveNew(r) \/ DestroyOld(r)
                            \/ Login(r) \/ Logout(r) \/ LogoutAll(r)
    BY <1>1, <2>0 DEF Next, vars, Send, NoCookie, Find, LookUp, Accept, Visit, Deliver, Lose,
                      CloseAccount, Tick
  <2>2. r \in InFlight /\ OwnAs(r, at[r], req[r])
    BY <2>0, <2>1, WorkIsInFlight DEF Works, Ownership, RequestsOwn
  <2>3. CASE Reject(r)
    <3>1. End({req[r].presented}) /\ Expired(req[r].found) /\ at[r] = "found"
      BY <2>0, <2>3 DEF Reject
    <3>2. i = req[r].presented
      BY <1>1, <3>1 DEF End
    <3>3. store[i] = req[r].found
      BY <1>1, <2>2, <3>1, <3>2 DEF OwnAs
    <3> QED
      BY <3>1, <3>3 DEF Expired
  <2>4. CASE SaveNew(r) \/ Login(r)
    <3>1. PICK u : store' = [store EXCEPT ![NewId(r)] = NewSession(r, u)]
                   /\ u = UserOf[req[r].browser] /\ u \in User
      <4>1. UserOf[req[r].browser] \in User
        BY <2>0, <2>2, InFlightFacts, SessionAssumption
      <4>2. SaveNew(r) => req[r].found.user = UserOf[req[r].browser]
        BY <2>2 DEF SaveNew, OwnAs
      <4> QED
        BY <2>0, <2>4, <4>1, <4>2 DEF SaveNew, Login
    <3>2. store'[NewId(r)] # None
      BY <2>0, <2>2, <3>1, SaveOne
    <3>3. i # NewId(r) => store'[i] = store[i]
      BY <2>0, <3>1 DEF TypeOK
    <3> QED
      BY <1>1, <3>2, <3>3
  <2>5. CASE DestroyOld(r)
    <3>1. store' = [store EXCEPT ![req[r].presented] = None] /\ at[r] = "saved"
      BY <2>5 DEF DestroyOld
    <3>2. i = req[r].presented
      BY <1>1, <2>0, <3>1 DEF TypeOK
    <3>3. /\ NewId(r) = <<r, req[r].level>> /\ NewId(r) \in Id
          /\ req[r].level \in Levels /\ req[r].level # 0 /\ at[r] # "done"
      BY <2>0, <2>2, InFlightFacts DEF Levels
    <3>4. i # NewId(r)
      <4>1. i # None
        BY SessionAssumption
      <4>2. GivenOut(i)
        BY <2>2, <3>2, <4>1 DEF OwnAs
      <4> QED
        BY <3>3, <4>2 DEF GivenOut
    <3>5. store[NewId(r)] # None /\ store[NewId(r)].browser = req[r].browser
      BY <1>1, <2>2, <3>1, <3>2, <3>3 DEF OwnAs, Belongs
    <3>6. store[i].browser = req[r].browser
      BY <1>1, <2>2, <3>1, <3>2 DEF OwnAs, Belongs
    <3> QED
      BY <3>3, <3>4, <3>5, <3>6
  <2>6. CASE Logout(r) \/ LogoutAll(r)
    <3>1. AtHandler(r) /\ req[r].kind \in {"logout", "logoutAll"}
      BY <2>6 DEF Logout, LogoutAll
    <3>2. at' = [at EXCEPT ![r] = "answered"]
      BY <2>6 DEF Logout, LogoutAll, Answers, Goes
    <3>3. at'[r] = "answered"
      BY <2>0, <3>2 DEF TypeOK
    <3> QED
      BY <2>2, <3>1, <3>3
  <2> QED
    BY <2>1, <2>3, <2>4, <2>5, <2>6
<1>2. IInv /\ [Next]_vars =>
        [\A i \in Id :
           store[i] # None /\ store'[i] = None =>
             \/ store[i].expires < now
             \/ \E r \in InFlight : /\ AtHandler(r) /\ at'[r] = "answered"
                                   /\ req[r].kind \in {"logout", "logoutAll"}
             \/ \E j \in Id \ {i} : store[j] # None /\ store[j].browser = store[i].browser]_vars
  BY <1>1
<1> QED
  BY <1>2, Invariance, PTL DEF Spec, ReplacementFirst

-----------------------------------------------------------------------------
(***************************************************************************)
(* The sessions of a browser that nothing disturbed: it sends one request  *)
(* at a time, gets every answer, and does not log in over a cookie. The    *)
(* hypotheses are that no kind of request is rotated by two guards (the    *)
(* second would find the id its Cookie header still has destroyed) and     *)
(* that the routes that log out are behind session().                      *)
(***************************************************************************)
OneRotation == \A k \in Rotates : Len(Guards[k]) <= 1
EndsAreGuarded == Len(Guards["logout"]) >= 1 /\ Len(Guards["logoutAll"]) >= 1

\* The cookie the browser will hold when it gets this answer.
Current(c) == IF c.cookie = <<>> THEN c.presented ELSE c.cookie[1]
Rotated(c) == c.cookie \notin {<<>>, <<None>>}

\* The session of id i is there as long as it is good, and b has none but those in S.
Held(b, i) == Good(b, i) => store[i] # None
Only(b, S) ==
    UserOf[b] \in accounts =>
        \A i \in Id : store[i] # None /\ store[i].browser = b => i \in S

\* What the one request of such a browser has done to its sessions, at p with context c.
QuietAs(r, p, c) ==
    /\ p # "saved" => Held(c.browser, Current(c)) /\ Only(c.browser, {Current(c)})
    /\ p = "saved" => /\ Held(c.browser, <<r, c.level>>)
                      /\ Only(c.browser, {c.presented, <<r, c.level>>})
                      /\ c.kind \in Rotates
    /\ p # "answered" /\ c.cookie = <<None>> => ~Good(c.browser, c.presented)
    /\ p # "answered" /\ Rotated(c) =>
          p = "guard" /\ c.presented # None /\ ~(c.level <= Len(Guards[c.kind]))
    /\ c.status = "401" => ~Good(c.browser, c.presented)
    /\ c.token # None => Current(c) \in {c.token, None}
    /\ c.level # 1 /\ c.token = None => Current(c) = None
    /\ c.level # 1 /\ c.user = None => ~Good(c.browser, c.presented)
    /\ c.kind = "login" => c.presented = None

OneAtATime ==
    \A r, q \in InFlight :
        req[r].browser = req[q].browser /\ req[r].browser \notin disturbed => r = q
QuietIdle ==
    \A b \in Browser \ disturbed :
        Idle(b) => Held(b, jar[b]) /\ Only(b, {jar[b]})
QuietWork ==
    \A r \in InFlight : req[r].browser \notin disturbed =>
        QuietAs(r, at[r], req[r]) /\ req[r].presented = jar[req[r].browser]

Quiet == OneAtATime /\ QuietIdle /\ QuietWork

\* A step that does nothing to b's sessions but end them, if at all.
Calm(b) ==
    /\ \A i \in Id : store'[i] # None /\ store'[i].browser = b =>
          store[i] # None /\ store[i].browser = b
    /\ \A i \in Id : store[i] # None /\ store[i].browser = b /\ store'[i] = None => i \in ended'
    /\ ended \subseteq ended' /\ accounts' \subseteq accounts

LEMMA CalmKeeps ==
    ASSUME NEW b \in Browser, Calm(b)
    PROVE  /\ \A i : ~Good(b, i) => ~Good(b, i)'
           /\ \A i \in Id \cup {None} :
                 (i # None => Belongs(i, b)) /\ Held(b, i) => Held(b, i)'
<1>1. \A i : Good(b, i)' => Good(b, i)
  BY DEF Calm, Good
<1>2. ASSUME NEW i \in Id \cup {None}, i # None => Belongs(i, b), Held(b, i), Good(b, i)'
      PROVE  store'[i] # None
  <2>1. Good(b, i) /\ i # None /\ i \in Id /\ i \notin ended'
    BY <1>1, <1>2 DEF Good
  <2>2. store[i] # None /\ store[i].browser = b
    BY <1>2, <2>1 DEF Held, Belongs
  <2> QED
    BY <2>1, <2>2 DEF Calm
<1> QED
  BY <1>1, <1>2 DEF Held

LEMMA CalmOnly ==
    ASSUME NEW b \in Browser, Calm(b), NEW S, Only(b, S)
    PROVE  Only(b, S)'
  BY DEF Calm, Only

\* What can come of the cookie of a request: an id of its browser.
LEMMA CurrentBelongs ==
    ASSUME TypeOK, Ownership, NEW r \in InFlight
    PROVE  /\ Current(req[r]) \in Id \cup {None}
           /\ Current(req[r]) # None => Belongs(Current(req[r]), req[r].browser)
           /\ ~Rotated(req[r]) => Current(req[r]) \in {req[r].presented, None}
<1>1. OwnAs(r, at[r], req[r]) /\ req[r].presented \in Id \cup {None} /\ r \in Request
  BY InFlightFacts DEF Ownership, RequestsOwn
<1>2. CASE req[r].cookie = <<>>
  BY <1>1, <1>2 DEF OwnAs, Current
<1>3. CASE req[r].cookie = <<None>>
  <2>1. Current(req[r]) = None
    BY <1>3 DEF Current
  <2> QED
    BY <2>1
<1>4. CASE \E l \in Levels : req[r].cookie = <<(<<r, l>>)>>
  <2>1. PICK l \in Levels : req[r].cookie = <<(<<r, l>>)>>
    BY <1>4
  <2>2. Current(req[r]) = <<r, l>> /\ <<r, l>> \in Id
    BY <1>1, <2>1 DEF Current, Id
  <2>3. <<r, l>> # None
    BY <2>2, SessionAssumption
  <2>4. Rotated(req[r])
    BY <2>1, <2>3 DEF Rotated
  <2> QED
    BY <1>1, <2>2, <2>4 DEF OwnAs
<1> QED
  BY <1>1, <1>2, <1>3, <1>4 DEF OwnAs

\* What a request has done to its sessions outlasts a calm step.
LEMMA QuietLasts ==
    ASSUME NEW r, NEW p, NEW c, NEW b \in Browser, b = c.browser, Calm(b), QuietAs(r, p, c),
           Current(c) \in Id \cup {None}, Current(c) # None => Belongs(Current(c), b),
           <<r, c.level>> \in Id, Belongs(<<r, c.level>>, b)
    PROVE  QuietAs(r, p, c)'
<1>1. p # "saved" => Held(b, Current(c))' /\ Only(b, {Current(c)})'
  BY CalmKeeps, CalmOnly DEF QuietAs
<1>2. p = "saved" => Held(b, <<r, c.level>>)' /\ Only(b, {c.presented, <<r, c.level>>})'
  BY CalmKeeps, CalmOnly DEF QuietAs
<1>3. ~Good(b, c.presented) => ~Good(b, c.presented)'
  BY CalmKeeps
<1> QED
  BY <1>1, <1>2, <1>3 DEF QuietAs

\* The ids that one request has to do with are its browser's.
LEMMA IdsBelong ==
    ASSUME TypeOK, Ownership, NEW r \in InFlight
    PROVE  /\ <<r, req[r].level>> \in Id /\ Belongs(<<r, req[r].level>>, req[r].browser)
           /\ req[r].presented # None => Belongs(req[r].presented, req[r].browser)
<1>1. OwnAs(r, at[r], req[r]) /\ req[r].level \in Levels /\ <<r, req[r].level>> \in Id
  BY InFlightFacts DEF Ownership, RequestsOwn
<1> QED
  BY <1>1 DEF OwnAs

\* A request whose browser sees a calm step of others is where it was.
LEMMA QuietStays ==
    ASSUME TypeOK, Ownership, NEW o \in InFlight, Calm(req[o].browser),
           QuietAs(o, at[o], req[o]), at'[o] = at[o], req'[o] = req[o]
    PROVE  QuietAs(o, at[o], req[o])'
<1>1. PICK p, c : p = at[o] /\ c = req[o]
  OBVIOUS
<1>2. PICK b \in Browser : b = c.browser
  BY <1>1, InFlightFacts
<1>3. Calm(b) /\ QuietAs(o, p, c)
  BY <1>1, <1>2
<1>4. Current(c) \in Id \cup {None} /\ (Current(c) # None => Belongs(Current(c), b))
  BY <1>1, <1>2, CurrentBelongs
<1>5. <<o, c.level>> \in Id /\ Belongs(<<o, c.level>>, b)
  BY <1>1, <1>2, IdsBelong
<1>6. QuietAs(o, p, c)'
  BY <1>2, <1>3, <1>4, <1>5, QuietLasts
<1>7. at'[o] = p /\ req'[o] = c
  BY <1>1
<1> QED
  BY <1>6, <1>7 DEF QuietAs, Held, Only, Good

\* Steps that are calm for a browser: those that save nothing and destroy nothing of its
\* own, or end what they destroy.
LEMMA NothingIsCalm ==
    ASSUME UNCHANGED <<store, ended>>, accounts' \subseteq accounts
    PROVE  \A b \in Browser : Calm(b)
  BY DEF Calm

LEMMA EndIsCalm ==
    ASSUME TypeOK, NEW ids, End(ids), accounts' = accounts
    PROVE  \A b \in Browser : Calm(b)
<1>1. \A i \in Id : store'[i] = IF i \in ids THEN None ELSE store[i]
  BY DEF End
<1>2. ended' = ended \cup ids
  BY DEF End
<1> QED
  BY <1>1, <1>2 DEF Calm

LEMMA SaveIsCalm ==
    ASSUME TypeOK, NEW r \in InFlight, NEW u,
           store' = [store EXCEPT ![NewId(r)] = NewSession(r, u)],
           NewSession(r, u) # None, ended' = ended, accounts' = accounts
    PROVE  \A b \in Browser \ {req[r].browser} : Calm(b)
<1>1. \A i \in Id : store'[i] = IF i = NewId(r) THEN NewSession(r, u) ELSE store[i]
  BY DEF TypeOK
<1>2. NewSession(r, u).browser = req[r].browser
  BY DEF NewSession
<1> QED
  BY <1>1, <1>2 DEF Calm

LEMMA DestroyIsCalm ==
    ASSUME TypeOK, NEW x \in Id, NEW d, Belongs(x, d), store' = [store EXCEPT ![x] = None],
           ended' = ended, accounts' = accounts
    PROVE  \A b \in Browser \ {d} : Calm(b)
<1>1. \A i \in Id : store'[i] = IF i = x THEN None ELSE store[i]
  BY DEF TypeOK
<1> QED
  BY <1>1 DEF Calm, Belongs

\* A request at work that leaves the jars alone: for other browsers its step is calm, and
\* its own has no other request.
LEMMA StepQuiet ==
    ASSUME TypeOK, Ownership, Quiet, NEW r \in InFlight,
           NEW p \in Places \ {"new", "done"}, NEW c, Keeps(r, c), Goes(r, p, c),
           \A b \in Browser \ {req[r].browser} : Calm(b),
           req[r].browser \notin disturbed => QuietAs(r, p, c)',
           jar' = jar, disturbed' = disturbed
    PROVE  Quiet'
<1>1. r \in Request /\ p \in Places /\ c \in Context \cup {None}
  BY InFlightFacts DEF Keeps
<1>2. /\ at'[r] = p /\ req'[r] = c
      /\ \A o \in Request \ {r} : at'[o] = at[o] /\ req'[o] = req[o]
  BY <1>1, GoesOn
<1>3. InFlight' = InFlight
  BY <1>1, <1>2 DEF InFlight
<1>4. \A o \in InFlight : req'[o].browser = req[o].browser /\ req'[o].presented = req[o].presented
  BY <1>2 DEF Keeps, InFlight
<1>5. OneAtATime'
  BY <1>3, <1>4 DEF Quiet, OneAtATime
<1>6. QuietIdle'
  <2>1. SUFFICES ASSUME NEW b \in Browser \ disturbed, Idle(b)'
                 PROVE  Held(b, jar[b])' /\ Only(b, {jar[b]})'
    BY DEF QuietIdle
  <2>2. Idle(b) /\ b # req[r].browser
    BY <1>3, <1>4, <2>1 DEF Idle
  <2>3. PICK j : j = jar[b]
    OBVIOUS
  <2>4. Held(b, j) /\ Only(b, {j})
    BY <2>1, <2>2, <2>3 DEF Quiet, QuietIdle
  <2>5. j \in Id \cup {None} /\ (j # None => Belongs(j, b))
    BY <2>3 DEF TypeOK, Ownership, JarsOwn
  <2>6. Held(b, j)' /\ Only(b, {j})'
    BY <2>2, <2>4, <2>5, CalmKeeps, CalmOnly
  <2>7. jar'[b] = j
    BY <2>3
  <2> QED
    BY <2>6, <2>7 DEF Held, Only, Good
<1>7. QuietWork'
  <2>1. SUFFICES ASSUME NEW o \in InFlight, req'[o].browser \notin disturbed
                 PROVE  /\ QuietAs(o, at[o], req[o])'
                        /\ req'[o].presented = jar[req'[o].browser]
    BY <1>3 DEF QuietWork
  <2>2. req[o].browser \notin disturbed
    BY <1>4, <2>1
  <2>3. req'[o].presented = jar[req'[o].browser]
    BY <1>4, <2>2 DEF Quiet, QuietWork
  <2>4. CASE o = r
    <3>1. QuietAs(r, p, c)'
      BY <2>2, <2>4
    <3> QED
      BY <1>2, <2>3, <2>4, <3>1 DEF QuietAs, Held, Only, Good
  <2>5. CASE o # r
    <3>1. req[o].browser # req[r].browser
      BY <2>2, <2>5 DEF Quiet, OneAtATime
    <3>2. Calm(req[o].browser) /\ at'[o] = at[o] /\ req'[o] = req[o]
      BY <1>2, <2>5, <3>1, InFlightFacts DEF InFlight
    <3>3. QuietAs(o, at[o], req[o])
      BY <2>2 DEF Quiet, QuietWork
    <3>4. QuietAs(o, at[o], req[o])'
      BY <3>2, <3>3, QuietStays
    <3> QED
      BY <2>3, <3>4
  <2> QED
    BY <2>4, <2>5
<1> QED
  BY <1>5, <1>6, <1>7 DEF Quiet
-----------------------------------------------------------------------------
\* What the quiet steps use of the request that is at work.
LEMMA Own ==
    ASSUME TypeOK, Ownership, Quiet, NEW r \in InFlight
    PROVE  /\ OwnAs(r, at[r], req[r])
           /\ req[r].browser \notin disturbed => QuietAs(r, at[r], req[r])
           /\ Keeps(r, req[r])
  BY InFlightFacts DEF Ownership, RequestsOwn, Quiet, QuietWork, Keeps, TypeOK

\* A step that leaves the store alone: what holds of the sessions, holds afterwards.
LEMMA StillQuiet ==
    ASSUME NEW r, NEW p, NEW c, QuietAs(r, p, c), UNCHANGED <<store, accounts, ended>>
    PROVE  QuietAs(r, p, c)'
  BY DEF QuietAs, Held, Only, Good

\* A request without a cookie, or whose cookie proved to be no session, goes on or is
\* answered.
LEMMA TurnedAway ==
    ASSUME NEW r, NEW d, NEW c, NEW p \in {"guard", "answered"},
           c.kind = d.kind, c.browser = d.browser, c.presented = d.presented,
           c.cookie = d.cookie, c.token = d.token, c.user = d.user,
           Held(d.browser, Current(d)), Only(d.browser, {Current(d)}),
           ~Good(d.browser, d.presented), ~Rotated(d),
           d.token # None => Current(d) \in {d.token, None},
           d.token = None => Current(d) = None,
           d.kind = "login" => d.presented = None
    PROVE  QuietAs(r, p, c)
<1>1. Current(c) = Current(d) /\ ~Rotated(c)
  BY DEF Current, Rotated
<1> QED
  BY <1>1 DEF QuietAs

LEMMA NoCookieQuiet ==
    ASSUME TypeOK, Ownership, Quiet, NEW r \in InFlight, NoCookie(r)
    PROVE  Quiet'
<1>1. /\ req[r].level <= Len(Guards[req[r].kind]) /\ at[r] = "guard"
      /\ req[r].presented = None /\ TurnAway(r, req[r]) /\ Keeps(r, req[r])
      /\ UNCHANGED <<now, store, accounts, jar, ended, disturbed>>
  BY Own DEF NoCookie, AtGuard, Stack, history
<1>2. PICK c, p : /\ p \in {"guard", "answered"} /\ Keeps(r, c) /\ Goes(r, p, c)
                  /\ c.cookie = req[r].cookie /\ c.token = req[r].token
                  /\ c.user = req[r].user
  BY <1>1, TurnAwayGoesOn
<1>3. p \in Places \ {"new", "done"}
  BY <1>2 DEF Places
<1>4. ASSUME req[r].browser \notin disturbed PROVE QuietAs(r, p, c)'
  <2>1. PICK d : d = req[r]
    OBVIOUS
  <2>2. QuietAs(r, "guard", d) /\ d.presented = None
    BY <1>1, <1>4, <2>1, Own
  <2>3. ~Rotated(d)
    BY <2>2 DEF QuietAs
  <2>4. Current(d) = None
    BY <1>1, <2>1, <2>3, CurrentBelongs
  <2>5. Held(d.browser, Current(d)) /\ Only(d.browser, {Current(d)})
    BY <2>2 DEF QuietAs
  <2>6. ~Good(d.browser, d.presented)
    BY <2>2 DEF Good
  <2>7. c.kind = d.kind /\ c.browser = d.browser /\ c.presented = d.presented
    BY <1>2, <2>1 DEF Keeps
  <2>8. QuietAs(r, p, c)
    BY <1>2, <2>1, <2>2, <2>3, <2>4, <2>5, <2>6, <2>7, TurnedAway
  <2> QED
    BY <1>1, <2>8, StillQuiet
<1>5. \A b \in Browser : Calm(b)
  BY <1>1, NothingIsCalm
<1> QED
  BY <1>1, <1>2, <1>3, <1>4, <1>5, StepQuiet

LEMMA FindQuiet ==
    ASSUME TypeOK, Ownership, Quiet, NEW r \in InFlight, Find(r)
    PROVE  Quiet'
<1>1. PICK c : c = [req[r] EXCEPT !.found = store[req[r].presented]]
  OBVIOUS
<1>2. /\ Goes(r, "found", c) /\ at[r] = "guard" /\ req[r].presented \in Id
      /\ req[r].level <= Len(Guards[req[r].kind])
      /\ UNCHANGED <<now, store, accounts, jar, ended, disturbed>>
  BY <1>1, InFlightFacts DEF Find, AtGuard, Stack, history
<1>3. c \in Context
  BY <1>1, <1>2, InFlightFacts DEF TypeOK, Context
<1>4. /\ c.kind = req[r].kind /\ c.browser = req[r].browser /\ c.presented = req[r].presented
      /\ c.level = req[r].level /\ c.token = req[r].token /\ c.user = req[r].user
      /\ c.cookie = req[r].cookie /\ c.status = req[r].status
  BY <1>1, InFlightFacts DEF Context
<1>5. Keeps(r, c) /\ "found" \in Places \ {"new", "done"}
  BY <1>2, <1>3, <1>4, Own DEF Keeps, Places
<1>6. ASSUME req[r].browser \notin disturbed PROVE QuietAs(r, "found", c)'
  <2>1. PICK d : d = req[r]
    OBVIOUS
  <2>2. QuietAs(r, "guard", d) /\ d.level <= Len(Guards[d.kind])
    BY <1>2, <1>6, <2>1, Own
  <2>3. Current(c) = Current(d) /\ (Rotated(c) <=> Rotated(d))
    BY <1>4, <2>1 DEF Current, Rotated
  <2>4. QuietAs(r, "found", c)
    BY <1>4, <2>1, <2>2, <2>3 DEF QuietAs
  <2> QED
    BY <1>2, <2>4, StillQuiet
<1>7. \A b \in Browser : Calm(b)
  BY <1>2, NothingIsCalm
<1> QED
  BY <1>2, <1>5, <1>6, <1>7, StepQuiet

\* A request between the find and its end has not rotated: Current is what it came with,
\* or nothing when a guard before has cleared it.
LEMMA Unrotated ==
    ASSUME TypeOK, Ownership, Quiet, NEW r \in InFlight, req[r].browser \notin disturbed,
           at[r] \in {"found", "looked"}
    PROVE  /\ ~Rotated(req[r]) /\ Current(req[r]) \in {req[r].presented, None}
           /\ req[r].presented \in Id /\ req[r].presented # None
           /\ Only(req[r].browser, {req[r].presented})
           /\ store[req[r].presented] = None => ~Good(req[r].browser, req[r].presented)
<1>1. PICK d, p : d = req[r] /\ p = at[r]
  OBVIOUS
<1>2. QuietAs(r, p, d) /\ OwnAs(r, p, d) /\ d.presented \in Id \cup {None}
  BY <1>1, Own, InFlightFacts
<1>3. d.presented # None /\ ~Rotated(d)
  BY <1>1, <1>2 DEF OwnAs, QuietAs
<1>4. Current(d) \in {d.presented, None}
  BY <1>1, <1>3, CurrentBelongs
<1>5. Only(d.browser, {d.presented})
  <2>1. Only(d.browser, {Current(d)}) /\ None \notin Id
    BY <1>1, <1>2, SessionAssumption DEF QuietAs
  <2> QED
    BY <1>4, <2>1 DEF Only
<1>6. store[d.presented] = None => ~Good(d.browser, d.presented)
  <2>1. CASE d.cookie = <<>>
    <3>1. Current(d) = d.presented
      BY <2>1 DEF Current
    <3> QED
      BY <1>1, <1>2, <3>1 DEF QuietAs, Held
  <2>2. CASE d.cookie = <<None>>
    BY <1>1, <1>2, <2>2 DEF QuietAs
  <2> QED
    BY <1>3, <2>1, <2>2 DEF Rotated
<1> QED
  BY <1>1, <1>2, <1>3, <1>4, <1>5, <1>6

LEMMA RejectQuiet ==
    ASSUME TypeOK, Ownership, Quiet, NEW r \in InFlight, Reject(r)
    PROVE  Quiet'
<1>1. PICK d : d = [req[r] EXCEPT !.cookie = <<None>>]
  OBVIOUS
<1>2. /\ TurnAway(r, d) /\ at[r] = "found" /\ UNCHANGED <<now, accounts, jar, disturbed>>
      /\ \/ req[r].found = None /\ UNCHANGED <<store, ended>>
         \/ End({req[r].presented})
  BY <1>1 DEF Reject
<1>3. OwnAs(r, "found", req[r]) /\ req[r].level <= Len(Guards[req[r].kind])
  BY <1>2, Own DEF OwnAs
<1>4. /\ Keeps(r, d) /\ d.level = req[r].level /\ d.cookie = <<None>>
      /\ d.token = req[r].token /\ d.user = req[r].user
  BY <1>1, Cleared
<1>5. PICK c, p : /\ p \in {"guard", "answered"} /\ Keeps(r, c) /\ Goes(r, p, c)
                  /\ c.cookie = <<None>> /\ c.token = req[r].token /\ c.user = req[r].user
  BY <1>2, <1>3, <1>4, TurnAwayGoesOn
<1>6. p \in Places \ {"new", "done"}
  BY <1>5 DEF Places
<1>7. \A b \in Browser : Calm(b)
  BY <1>2, NothingIsCalm, EndIsCalm
<1>8. ASSUME req[r].browser \notin disturbed PROVE QuietAs(r, p, c)'
  <2>1. PICK b \in Browser, x \in Id : b = req[r].browser /\ x = req[r].presented
    BY <1>2, <1>8, Unrotated, InFlightFacts
  <2>2. Only(b, {x}) /\ (store[x] = None => ~Good(b, x)) /\ x # None
    BY <1>2, <1>8, <2>1, Unrotated
  <2>3. /\ store'[x] = None /\ (store[x] = None \/ x \in ended')
        /\ \A i \in Id : store'[i] \in {store[i], None}
    <3>1. CASE req[r].found = None /\ UNCHANGED <<store, ended>>
      BY <1>3, <2>1, <2>2, <3>1 DEF OwnAs
    <3>2. CASE End({req[r].presented})
      <4>1. \A i \in Id : store'[i] = IF i \in {x} THEN None ELSE store[i]
        BY <2>1, <3>2 DEF End
      <4>2. ended' = ended \cup {x}
        BY <2>1, <3>2 DEF End
      <4> QED
        BY <4>1, <4>2
    <3> QED
      BY <1>2, <3>1, <3>2
  <2>4. ~Good(b, x)'
    <3>1. ~Good(b, x) => ~Good(b, x)'
      BY <1>7, CalmKeeps
    <3> QED
      BY <2>2, <2>3, <3>1 DEF Good
  <2>5. Only(b, {None})'
    BY <1>2, <2>2, <2>3 DEF Only
  <2>6. Current(c) = None /\ ~Rotated(c)
    BY <1>5 DEF Current, Rotated
  <2>7. c.browser = b /\ c.presented = x /\ c.kind = req[r].kind
    BY <1>5, <2>1 DEF Keeps
  <2>8. c.kind = "login" => c.presented = None
    <3>1. PICK k : k = req[r]
      OBVIOUS
    <3>2. QuietAs(r, "found", k)
      BY <1>2, <1>8, <3>1, Own
    <3> QED
      BY <2>1, <2>7, <3>1, <3>2 DEF QuietAs
  <2>9. Held(b, None)'
    BY DEF Held, Good
  <2> QED
    BY <1>5, <2>4, <2>5, <2>6, <2>7, <2>8, <2>9 DEF QuietAs
<1> QED
  BY <1>2, <1>5, <1>6, <1>7, <1>8, StepQuiet

LEMMA LookUpQuiet ==
    ASSUME TypeOK, Ownership, Quiet, NEW r \in InFlight, LookUp(r)
    PROVE  Quiet'
<1>1. /\ at[r] = "found" /\ UNCHANGED <<now, store, accounts, jar, ended, disturbed>>
      /\ OwnAs(r, "found", req[r]) /\ req[r].found # None /\ Keeps(r, req[r])
  BY Own DEF LookUp, history
<1>2. \A b \in Browser : Calm(b)
  BY <1>1, NothingIsCalm
<1>3. CASE Goes(r, "looked", req[r])
  <2>1. PICK c : c = req[r]
    OBVIOUS
  <2>2. Keeps(r, c) /\ Goes(r, "looked", c) /\ "looked" \in Places \ {"new", "done"}
    BY <1>1, <1>3, <2>1 DEF Places
  <2>3. ASSUME req[r].browser \notin disturbed PROVE QuietAs(r, "looked", c)'
    <3>1. QuietAs(r, "found", c)
      BY <1>1, <2>1, <2>3, Own
    <3>2. QuietAs(r, "looked", c)
      BY <3>1 DEF QuietAs
    <3> QED
      BY <1>1, <3>2, StillQuiet
  <2> QED
    BY <1>1, <1>2, <2>2, <2>3, StepQuiet
<1>4. CASE /\ req[r].found.user \notin accounts
           /\ TurnAway(r, [req[r] EXCEPT !.cookie = <<None>>])
  <2>1. PICK d : d = [req[r] EXCEPT !.cookie = <<None>>]
    OBVIOUS
  <2>2. /\ Keeps(r, d) /\ d.level = req[r].level /\ d.cookie = <<None>>
        /\ d.token = req[r].token /\ d.user = req[r].user /\ TurnAway(r, d)
    BY <1>4, <2>1, Cleared
  <2>3. req[r].level <= Len(Guards[req[r].kind]) /\ UserOf[req[r].browser] \notin accounts
    BY <1>1, <1>4 DEF OwnAs
  <2>4. PICK c, p : /\ p \in {"guard", "answered"} /\ Keeps(r, c) /\ Goes(r, p, c)
                    /\ c.cookie = <<None>> /\ c.token = req[r].token
                    /\ c.user = req[r].user
    BY <2>2, <2>3, TurnAwayGoesOn
  <2>5. p \in Places \ {"new", "done"}
    BY <2>4 DEF Places
  <2>6. ASSUME req[r].browser \notin disturbed PROVE QuietAs(r, p, c)'
    <3>1. Current(c) = None /\ ~Rotated(c)
      BY <2>4 DEF Current, Rotated
    <3>2. c.kind = "login" => c.presented = None
      <4>1. PICK k : k = req[r]
        OBVIOUS
      <4>2. QuietAs(r, "found", k)
        BY <1>1, <2>6, <4>1, Own
      <4> QED
        BY <2>4, <4>1, <4>2 DEF QuietAs, Keeps
    <3>3. UserOf[c.browser] \notin accounts
      BY <2>3, <2>4 DEF Keeps
    <3>4. QuietAs(r, p, c)
      BY <2>4, <3>1, <3>2, <3>3 DEF QuietAs, Held, Only, Good
    <3> QED
      BY <1>1, <3>4, StillQuiet
  <2> QED
    BY <1>1, <1>2, <2>4, <2>5, <2>6, StepQuiet
<1> QED
  BY <1>3, <1>4 DEF LookUp

LEMMA AcceptQuiet ==
    ASSUME TypeOK, Ownership, Quiet, NEW r \in InFlight, Accept(r)
    PROVE  Quiet'
<1>1. /\ at[r] = "looked" /\ UNCHANGED <<now, store, accounts, jar, ended, disturbed>>
      /\ OwnAs(r, "looked", req[r]) /\ Keeps(r, req[r]) /\ Proceed(r, req[r])
  BY Own DEF Accept, history
<1>2. /\ req[r].found \in Session /\ req[r].presented # None
      /\ req[r].level <= Len(Guards[req[r].kind])
  BY <1>1, InFlightFacts DEF OwnAs, Context
<1>3. PICK c : /\ Keeps(r, c) /\ Goes(r, "guard", c) /\ c.cookie = req[r].cookie
               /\ c.token = IF req[r].token = None THEN req[r].presented ELSE req[r].token
               /\ c.level = req[r].level + 1 /\ c.status = req[r].status /\ c.user # None
  BY <1>1, <1>2, ProceedGoesOn DEF Keeps
<1>4. ASSUME req[r].browser \notin disturbed PROVE QuietAs(r, "guard", c)'
  <2>1. PICK d : d = req[r]
    OBVIOUS
  <2>2. QuietAs(r, "looked", d) /\ ~Rotated(d) /\ Current(d) \in {d.presented, None}
    BY <1>1, <1>4, <2>1, Own, Unrotated
  <2>3. Current(c) = Current(d) /\ ~Rotated(c)
    BY <1>3, <2>1, <2>2 DEF Current, Rotated, Keeps
  <2>4. /\ c.kind = d.kind /\ c.browser = d.browser /\ c.presented = d.presented
        /\ c.token = IF d.token = None THEN d.presented ELSE d.token
        /\ c.cookie = d.cookie /\ c.status = d.status /\ d.presented # None
    BY <1>2, <1>3, <2>1 DEF Keeps
  <2>5. QuietAs(r, "guard", c)
    BY <1>3, <2>2, <2>3, <2>4 DEF QuietAs
  <2> QED
    BY <1>1, <2>5, StillQuiet
<1>5. (\A b \in Browser : Calm(b)) /\ "guard" \in Places \ {"new", "done"}
  BY <1>1, NothingIsCalm DEF Places
<1> QED
  BY <1>1, <1>3, <1>4, <1>5, StepQuiet

LEMMA SaveNewQuiet ==
    ASSUME TypeOK, Ownership, Quiet, NEW r \in InFlight, SaveNew(r)
    PROVE  Quiet'
<1>1. /\ at[r] = "looked" /\ UNCHANGED <<now, accounts, jar, ended, disturbed>>
      /\ OwnAs(r, "looked", req[r]) /\ Keeps(r, req[r]) /\ req[r].kind \in Rotates
  BY Own DEF SaveNew, history
<1>2. PICK u : u = req[r].found.user
  OBVIOUS
<1>3. u \in User /\ u = UserOf[req[r].browser]
  BY <1>1, <1>2, InFlightFacts DEF OwnAs, Context, Session
<1>4. store' = [store EXCEPT ![NewId(r)] = NewSession(r, u)]
  BY <1>2 DEF SaveNew
<1>5. NewSession(r, u) # None
  <2>1. NewSession(r, u) \in Session
    <3>1. now + Lifetime \in Nat
      BY SessionAssumption DEF TypeOK
    <3> QED
      BY <1>3, <3>1, InFlightFacts DEF NewSession, Session
  <2> QED
    BY <2>1, SessionAssumption
<1>6. PICK c : c = req[r]
  OBVIOUS
<1>7. Keeps(r, c) /\ Goes(r, "saved", c) /\ "saved" \in Places \ {"new", "done"}
  BY <1>1, <1>6 DEF SaveNew, Places
<1>8. ASSUME req[r].browser \notin disturbed PROVE QuietAs(r, "saved", c)'
  <2>1. QuietAs(r, "looked", c) /\ ~Rotated(c) /\ Only(c.browser, {c.presented})
    BY <1>1, <1>6, <1>8, Own, Unrotated
  <2>2. PICK n \in Id : n = <<r, c.level>> /\ n = NewId(r)
    BY <1>6, InFlightFacts
  <2>3. \A i \in Id : store'[i] = IF i = n THEN NewSession(r, u) ELSE store[i]
    BY <1>4, <2>2 DEF TypeOK
  <2>4. Held(c.browser, n)'
    BY <1>5, <2>3 DEF Held
  <2>5. Only(c.browser, {c.presented, n})'
    BY <1>1, <2>1, <2>3 DEF Only
  <2>6. Good(c.browser, c.presented)' <=> Good(c.browser, c.presented)
    BY <1>1 DEF Good
  <2> QED
    BY <1>1, <1>6, <2>1, <2>2, <2>4, <2>5, <2>6 DEF QuietAs
<1>9. \A b \in Browser \ {req[r].browser} : Calm(b)
  BY <1>1, <1>4, <1>5, SaveIsCalm
<1> QED
  BY <1>1, <1>7, <1>8, <1>9, StepQuiet

\* The id the request came with is gone, and the browser will hold the replacement; with
\* one guard to rotate, no other one looks for the id that is gone.
LEMMA DestroyOldQuiet ==
    ASSUME TypeOK, Ownership, Quiet, OneRotation, NEW r \in InFlight, DestroyOld(r)
    PROVE  Quiet'
<1>1. /\ at[r] = "saved" /\ UNCHANGED <<now, accounts, jar, ended, disturbed>>
      /\ OwnAs(r, "saved", req[r]) /\ store' = [store EXCEPT ![req[r].presented] = None]
  BY Own DEF DestroyOld, history
<1>2. /\ req[r].found \in Session /\ req[r].presented \in Id /\ req[r].presented # None
      /\ req[r].level <= Len(Guards[req[r].kind])
  BY <1>1, InFlightFacts DEF OwnAs, Context
<1>3. PICK d : d = [req[r] EXCEPT !.cookie = <<NewId(r)>>, !.token = NewId(r)]
  OBVIOUS
<1>4. Proceed(r, d)
  BY <1>3 DEF DestroyOld
<1>5. /\ d \in Context /\ d.level = req[r].level /\ d.cookie = <<NewId(r)>>
      /\ d.token = NewId(r) /\ d.kind = req[r].kind /\ d.found = req[r].found
      /\ d.browser = req[r].browser /\ d.presented = req[r].presented
      /\ d.status = req[r].status
  <2>1. <<NewId(r)>> \in SetCookies
    BY InFlightFacts DEF SetCookies
  <2> QED
    BY <1>3, <2>1, InFlightFacts DEF Context
<1>6. PICK c : /\ Keeps(r, c) /\ Goes(r, "guard", c) /\ c.cookie = <<NewId(r)>>
               /\ c.token = IF NewId(r) = None THEN d.presented ELSE NewId(r)
               /\ c.level = req[r].level + 1 /\ c.status = req[r].status /\ c.user # None
  BY <1>2, <1>4, <1>5, ProceedGoesOn
<1>7. ASSUME req[r].browser \notin disturbed PROVE QuietAs(r, "guard", c)'
  <2>1. PICK k : k = req[r]
    OBVIOUS
  <2>2. QuietAs(r, "saved", k)
    BY <1>1, <1>7, <2>1, Own
  <2>3. PICK n \in Id : n = NewId(r) /\ n = <<r, k.level>>
    BY <2>1, InFlightFacts
  <2>4. n # None /\ n # k.presented
    <3>1. at[r] # "done" /\ k.level # 0
      BY <1>1, <2>1, InFlightFacts DEF Levels
    <3>2. OwnAs(r, "saved", k) /\ k.presented # None
      BY <1>1, <1>2, <2>1
    <3>3. GivenOut(k.presented)
      BY <3>2 DEF OwnAs
    <3> QED
      BY <2>3, <3>1, <3>3, SessionAssumption DEF GivenOut
  <2>5. \A i \in Id : store'[i] = IF i = k.presented THEN None ELSE store[i]
    BY <1>1, <2>1 DEF TypeOK
  <2>6. Current(c) = n /\ c.token = n
    BY <1>6, <2>3, <2>4 DEF Current
  <2>7. Held(k.browser, n)'
    BY <1>1, <2>2, <2>3, <2>4, <2>5 DEF QuietAs, Held, Good
  <2>8. Only(k.browser, {n})'
    BY <1>1, <2>2, <2>3, <2>5 DEF QuietAs, Only
  <2>9. ~(c.level <= Len(Guards[c.kind]))
    <3>1. k.kind \in Rotates /\ c.kind = k.kind
      BY <1>6, <2>1, <2>2 DEF QuietAs, Keeps
    <3>2. Len(Guards[k.kind]) <= 1
      BY <3>1 DEF OneRotation
    <3>3. PICK m \in 0..2 : m = Len(Guards[k.kind])
      BY <2>1, InFlightFacts
    <3>4. PICK l \in Levels : l = k.level
      BY <2>1, InFlightFacts
    <3>5. m <= 1 /\ c.level = l + 1
      BY <1>6, <2>1, <3>2, <3>3, <3>4
    <3>6. ~(c.level <= m)
      BY <3>5 DEF Levels
    <3> QED
      BY <3>1, <3>3, <3>6, Zenon
  <2>10. Good(k.browser, k.presented)' <=> Good(k.browser, k.presented)
    BY <1>1 DEF Good
  <2>11. /\ c.kind = k.kind /\ c.browser = k.browser /\ c.presented = k.presented
         /\ c.status = k.status /\ k.presented # None /\ c.cookie = <<n>>
    BY <1>2, <1>6, <2>1, <2>3 DEF Keeps
  <2>12. c.cookie # <<None>>
    BY <2>4, <2>11
  <2> QED
    BY <1>6, <2>2, <2>4, <2>6, <2>7, <2>8, <2>9, <2>10, <2>11, <2>12 DEF QuietAs
<1>8. \A b \in Browser \ {req[r].browser} : Calm(b)
  <2>1. Belongs(req[r].presented, req[r].browser)
    BY <1>2, IdsBelong
  <2> QED
    BY <1>1, <1>2, <2>1, DestroyIsCalm
<1>9. "guard" \in Places \ {"new", "done"}
  BY DEF Places
<1> QED
  BY <1>1, <1>6, <1>7, <1>8, <1>9, StepQuiet
-----------------------------------------------------------------------------
\* A handler's answer adds a status to its context.
LEMMA AnswersGoesOn ==
    ASSUME TypeOK, NEW r \in InFlight, NEW d, Keeps(r, d), d.level = req[r].level,
           NEW status \in {"200", "401"}, Answers(r, status, d)
    PROVE  \E c : /\ Keeps(r, c) /\ Goes(r, "answered", c)
                  /\ c.cookie = d.cookie /\ c.token = d.token /\ c.user = d.user
                  /\ c.level = d.level /\ c.status = status
<1>1. PICK c : c = [d EXCEPT !.status = status]
  OBVIOUS
<1>2. Goes(r, "answered", c)
  BY <1>1 DEF Answers
<1>3. d \in Context
  BY DEF Keeps
<1>4. /\ c \in Context /\ c.kind = d.kind /\ c.browser = d.browser
      /\ c.presented = d.presented /\ c.level = d.level /\ c.cookie = d.cookie
      /\ c.token = d.token /\ c.user = d.user /\ c.status = status
  BY <1>1, <1>3 DEF Context
<1> QED
  BY <1>2, <1>4 DEF Keeps

LEMMA VisitQuiet ==
    ASSUME TypeOK, Ownership, Quiet, NEW r \in InFlight, Visit(r)
    PROVE  Quiet'
<1>1. /\ at[r] = "guard" /\ UNCHANGED <<now, store, accounts, jar, ended, disturbed>>
      /\ Keeps(r, req[r]) /\ Answers(r, "200", req[r])
  BY Own DEF Visit, AtHandler, history
<1>2. PICK c : /\ Keeps(r, c) /\ Goes(r, "answered", c)
               /\ c.cookie = req[r].cookie /\ c.token = req[r].token
               /\ c.user = req[r].user /\ c.level = req[r].level /\ c.status = "200"
  BY <1>1, AnswersGoesOn
<1>3. ASSUME req[r].browser \notin disturbed PROVE QuietAs(r, "answered", c)'
  <2>1. PICK d : d = req[r]
    OBVIOUS
  <2>2. QuietAs(r, "guard", d)
    BY <1>1, <1>3, <2>1, Own
  <2>3. Current(c) = Current(d)
    BY <1>2, <2>1 DEF Current, Keeps
  <2>4. QuietAs(r, "answered", c)
    BY <1>2, <2>1, <2>2, <2>3 DEF QuietAs, Keeps
  <2> QED
    BY <1>1, <2>4, StillQuiet
<1>4. (\A b \in Browser : Calm(b)) /\ "answered" \in Places \ {"new", "done"}
  BY <1>1, NothingIsCalm DEF Places
<1> QED
  BY <1>1, <1>2, <1>3, <1>4, StepQuiet

\* A login that found no cookie makes the browser's first session.
LEMMA LoginQuiet ==
    ASSUME TypeOK, Ownership, Quiet, NEW r \in InFlight, Login(r)
    PROVE  Quiet'
<1>1. /\ at[r] = "guard" /\ UNCHANGED <<now, accounts, jar, ended, disturbed>>
      /\ Keeps(r, req[r]) /\ req[r].kind = "login"
  BY Own DEF Login, AtHandler, history
<1>2. PICK u : u = UserOf[req[r].browser]
  OBVIOUS
<1>3. u \in User /\ u # None
  BY <1>2, InFlightFacts, SessionAssumption
<1>4. "answered" \in Places \ {"new", "done"}
  BY DEF Places
<1>5. CASE u \in accounts
  <2>1. PICK d : d = [req[r] EXCEPT !.cookie = <<NewId(r)>>, !.token = NewId(r), !.user = u]
    OBVIOUS
  <2>2. /\ d \in Context /\ d.kind = req[r].kind /\ d.browser = req[r].browser
        /\ d.presented = req[r].presented /\ d.level = req[r].level
        /\ d.cookie = <<NewId(r)>> /\ d.token = NewId(r) /\ d.user = u
    <3>1. <<NewId(r)>> \in SetCookies
      BY InFlightFacts DEF SetCookies
    <3> QED
      BY <1>3, <2>1, <3>1, InFlightFacts DEF Context
  <2>3. /\ Answers(r, "200", d) /\ Keeps(r, d)
        /\ store' = [store EXCEPT ![NewId(r)] = NewSession(r, u)]
    BY <1>1, <1>2, <1>3, <1>5, <2>1, <2>2 DEF Login, Keeps
  <2>4. PICK c : /\ Keeps(r, c) /\ Goes(r, "answered", c)
                 /\ c.cookie = <<NewId(r)>> /\ c.token = NewId(r)
                 /\ c.user = u /\ c.level = req[r].level /\ c.status = "200"
    BY <2>2, <2>3, AnswersGoesOn
  <2>5. NewSession(r, u) # None
    <3>1. now + Lifetime \in Nat
      BY SessionAssumption DEF TypeOK
    <3>2. NewSession(r, u) \in Session
      BY <1>3, <3>1, InFlightFacts DEF NewSession, Session
    <3> QED
      BY <3>2, SessionAssumption
  <2>6. ASSUME req[r].browser \notin disturbed PROVE QuietAs(r, "answered", c)'
    <3>1. PICK k : k = req[r]
      OBVIOUS
    <3>2. QuietAs(r, "guard", k) /\ k.kind = "login"
      BY <1>1, <2>6, <3>1, Own
    <3>3. k.presented = None /\ ~Rotated(k)
      BY <3>2 DEF QuietAs
    <3>4. Current(k) = None
      BY <3>1, <3>3, CurrentBelongs
    <3>5. Only(k.browser, {None})
      BY <3>2, <3>4 DEF QuietAs
    <3>6. PICK n \in Id : n = NewId(r) /\ n # None
      BY InFlightFacts, SessionAssumption
    <3>7. \A i \in Id : store'[i] = IF i = n THEN NewSession(r, u) ELSE store[i]
      BY <2>3, <3>6 DEF TypeOK
    <3>8. Held(k.browser, n)' /\ Only(k.browser, {n})'
      <4>1. Held(k.browser, n)'
        BY <2>5, <3>7 DEF Held
      <4>2. Only(k.browser, {n})'
        BY <1>1, <3>5, <3>7, SessionAssumption DEF Only
      <4> QED
        BY <4>1, <4>2
    <3>9. Current(c) = n /\ c.browser = k.browser /\ c.presented = None
      BY <2>4, <3>1, <3>3, <3>6 DEF Current, Keeps
    <3> QED
      BY <1>3, <2>4, <3>6, <3>8, <3>9 DEF QuietAs
  <2>7. \A b \in Browser \ {req[r].browser} : Calm(b)
    BY <1>1, <2>3, <2>5, SaveIsCalm
  <2> QED
    BY <1>1, <1>4, <2>4, <2>6, <2>7, StepQuiet
<1>6. CASE u \notin accounts
  <2>1. Answers(r, "401", req[r]) /\ store' = store
    BY <1>2, <1>6 DEF Login
  <2>2. PICK c : /\ Keeps(r, c) /\ Goes(r, "answered", c)
                 /\ c.cookie = req[r].cookie /\ c.token = req[r].token
                 /\ c.user = req[r].user /\ c.level = req[r].level /\ c.status = "401"
    BY <1>1, <2>1, AnswersGoesOn
  <2>3. ASSUME req[r].browser \notin disturbed PROVE QuietAs(r, "answered", c)'
    <3>1. PICK d : d = req[r]
      OBVIOUS
    <3>2. QuietAs(r, "guard", d) /\ UserOf[d.browser] \notin accounts
      BY <1>1, <1>2, <1>6, <2>3, <3>1, Own
    <3>3. Current(c) = Current(d) /\ c.browser = d.browser /\ c.presented = d.presented
          /\ c.kind = d.kind
      BY <2>2, <3>1 DEF Current, Keeps
    <3>4. QuietAs(r, "answered", c)
      BY <2>2, <3>1, <3>2, <3>3 DEF QuietAs, Good
    <3> QED
      BY <1>1, <2>1, <3>4, StillQuiet
  <2>4. \A b \in Browser : Calm(b)
    BY <1>1, <2>1, NothingIsCalm
  <2> QED
    BY <1>1, <1>4, <2>2, <2>3, <2>4, StepQuiet
<1> QED
  BY <1>5, <1>6

\* The handlers that end sessions are behind a guard, so they know the session.
LEMMA BehindAGuard ==
    ASSUME TypeOK, EndsAreGuarded, NEW r \in InFlight, AtHandler(r),
           req[r].kind \in {"logout", "logoutAll"}
    PROVE  req[r].level # 1
<1>1. PICK n \in 0..2 : n = Len(Guards[req[r].kind])
  BY InFlightFacts
<1>2. Len(Guards[req[r].kind]) >= 1
  BY DEF EndsAreGuarded
<1>3. req[r].level = Len(Guards[req[r].kind]) + 1
  BY DEF AtHandler, Stack
<1>4. n >= 1 /\ req[r].level = n + 1
  BY <1>1, <1>2, <1>3
<1> QED
  BY <1>4

LEMMA LogoutQuiet ==
    ASSUME TypeOK, Ownership, Quiet, EndsAreGuarded, NEW r \in InFlight, Logout(r)
    PROVE  Quiet'
<1>1. PICK d, t : d = [req[r] EXCEPT !.cookie = <<None>>] /\ t = req[r].token
  OBVIOUS
<1>2. /\ at[r] = "guard" /\ AtHandler(r) /\ req[r].kind = "logout"
      /\ UNCHANGED <<now, accounts, jar, disturbed>>
      /\ Answers(r, "200", d) /\ End({t} \ {None})
  BY <1>1 DEF Logout, AtHandler
<1>3. /\ Keeps(r, d) /\ d.level = req[r].level /\ d.cookie = <<None>>
      /\ d.token = req[r].token /\ d.user = req[r].user
  BY <1>1, Cleared
<1>4. PICK c : /\ Keeps(r, c) /\ Goes(r, "answered", c) /\ c.cookie = <<None>>
               /\ c.token = t /\ c.user = req[r].user
               /\ c.level = req[r].level /\ c.status = "200"
  <2>1. PICK c : /\ Keeps(r, c) /\ Goes(r, "answered", c) /\ c.cookie = d.cookie
                 /\ c.token = d.token /\ c.user = d.user
                 /\ c.level = d.level /\ c.status = "200"
    BY <1>2, <1>3, AnswersGoesOn
  <2> QED
    BY <1>1, <1>3, <2>1
<1>5. \A b \in Browser : Calm(b)
  BY <1>2, EndIsCalm
<1>6. ASSUME req[r].browser \notin disturbed PROVE QuietAs(r, "answered", c)'
  <2>1. PICK k : k = req[r]
    OBVIOUS
  <2>2. QuietAs(r, "guard", k) /\ k.level # 1 /\ k.token = t
    BY <1>1, <1>2, <1>6, <2>1, Own, BehindAGuard
  <2>3. Current(k) \in {t, None} /\ Only(k.browser, {Current(k)})
    BY <2>2 DEF QuietAs
  <2>4. \A i \in Id : store'[i] = IF i \in {t} \ {None} THEN None ELSE store[i]
    BY <1>2 DEF End
  <2>5. Only(k.browser, {None})'
    BY <1>2, <2>3, <2>4 DEF Only
  <2>6. ~Good(k.browser, k.presented) => ~Good(k.browser, k.presented)'
    BY <1>5, <2>1, CalmKeeps, InFlightFacts
  <2>7. /\ Current(c) = None /\ c.browser = k.browser /\ c.presented = k.presented
        /\ c.kind = k.kind
    BY <1>4, <2>1 DEF Current, Keeps
  <2>8. Held(k.browser, None)'
    BY DEF Held, Good
  <2> QED
    BY <1>4, <2>1, <2>2, <2>5, <2>6, <2>7, <2>8 DEF QuietAs
<1>7. "answered" \in Places \ {"new", "done"}
  BY DEF Places
<1> QED
  BY <1>2, <1>4, <1>5, <1>6, <1>7, StepQuiet

LEMMA LogoutAllQuiet ==
    ASSUME TypeOK, Ownership, Quiet, EndsAreGuarded, NEW r \in InFlight, LogoutAll(r)
    PROVE  Quiet'
<1>1. /\ at[r] = "guard" /\ AtHandler(r) /\ req[r].kind = "logoutAll" /\ Keeps(r, req[r])
      /\ UNCHANGED <<now, accounts, jar, disturbed>>
  BY Own DEF LogoutAll, AtHandler
<1>2. PICK status \in {"200", "401"} :
          Answers(r, status, req[r]) /\ (status = "401" => req[r].user = None)
  BY DEF LogoutAll
<1>3. PICK c : /\ Keeps(r, c) /\ Goes(r, "answered", c)
               /\ c.cookie = req[r].cookie /\ c.token = req[r].token
               /\ c.user = req[r].user /\ c.level = req[r].level /\ c.status = status
  BY <1>1, <1>2, AnswersGoesOn
<1>4. \A b \in Browser : Calm(b)
  <2>1. PICK ids : ids = {i \in Id : store[i] # None /\ store[i].user = req[r].user}
    OBVIOUS
  <2>2. End(ids)
    BY <2>1 DEF LogoutAll
  <2> QED
    BY <1>1, <2>2, EndIsCalm
<1>5. ASSUME req[r].browser \notin disturbed PROVE QuietAs(r, "answered", c)'
  <2>1. PICK k : k = req[r]
    OBVIOUS
  <2>2. QuietAs(r, "guard", k) /\ k.level # 1
    BY <1>1, <1>5, <2>1, Own, BehindAGuard
  <2>3. /\ Current(c) = Current(k) /\ c.browser = k.browser /\ c.presented = k.presented
        /\ c.kind = k.kind /\ c.level = k.level
    BY <1>3, <2>1 DEF Current, Keeps
  <2>4. QuietAs(r, "answered", c)
    BY <1>2, <1>3, <2>1, <2>2, <2>3 DEF QuietAs
  <2>5. PICK b \in Browser : b = c.browser
    BY <2>1, <2>3, InFlightFacts
  <2>6. /\ Current(c) \in Id \cup {None} /\ (Current(c) # None => Belongs(Current(c), b))
        /\ <<r, c.level>> \in Id /\ Belongs(<<r, c.level>>, b)
    BY <2>1, <2>3, <2>5, CurrentBelongs, IdsBelong
  <2> QED
    BY <1>4, <2>4, <2>5, <2>6, QuietLasts
<1>6. "answered" \in Places \ {"new", "done"}
  BY DEF Places
<1> QED
  BY <1>1, <1>3, <1>4, <1>5, <1>6, StepQuiet
-----------------------------------------------------------------------------
\* The sessions of the others are as they were when nothing happens to the store.
LEMMA OthersQuiet ==
    ASSUME TypeOK, Ownership, Quiet, UNCHANGED <<store, ended>>, accounts' \subseteq accounts
    PROVE  /\ \A b \in Browser \ disturbed :
                  Idle(b) /\ jar'[b] = jar[b] => Held(b, jar[b])' /\ Only(b, {jar[b]})'
           /\ \A o \in InFlight :
                  req[o].browser \notin disturbed /\ at'[o] = at[o] /\ req'[o] = req[o] =>
                      QuietAs(o, at[o], req[o])'
<1>1. \A b \in Browser : Calm(b)
  BY NothingIsCalm
<1>2. ASSUME NEW b \in Browser \ disturbed, Idle(b), jar'[b] = jar[b]
      PROVE  Held(b, jar[b])' /\ Only(b, {jar[b]})'
  <2>1. PICK j : j = jar[b]
    OBVIOUS
  <2>2. Held(b, j) /\ Only(b, {j}) /\ j \in Id \cup {None} /\ (j # None => Belongs(j, b))
    BY <1>2, <2>1 DEF Quiet, QuietIdle, TypeOK, Ownership, JarsOwn
  <2>3. Held(b, j)' /\ Only(b, {j})'
    BY <1>1, <2>2, CalmKeeps, CalmOnly
  <2>4. jar'[b] = j
    BY <1>2, <2>1
  <2> QED
    BY <2>3, <2>4 DEF Held, Only, Good
<1>3. ASSUME NEW o \in InFlight, req[o].browser \notin disturbed,
             at'[o] = at[o], req'[o] = req[o]
      PROVE  QuietAs(o, at[o], req[o])'
  BY <1>1, <1>3, QuietStays, InFlightFacts DEF Quiet, QuietWork
<1> QED
  BY <1>2, <1>3

\* A request that is sent is its browser's only one, and knows the cookie that it holds.
LEMMA SendQuiet ==
    ASSUME TypeOK, Ownership, Quiet, NEW r \in Request, NEW b \in Browser, NEW kind \in Kind,
           Send(r, b, kind)
    PROVE  Quiet'
<1>1. PICK c : c = [kind |-> kind, browser |-> b, presented |-> jar[b], level |-> 1,
                    found |-> None, user |-> None, token |-> None, cookie |-> <<>>,
                    status |-> "none"]
  OBVIOUS
<1>2. /\ c.kind = kind /\ c.browser = b /\ c.presented = jar[b] /\ c.level = 1
      /\ c.user = None /\ c.token = None /\ c.cookie = <<>> /\ c.status = "none"
  BY <1>1
<1>3. c \in Context
  BY <1>1 DEF TypeOK, Context, Levels, SetCookies
<1>4. /\ Goes(r, "guard", c) /\ at[r] = "new" /\ "guard" \in Places
      /\ UNCHANGED <<now, store, accounts, jar, ended>>
      /\ disturbed \subseteq disturbed'
      /\ (\E o \in InFlight : req[o].browser = b) => b \in disturbed'
      /\ kind = "login" /\ jar[b] # None => b \in disturbed'
  BY <1>1 DEF Send, Places
<1>5. /\ at'[r] = "guard" /\ req'[r] = c
      /\ \A o \in Request \ {r} : at'[o] = at[o] /\ req'[o] = req[o]
  BY <1>3, <1>4, GoesOn
<1>6. InFlight' = InFlight \cup {r} /\ r \notin InFlight
  BY <1>4, <1>5 DEF InFlight
<1>7. \A o \in InFlight : at'[o] = at[o] /\ req'[o] = req[o]
  BY <1>5, <1>6 DEF InFlight
<1>8. OneAtATime'
  <2>1. SUFFICES ASSUME NEW o \in InFlight \cup {r}, NEW q \in InFlight \cup {r},
                        req'[o].browser = req'[q].browser, req'[o].browser \notin disturbed'
                 PROVE  o = q
    BY <1>6 DEF OneAtATime
  <2>2. CASE o \in InFlight /\ q \in InFlight
    BY <1>4, <1>7, <2>1, <2>2 DEF Quiet, OneAtATime
  <2>3. CASE o = r \/ q = r
    BY <1>2, <1>4, <1>5, <1>7, <2>1, <2>3
  <2> QED
    BY <2>1, <2>2, <2>3
<1>9. QuietIdle'
  <2>1. SUFFICES ASSUME NEW d \in Browser \ disturbed', Idle(d)'
                 PROVE  Held(d, jar[d])' /\ Only(d, {jar[d]})'
    BY DEF QuietIdle
  <2>2. Idle(d) /\ d \notin disturbed /\ jar'[d] = jar[d]
    BY <1>4, <1>6, <1>7, <2>1 DEF Idle
  <2> QED
    BY <1>4, <2>1, <2>2, OthersQuiet
<1>10. QuietWork'
  <2>1. SUFFICES ASSUME NEW o \in InFlight \cup {r}, req'[o].browser \notin disturbed'
                 PROVE  /\ QuietAs(o, at[o], req[o])'
                        /\ req'[o].presented = jar'[req'[o].browser]
    BY <1>6 DEF QuietWork
  <2>2. CASE o = r
    <3>1. Idle(b) /\ b \notin disturbed
      BY <1>2, <1>4, <1>5, <2>1, <2>2 DEF Idle
    <3>2. Held(b, jar[b]) /\ Only(b, {jar[b]})
      BY <3>1 DEF Quiet, QuietIdle
    <3>3. Current(c) = jar[b] /\ ~Rotated(c) /\ c.cookie # <<None>>
      BY <1>2 DEF Current, Rotated
    <3>4. kind = "login" => jar[b] = None
      BY <1>2, <1>4, <1>5, <2>1, <2>2
    <3>5. QuietAs(r, "guard", c)
      BY <1>2, <3>2, <3>3, <3>4 DEF QuietAs
    <3>6. QuietAs(r, "guard", c)'
      BY <1>4, <3>5, StillQuiet
    <3> QED
      BY <1>2, <1>4, <1>5, <2>2, <3>6 DEF QuietAs, Held, Only, Good
  <2>3. CASE o \in InFlight
    <3>1. req[o].browser \notin disturbed /\ at'[o] = at[o] /\ req'[o] = req[o]
      BY <1>4, <1>7, <2>1, <2>3
    <3>2. QuietAs(o, at[o], req[o])'
      BY <1>4, <2>3, <3>1, OthersQuiet
    <3>3. req[o].presented = jar[req[o].browser]
      BY <2>3, <3>1 DEF Quiet, QuietWork
    <3> QED
      BY <1>4, <3>1, <3>2, <3>3
  <2> QED
    BY <2>1, <2>2, <2>3
<1> QED
  BY <1>8, <1>9, <1>10 DEF Quiet

\* The answer leaves the browser with Current, and an answer that is lost disturbs it.
LEMMA DoneQuiet ==
    ASSUME TypeOK, Ownership, Quiet, NEW r \in InFlight, Deliver(r) \/ Lose(r)
    PROVE  Quiet'
<1>0. PICK k : k = req[r]
  OBVIOUS
<1>1. PICK b \in Browser : b = req[r].browser /\ k = req[r]
  BY <1>0, InFlightFacts
<1>2. /\ Goes(r, "done", None) /\ r \in Request /\ "done" \in Places
      /\ UNCHANGED <<now, store, accounts, ended>>
  BY InFlightFacts DEF Deliver, Lose, Places, history
<1>3. /\ at'[r] = "done" /\ req'[r] = None
      /\ \A o \in Request \ {r} : at'[o] = at[o] /\ req'[o] = req[o]
  BY <1>2, GoesOn
<1>4. InFlight' = InFlight \ {r}
  BY <1>2, <1>3 DEF InFlight
<1>5. \A o \in InFlight' : o \in InFlight /\ o # r /\ at'[o] = at[o] /\ req'[o] = req[o]
  BY <1>3, <1>4 DEF InFlight
<1>6. disturbed \subseteq disturbed' /\ \A d \in Browser \ {b} : jar'[d] = jar[d]
  BY <1>1 DEF Deliver, Lose, history, TypeOK
<1>7. b \notin disturbed' => at[r] = "answered" /\ jar'[b] = Current(k)
  <2>1. SUFFICES ASSUME b \notin disturbed' PROVE at[r] = "answered" /\ jar'[b] = Current(k)
    OBVIOUS
  <2>2. Deliver(r)
    BY <1>1, <2>1 DEF Lose
  <2>3. at[r] = "answered" /\ jar'[b] = IF k.cookie = <<>> THEN jar[b] ELSE k.cookie[1]
    BY <1>1, <2>2 DEF Deliver, TypeOK
  <2>4. k.presented = jar[b]
    BY <1>1, <1>6, <2>1 DEF Quiet, QuietWork
  <2> QED
    BY <2>3, <2>4 DEF Current
<1>8. OneAtATime'
  BY <1>5, <1>6 DEF Quiet, OneAtATime
<1>9. QuietIdle'
  <2>1. SUFFICES ASSUME NEW d \in Browser \ disturbed', Idle(d)'
                 PROVE  Held(d, jar[d])' /\ Only(d, {jar[d]})'
    BY DEF QuietIdle
  <2>2. CASE d = b
    <3>1. at[r] = "answered" /\ jar'[b] = Current(k) /\ b \notin disturbed
      BY <1>6, <1>7, <2>1, <2>2
    <3>2. QuietAs(r, "answered", k)
      BY <1>1, <3>1 DEF Quiet, QuietWork
    <3>3. PICK j : j = Current(k)
      OBVIOUS
    <3>4. Held(b, j) /\ Only(b, {j})
      BY <1>1, <3>2, <3>3 DEF QuietAs
    <3> QED
      BY <1>2, <2>2, <3>1, <3>3, <3>4 DEF Held, Only, Good
  <2>3. CASE d # b
    <3>1. Idle(d) /\ d \notin disturbed /\ jar'[d] = jar[d]
      BY <1>1, <1>4, <1>5, <1>6, <2>1, <2>3 DEF Idle
    <3> QED
      BY <1>2, <2>1, <3>1, OthersQuiet
  <2> QED
    BY <2>2, <2>3
<1>10. QuietWork'
  <2>1. SUFFICES ASSUME NEW o \in InFlight', req'[o].browser \notin disturbed'
                 PROVE  /\ QuietAs(o, at[o], req[o])'
                        /\ req'[o].presented = jar'[req'[o].browser]
    BY DEF QuietWork
  <2>2. o \in InFlight /\ o # r /\ at'[o] = at[o] /\ req'[o] = req[o]
    BY <1>5, <2>1
  <2>3. req[o].browser \notin disturbed
    BY <1>6, <2>1, <2>2
  <2>4. req[o].browser \in Browser \ {b}
    BY <1>1, <2>2, <2>3, InFlightFacts DEF Quiet, OneAtATime
  <2>5. QuietAs(o, at[o], req[o])'
    BY <1>2, <2>2, <2>3, OthersQuiet
  <2>6. req[o].presented = jar[req[o].browser]
    BY <2>2, <2>3 DEF Quiet, QuietWork
  <2> QED
    BY <1>6, <2>2, <2>4, <2>5, <2>6
<1> QED
  BY <1>8, <1>9, <1>10 DEF Quiet

LEMMA OutsideQuiet ==
    ASSUME TypeOK, Ownership, Quiet,
           (\E u \in User : CloseAccount(u)) \/ Tick \/ UNCHANGED vars
    PROVE  Quiet'
<1>1. /\ store' = store /\ jar' = jar /\ at' = at /\ req' = req
      /\ ended' = ended /\ disturbed' = disturbed /\ accounts' \subseteq accounts
  BY DEF CloseAccount, Tick, vars, history
<1>2. InFlight' = InFlight
  BY <1>1 DEF InFlight
<1>3. OneAtATime'
  BY <1>1, <1>2 DEF Quiet, OneAtATime
<1>4. QuietIdle'
  <2>1. \A b \in Browser : Idle(b)' <=> Idle(b)
    BY <1>1, <1>2 DEF Idle
  <2> QED
    BY <1>1, <2>1, OthersQuiet DEF QuietIdle
<1>5. QuietWork'
  <2>1. SUFFICES ASSUME NEW o \in InFlight, req[o].browser \notin disturbed
                 PROVE  QuietAs(o, at[o], req[o])' /\ req[o].presented = jar[req[o].browser]
    BY <1>1, <1>2 DEF QuietWork
  <2> QED
    BY <1>1, <2>1, OthersQuiet DEF Quiet, QuietWork
<1> QED
  BY <1>3, <1>4, <1>5 DEF Quiet

LEMMA InitQuiet == Init => Quiet
<1>1. SUFFICES ASSUME Init PROVE Quiet
  OBVIOUS
<1>2. PICK loggedIn \in SUBSET Browser :
        /\ jar = [b \in Browser |-> IF b \in loggedIn THEN <<b, 0>> ELSE None]
        /\ store = [i \in Id |->
              IF \E b \in loggedIn : i = <<b, 0>>
              THEN [user |-> UserOf[i[1]], expires |-> Lifetime, browser |-> i[1]]
              ELSE None]
  BY <1>1 DEF Init
<1>3. InFlight = {}
  BY <1>1 DEF Init, InFlight
<1>4. ASSUME NEW i \in Id, store[i] # None
      PROVE  \E b \in loggedIn : i = <<b, 0>> /\ store[i].browser = b
  <2>1. PICK b \in loggedIn : i = <<b, 0>>
    BY <1>2, <1>4
  <2>2. store[i] = [user |-> UserOf[i[1]], expires |-> Lifetime, browser |-> i[1]]
    BY <1>2, <2>1
  <2> QED
    BY <2>1, <2>2
<1>5. ASSUME NEW b \in Browser PROVE Held(b, jar[b]) /\ Only(b, {jar[b]})
  <2>1. CASE b \in loggedIn
    <3>1. jar[b] = <<b, 0>> /\ <<b, 0>> \in Id
      BY <1>2, <2>1 DEF Id
    <3>2. store[<<b, 0>>] = [user |-> UserOf[b], expires |-> Lifetime, browser |-> b]
      BY <1>2, <2>1, <3>1
    <3>3. [user |-> UserOf[b], expires |-> Lifetime, browser |-> b] \in Session
      BY SessionAssumption DEF Session
    <3>4. store[<<b, 0>>] # None
      BY <3>2, <3>3, SessionAssumption
    <3> QED
      BY <1>4, <3>1, <3>4 DEF Held, Only
  <2>2. CASE b \notin loggedIn
    <3>1. jar[b] = None
      BY <1>2, <2>2
    <3>2. \A i \in Id : ~(store[i] # None /\ store[i].browser = b)
      BY <1>4, <2>2
    <3> QED
      BY <3>1, <3>2 DEF Held, Only, Good
  <2> QED
    BY <2>1, <2>2
<1> QED
  BY <1>3, <1>5 DEF Quiet, OneAtATime, QuietIdle, QuietWork

LEMMA NextQuiet ==
    ASSUME OneRotation, EndsAreGuarded
    PROVE  IInv /\ Quiet /\ [Next]_vars => Quiet'
<1>1. SUFFICES ASSUME TypeOK, Ownership, Quiet, [Next]_vars PROVE Quiet'
  BY DEF IInv
<1>2. CASE \E r \in Request, b \in Browser, kind \in Kind : Send(r, b, kind)
  BY <1>1, <1>2, SendQuiet
<1>3. ASSUME NEW r \in Request, Works(r) PROVE Quiet'
  <2>1. r \in InFlight
    BY <1>3, WorkIsInFlight
  <2> QED
    BY <1>1, <1>3, <2>1, NoCookieQuiet, FindQuiet, RejectQuiet, LookUpQuiet, AcceptQuiet,
       SaveNewQuiet, DestroyOldQuiet, VisitQuiet, LoginQuiet, LogoutQuiet, LogoutAllQuiet,
       DoneQuiet DEF Works
<1>4. CASE (\E u \in User : CloseAccount(u)) \/ Tick \/ UNCHANGED vars
  BY <1>1, <1>4, OutsideQuiet
<1> QED
  BY <1>1, <1>2, <1>3, <1>4 DEF Next, Works

\* The sessions of a browser that nothing disturbed: one request at a time is at work, and
\* what it has done so far to the store and to its answer fits together.
THEOREM QuietInvariance ==
    ASSUME OneRotation, EndsAreGuarded
    PROVE  Spec => []Quiet
<1>1. Init => Quiet
  BY InitQuiet
<1>2. IInv /\ Quiet /\ [Next]_vars => Quiet'
  BY NextQuiet
<1>3. Spec => []IInv
  BY Invariance
<1> QED
  BY <1>1, <1>2, <1>3, PTL DEF Spec

\* guard.user with rotateOnUse never costs a browser its session: when no request of such a
\* browser is at work, the store knows the id in its cookie, unless the session was ended.
THEOREM RotationKeepsSessions ==
    ASSUME OneRotation, EndsAreGuarded
    PROVE  Spec => []KeepsSession
<1>1. Quiet => KeepsSession
  BY DEF Quiet, QuietIdle, KeepsSession, Held
<1> QED
  BY <1>1, QuietInvariance, PTL

\* Rotation destroys what it replaced and endSession what it ends: the store has no session
\* of such a browser but the one in its cookie.
THEOREM NothingIsLeftBehind ==
    ASSUME OneRotation, EndsAreGuarded
    PROVE  Spec => []NoStraySessions
<1>1. Quiet => NoStraySessions
  BY DEF Quiet, QuietIdle, NoStraySessions, Only
<1> QED
  BY <1>1, QuietInvariance, PTL

\* session() answers 401 only to requests that came without a good session.
THEOREM GoodSessionsAreServed ==
    ASSUME OneRotation, EndsAreGuarded
    PROVE  Spec => []ValidSessionServed
<1>1. Quiet => ValidSessionServed
  BY DEF Quiet, QuietWork, QuietAs, ValidSessionServed
<1> QED
  BY <1>1, QuietInvariance, PTL
=============================================================================
