---------------------------- MODULE SessionGuard ----------------------------
(***************************************************************************)
(* Cookie sessions of packages/auth: SessionGuard, the session() middleware *)
(* and startSession / endSession, between browsers that keep one cookie    *)
(* and a session store shared by every worker. Each step below is what the *)
(* code does between two awaits of the store or the user provider.         *)
(*                                                                         *)
(* A request passes the session() middlewares of its kind one level at a   *)
(* time; the level after the last is the route handler. An id comes from   *)
(* 256 random bits and is never issued twice: it is named by what issued   *)
(* it, a request at a level, or by the browser that held it at the start.  *)
(***************************************************************************)
EXTENDS Naturals, Sequences

CONSTANTS Browser, Request, User,
          UserOf,      \* Browser -> User: whose credentials are typed there
          Guards,      \* Kind -> sequence of "optional" | "required", for session()
          Rotates,     \* kinds of request whose guard has rotateOnUse (one guard for
                       \* all, or one that rotates and one that does not)
          Lifetime,    \* SessionConfig.lifetimeSeconds, in ticks
          Horizon,     \* bound: the last instant of the clock
          None

Kind == {"visit", "login", "logout", "logoutAll"}
Levels == 1..3
Id == (Request \X Levels) \cup (Browser \X {0})
Session == [user : User, expires : Nat, browser : Browser]

\* The last Set-Cookie of an answer, if it has one; None clears the cookie.
SetCookies == {<<>>} \cup {<<c>> : c \in Id \cup {None}}
Context ==
    [kind : Kind, browser : Browser, presented : Id \cup {None}, level : Levels,
     found : Session \cup {None}, user : User \cup {None}, token : Id \cup {None},
     cookie : SetCookies, status : {"none", "200", "401"}]

ASSUME SessionAssumption ==
    /\ UserOf \in [Browser -> User]
    /\ Guards \in [Kind -> Seq({"optional", "required"})]
    /\ \A k \in Kind : Len(Guards[k]) <= 2
    /\ Rotates \subseteq Kind
    /\ Lifetime \in Nat \ {0}
    /\ Horizon \in Nat
    /\ None \notin Id \cup User \cup Browser \cup Session \cup Context

VARIABLES now,       \* Date.now()
          store,     \* SessionStore: Id -> Session, or None
          accounts,  \* users the UserProvider still finds
          jar,       \* Browser -> the session cookie it holds, or None
          at,        \* Request -> where it is
          req,       \* Request -> its context: what it carries and has found out
          \* History, which no step of the code reads:
          ended,     \* ids destroyed by logout or logoutAll, or because they expired
          disturbed  \* browsers that overlapped requests, lost an answer or
                     \* logged in over a cookie

vars == <<now, store, accounts, jar, at, req, ended, disturbed>>
history == <<ended, disturbed>>

Places == {"new", "guard", "found", "looked", "saved", "answered", "done"}
InFlight == {r \in Request : at[r] \notin {"new", "done"}}
Stack(r) == Guards[req[r].kind]
AtGuard(r) == at[r] = "guard" /\ req[r].level <= Len(Stack(r))
AtHandler(r) == at[r] = "guard" /\ req[r].level = Len(Stack(r)) + 1
NewId(r) == <<r, req[r].level>>
NewSession(r, u) == [user |-> u, expires |-> now + Lifetime, browser |-> req[r].browser]

\* record.expiresAt < new Date()
Expired(s) == s.expires < now
\* store.destroy and destroyAll, when they end a session for good.
End(ids) ==
    /\ store' = [i \in Id |-> IF i \in ids THEN None ELSE store[i]]
    /\ ended' = ended \cup ids

Goes(r, place, context) == at' = [at EXCEPT ![r] = place] /\ req' = [req EXCEPT ![r] = context]
Answers(r, status, context) == Goes(r, "answered", [context EXCEPT !.status = status])
-----------------------------------------------------------------------------
\* Some browsers are logged in, the others are not.
Init ==
    /\ now = 0
    /\ accounts = User
    /\ \E loggedIn \in SUBSET Browser :
        /\ jar = [b \in Browser |-> IF b \in loggedIn THEN <<b, 0>> ELSE None]
        /\ store = [i \in Id |->
              IF \E b \in loggedIn : i = <<b, 0>>
              THEN [user |-> UserOf[i[1]], expires |-> Lifetime, browser |-> i[1]]
              ELSE None]
    /\ at = [r \in Request |-> "new"]
    /\ req \in [Request -> {None}]
    /\ ended = {} /\ disturbed = {}

\* A browser sends a request with the cookie it holds.
Send(r, b, kind) ==
    /\ at[r] = "new"
    /\ Goes(r, "guard",
            [kind |-> kind, browser |-> b, presented |-> jar[b], level |-> 1,
             found |-> None, user |-> None, token |-> None, cookie |-> <<>>,
             status |-> "none"])
    /\ disturbed' = disturbed \cup
         {c \in {b} : \/ \E o \in InFlight : req[o].browser = b
                      \/ kind = "login" /\ jar[b] # None}
    /\ UNCHANGED <<now, store, accounts, jar, ended>>

\* session() with no cookie, or with one that is no session: 401, or go on without.
TurnAway(r, context) ==
    IF Stack(r)[req[r].level] = "required"
    THEN Answers(r, "401", context)
    ELSE Goes(r, "guard", [context EXCEPT !.level = @ + 1])

NoCookie(r) ==
    /\ AtGuard(r) /\ req[r].presented = None
    /\ TurnAway(r, req[r])
    /\ UNCHANGED <<now, store, accounts, jar, history>>

\* guard.user: await store.find(token).
Find(r) ==
    /\ AtGuard(r) /\ req[r].presented # None
    /\ Goes(r, "found", [req[r] EXCEPT !.found = store[req[r].presented]])
    /\ UNCHANGED <<now, store, accounts, jar, history>>

\* guard.user: no record, or an expired one, which is destroyed first.
Reject(r) ==
    /\ at[r] = "found"
    /\ \/ req[r].found = None /\ UNCHANGED <<store, ended>>
       \/ req[r].found # None /\ Expired(req[r].found) /\ End({req[r].presented})
    /\ TurnAway(r, [req[r] EXCEPT !.cookie = <<None>>])
    /\ UNCHANGED <<now, accounts, jar, disturbed>>

\* guard.user: await provider.findById(record.userId).
LookUp(r) ==
    /\ at[r] = "found" /\ req[r].found # None /\ ~Expired(req[r].found)
    /\ IF req[r].found.user \in accounts
       THEN Goes(r, "looked", req[r])
       ELSE TurnAway(r, [req[r] EXCEPT !.cookie = <<None>>])
    /\ UNCHANGED <<now, store, accounts, jar, history>>

\* session(): the user is in the context, and the token unless a rotation set it.
Proceed(r, context) ==
    Goes(r, "guard", [context EXCEPT
        !.user = context.found.user,
        !.token = IF @ = None THEN context.presented ELSE @,
        !.found = None,
        !.level = @ + 1])

Accept(r) ==
    /\ at[r] = "looked" /\ req[r].kind \notin Rotates
    /\ Proceed(r, req[r])
    /\ UNCHANGED <<now, store, accounts, jar, history>>

\* Seeded defect: the replacement is not saved yet when the old id is destroyed.
SaveLater(r) ==
    /\ at[r] = "looked" /\ req[r].kind \in Rotates
    /\ store' = [store EXCEPT ![req[r].presented] = None]
    /\ Goes(r, "saved", req[r])
    /\ UNCHANGED <<now, accounts, jar, history>>

\* guard.user, rotateOnUse: the replacement is saved before the old id is destroyed.
SaveNew(r) ==
    /\ at[r] = "looked" /\ req[r].kind \in Rotates
    /\ store' = [store EXCEPT ![NewId(r)] = NewSession(r, req[r].found.user)]
    /\ Goes(r, "saved", req[r])
    /\ UNCHANGED <<now, accounts, jar, history>>

\* Seeded defects of the next step: no onRotate; no destroy; the wrong id destroyed; one
\* onRotate target for all requests instead of rotation.run's.
RotateSilently(r) ==
    /\ at[r] = "saved"
    /\ store' = [store EXCEPT ![req[r].presented] = None]
    /\ Proceed(r, req[r])
    /\ UNCHANGED <<now, accounts, jar, history>>
KeepOld(r) ==
    /\ at[r] = "saved"
    /\ Proceed(r, [req[r] EXCEPT !.cookie = <<NewId(r)>>, !.token = NewId(r)])
    /\ UNCHANGED <<now, store, accounts, jar, history>>
DestroyNew(r) ==
    /\ at[r] = "saved"
    /\ store' = [store EXCEPT ![NewId(r)] = None]
    /\ Proceed(r, [req[r] EXCEPT !.cookie = <<NewId(r)>>, !.token = NewId(r)])
    /\ UNCHANGED <<now, accounts, jar, history>>
RotateElsewhere(r) ==
    /\ at[r] = "saved"
    /\ store' = [store EXCEPT ![req[r].presented] = None]
    /\ at' = [at EXCEPT ![r] = "guard"]
    /\ \E o \in InFlight :
          req' = [req EXCEPT ![r] = [@ EXCEPT !.user = req[r].found.user, !.token = req[r].presented,
                                             !.found = None, !.level = @ + 1],
                             ![o] = [@ EXCEPT !.cookie = <<NewId(r)>>]]
    /\ UNCHANGED <<now, accounts, jar, history>>

\* ... and onRotate hands the new id to the response of this very request.
DestroyOld(r) ==
    /\ at[r] = "saved"
    /\ store' = [store EXCEPT ![req[r].presented] = None]
    /\ Proceed(r, [req[r] EXCEPT !.cookie = <<NewId(r)>>, !.token = NewId(r)])
    /\ UNCHANGED <<now, accounts, jar, history>>

Visit(r) ==
    /\ AtHandler(r) /\ req[r].kind = "visit"
    /\ Answers(r, "200", req[r])
    /\ UNCHANGED <<now, store, accounts, jar, history>>

\* The login handler: startSession for the user whose credentials were typed.
Login(r) ==
    /\ AtHandler(r) /\ req[r].kind = "login"
    /\ LET u == UserOf[req[r].browser] IN
       IF u \in accounts
       THEN /\ store' = [store EXCEPT ![NewId(r)] = NewSession(r, u)]
            /\ Answers(r, "200",
                  [req[r] EXCEPT !.cookie = <<NewId(r)>>, !.token = NewId(r), !.user = u])
       ELSE Answers(r, "401", req[r]) /\ UNCHANGED store
    /\ UNCHANGED <<now, accounts, jar, history>>

\* The logout handler: endSession destroys the session of this request.
Logout(r) ==
    /\ AtHandler(r) /\ req[r].kind = "logout"
    /\ End({req[r].token} \ {None})
    /\ Answers(r, "200", [req[r] EXCEPT !.cookie = <<None>>])
    /\ UNCHANGED <<now, accounts, jar, disturbed>>

\* A handler that logs its user out everywhere.
LogoutAll(r) ==
    /\ AtHandler(r) /\ req[r].kind = "logoutAll"
    /\ End({i \in Id : store[i] # None /\ store[i].user = req[r].user})
    /\ Answers(r, IF req[r].user = None THEN "401" ELSE "200", req[r])
    /\ UNCHANGED <<now, accounts, jar, disturbed>>

\* The answer reaches the browser, which obeys the last Set-Cookie.
Deliver(r) ==
    /\ at[r] = "answered"
    /\ Goes(r, "done", None)
    /\ jar' = [jar EXCEPT ![req[r].browser] =
                  IF req[r].cookie = <<>> THEN @ ELSE req[r].cookie[1]]
    /\ UNCHANGED <<now, store, accounts, history>>

\* The worker dies with the request, or the answer is lost on the way.
Lose(r) ==
    /\ r \in InFlight
    /\ Goes(r, "done", None)
    /\ disturbed' = disturbed \cup {req[r].browser}
    /\ UNCHANGED <<now, store, accounts, jar, ended>>

CloseAccount(u) ==
    /\ u \in accounts
    /\ accounts' = accounts \ {u}
    /\ UNCHANGED <<now, store, jar, at, req, history>>

Tick ==
    /\ now < Horizon
    /\ now' = now + 1
    /\ UNCHANGED <<store, accounts, jar, at, req, history>>

Next ==
    \/ \E r \in Request :
        \/ \E b \in Browser, kind \in Kind : Send(r, b, kind)
        \/ NoCookie(r) \/ Find(r) \/ Reject(r) \/ LookUp(r)
        \/ Accept(r) \/ SaveNew(r) \/ DestroyOld(r)
        \/ Visit(r) \/ Login(r) \/ Logout(r) \/ LogoutAll(r)
        \/ Deliver(r) \/ Lose(r)
    \/ \E u \in User : CloseAccount(u)
    \/ Tick

Spec == Init /\ [][Next]_vars
-----------------------------------------------------------------------------
\* Every variable has its type, and a context has a token only once it has a user
\* (session() and startSession set auth.token together with auth.user).
TypeOK ==
    /\ now \in Nat
    /\ store \in [Id -> Session \cup {None}]
    /\ accounts \subseteq User
    /\ jar \in [Browser -> Id \cup {None}]
    /\ at \in [Request -> Places]
    /\ req \in [Request -> Context \cup {None}]
    /\ \A r \in Request : r \notin InFlight => req[r] = None
    /\ \A r \in InFlight :
        /\ req[r] # None
        /\ req[r].level <= Len(Stack(r)) + 1
        /\ req[r].token # None => req[r].user # None
    /\ ended \subseteq Id /\ disturbed \subseteq Browser

Idle(b) == \A r \in InFlight : req[r].browser # b

\* Nothing ended the session: no logout, no expiry, no closed account.
Good(b, i) == i # None /\ i \notin ended /\ UserOf[b] \in accounts

\* Rotation never costs a browser its session: one whose requests did not overlap and
\* whose answers arrived holds an id the store knows, for as long as it is good.
KeepsSession ==
    \A b \in Browser \ disturbed :
        Idle(b) /\ Good(b, jar[b]) => store[jar[b]] # None

\* ... and no second one: rotation and logout leave no session of such a browser
\* in the store that its cookie is not.
NoStraySessions ==
    \A b \in Browser \ disturbed :
        Idle(b) /\ UserOf[b] \in accounts =>
            \A i \in Id : store[i] # None /\ store[i].browser = b => jar[b] = i

\* "Reject with 401 when no valid session is present" (SessionCookieOptions.required), and
\* only then: a good session is let in wherever it is required.
ValidSessionServed ==
    \A r \in InFlight :
        req[r].status = "401" /\ req[r].browser \notin disturbed =>
            ~Good(req[r].browser, req[r].presented)

\* A session stays with the browser it was issued to, and its user with the requests of
\* that browser, though one guard with one onRotate serves all in flight (rotation.run).
OwnSessionsOnly ==
    /\ \A b \in Browser : jar[b] # None /\ store[jar[b]] # None =>
          store[jar[b]].browser = b
    /\ \A r \in InFlight : req[r].user \in {None, UserOf[req[r].browser]}

\* "Issue the replacement before destroying the old id": a good session leaves the store
\* only when it is ended, or when another session of its browser is in there.
ReplacementFirst ==
    [][\A i \in Id :
        store[i] # None /\ store'[i] = None =>
            \/ store[i].expires < now
            \/ \E r \in InFlight : /\ AtHandler(r) /\ at'[r] = "answered"
                                  /\ req[r].kind \in {"logout", "logoutAll"}
            \/ \E j \in Id \ {i} : store[j] # None /\ store[j].browser = store[i].browser]_vars

\* "Destroy every session for this user" (packages/auth/README.md, logoutAll): the answer
\* to a logoutAll finds none of its user's sessions in the store, no login being at work.
LoggedOutEverywhere ==
    \A r \in InFlight :
        /\ at[r] = "answered" /\ req[r].kind = "logoutAll" /\ req[r].user # None
        /\ \A o \in Request : req[o] # None => req[o].kind # "login"
        => \A i \in Id : store[i] # None => store[i].user # req[r].user
=============================================================================
