------------------------------- MODULE Tokens -------------------------------
(***************************************************************************)
(* Bearer tokens of packages/auth on their way through Authenticate or     *)
(* OptionalAuth, AuthManager, JwtGuard or ApiTokenGuard, and can(gate):    *)
(* one step between two awaits. A signature is taken to verify for the     *)
(* tokens signed with the secret under the guard's own algorithm and for   *)
(* no other string; a token is named by its number, 0 is none at all.      *)
(***************************************************************************)
EXTENDS Naturals, Sequences

CONSTANTS Request, User, None,
          ApiLives,     \* how long after its issue an API token expires, in ticks
          Seconds,      \* JwtConfig.expiresIn in seconds (durationToSeconds)
          Granted,      \* defined abilities -> the users (or None) their check is true for
          Ability,      \* abilities that routes ask for, defined or not
          MaxTokens, Horizon  \* bounds

TicksPerSecond == 2  \* so that an instant may fall within a second

ASSUME TokensAssumption ==
    /\ None \notin User /\ ApiLives \subseteq Nat \ {0} /\ Seconds \in Nat \ {0}
    /\ Granted \in [DOMAIN Granted -> SUBSET (User \cup {None})]
    /\ MaxTokens \in Nat /\ Horizon \in Nat

VARIABLES now,
          manager,   \* AuthManager: its guards and its default, fixed by the configuration
          tokens,    \* the tokens issued so far
          stored,    \* those in the TokenStore
          accounts,  \* users the UserProvider finds
          req        \* Request -> where it is and what it has found

tokenVars == <<now, manager, tokens, stored, accounts, req>>

Second == now \div TicksPerSecond
Never == Horizon + 1
Garbage == MaxTokens + 1

TokensInit ==
    /\ now = 0 /\ tokens = <<>> /\ stored = {} /\ accounts = User
    /\ manager \in [guards : SUBSET {"jwt", "token"}, default : {"jwt", "token"}]
    /\ req = [r \in Request |-> [at |-> "new"]]
-----------------------------------------------------------------------------
Issue(token) ==
    /\ Len(tokens) < MaxTokens
    /\ tokens' = Append(tokens, token)
    /\ stored' = IF token.kind = "token" THEN stored \cup {Len(tokens')} ELSE stored
    /\ UNCHANGED <<now, manager, accounts, req>>

\* JwtGuard.attempt, or refresh of a token of u. Beside what the token holds, it is noted
\* until when it must be good and from when it must be dead, in ticks of the real clock.
IssueJwt(u) ==
    /\ u \in accounts
    /\ Issue([kind |-> "jwt", user |-> u, nbf |-> 0, exp |-> Second + Seconds,
              dead |-> now + TicksPerSecond * Seconds,
              good |-> now + TicksPerSecond * (Seconds - 1)])

\* Another service with the secret issues a token for later.
MintJwt(u) ==
    Issue([kind |-> "jwt", user |-> u, nbf |-> Second + 1, exp |-> Second + 1 + Seconds,
           dead |-> (Second + 1 + Seconds) * TicksPerSecond,
           good |-> (Second + Seconds) * TicksPerSecond])

\* ApiTokenGuard.attempt and issueToken.
IssueApiToken(u, life) ==
    /\ u \in accounts
    /\ LET exp == IF life = 0 THEN Never ELSE now + life
       IN  Issue([kind |-> "token", user |-> u, nbf |-> 0, exp |-> exp,
                  dead |-> exp + 1, good |-> exp])

Revoke(n) ==
    /\ n \in stored
    /\ stored' = stored \ {n}
    /\ UNCHANGED <<now, manager, tokens, accounts, req>>

RevokeAll(u) ==
    /\ stored' = {n \in stored : tokens[n].user # u}
    /\ UNCHANGED <<now, manager, tokens, accounts, req>>
-----------------------------------------------------------------------------
\* Whatever happens from now on, token n is no good any more (or never was).
Dead(n) ==
    \/ n \notin DOMAIN tokens
    \/ tokens[n].user \notin accounts
    \/ now >= tokens[n].dead
    \/ tokens[n].kind = "token" /\ n \notin stored

Goes(r, to) == /\ req' = [req EXCEPT ![r] = to]
               /\ UNCHANGED <<now, manager, tokens, accounts>>
Answered(r, status) == [req[r] EXCEPT !.at = "answered", !.status = status]

\* A request for a route behind Authenticate or OptionalAuth, and can().
Begin(r, n, guard, optional) ==
    /\ req[r].at = "new"
    /\ Goes(r, [at |-> "header", token |-> n, guard |-> guard, optional |-> optional,
                ability |-> None, user |-> None, status |-> "none", hopeless |-> Dead(n)])
    /\ UNCHANGED stored

\* No token in the header.
NoToken(r) ==
    /\ req[r].at = "header" /\ req[r].token = 0
    /\ Goes(r, IF req[r].optional THEN [req[r] EXCEPT !.at = "can"] ELSE Answered(r, "401"))
    /\ UNCHANGED stored

\* The container resolves AuthManager, which throws if its default is no guard of its own;
\* so does guard(name) for one that is not registered. The kernel answers 500.
GuardMissing(r) ==
    /\ req[r].at = "header" /\ req[r].token # 0
    /\ {manager.default, req[r].guard} \ manager.guards # {}
    /\ Goes(r, Answered(r, "500"))
    /\ UNCHANGED stored

GuardFor(r, guard) ==
    /\ req[r].at = "header" /\ req[r].token # 0
    /\ {manager.default, guard} \subseteq manager.guards /\ req[r].guard = guard

\* user() gave null.
Unknown(r) == IF req[r].optional THEN [req[r] EXCEPT !.at = "can"] ELSE Answered(r, "401")

\* Seeded defect: exp counts as a valid second.
JwtHoldsTooLong(n) ==
    /\ n \in DOMAIN tokens /\ tokens[n].kind = "jwt"
    /\ tokens[n].nbf <= Second /\ Second <= tokens[n].exp

\* JwtGuard.verifyToken.
JwtHolds(n) ==
    /\ n \in DOMAIN tokens /\ tokens[n].kind = "jwt"
    /\ tokens[n].nbf <= Second /\ Second < tokens[n].exp

VerifyJwt(r) ==
    /\ GuardFor(r, "jwt")
    /\ Goes(r, IF JwtHolds(req[r].token) THEN [req[r] EXCEPT !.at = "lookup"]
               ELSE Unknown(r))
    /\ UNCHANGED stored

\* Seeded defect: the instant it expires at is too late.
ExpiredTooSoon(n) == tokens[n].exp <= now
ApiTokenExpired(n) == tokens[n].exp < now

\* ApiTokenGuard.user: store.find, then revoke or findById.
FindToken(r) ==
    /\ GuardFor(r, "token")
    /\ Goes(r, IF req[r].token \notin stored THEN Unknown(r)
               ELSE IF ApiTokenExpired(req[r].token) THEN [req[r] EXCEPT !.at = "revoke"]
               ELSE [req[r] EXCEPT !.at = "lookup"])
    /\ UNCHANGED stored

RevokeExpired(r) ==
    /\ req[r].at = "revoke"
    /\ stored' = stored \ {req[r].token}
    /\ Goes(r, Unknown(r))

\* UserProvider.findById; what it finds goes to the context.
Lookup(r) ==
    /\ req[r].at = "lookup"
    /\ LET u == tokens[req[r].token].user
       IN  Goes(r, IF u \in accounts THEN [req[r] EXCEPT !.at = "can", !.user = u]
                   ELSE Unknown(r))
    /\ UNCHANGED stored

\* Seeded defect: an ability nobody defined is open to whoever is logged in.
AllowsUndefined(ability, u) ==
    IF ability \in DOMAIN Granted THEN u \in Granted[ability] ELSE u # None

\* Gate.allows: true only for an ability that is defined and whose check is exactly true.
Allows(ability, u) == ability \in DOMAIN Granted /\ u \in Granted[ability]

\* can(): awaits the resource and the ability's check, then calls next().
Can(r, ability) ==
    /\ req[r].at = "can"
    /\ Goes(r, [Answered(r, IF Allows(ability, req[r].user) THEN "200" ELSE "403")
                    EXCEPT !.ability = ability])
    /\ UNCHANGED stored

CloseAccount(u) ==
    /\ u \in accounts
    /\ accounts' = accounts \ {u}
    /\ UNCHANGED <<now, manager, tokens, stored, req>>

Tick ==
    /\ now < Horizon
    /\ now' = now + 1
    /\ UNCHANGED <<manager, tokens, stored, accounts, req>>

TokensNext ==
    \/ \E u \in User : \/ IssueJwt(u) \/ MintJwt(u) \/ RevokeAll(u) \/ CloseAccount(u)
                       \/ \E life \in ApiLives \cup {0} : IssueApiToken(u, life)
    \/ \E n \in stored : Revoke(n)
    \/ \E r \in Request :
        \/ \E n \in 0..Len(tokens) \cup {Garbage}, guard \in {"jwt", "token"},
              optional \in BOOLEAN : Begin(r, n, guard, optional)
        \/ NoToken(r) \/ GuardMissing(r) \/ VerifyJwt(r) \/ FindToken(r)
        \/ RevokeExpired(r) \/ Lookup(r)
        \/ \E ability \in Ability : Can(r, ability)
    \/ Tick

TokensSpec == TokensInit /\ [][TokensNext]_tokenVars
-----------------------------------------------------------------------------
\* Nobody gets in as a user whose token was revoked, out of date or not issued, or whose
\* account was closed, before the request began; whatever happens while it is under way.
DeadTokensStayOut ==
    \A r \in Request :
        req[r].at # "new" /\ req[r].user # None =>
            ~req[r].hopeless /\ req[r].user = tokens[req[r].token].user

\* "401 if the token is missing or invalid", and only then: a token within its time (a JWT
\* loses less than a second of it), stored and of an open account is not turned away by its
\* own guard when it is the one presented.
GoodTokensGetIn ==
    [][\A r \in Request :
          req'[r].at = "answered" /\ req[r].at # "answered" /\ req'[r].status = "401" =>
             LET n == req[r].token
             IN  n = 0 \/ Dead(n) \/ tokens[n].kind # req[r].guard
                   \/ Second < tokens[n].nbf \/ now > tokens[n].good]_tokenVars

\* A handler behind can() runs for those its ability was granted to: an ability nobody
\* defined is denied, and OptionalAuth lets nobody past a check that needs a user.
OnlyGrantedRun ==
    \A r \in Request :
        req[r].at = "answered" /\ req[r].status = "200" =>
            req[r].user \in UNION {Granted[a] : a \in DOMAIN Granted \cap {req[r].ability}}
=============================================================================
