--------------------------- MODULE RequestsProofs ---------------------------
(***************************************************************************)
(* What holds of the parts that a request passes before and after the      *)
(* handler: bearer tokens, for any requests, users, lifetimes and          *)
(* abilities; CORS, for any origins and any cache in front; cookies, for   *)
(* any texts and secrets; routes, for any patterns and paths; the OpenAPI  *)
(* document, for any routes and forms.                                     *)
(***************************************************************************)
EXTENDS Tokens, OpenApi, Cors, Cookies, SequenceTheorems, FiniteSetTheorems, WellFoundedInduction,
        TLAPS

Token == [kind : {"jwt", "token"}, user : User, nbf : Nat, exp : Nat, dead : Nat, good : Nat]

\* A request that has begun.
Begun == [at : {"header", "lookup", "revoke", "can", "answered"}, token : Nat,
          guard : {"jwt", "token"}, optional : BOOLEAN, ability : Ability \cup {None},
          user : User \cup {None}, status : {"none", "200", "401", "403", "500"},
          hopeless : BOOLEAN]

\* A JWT is dead no sooner than its second of expiry, and good until before it at the most;
\* an API token is good through the instant it expires at, and dead right after it.
Dated(t) ==
    IF t.kind = "jwt" THEN t.good < t.exp * TicksPerSecond /\ t.exp * TicksPerSecond <= t.dead
                      ELSE t.good = t.exp /\ t.dead = t.exp + 1

TokensOK ==
    /\ now \in Nat /\ accounts \subseteq User
    /\ tokens \in Seq(Token) /\ Len(tokens) <= MaxTokens
    /\ stored \subseteq {n \in DOMAIN tokens : tokens[n].kind = "token"}
    /\ \A n \in DOMAIN tokens : Dated(tokens[n])

\* The tokens that a request can hold: those issued, none, and what nobody will issue.
Presented == 0..Len(tokens) \cup {Garbage}

RequestOK(q) ==
    /\ q \in Begun /\ q.token \in Presented
    /\ q.at \in {"lookup", "revoke"} => q.token \in DOMAIN tokens
    /\ q.at = "revoke" => tokens[q.token].kind = "token" /\ tokens[q.token].exp < now

\* A request whose token was no good when it began finds a user no more: its token is still
\* no good, and where only the account is left to look up, that account is closed.
StaysOut(q) ==
    /\ q.hopeless => Dead(q.token)
    /\ q.hopeless /\ q.at = "lookup" => tokens[q.token].user \notin accounts
    /\ q.user # None => /\ ~q.hopeless /\ q.token \in DOMAIN tokens
                        /\ q.user = tokens[q.token].user

\* Only can() answers 200.
Justified(q) ==
    /\ q.at # "answered" => q.status # "200"
    /\ q.status = "200" => Allows(q.ability, q.user)

Good(q) == RequestOK(q) /\ StaysOut(q) /\ Justified(q)

Inv == /\ TokensOK
       /\ DOMAIN req = Request
       /\ \A r \in Request : req[r].at # "new" => Good(req[r])
-----------------------------------------------------------------------------
\* One request goes on.
LEMMA RequestStep ==
    ASSUME Inv, NEW r \in Request, NEW q, Good(q), req' = [req EXCEPT ![r] = q],
           stored' \subseteq stored, UNCHANGED <<now, tokens, accounts>>
    PROVE  Inv'
  <1>1. TokensOK'
    BY DEF Inv, TokensOK
  <1>2. ASSUME NEW p, Good(p)
        PROVE  Good(p)'
    <2>1. RequestOK(p)'
      BY <1>2 DEF Good, RequestOK, Presented
    <2>2. StaysOut(p)'
      BY <1>2 DEF Good, StaysOut, Dead
    <2>3. Justified(p)'
      BY <1>2 DEF Good, Justified, Allows
    <2> QED
      BY <2>1, <2>2, <2>3 DEF Good
  <1>3. DOMAIN req' = Request
    BY DEF Inv
  <1>4. ASSUME NEW s \in Request, req'[s].at # "new"
        PROVE  Good(req[s])'
    <2>1. PICK p : p = req'[s] /\ Good(p)
      BY <1>4 DEF Inv
    <2>2. Good(p)'
      BY <1>2, <2>1
    <2> QED
      BY <2>1, <2>2 DEF Good, RequestOK, StaysOut, Justified
  <1> QED
    BY <1>1, <1>3, <1>4 DEF Inv

\* The world changes under the requests: tokens may be issued, no dead one comes back.
LEMMA WorldStep ==
    ASSUME Inv, TokensOK', UNCHANGED req, accounts' \subseteq accounts,
           Len(tokens) <= Len(tokens'), now <= now',
           \A n \in DOMAIN tokens : tokens'[n] = tokens[n],
           \A n \in Presented : Dead(n) => Dead(n)'
    PROVE  Inv'
  <1>1. DOMAIN tokens \subseteq DOMAIN tokens' /\ Presented \subseteq Presented'
    BY DEF TokensOK, Inv, Presented, Garbage
  <1>2. ASSUME NEW r \in Request, req[r].at # "new"
        PROVE  Good(req[r])'
    <2>1. Good(req[r])
      BY <1>2 DEF Inv
    <2>2. RequestOK(req[r])'
      <3>1. req[r].token \in DOMAIN tokens => tokens[req[r].token] \in Token
        BY DEF Inv, TokensOK
      <3>2. ASSUME req[r].at = "revoke"
            PROVE  tokens[req[r].token].kind = "token" /\ tokens[req[r].token].exp < now'
        <4>1. /\ tokens[req[r].token].kind = "token" /\ tokens[req[r].token].exp < now
              /\ tokens[req[r].token].exp \in Nat
          BY <2>1, <3>1, <3>2 DEF Good, RequestOK, Token
        <4> QED
          BY <4>1 DEF Inv, TokensOK
      <3> QED
        BY <1>1, <2>1, <3>2 DEF Good, RequestOK
    <2>3. StaysOut(req[r])'
      BY <1>1, <2>1 DEF Good, StaysOut, RequestOK, Begun
    <2>4. Justified(req[r])'
      BY <2>1 DEF Good, Justified, Allows
    <2> QED
      BY <2>2, <2>3, <2>4 DEF Good
  <1> QED
    BY <1>2 DEF Inv

\* A new token is stored if it is an API token.
LEMMA IssueStep ==
    ASSUME Inv, NEW t \in Token, Dated(t), Issue(t)
    PROVE  Inv'
  <1>1. /\ tokens \in Seq(Token) /\ Len(tokens) \in Nat /\ MaxTokens \in Nat
        /\ DOMAIN tokens = 1..Len(tokens)
    BY TokensAssumption DEF Inv, TokensOK
  <1>2. /\ tokens' = Append(tokens, t) /\ Len(tokens) < MaxTokens
        /\ stored' = IF t.kind = "token" THEN stored \cup {Len(tokens')} ELSE stored
        /\ UNCHANGED <<now, manager, accounts, req>>
    BY DEF Issue
  <1>3. /\ tokens' \in Seq(Token) /\ Len(tokens') = Len(tokens) + 1
        /\ DOMAIN tokens' = 1..(Len(tokens) + 1) /\ tokens'[Len(tokens) + 1] = t
        /\ \A n \in DOMAIN tokens : tokens'[n] = tokens[n]
    BY <1>1, <1>2
  <1>4. TokensOK'
    <2>1. \A n \in DOMAIN tokens' : Dated(tokens'[n])
      BY <1>1, <1>3 DEF Inv, TokensOK
    <2>2. stored' \subseteq {n \in DOMAIN tokens' : tokens'[n].kind = "token"}
      BY <1>1, <1>2, <1>3 DEF Inv, TokensOK
    <2>3. now' \in Nat /\ accounts' \subseteq User /\ Len(tokens') <= MaxTokens
      BY <1>1, <1>2, <1>3 DEF Inv, TokensOK
    <2> QED
      BY <1>3, <2>1, <2>2, <2>3 DEF TokensOK, Dated
  <1>5. \A n \in Presented : Dead(n) => Dead(n)'
    <2> SUFFICES ASSUME NEW n \in Presented, Dead(n)
                 PROVE  Dead(n)'
      OBVIOUS
    <2>1. n # Len(tokens) + 1
      BY <1>1, <1>2 DEF Presented, Garbage
    <2>2. n \in DOMAIN tokens' <=> n \in DOMAIN tokens
      BY <1>1, <1>3, <2>1 DEF Presented, Garbage
    <2>3. n \in stored' => n \in stored
      BY <1>2, <1>3, <2>1
    <2> QED
      BY <1>2, <1>3, <2>2, <2>3 DEF Dead
  <1>6. now <= now'
    BY <1>2 DEF Inv, TokensOK
  <1> QED
    BY <1>1, <1>2, <1>3, <1>4, <1>5, <1>6, WorldStep

LEMMA Issues ==
    ASSUME Inv, NEW u \in User,
           \/ IssueJwt(u) \/ MintJwt(u)
           \/ \E life \in ApiLives \cup {0} : IssueApiToken(u, life)
    PROVE  Inv'
  <1>1. now \in Nat /\ Second \in Nat /\ Seconds \in Nat \ {0} /\ Horizon \in Nat
        /\ Second * TicksPerSecond <= now
    BY TokensAssumption DEF Inv, TokensOK, Second, TicksPerSecond
  <1>1a. now < Second * TicksPerSecond + TicksPerSecond
    BY DEF Inv, TokensOK, Second, TicksPerSecond
  <1>2. CASE IssueJwt(u)
    <2> DEFINE t == [kind |-> "jwt", user |-> u, nbf |-> 0, exp |-> Second + Seconds,
                     dead |-> now + TicksPerSecond * Seconds,
                     good |-> now + TicksPerSecond * (Seconds - 1)]
    <2>1. t \in Token /\ Dated(t)
      BY <1>1, <1>1a DEF Token, Dated, TicksPerSecond
    <2>2. Issue(t)
      BY <1>2 DEF IssueJwt
    <2> QED
      BY <2>1, <2>2, IssueStep
  <1>3. CASE MintJwt(u)
    <2> DEFINE t == [kind |-> "jwt", user |-> u, nbf |-> Second + 1,
                     exp |-> Second + 1 + Seconds,
                     dead |-> (Second + 1 + Seconds) * TicksPerSecond,
                     good |-> (Second + Seconds) * TicksPerSecond]
    <2>1. t \in Token /\ Dated(t)
      BY <1>1, <1>1a DEF Token, Dated, TicksPerSecond
    <2>2. Issue(t)
      BY <1>3 DEF MintJwt
    <2> QED
      BY <2>1, <2>2, IssueStep
  <1>4. ASSUME NEW life \in ApiLives \cup {0}, IssueApiToken(u, life)
        PROVE  Inv'
    <2> DEFINE exp == IF life = 0 THEN Never ELSE now + life
               t == [kind |-> "token", user |-> u, nbf |-> 0, exp |-> exp,
                     dead |-> exp + 1, good |-> exp]
    <2>1. exp \in Nat
      BY <1>1, TokensAssumption DEF Never
    <2>2. Issue(t)
      BY <1>4 DEF IssueApiToken
    <2> HIDE DEF exp
    <2>3. t \in Token /\ Dated(t)
      BY <2>1 DEF Token, Dated
    <2> QED
      BY <2>2, <2>3, IssueStep
  <1> QED
    BY <1>2, <1>3, <1>4

\* Revocations, closed accounts and the clock make nothing good again.
LEMMA WorldSteps ==
    ASSUME Inv,
           \/ \E n \in stored : Revoke(n)
           \/ \E u \in User : RevokeAll(u) \/ CloseAccount(u)
           \/ Tick
    PROVE  Inv'
  <1>1. /\ UNCHANGED <<tokens, req>> /\ stored' \subseteq stored
        /\ accounts' \subseteq accounts /\ now' \in {now, now + 1}
    BY DEF Revoke, RevokeAll, CloseAccount, Tick
  <1>2. now \in Nat /\ tokens \in Seq(Token)
    BY DEF Inv, TokensOK
  <1>3. TokensOK'
    BY <1>1, <1>2 DEF Inv, TokensOK, Dated
  <1>4. \A n \in DOMAIN tokens : tokens[n].dead \in Nat
    <2> TAKE n \in DOMAIN tokens
    <2>1. tokens[n] \in Token
      BY <1>2
    <2> QED
      BY <2>1 DEF Token
  <1>5. \A n \in Presented : Dead(n) => Dead(n)'
    BY <1>1, <1>2, <1>4 DEF Dead
  <1> QED
    BY <1>1, <1>2, <1>3, <1>5, WorldStep

\* What the guards find is not dead but for a closed account.
LEMMA JwtThatHolds ==
    ASSUME Inv, NEW n, JwtHolds(n), Dead(n)
    PROVE  n \in DOMAIN tokens /\ tokens[n].user \notin accounts
  <1>1. /\ n \in DOMAIN tokens /\ tokens[n] \in Token /\ tokens[n].kind = "jwt"
        /\ now \in Nat /\ Dated(tokens[n]) /\ Second < tokens[n].exp
    BY DEF Inv, TokensOK, JwtHolds
  <1>2. tokens[n].exp \in Nat /\ tokens[n].dead \in Nat
        /\ tokens[n].exp * 2 <= tokens[n].dead
    BY <1>1 DEF Token, Dated, TicksPerSecond
  <1>3. now < tokens[n].exp * 2
    BY <1>1, <1>2 DEF Second, TicksPerSecond
  <1>4. ~(now >= tokens[n].dead)
    BY <1>1, <1>2, <1>3
  <1> QED
    BY <1>1, <1>4 DEF Dead

LEMMA ApiTokenThatHolds ==
    ASSUME Inv, NEW n \in stored, ~ApiTokenExpired(n), Dead(n)
    PROVE  tokens[n].user \notin accounts
  <1>1. /\ n \in DOMAIN tokens /\ tokens[n] \in Token /\ tokens[n].kind = "token"
        /\ now \in Nat /\ Dated(tokens[n])
    BY DEF Inv, TokensOK
  <1>2. ~(now >= tokens[n].dead)
    BY <1>1 DEF Token, Dated, ApiTokenExpired
  <1> QED
    BY <1>1, <1>2 DEF Dead
-----------------------------------------------------------------------------
\* Where a request under way may go without having found anything.
LEMMA Turns ==
    ASSUME Inv, NEW r \in Request, req[r].at \in {"header", "lookup", "revoke", "can"}
    PROVE  /\ req[r] \in Begun
           /\ Good([req[r] EXCEPT !.at = "can"])
           /\ Good(Unknown(r))
           /\ \A status \in {"401", "403", "500"} : Good(Answered(r, status))
  <1>1. PICK q : q = req[r]
    OBVIOUS
  <1>2. Good(q) /\ q.at \in {"header", "lookup", "revoke", "can"}
    BY <1>1 DEF Inv
  <1>3. Good([q EXCEPT !.at = "can"])
    BY <1>2 DEF Good, RequestOK, StaysOut, Justified, Begun
  <1>4. ASSUME NEW status \in {"401", "403", "500"}
        PROVE  Good([q EXCEPT !.at = "answered", !.status = status])
    BY <1>2, <1>4 DEF Good, RequestOK, StaysOut, Justified, Begun
  <1>5. q \in Begun
    BY <1>2 DEF Good, RequestOK
  <1> QED
    BY <1>1, <1>3, <1>4, <1>5 DEF Unknown, Answered

LEMMA BeginStep ==
    ASSUME Inv, NEW r \in Request, NEW n \in 0..Len(tokens) \cup {Garbage},
           NEW guard \in {"jwt", "token"}, NEW optional \in BOOLEAN,
           Begin(r, n, guard, optional)
    PROVE  Inv'
  <1> DEFINE q == [at |-> "header", token |-> n, guard |-> guard, optional |-> optional,
                   ability |-> None, user |-> None, status |-> "none", hopeless |-> Dead(n)]
  <1>1. Dead(n) \in BOOLEAN /\ n \in Nat
    BY TokensAssumption DEF Dead, Garbage, Inv, TokensOK
  <1>2. Good(q)
    BY <1>1 DEF Good, RequestOK, StaysOut, Justified, Begun, Presented
  <1>3. Goes(r, q) /\ UNCHANGED stored
    BY DEF Begin
  <1> HIDE DEF q
  <1> QED
    BY <1>2, <1>3, RequestStep DEF Goes

LEMMA RefusalSteps ==
    ASSUME Inv, NEW r \in Request, NoToken(r) \/ GuardMissing(r) \/ RevokeExpired(r)
    PROVE  Inv'
  <1>1. req[r].at \in {"header", "revoke"} /\ UNCHANGED <<now, tokens, accounts>>
        /\ stored' \subseteq stored
    BY DEF NoToken, GuardMissing, RevokeExpired, Goes
  <1>2. PICK q : Good(q) /\ req' = [req EXCEPT ![r] = q]
    BY <1>1, Turns DEF NoToken, GuardMissing, RevokeExpired, Goes
  <1> QED
    BY <1>1, <1>2, RequestStep

\* A guard that lets a request through to the account.
LEMMA ToLookup ==
    ASSUME Inv, NEW r \in Request, req[r].at = "header", req[r].token \in DOMAIN tokens,
           Dead(req[r].token) => tokens[req[r].token].user \notin accounts
    PROVE  Good([req[r] EXCEPT !.at = "lookup"])
  <1>1. PICK q : q = req[r]
    OBVIOUS
  <1>2. Good(q) /\ q.at = "header" /\ q.token \in DOMAIN tokens
        /\ (Dead(q.token) => tokens[q.token].user \notin accounts)
    BY <1>1 DEF Inv
  <1>3. Good([q EXCEPT !.at = "lookup"])
    BY <1>2 DEF Good, RequestOK, StaysOut, Justified, Begun
  <1> QED
    BY <1>1, <1>3

LEMMA VerifyStep ==
    ASSUME Inv, NEW r \in Request, VerifyJwt(r)
    PROVE  Inv'
  <1>1. /\ req[r].at = "header" /\ UNCHANGED <<now, tokens, accounts, stored>>
        /\ req' = [req EXCEPT ![r] = IF JwtHolds(req[r].token)
                                     THEN [req[r] EXCEPT !.at = "lookup"] ELSE Unknown(r)]
    BY DEF VerifyJwt, GuardFor, Goes
  <1>2. PICK q : Good(q) /\ req' = [req EXCEPT ![r] = q]
    <2>1. CASE JwtHolds(req[r].token)
      <3>1. req[r].token \in DOMAIN tokens
        BY <2>1 DEF JwtHolds
      <3>2. Good([req[r] EXCEPT !.at = "lookup"])
        BY <1>1, <2>1, <3>1, JwtThatHolds, ToLookup
      <3> QED
        BY <1>1, <2>1, <3>2
    <2>2. CASE ~JwtHolds(req[r].token)
      BY <1>1, <2>2, Turns
    <2> QED
      BY <2>1, <2>2
  <1> QED
    BY <1>1, <1>2, RequestStep

LEMMA FindStep ==
    ASSUME Inv, NEW r \in Request, FindToken(r)
    PROVE  Inv'
  <1> DEFINE n == req[r].token
  <1>1. /\ req[r].at = "header" /\ UNCHANGED <<now, tokens, accounts, stored>>
        /\ req' = [req EXCEPT ![r] = IF n \notin stored THEN Unknown(r)
                                     ELSE IF ApiTokenExpired(n)
                                          THEN [req[r] EXCEPT !.at = "revoke"]
                                          ELSE [req[r] EXCEPT !.at = "lookup"]]
    BY DEF FindToken, GuardFor, Goes
  <1>2. PICK q : Good(q) /\ req' = [req EXCEPT ![r] = q]
    <2>1. CASE n \notin stored
      BY <1>1, <2>1, Turns
    <2>2. CASE n \in stored /\ ApiTokenExpired(n)
      <3>1. PICK p : p = req[r]
        OBVIOUS
      <3>2. Good(p) /\ p.at = "header" /\ p.token \in DOMAIN tokens
            /\ tokens[p.token].kind = "token" /\ tokens[p.token].exp < now
        BY <1>1, <2>2, <3>1 DEF Inv, TokensOK, ApiTokenExpired
      <3>3. Good([p EXCEPT !.at = "revoke"])
        BY <3>2 DEF Good, RequestOK, StaysOut, Justified, Begun
      <3> QED
        BY <1>1, <2>2, <3>1, <3>3
    <2>3. CASE n \in stored /\ ~ApiTokenExpired(n)
      <3>1. n \in DOMAIN tokens
        BY <2>3 DEF Inv, TokensOK
      <3>2. Good([req[r] EXCEPT !.at = "lookup"])
        BY <1>1, <2>3, <3>1, ApiTokenThatHolds, ToLookup
      <3> QED
        BY <1>1, <2>3, <3>2
    <2> QED
      BY <2>1, <2>2, <2>3
  <1> QED
    BY <1>1, <1>2, RequestStep

LEMMA LookupStep ==
    ASSUME Inv, NEW r \in Request, Lookup(r)
    PROVE  Inv'
  <1> DEFINE u == tokens[req[r].token].user
  <1>1. /\ req[r].at = "lookup" /\ UNCHANGED <<now, tokens, accounts, stored>>
        /\ req' = [req EXCEPT ![r] = IF u \in accounts
                                     THEN [req[r] EXCEPT !.at = "can", !.user = u]
                                     ELSE Unknown(r)]
    BY DEF Lookup, Goes
  <1>2. PICK q : Good(q) /\ req' = [req EXCEPT ![r] = q]
    <2>1. CASE u \in accounts
      <3>1. PICK p : p = req[r]
        OBVIOUS
      <3>2. Good(p) /\ p.at = "lookup" /\ p.token \in DOMAIN tokens
            /\ tokens[p.token].user \in accounts /\ accounts \subseteq User
        BY <1>1, <2>1, <3>1 DEF Inv, TokensOK, Good, RequestOK
      <3>3. Good([p EXCEPT !.at = "can", !.user = tokens[p.token].user])
        BY <3>2 DEF Good, RequestOK, StaysOut, Justified, Begun
      <3> QED
        BY <1>1, <2>1, <3>1, <3>3
    <2>2. CASE u \notin accounts
      BY <1>1, <2>2, Turns
    <2> QED
      BY <2>1, <2>2
  <1> QED
    BY <1>1, <1>2, RequestStep

LEMMA CanStep ==
    ASSUME Inv, NEW r \in Request, NEW ability \in Ability, Can(r, ability)
    PROVE  Inv'
  <1> DEFINE status == IF Allows(ability, req[r].user) THEN "200" ELSE "403"
  <1>1. /\ req[r].at = "can" /\ UNCHANGED <<now, tokens, accounts, stored>>
        /\ req' = [req EXCEPT ![r] = [req[r] EXCEPT !.at = "answered", !.status = status,
                                                   !.ability = ability]]
    BY DEF Can, Goes, Answered
  <1>2. PICK p : p = req[r]
    OBVIOUS
  <1>3. Good(p) /\ p.at = "can"
    BY <1>1, <1>2 DEF Inv
  <1>4. status \in {"200", "403"} /\ (status = "200" => Allows(ability, p.user))
    BY <1>2
  <1> HIDE DEF status
  <1>5. Good([p EXCEPT !.at = "answered", !.status = status, !.ability = ability])
    BY <1>3, <1>4 DEF Good, RequestOK, StaysOut, Justified, Begun
  <1> QED
    BY <1>1, <1>2, <1>5, RequestStep
-----------------------------------------------------------------------------
LEMMA TokensStart == TokensInit => Inv
  BY TokensAssumption
     DEF TokensInit, Inv, TokensOK, Good, RequestOK, StaysOut, Justified

LEMMA TokensStep == Inv /\ [TokensNext]_tokenVars => Inv'
  <1> SUFFICES ASSUME Inv, [TokensNext]_tokenVars
               PROVE  Inv'
    OBVIOUS
  <1>1. CASE UNCHANGED tokenVars
    BY <1>1 DEF tokenVars, Inv, TokensOK, Good, RequestOK, StaysOut, Justified, Presented, Dead
  <1>2. ASSUME NEW r \in Request,
               \/ \E n \in 0..Len(tokens) \cup {Garbage}, guard \in {"jwt", "token"},
                     optional \in BOOLEAN : Begin(r, n, guard, optional)
               \/ NoToken(r) \/ GuardMissing(r) \/ VerifyJwt(r) \/ FindToken(r)
               \/ RevokeExpired(r) \/ Lookup(r)
               \/ \E ability \in Ability : Can(r, ability)
        PROVE  Inv'
    BY <1>2, BeginStep, RefusalSteps, VerifyStep, FindStep, LookupStep, CanStep
  <1> QED
    BY <1>1, <1>2, Issues, WorldSteps DEF TokensNext

\* The inductive invariant: tokens keep what they were issued with, and a request whose
\* token was no good when it began is stopped, at the latest, where its account is looked up.
THEOREM TokensInvariance == TokensSpec => []Inv
  BY TokensStart, TokensStep, PTL DEF TokensSpec

\* For any requests, users and lifetimes, whatever is revoked, expires or is closed while
\* a request is under way: nobody gets in with a token that was no good when it began.
THEOREM NoDeadTokenGetsIn == TokensSpec => []DeadTokensStayOut
  <1>1. Inv => DeadTokensStayOut
    BY DEF Inv, Good, StaysOut, DeadTokensStayOut
  <1> QED
    BY <1>1, TokensInvariance, PTL

\* For any definitions of abilities: a handler behind can() runs for those alone whose
\* ability is defined and granted to them.
THEOREM OnlyTheGrantedRun == TokensSpec => []OnlyGrantedRun
  <1>1. Inv => OnlyGrantedRun
    BY DEF Inv, Good, Justified, Allows, OnlyGrantedRun
  <1> QED
    BY <1>1, TokensInvariance, PTL

\* For any lifetimes and instants: a guard answers 401 only where there is no token, or the
\* token is not its own, out of its time, or dead.
THEOREM NoGoodTokenIsRefused == TokensSpec => GoodTokensGetIn
  <1>1. ASSUME Inv, [TokensNext]_tokenVars, NEW r \in Request,
               req'[r].at = "answered", req[r].at # "answered", req'[r].status = "401"
        PROVE  LET n == req[r].token
               IN  n = 0 \/ Dead(n) \/ tokens[n].kind # req[r].guard
                     \/ Second < tokens[n].nbf \/ now > tokens[n].good
    <2> DEFINE n == req[r].token
    <2>1. req # req'
      BY <1>1
    <2>2. PICK s \in Request :
             \/ \E k \in 0..Len(tokens) \cup {Garbage}, guard \in {"jwt", "token"},
                   optional \in BOOLEAN : Begin(s, k, guard, optional)
             \/ NoToken(s) \/ GuardMissing(s) \/ VerifyJwt(s) \/ FindToken(s)
             \/ RevokeExpired(s) \/ Lookup(s)
             \/ \E ability \in Ability : Can(s, ability)
      BY <1>1, <2>1 DEF TokensNext, tokenVars, Issue, IssueJwt, MintJwt, IssueApiToken,
                        Revoke, RevokeAll, CloseAccount, Tick
    <2>3. s = r
      BY <1>1, <2>2 DEF Inv, Begin, NoToken, GuardMissing, VerifyJwt, FindToken,
                        RevokeExpired, Lookup, Can, Goes
    <2>4. /\ NoToken(r) \/ VerifyJwt(r) \/ FindToken(r) \/ RevokeExpired(r) \/ Lookup(r)
          /\ Good(req[r])
      <3>1. req[r].at # "new" => Good(req[r])
        BY <1>1 DEF Inv
      <3>2. req[r].at \in {"header", "can"} => req[r] \in Begun
        BY <3>1 DEF Good, RequestOK
      <3>3. ~\E k \in 0..Len(tokens) \cup {Garbage}, guard \in {"jwt", "token"},
               optional \in BOOLEAN : Begin(r, k, guard, optional)
        BY <1>1 DEF Inv, Begin, Goes
      <3>4. ~GuardMissing(r)
        BY <1>1, <3>2 DEF Inv, GuardMissing, Goes, Answered, Begun
      <3>5. ~\E ability \in Ability : Can(r, ability)
        BY <1>1, <3>2 DEF Inv, Can, Goes, Answered, Begun
      <3> QED
        BY <2>2, <2>3, <3>1, <3>3, <3>4, <3>5
           DEF NoToken, VerifyJwt, FindToken, RevokeExpired, Lookup, GuardFor
    <2>5. CASE NoToken(r)
      BY <2>5 DEF NoToken
    <2>6. n \in DOMAIN tokens => tokens[n] \in Token /\ Dated(tokens[n])
      BY <1>1 DEF Inv, TokensOK
    <2>7. CASE VerifyJwt(r)
      <3>1. req[r].guard = "jwt" /\ ~JwtHolds(n)
        BY <1>1, <2>7 DEF Inv, VerifyJwt, GuardFor, Goes
      <3>2. CASE n \in DOMAIN tokens /\ tokens[n].kind = "jwt" /\ ~(Second < tokens[n].exp)
        <4>1. now \in Nat /\ tokens[n].exp \in Nat /\ tokens[n].good \in Nat
              /\ tokens[n].good < tokens[n].exp * 2
          BY <1>1, <2>6, <3>2 DEF Inv, TokensOK, Token, Dated, TicksPerSecond
        <4>2. tokens[n].exp * 2 <= now
          BY <3>2, <4>1 DEF Second, TicksPerSecond
        <4> QED
          BY <4>1, <4>2
      <3>3. CASE n \in DOMAIN tokens /\ tokens[n].kind = "jwt" /\ ~(tokens[n].nbf <= Second)
        <4>1. now \in Nat /\ tokens[n].nbf \in Nat /\ Second \in Nat
          BY <1>1, <2>6, <3>3 DEF Inv, TokensOK, Token, Second, TicksPerSecond
        <4> QED
          BY <3>3, <4>1
      <3> QED
        BY <3>1, <3>2, <3>3 DEF JwtHolds, Dead
    <2>8. CASE FindToken(r)
      <3>1. req[r].guard = "token" /\ n \notin stored
        BY <1>1, <2>8 DEF Inv, FindToken, GuardFor, Goes
      <3> QED
        BY <2>6, <3>1 DEF Dead, Token
    <2>9. CASE RevokeExpired(r)
      <3>1. n \in DOMAIN tokens /\ tokens[n].kind = "token" /\ tokens[n].exp < now
        BY <2>4, <2>9 DEF RevokeExpired, Good, RequestOK
      <3> QED
        BY <2>6, <3>1 DEF Dated
    <2>10. CASE Lookup(r)
      <3>1. tokens[n].user \notin accounts
        BY <1>1, <2>10 DEF Inv, Lookup, Goes
      <3> QED
        BY <3>1 DEF Dead
    <2> QED
      BY <2>4, <2>5, <2>7, <2>8, <2>9, <2>10
  <1>2. Inv /\ [TokensNext]_tokenVars =>
          [\A r \in Request :
             req'[r].at = "answered" /\ req[r].at # "answered" /\ req'[r].status = "401" =>
                LET n == req[r].token
                IN  n = 0 \/ Dead(n) \/ tokens[n].kind # req[r].guard
                      \/ Second < tokens[n].nbf \/ now > tokens[n].good]_tokenVars
    BY <1>1
  <1> QED
    BY <1>2, TokensInvariance, PTL DEF TokensSpec, GoodTokensGetIn
-----------------------------------------------------------------------------
(***************************************************************************)
(* CORS. An answer is what the middleware sent for some origin, and when   *)
(* the header names one, a cache hands it on to that origin only.          *)
(***************************************************************************)
SentFor(h, origin) ==
    /\ h.allow = IF origin = NoOrigin THEN {} ELSE Resolve(origin)
    /\ h.vary = Varies(h.allow)
    /\ h.credentials = (options.credentials /\ h.allow # {})

KeptOK(h) == \E origin \in Origin \cup {NoOrigin} : SentFor(h, origin) /\ h.madeFor = origin
AnswerOK(a) ==
    \E origin \in Origin \cup {NoOrigin} :
        /\ SentFor(a, origin)
        /\ a.vary => a.to = origin
        /\ a.madeFor = origin \/ (a.madeFor = "preflight" /\ a.to = origin)

\* The options are as the constructor left them once anything was answered.
CorsInv ==
    /\ options.kind \in {"any", "reflect", "none", "list"}
    /\ options.credentials => options.kind \notin {"any", "reflect"}
    /\ answer = {} => shelf = {}
    /\ \A h \in shelf : KeptOK(h) /\ h = [allow |-> h.allow, vary |-> h.vary,
          credentials |-> h.credentials, to |-> h.to, madeFor |-> h.madeFor]
    /\ \A a \in answer : AnswerOK(a)

LEMMA HeadersAreOK ==
    ASSUME NEW origin \in Origin \cup {NoOrigin}, NEW h, h = Headers(origin)
    PROVE  /\ KeptOK(h) /\ h.to = origin /\ AnswerOK(h)
           /\ h = [allow |-> h.allow, vary |-> h.vary, credentials |-> h.credentials,
                   to |-> h.to, madeFor |-> h.madeFor]
<1>1. SentFor(h, origin) /\ h.madeFor = origin /\ h.to = origin
  BY DEF Headers, SentFor
<1> QED
  BY <1>1 DEF KeptOK, AnswerOK, Headers

LEMMA CorsStep == CorsInv /\ [CorsNext]_corsVars => CorsInv'
<1>1. SUFFICES ASSUME CorsInv, [CorsNext]_corsVars PROVE CorsInv'
  OBVIOUS
<1>2. CASE options' = options
  <2>1. \A h : KeptOK(h) => KeptOK(h)'
    BY <1>2 DEF KeptOK, SentFor, Resolve, Allowed
  <2>2. \A a : AnswerOK(a) => AnswerOK(a)'
    BY <1>2 DEF AnswerOK, SentFor, Resolve, Allowed
  <2>3. CASE UNCHANGED corsVars
    BY <1>1, <2>1, <2>2, <2>3 DEF corsVars, CorsInv
  <2>4. ASSUME NEW origin \in Origin \cup {NoOrigin}, Preflight(origin) PROVE CorsInv'
    <3>1. PICK h : h = Headers(origin)
      OBVIOUS
    <3>2. PICK a : a = [h EXCEPT !.madeFor = "preflight"]
      OBVIOUS
    <3>3. answer' = {a} /\ shelf' = shelf
      BY <2>4, <3>1, <3>2 DEF Preflight
    <3>4. /\ a.allow = h.allow /\ a.vary = h.vary /\ a.credentials = h.credentials
          /\ a.to = origin /\ a.madeFor = "preflight"
      BY <3>1, <3>2 DEF Headers
    <3>5. SentFor(a, origin)
      BY <3>1, <3>4 DEF SentFor, Headers
    <3>6. AnswerOK(a)
      BY <3>4, <3>5 DEF AnswerOK
    <3> QED
      BY <1>1, <1>2, <2>1, <2>2, <3>3, <3>6 DEF CorsInv
  <2>5. ASSUME NEW origin \in Origin \cup {NoOrigin}, NEW keep, Ask(origin, keep) PROVE CorsInv'
    <3>1. PICK h : h = Headers(origin)
      OBVIOUS
    <3>2. answer' = {h} /\ shelf' \in {shelf, shelf \cup {h}}
      BY <2>5, <3>1 DEF Ask
    <3> QED
      BY <1>1, <1>2, <2>1, <2>2, <3>1, <3>2, HeadersAreOK DEF CorsInv
  <2>6. ASSUME NEW origin \in Origin \cup {NoOrigin}, NEW h \in shelf, AnswerFromShelf(origin, h)
        PROVE  CorsInv'
    <3>1. PICK a : a = [h EXCEPT !.to = origin]
      OBVIOUS
    <3>2. answer' = {a} /\ shelf' = shelf /\ (h.vary => h.madeFor = origin)
      BY <2>6, <3>1 DEF AnswerFromShelf
    <3>3. PICK o \in Origin \cup {NoOrigin} : SentFor(h, o) /\ h.madeFor = o
      BY <1>1 DEF CorsInv, KeptOK
    <3>4. /\ a.allow = h.allow /\ a.vary = h.vary /\ a.credentials = h.credentials
          /\ a.to = origin /\ a.madeFor = h.madeFor
      <4>1. h = [allow |-> h.allow, vary |-> h.vary, credentials |-> h.credentials,
                 to |-> h.to, madeFor |-> h.madeFor]
        BY <1>1 DEF CorsInv
      <4> QED
        BY <3>1, <4>1
    <3>5. AnswerOK(a)
      BY <3>2, <3>3, <3>4 DEF AnswerOK, SentFor
    <3> QED
      BY <1>1, <1>2, <2>1, <2>2, <3>2, <3>5 DEF CorsInv
  <2>7. CASE \E kind \in {"any", "reflect", "none", "list"}, list \in SUBSET Origin,
               credentials \in BOOLEAN : Configure(kind, list, credentials)
    BY <1>1, <1>2, <2>1, <2>2, <2>7 DEF CorsInv, Configure
  <2> QED
    BY <1>1, <2>3, <2>4, <2>5, <2>6, <2>7 DEF CorsNext
<1>3. CASE options' # options
  <2>1. PICK kind \in {"any", "reflect", "none", "list"}, list \in SUBSET Origin,
             credentials \in BOOLEAN : Configure(kind, list, credentials)
    BY <1>1, <1>3 DEF CorsNext, corsVars, Preflight, Ask, AnswerFromShelf
  <2>2. /\ options'.kind = kind /\ options'.credentials = credentials
        /\ answer' = {} /\ shelf' = {} /\ ~(credentials /\ kind \in {"any", "reflect"})
    BY <1>1, <2>1 DEF Configure, CorsInv
  <2> QED
    BY <2>2 DEF CorsInv
<1> QED
  BY <1>2, <1>3

\* The inductive invariant: every answer is the one sent for some origin, under the options
\* that are in force.
THEOREM CorsInvariance == CorsSpec => []CorsInv
<1>1. CorsInit => CorsInv
  BY DEF CorsInit, CorsInv
<1> QED
  BY <1>1, CorsStep, PTL DEF CorsSpec

\* For any origins, and whatever a shared cache keeps: a page can read the answer it gets if
\* and only if its origin is allowed, with credentials only if the list names it.
THEOREM OnlyTheAllowedRead == CorsSpec => []ReadersAreAllowed
<1>1. ASSUME CorsInv, NEW a \in answer, a.to # NoOrigin
      PROVE  /\ a.allow \in {{"*"}, {a.to}} => Allowed(a.to)
             /\ a.allow \in {{"*"}, {a.to}} /\ a.credentials =>
                   options.kind = "list" /\ a.to \in options.list
             /\ Allowed(a.to) => \/ a.allow \in {{"*"}, {a.to}}
                                 \/ a.madeFor = NoOrigin \/ ~Allowed(a.madeFor)
  <2>1. PICK origin \in Origin \cup {NoOrigin} :
            /\ SentFor(a, origin) /\ (a.vary => a.to = origin)
            /\ a.madeFor = origin \/ (a.madeFor = "preflight" /\ a.to = origin)
    BY <1>1 DEF CorsInv, AnswerOK
  <2>2. CASE a.allow = {}
    <3>1. origin = NoOrigin \/ ~Allowed(origin)
      BY <2>1, <2>2 DEF SentFor, Resolve
    <3> QED
      BY <1>1, <2>1, <2>2, <3>1
  <2>3. CASE a.allow # {} /\ options.kind = "any"
    <3>1. a.allow = {"*"} /\ ~a.credentials
      BY <1>1, <2>1, <2>3 DEF SentFor, Resolve, CorsInv
    <3> QED
      BY <2>3, <3>1 DEF Allowed
  <2>4. CASE a.allow # {} /\ options.kind # "any"
    <3>1. a.allow = {origin} /\ Allowed(origin)
      BY <2>1, <2>4 DEF SentFor, Resolve
    <3>2. origin # "*"
      BY CorsAssumption
    <3>3. a.to = origin
      BY <2>1, <3>1, <3>2 DEF SentFor, Varies
    <3> QED
      BY <1>1, <2>1, <2>4, <3>1, <3>3 DEF Allowed, CorsInv, SentFor
  <2> QED
    BY <2>2, <2>3, <2>4
<1>2. CorsInv => ReadersAreAllowed
  BY <1>1 DEF ReadersAreAllowed
<1> QED
  BY <1>2, CorsInvariance, PTL
-----------------------------------------------------------------------------
\* What the code reads of a text that a browser returns.
Read(text) == Decode(Unquoted(text))

Escapes == {"%3B", "%22", "%25"}
Macs == {Hmac(c[1], c[2]) : c \in Text \X Secret}
Symbol == Char \cup Escapes \cup {";", Quote, "%", "."} \cup Macs

\* The texts a browser can hold: what another host makes up, what the host has set, and what the
\* host has signed.
Honest == Text \cup {Encode(s) : s \in Text} \cup {Encode(Sign(c[1], c[2])) : c \in signatures}
Held == {<<>>} \cup {<<text>> : text \in Honest}

CookiesOK ==
    /\ cookieSecret \in Secret /\ signatures \subseteq Text \X Secret
    /\ jar \in [own : Held, parent : Held]
    /\ \A c \in set :
          /\ c.value \in Text /\ c.secret \in Secret /\ c.signed \in BOOLEAN
          /\ jar.own = <<Encode(IF c.signed THEN Sign(c.value, c.secret) ELSE c.value)>>

LEMMA Escaped ==
    ASSUME NEW c \in Symbol
    PROVE  /\ Escape(c) \in Symbol /\ Unescape(c) \in Symbol
           /\ Escape(c) # "%" /\ Escape(c) # Quote
           /\ c \notin Escapes => Unescape(Escape(c)) = c
  <1>1. \A e \in Escapes \cup {";", Quote, "%"} : e \in Symbol
    BY DEF Symbol
  <1> QED
    BY <1>1 DEF Escape, Unescape, Escapes, Quote

LEMMA TextSymbols ==
    ASSUME NEW s \in Text
    PROVE  s \in Seq(Symbol) /\ ToSet(s) \cap Escapes = {}
  <1>1. s \in Seq(Char) /\ Char \subseteq Symbol /\ Char \cap Escapes = {}
    BY CookiesAssumption DEF Escapes, Symbol
  <1>2. PICK n \in Nat : DOMAIN s = 1..n
    BY <1>1
  <1>3. s \in Seq(Symbol)
    BY <1>1
  <1>4. \A i \in 1..n : s[i] \in Char
    BY <1>1, <1>2
  <1> QED
    BY <1>1, <1>2, <1>3, <1>4 DEF ToSet

LEMMA StartOf ==
    ASSUME NEW S, NEW t \in Seq(S), NEW v \in Seq(S), Len(v) \leq Len(t),
           \A i \in 1..Len(v) : t[i] = v[i]
    PROVE  SubSeq(t, 1, Len(v)) = v
  OBVIOUS

\* What is encoded is read as it was, with or without what the header gives a meaning to.
LEMMA EncodedIsRead ==
    ASSUME NEW s \in Seq(Symbol), ToSet(s) \cap Escapes = {}
    PROVE  Encode(s) \in Seq(Symbol) /\ Read(Encode(s)) = s
  <1>1. PICK n \in Nat : n = Len(s) /\ DOMAIN s = 1..n /\ s = [i \in 1..n |-> s[i]]
    OBVIOUS
  <1>2. PICK e : e = Encode(s)
    OBVIOUS
  <1>3. e = [i \in 1..n |-> Escape(s[i])]
    BY <1>1, <1>2 DEF Encode
  <1>4. \A i \in 1..n : /\ s[i] \in Symbol /\ s[i] \notin Escapes
                        /\ e[i] \in Symbol /\ e[i] # "%" /\ e[i] # Quote
                        /\ Unescape(e[i]) = s[i]
    BY <1>1, <1>3, Escaped DEF ToSet
  <1>5. e \in Seq(Symbol) /\ DOMAIN e = 1..n
    <2>1. e \in [1..n -> Symbol]
      BY <1>3, <1>4
    <2> QED
      BY <2>1
  <1>6. Unquoted(e) = e
    <2>1. e = <<>> \/ e[1] # Quote
      BY <1>4, <1>5
    <2> QED
      BY <2>1 DEF Unquoted
  <1>7. "%" \notin ToSet(e)
    BY <1>4, <1>5 DEF ToSet
  <1>8. Decode(e) = [i \in 1..n |-> Unescape(e[i])]
    BY <1>5, <1>7 DEF Decode
  <1>9. [i \in 1..n |-> Unescape(e[i])] = [i \in 1..n |-> s[i]]
    BY <1>4
  <1> QED
    BY <1>1, <1>2, <1>5, <1>6, <1>8, <1>9 DEF Read

\* A signed text gives back its value under its secret, and nothing under another.
LEMMA SignedIsRead ==
    ASSUME NEW v \in Text, NEW k \in Secret, NEW l \in Secret
    PROVE  /\ Sign(v, k) \in Seq(Symbol) /\ ToSet(Sign(v, k)) \cap Escapes = {}
           /\ Unsign(Sign(v, k), l) = IF l = k /\ v # <<>> THEN {v} ELSE {}
  <1>1. PICK h : h = Hmac(v, k)
    OBVIOUS
  <1>2. h \in Symbol /\ "." \in Symbol /\ h # "." /\ h \notin Escapes
    <2>1. h \in Macs
      <3>1. <<v, k>> \in Text \X Secret /\ <<v, k>>[1] = v /\ <<v, k>>[2] = k
        OBVIOUS
      <3> QED
        BY <1>1, <3>1, Zenon DEF Macs
    <2>2. h \notin {"%3B", "%22", "%25", ";", Quote, "%", "."}
      BY <1>1, SignaturesDiffer
    <2> QED
      BY <2>1, <2>2 DEF Escapes, Symbol
  <1>3. v \in Seq(Symbol) /\ ToSet(v) \cap Escapes = {}
    BY TextSymbols
  <1>4. PICK n \in Nat : n = Len(v) /\ DOMAIN v = 1..n
    BY <1>3
  <1>5. PICK t : t = Sign(v, k)
    OBVIOUS
  <1>6. t = v \o <<".", h>>
    BY <1>1, <1>5 DEF Sign
  <1>7. /\ t \in Seq(Symbol) /\ Len(t) = n + 2 /\ DOMAIN t = 1..(n + 2)
        /\ t[n + 1] = "." /\ t[n + 2] = h /\ \A i \in 1..n : t[i] = v[i]
    BY <1>2, <1>3, <1>4, <1>6
  <1>8. ToSet(t) \cap Escapes = {}
    <2>1. \A i \in 1..n : t[i] \notin Escapes
      BY <1>3, <1>4, <1>7 DEF ToSet
    <2>2. \A i \in 1..(n + 2) : i \in 1..n \/ i = n + 1 \/ i = n + 2
      OBVIOUS
    <2>3. "." \notin Escapes
      BY DEF Escapes
    <2>4. \A i \in 1..(n + 2) : t[i] \notin Escapes
      BY <1>2, <1>7, <2>1, <2>2, <2>3
    <2> QED
      BY <1>7, <2>4 DEF ToSet
  <1>9. SubSeq(t, 1, n) = v
    BY <1>3, <1>4, <1>7, StartOf
  <1> DEFINE Divides(i) == /\ t[i] = "." /\ \A j \in (i + 1)..(n + 2) : t[j] # "."
                           /\ i + 1 = n + 2 /\ t[i + 1] = Hmac(SubSeq(t, 1, i - 1), l)
  <1>10. ASSUME NEW i \in 2..(n + 2), Divides(i)
         PROVE  i = n + 1 /\ l = k /\ v # <<>>
    <2>1. i = n + 1 /\ i - 1 = n /\ i + 1 = n + 2 /\ n # 0
      BY <1>10
    <2>2. t[n + 2] = Hmac(SubSeq(t, 1, n), l)
      BY <1>10, <2>1
    <2>3. h = Hmac(v, l)
      BY <1>7, <1>9, <2>2
    <2>4. l = k
      BY <1>1, <2>3, SignaturesDiffer
    <2> QED
      BY <1>3, <1>4, <2>1, <2>4
  <1>11. ASSUME l = k, v # <<>>
         PROVE  n + 1 \in 2..(n + 2) /\ Divides(n + 1)
    <2>1. n # 0
      BY <1>3, <1>4, <1>11
    <2>2. n + 1 - 1 = n /\ n + 1 + 1 = n + 2
      OBVIOUS
    <2>3. t[n + 2] = Hmac(SubSeq(t, 1, n), l)
      BY <1>1, <1>7, <1>9, <1>11
    <2>4. \A j \in (n + 2)..(n + 2) : t[j] # "."
      BY <1>2, <1>7
    <2> QED
      BY <1>7, <2>1, <2>2, <2>3, <2>4
  <1>12. Unsign(t, l) = {SubSeq(t, 1, dot - 1) : dot \in {i \in 2..(n + 2) : Divides(i)}}
    BY <1>7 DEF Unsign
  <1>13. Unsign(t, l) = IF l = k /\ v # <<>> THEN {v} ELSE {}
    <2>1. PICK D \in SUBSET (2..(n + 2)) : D = {i \in 2..(n + 2) : Divides(i)}
      OBVIOUS
    <2>2. Unsign(t, l) = {SubSeq(t, 1, dot - 1) : dot \in D}
      BY <1>12, <2>1
    <2>3. D = IF l = k /\ v # <<>> THEN {n + 1} ELSE {}
      <3> HIDE DEF Divides
      <3> QED
        BY <1>10, <1>11, <2>1
    <2>4. n + 1 - 1 = n
      OBVIOUS
    <2> QED
      BY <1>9, <2>2, <2>3, <2>4
  <1> QED
    BY <1>5, <1>7, <1>8, <1>13

\* Nobody else's text reads as a signed one.
LEMMA MadeUpIsUnsigned ==
    ASSUME NEW s \in Text, NEW t \in {s, Read(s)}, NEW l \in Secret
    PROVE  Unsign(t, l) = {}
  <1>1. s \in Seq(Symbol)
    BY TextSymbols
  <1>2. t \in Seq(Symbol)
    <2>1. PICK u : u = Unquoted(s)
      OBVIOUS
    <2>2. u \in Seq(Symbol)
      BY <1>1, <2>1 DEF Unquoted
    <2>3. PICK n \in Nat : DOMAIN u = 1..n
      BY <2>2
    <2>4. \A i \in 1..n : Unescape(u[i]) \in Symbol
      BY <2>2, <2>3, Escaped
    <2>5. [i \in 1..n |-> Unescape(u[i])] \in Seq(Symbol)
      BY <2>4
    <2>6. Decode(u) \in Seq(Symbol)
      BY <2>2, <2>3, <2>5 DEF Decode
    <2> QED
      BY <1>1, <2>1, <2>6 DEF Read
  <1>3. PICK n \in Nat : n = Len(t) /\ DOMAIN t = 1..n
    BY <1>2
  <1>4. \A m \in 0..n : Hmac(SubSeq(t, 1, m), l) \notin ToSet(t)
    BY <1>3, NobodyGuesses DEF Read
  <1>5. ASSUME NEW i \in 2..n, i + 1 = n, t[i + 1] = Hmac(SubSeq(t, 1, i - 1), l)
        PROVE  FALSE
    <2>1. i - 1 \in 0..n /\ i + 1 \in 1..n
      BY <1>5
    <2> QED
      BY <1>3, <1>4, <1>5, <2>1 DEF ToSet
  <1> QED
    BY <1>3, <1>5 DEF Unsign

\* What is read as signed with a secret was signed with it.
LEMMA ReadHonestly ==
    ASSUME CookiesOK, NEW text \in Honest, NEW v \in Unsign(Read(text), cookieSecret)
    PROVE  <<v, cookieSecret>> \in signatures
  <1>1. cookieSecret \in Secret
    BY DEF CookiesOK
  <1>2. ASSUME NEW s \in Text PROVE text # s /\ text # Encode(s)
    <2>1. Unsign(Read(s), cookieSecret) = {} /\ Unsign(s, cookieSecret) = {}
      BY <1>1, MadeUpIsUnsigned
    <2>2. Read(Encode(s)) = s
      BY EncodedIsRead, TextSymbols
    <2> QED
      BY <2>1, <2>2
  <1>3. PICK c \in signatures : text = Encode(Sign(c[1], c[2]))
    BY <1>2 DEF Honest
  <1>4. PICK w \in Text, k \in Secret : c = <<w, k>>
    BY DEF CookiesOK
  <1>5. Read(text) = Sign(w, k)
    BY <1>1, <1>3, <1>4, SignedIsRead, EncodedIsRead
  <1>6. cookieSecret = k /\ v = w
    BY <1>1, <1>5, SignedIsRead
  <1> QED
    BY <1>4, <1>6

LEMMA CookiesStart == CookiesInit => CookiesOK
  <1>1. (CHOOSE secret \in Secret : TRUE) \in Secret
    BY CookiesAssumption
  <1> QED
    BY <1>1 DEF CookiesInit, CookiesOK, Held

LEMMA HeldStays ==
    ASSUME signatures \subseteq signatures'
    PROVE  Honest \subseteq Honest' /\ Held \subseteq Held'
  <1>1. Honest \subseteq Honest'
    BY DEF Honest
  <1> QED
    BY <1>1 DEF Held

LEMMA CookiesStep == CookiesOK /\ [CookiesNext]_cookieVars => CookiesOK'
  <1> SUFFICES ASSUME CookiesOK, [CookiesNext]_cookieVars
               PROVE  CookiesOK'
    OBVIOUS
  <1>1. ASSUME NEW value \in Text, NEW signed \in BOOLEAN, NEW sameSite, NEW secure, NEW maxAge,
               SetCookie(value, signed, sameSite, secure, maxAge)
        PROVE  CookiesOK'
    <2>1. PICK text : text = IF signed THEN Sign(value, cookieSecret) ELSE value
      OBVIOUS
    <2>2. /\ jar' = [jar EXCEPT !.own = IF Expires(maxAge) THEN <<>> ELSE <<Encode(text)>>]
          /\ set' = IF Expires(maxAge) THEN {}
                    ELSE {[value |-> value, signed |-> signed, secret |-> cookieSecret]}
          /\ signatures' = IF signed THEN signatures \cup {<<value, cookieSecret>>} ELSE signatures
          /\ cookieSecret' = cookieSecret
      BY <1>1, <2>1 DEF SetCookie
    <2>3. /\ cookieSecret \in Secret /\ signatures \subseteq Text \X Secret
          /\ jar \in [own : Held, parent : Held]
      BY DEF CookiesOK
    <2>4. cookieSecret' \in Secret /\ signatures' \subseteq Text \X Secret
      BY <2>2, <2>3
    <2>5. Encode(text) \in Honest'
      <3>1. CASE signed
        <4>1. <<value, cookieSecret>> \in signatures' /\ text = Sign(value, cookieSecret)
          BY <2>1, <2>2, <3>1
        <4>2. PICK c \in signatures' : text = Sign(c[1], c[2])
          BY <4>1
        <4> QED
          BY <4>2 DEF Honest
      <3>2. CASE ~signed
        <4>1. text \in Text
          BY <2>1, <3>2
        <4> QED
          BY <4>1 DEF Honest
      <3> QED
        BY <3>1, <3>2
    <2>6. jar' \in [own : Held', parent : Held']
      <3>1. jar.parent \in Held'
        BY <2>2, <2>3, HeldStays
      <3>2. PICK own \in Held' : jar' = [jar EXCEPT !.own = own]
        BY <2>2, <2>5 DEF Held
      <3> QED
        BY <2>3, <3>1, <3>2
    <2>7. \A c \in set' :
             /\ c.value \in Text /\ c.secret \in Secret /\ c.signed \in BOOLEAN
             /\ jar'.own = <<Encode(IF c.signed THEN Sign(c.value, c.secret) ELSE c.value)>>
      <3>1. ASSUME NEW c \in set'
            PROVE  /\ c = [value |-> value, signed |-> signed, secret |-> cookieSecret]
                   /\ jar'.own = <<Encode(text)>>
        BY <2>2, <2>3, <3>1
      <3>2. ASSUME NEW c \in set'
            PROVE  c.value = value /\ c.signed = signed /\ c.secret = cookieSecret
        BY <3>1
      <3> QED
        BY <2>1, <2>3, <3>1, <3>2
    <2> QED
      BY <2>4, <2>6, <2>7 DEF CookiesOK
  <1>2. CASE ClearCookie
    <2>1. /\ jar' = [jar EXCEPT !.own = <<>>] /\ set' = {}
          /\ signatures' = signatures /\ cookieSecret' = cookieSecret
      BY <1>2 DEF ClearCookie
    <2>2. jar \in [own : Held, parent : Held] /\ <<>> \in Held
      BY DEF CookiesOK, Held
    <2>3. jar' \in [own : Held, parent : Held]
      BY <2>1, <2>2
    <2>4. Held' = Held
      BY <2>1 DEF Held, Honest
    <2> QED
      BY <2>1, <2>3, <2>4 DEF CookiesOK
  <1>3. ASSUME NEW text, SiblingSets(text),
               text \in {s \in Text : ";" \notin ToSet(s)} \cup ToSet(jar.own)
                          \cup {Encode(Sign(c[1], c[2])) : c \in signatures}
        PROVE  CookiesOK'
    <2>1. /\ jar' = [jar EXCEPT !.parent = <<text>>]
          /\ set' = set /\ signatures' = signatures /\ cookieSecret' = cookieSecret
      BY <1>3 DEF SiblingSets
    <2>2. jar \in [own : Held, parent : Held]
      BY DEF CookiesOK
    <2>3. text \in Honest
      <3>1. ToSet(jar.own) \subseteq Honest
        BY <2>2 DEF Held, ToSet
      <3> QED
        BY <1>3, <3>1 DEF Honest
    <2>4. PICK parent \in Held : jar' = [jar EXCEPT !.parent = parent]
      BY <2>1, <2>3 DEF Held
    <2>5. jar' \in [own : Held, parent : Held] /\ jar'.own = jar.own
      BY <2>2, <2>4
    <2>6. Held' = Held
      BY <2>1 DEF Held, Honest
    <2> QED
      BY <2>1, <2>5, <2>6 DEF CookiesOK
  <1>4. ASSUME NEW secret \in Secret, ChangeSecret(secret)
        PROVE  CookiesOK'
    <2>1. Held' = Held
      BY <1>4 DEF ChangeSecret, Held, Honest
    <2> QED
      BY <1>4, <2>1 DEF ChangeSecret, CookiesOK
  <1>5. CASE UNCHANGED cookieVars
    <2>1. Held' = Held
      BY <1>5 DEF cookieVars, Held, Honest
    <2> QED
      BY <1>5, <2>1 DEF cookieVars, CookiesOK
  <1> QED
    BY <1>1, <1>2, <1>3, <1>4, <1>5 DEF CookiesNext

\* Every cookie a browser sends is one it can hold, and what the host has set is sent first.
THEOREM CookiesInvariance == CookiesSpec => []CookiesOK
  <1> QED
    BY CookiesStart, CookiesStep, PTL DEF CookiesSpec

\* The first cookie counts.
LEMMA FirstIsRead ==
    ASSUME CookiesOK
    PROVE  \/ Cookie = {} /\ jar.own = <<>>
           \/ \E text \in Honest : Cookie = {Read(text)} /\ (jar.own = <<>> \/ jar.own = <<text>>)
  <1>1. jar.own \in Held /\ jar.parent \in Held
    BY DEF CookiesOK
  <1>2. PICK header : header = jar.own \o jar.parent
    OBVIOUS
  <1>3. Cookie = {Read(header[1]) : i \in DOMAIN header}
    BY <1>2 DEF Cookie, Parse, Read
  <1>4. CASE jar.own = <<>> /\ jar.parent = <<>>
    <2>1. DOMAIN header = {}
      BY <1>2, <1>4
    <2> QED
      BY <1>3, <1>4, <2>1
  <1>5. ASSUME NEW text \in Honest, jar.own = <<text>>
        PROVE  Cookie = {Read(text)}
    <2>1. header[1] = text /\ 1 \in DOMAIN header
      <3>1. CASE jar.parent = <<>>
        BY <1>2, <1>5, <3>1
      <3>2. ASSUME NEW other \in Honest, jar.parent = <<other>> PROVE header[1] = text /\ 1 \in DOMAIN header
        BY <1>2, <1>5, <3>2
      <3> QED
        BY <1>1, <3>1, <3>2 DEF Held
    <2> QED
      BY <1>3, <2>1
  <1>6. ASSUME NEW text \in Honest, jar.own = <<>>, jar.parent = <<text>>
        PROVE  Cookie = {Read(text)}
    <2>1. header[1] = text /\ DOMAIN header = {1}
      BY <1>2, <1>6
    <2> QED
      BY <1>3, <2>1
  <1>7. jar.own = <<>> \/ \E text \in Honest : jar.own = <<text>>
    BY <1>1 DEF Held
  <1>8. jar.parent = <<>> \/ \E text \in Honest : jar.parent = <<text>>
    BY <1>1 DEF Held
  <1> QED
    BY <1>4, <1>5, <1>6, <1>7, <1>8

\* What the host sets is what it reads, whatever its characters and whatever other hosts set; and
\* no value passes for a signed one that was not signed with the secret of the day.
THEOREM WhatIsSetIsRead == CookiesSpec => []CookiesReadBack
  <1>1. ASSUME CookiesOK PROVE CookiesReadBack
    <2>1. cookieSecret \in Secret
      BY <1>1 DEF CookiesOK
    <2>2. ASSUME NEW text \in Honest, Cookie = {Read(text)}
          PROVE  SignedCookie = Unsign(Read(text), cookieSecret)
      BY <2>2 DEF SignedCookie
    <2>3. ASSUME NEW c \in set
          PROVE  /\ ~c.signed => Cookie = {c.value}
                 /\ c.signed => SignedCookie = IF c.secret = cookieSecret /\ c.value # <<>>
                                               THEN {c.value} ELSE {}
      <3>1. /\ c.value \in Text /\ c.secret \in Secret /\ c.signed \in BOOLEAN
            /\ jar.own = <<Encode(IF c.signed THEN Sign(c.value, c.secret) ELSE c.value)>>
        BY <1>1, <2>3 DEF CookiesOK
      <3>2. PICK text \in Honest : Cookie = {Read(text)} /\ jar.own = <<text>>
        BY <1>1, <3>1, FirstIsRead
      <3>3. text = Encode(IF c.signed THEN Sign(c.value, c.secret) ELSE c.value)
        BY <3>1, <3>2
      <3>4. CASE ~c.signed
        BY <3>1, <3>2, <3>3, <3>4, TextSymbols, EncodedIsRead
      <3>5. CASE c.signed
        <4>1. Read(text) = Sign(c.value, c.secret)
          BY <2>1, <3>1, <3>3, <3>5, SignedIsRead, EncodedIsRead
        <4>2. SignedCookie = Unsign(Sign(c.value, c.secret), cookieSecret)
          BY <2>2, <3>2, <4>1
        <4>3. SignedCookie = IF cookieSecret = c.secret /\ c.value # <<>> THEN {c.value} ELSE {}
          BY <2>1, <3>1, <4>2, SignedIsRead
        <4> QED
          BY <3>5, <4>3
      <3> QED
        BY <3>1, <3>4, <3>5
    <2>4. ASSUME NEW v \in SignedCookie
          PROVE  <<v, cookieSecret>> \in signatures
      <3>1. PICK s \in Cookie : v \in Unsign(s, cookieSecret)
        BY <2>4 DEF SignedCookie
      <3>2. PICK text \in Honest : s = Read(text)
        BY <1>1, <3>1, FirstIsRead
      <3> QED
        BY <1>1, <3>1, <3>2, ReadHonestly
    <2> QED
      BY <2>3, <2>4 DEF CookiesReadBack
  <1> QED
    BY <1>1, CookiesInvariance, PTL
-----------------------------------------------------------------------------
(***************************************************************************)
(* Routes. The recursive functions of Router are there by induction over   *)
(* Nat, said of sets: a set of naturals with 0 and successors is Nat.      *)
(***************************************************************************)
\* A set of naturals with 0 and with the successor of each of its own is all of them.
LEMMA Induction ==
    ASSUME NEW I \in SUBSET Nat, 0 \in I, \A i \in I : i + 1 \in I
    PROVE  I = Nat
  <1>1. SUFFICES ASSUME Nat \ I # {} PROVE FALSE
    OBVIOUS
  <1>2. PICK n \in Nat \ I : \A m \in Nat \ I : ~(<<m, n>> \in OpToRel(<, Nat))
    <2>1. IsWellFoundedOn(OpToRel(<, Nat), Nat)
      BY NatLessThanWellFounded
    <2>2. Nat \ I \subseteq Nat
      OBVIOUS
    <2> HIDE DEF OpToRel
    <2> QED
      BY <1>1, <2>1, <2>2, WFMin, Zenon
  <1>3. \A m \in Nat \ I : ~(m < n)
    BY <1>2 DEF OpToRel
  <1>4. n # 0 /\ n - 1 \in Nat /\ n - 1 < n
    OBVIOUS
  <1>5. n - 1 \in I
    BY <1>3, <1>4
  <1>6. (n - 1) + 1 \in I
    BY <1>5
  <1> QED
    BY <1>6

\* A function of 0..n into S that starts with a and goes on with step.
GoesOnFrom(S, n, a, step) ==
    \E g \in [0..n -> S] : g[0] = a /\ \A i \in 1..n : g[i] = step[i][g[i - 1]]

\* It is there.
LEMMA Recursion ==
    ASSUME NEW S, NEW n \in Nat, NEW a \in S, NEW step \in [1..n -> [S -> S]]
    PROVE  GoesOnFrom(S, n, a, step)
  <1> DEFINE Upto(m) == \E g \in [0..m -> S] : g[0] = a /\ \A i \in 1..m : g[i] = step[i][g[i - 1]]
  <1> DEFINE I == {m \in Nat : m <= n => Upto(m)}
  <1>1. 0 \in I
    <2> DEFINE g == [i \in {0} |-> a]
    <2>1. 0..0 = {0} /\ 1..0 = {}
      OBVIOUS
    <2>2. g \in [{0} -> S] /\ g[0] = a
      OBVIOUS
    <2>3. Upto(0)
      BY <2>1, <2>2
    <2> QED
      BY <2>3
  <1>2. ASSUME NEW m \in I PROVE m + 1 \in I
    <2>1. SUFFICES ASSUME m + 1 <= n PROVE Upto(m + 1)
      <3> HIDE DEF Upto
      <3> QED
        OBVIOUS
    <2>2. m \in Nat
      OBVIOUS
    <2>3. Upto(m)
      BY <2>1, <2>2
    <2>4. PICK g \in [0..m -> S] : g[0] = a /\ \A i \in 1..m : g[i] = step[i][g[i - 1]]
      BY <2>3
    <2> DEFINE b == step[m + 1][g[m]]
    <2> DEFINE h == [i \in 0..m + 1 |-> IF i = m + 1 THEN b ELSE g[i]]
    <2>5. b \in S
      BY <2>1, <2>2, <2>4
    <2> HIDE DEF b
    <2>6. h \in [0..m + 1 -> S] /\ h[0] = a /\ h[m + 1] = b /\ \A i \in 0..m : h[i] = g[i]
      BY <2>2, <2>4, <2>5
    <2> HIDE DEF h
    <2>7. ASSUME NEW i \in 1..m + 1 PROVE h[i] = step[i][h[i - 1]]
      <3>1. CASE i = m + 1
        BY <3>1, <2>2, <2>6 DEF b
      <3>2. CASE i \in 1..m
        <4>1. i - 1 \in 0..m /\ i \in 0..m
          BY <3>2, <2>2
        <4> QED
          BY <4>1, <3>2, <2>4, <2>6
      <3> QED
        BY <3>1, <3>2, <2>2
    <2> QED
      BY <2>6, <2>7
  <1> HIDE DEF Upto
  <1>3. n \in I
    <2>1. I \in SUBSET Nat
      OBVIOUS
    <2> HIDE DEF I
    <2> QED
      BY <1>1, <1>2, <2>1, Induction
  <1>4. Upto(n)
    BY <1>3
  <1> QED
    BY <1>4 DEF Upto, GoesOnFrom

LEMMA Largest ==
    ASSUME NEW n \in Nat, NEW X \in SUBSET (0..n), X # {}
    PROVE  Max(X) \in X /\ \A y \in X : y <= Max(X)
  <1> DEFINE HasOne(Y) == \E x \in Y : \A y \in Y : y <= x
  <1> DEFINE I == {m \in Nat : \A Y \in SUBSET (0..m) : Y # {} => HasOne(Y)}
  <1>1. 0 \in I
    <2>1. 0..0 = {0}
      OBVIOUS
    <2>2. ASSUME NEW Y \in SUBSET {0}, Y # {} PROVE HasOne(Y)
      <3>1. 0 \in Y /\ \A y \in Y : y = 0
        BY <2>2
      <3> QED
        BY <3>1
    <2> HIDE DEF HasOne
    <2> QED
      BY <2>1, <2>2
  <1>2. ASSUME NEW m \in I PROVE m + 1 \in I
    <2>1. SUFFICES ASSUME NEW Y \in SUBSET (0..m + 1), Y # {} PROVE HasOne(Y)
      OBVIOUS
    <2>2. CASE m + 1 \in Y
      BY <2>2
    <2>3. CASE m + 1 \notin Y
      <3>1. Y \in SUBSET (0..m)
        BY <2>3
      <3> QED
        BY <3>1, <2>1
    <2> QED
      BY <2>2, <2>3
  <1>3. n \in I
    <2>1. I \in SUBSET Nat
      OBVIOUS
    <2> HIDE DEF I
    <2> QED
      BY <1>1, <1>2, <2>1, Induction
  <1>4. PICK x \in X : \A y \in X : y <= x
    BY <1>3
  <1> QED
    BY <1>4 DEF Max

LEMMA Smallest ==
    ASSUME NEW X \in SUBSET Nat, X # {}
    PROVE  Min(X) \in X /\ \A y \in X : Min(X) <= y
  <1> DEFINE I == {m \in Nat : \A y \in X : m <= y}
  <1>1. \E x \in X : \A y \in X : x <= y
    <2>1. SUFFICES ASSUME \A x \in X : \E y \in X : ~(x <= y) PROVE FALSE
      OBVIOUS
    <2>2. 0 \in I
      OBVIOUS
    <2>3. ASSUME NEW m \in I PROVE m + 1 \in I
      <3>1. m \notin X
        BY <2>1
      <3> QED
        BY <3>1
    <2>4. I = Nat
      <3>1. I \in SUBSET Nat
        OBVIOUS
      <3> HIDE DEF I
      <3> QED
        BY <2>2, <2>3, <3>1, Induction
    <2>5. PICK x \in X : TRUE
      OBVIOUS
    <2>6. x + 1 \in I
      BY <2>4
    <2> QED
      BY <2>6
  <1> QED
    BY <1>1 DEF Min

\* A way for the tokens to share s out: up to where each of them gets.
Cuts(p, s, c) ==
    /\ c \in [0..Len(p) -> 0..Len(s)] /\ c[0] = 0 /\ c[Len(p)] = Len(s)
    /\ \A i \in 1..Len(p) : Swallows(p[i], s, c[i - 1], c[i])

LEMMA TailsAre ==
    ASSUME NEW p, NEW s, Len(p) \in Nat
    PROVE  /\ Tails(p, s) \in [0..Len(p) -> SUBSET (0..Len(s))]
           /\ Tails(p, s)[0] = {j \in 0..Len(s) : Ends(s, j)}
           /\ \A i \in 1..Len(p) : Tails(p, s)[i] =
                 {j \in 0..Len(s) : \E k \in Tails(p, s)[i - 1] :
                     Swallows(p[Len(p) + 1 - i], s, j, k)}
  <1> DEFINE n == Len(p)
             S == SUBSET (0..Len(s))
             First == {j \in 0..Len(s) : Ends(s, j)}
             Before(i, X) == {j \in 0..Len(s) : \E k \in X : Swallows(p[n + 1 - i], s, j, k)}
             step == [i \in 1..n |-> [X \in S |-> Before(i, X)]]
  <1>1. step \in [1..n -> [S -> S]] /\ First \in S
    <2>1. \A i, X : Before(i, X) \in S
      OBVIOUS
    <2> QED
      BY <2>1
  <1>2. \A i \in 1..n, X \in S : step[i][X] = Before(i, X)
    <2> HIDE DEF n, S, Before
    <2> QED
      OBVIOUS
  <1> HIDE DEF step, S, First
  <1>3. PICK g \in [0..n -> S] : g[0] = First /\ \A i \in 1..n : g[i] = step[i][g[i - 1]]
    <2>1. GoesOnFrom(S, n, First, step)
      BY <1>1, Recursion
    <2> QED
      BY <2>1, Zenon DEF GoesOnFrom
  <1>4. \A i \in 1..n : g[i] = Before(i, g[i - 1])
    <2> TAKE i \in 1..n
    <2>1. g[i - 1] \in S
      BY <1>3
    <2> QED
      BY <1>2, <1>3, <2>1
  <1> HIDE DEF Before
  <1>5. g = [i \in 0..n |-> IF i = 0 THEN First ELSE Before(i, g[i - 1])]
    <2>1. \A i \in 0..n : i = 0 \/ i \in 1..n
      OBVIOUS
    <2> QED
      BY <1>3, <1>4, <2>1
  <1> DEFINE T == Tails(p, s)
  <1>6. T = CHOOSE h : h = [i \in 0..n |-> IF i = 0 THEN First ELSE Before(i, h[i - 1])]
    BY Zenon DEF Tails, First, Before
  <1> HIDE DEF T
  <1>7. T = [i \in 0..n |-> IF i = 0 THEN First ELSE Before(i, T[i - 1])]
    BY <1>5, <1>6, Zenon
  <1>8. T[0] = First /\ \A i \in 1..n : T[i] = Before(i, T[i - 1])
    <2>1. 0 \in 0..n /\ \A i \in 1..n : i \in 0..n /\ i # 0
      OBVIOUS
    <2> HIDE DEF n
    <2> QED
      BY <1>7, <2>1
  <1>9. \A i \in 0..n : T[i] \in S
    <2>1. \A i \in 0..n : i = 0 \/ i \in 1..n
      OBVIOUS
    <2>2. \A i : Before(i, T[i - 1]) \in S
      BY DEF Before, S
    <2> QED
      BY <1>1, <1>8, <2>1, <2>2
  <1>10. T \in [0..n -> S]
    <2> HIDE DEF n
    <2> QED
      BY <1>7, <1>9
  <1> QED
    BY <1>8, <1>10, Zenon DEF T, First, Before, S

LEMMA GreedyIs ==
    ASSUME NEW p, NEW s, Len(p) \in Nat, Len(s) \in Nat
    PROVE  LET c == Greedy(p, s)
           IN  /\ DOMAIN c = 0..Len(p) /\ c[0] = 0
               /\ c = [i \in 0..Len(p) |-> c[i]]
               /\ \A i \in 1..Len(p) : c[i] =
                     Max({k \in Tails(p, s)[Len(p) - i] : Swallows(p[i], s, c[i - 1], k)})
  <1> DEFINE n == Len(p)
             R == 0..Len(s)
             S == R \cup {Max({})}
             Next1(i, from) == Max({k \in Tails(p, s)[n - i] : Swallows(p[i], s, from, k)})
             step == [i \in 1..n |-> [from \in S |-> Next1(i, from)]]
  <1>1. \A i \in 1..n, from \in S : Next1(i, from) \in S
    <2> TAKE i \in 1..n, from \in S
    <2> DEFINE X == {k \in Tails(p, s)[n - i] : Swallows(p[i], s, from, k)}
    <2>1. X \in SUBSET R
      <3>1. n - i \in 0..n
        OBVIOUS
      <3> QED
        BY <3>1, TailsAre
    <2> HIDE DEF X
    <2>2. X # {} => Max(X) \in R
      BY <2>1, Largest
    <2>3. Max(X) \in S
      BY <2>2
    <2> QED
      BY <2>3 DEF X
  <1>2. step \in [1..n -> [S -> S]] /\ 0 \in S
    <2>1. 0 \in S
      OBVIOUS
    <2> HIDE DEF n, S, Next1
    <2> QED
      BY <1>1, <2>1
  <1>3. \A i \in 1..n, from \in S : step[i][from] = Next1(i, from)
    <2> HIDE DEF n, S, Next1
    <2> QED
      OBVIOUS
  <1> HIDE DEF step, S
  <1>4. PICK g \in [0..n -> S] : g[0] = 0 /\ \A i \in 1..n : g[i] = step[i][g[i - 1]]
    <2>1. GoesOnFrom(S, n, 0, step)
      BY <1>2, Recursion
    <2> QED
      BY <2>1, Zenon DEF GoesOnFrom
  <1>5. \A i \in 1..n : g[i] = Next1(i, g[i - 1])
    <2> TAKE i \in 1..n
    <2>1. g[i - 1] \in S
      BY <1>4
    <2> QED
      BY <1>3, <1>4, <2>1
  <1> HIDE DEF Next1
  <1>6. g = [i \in 0..n |-> IF i = 0 THEN 0 ELSE Next1(i, g[i - 1])]
    <2>1. \A i \in 0..n : i = 0 \/ i \in 1..n
      OBVIOUS
    <2> QED
      BY <1>4, <1>5, <2>1
  <1> DEFINE c == Greedy(p, s)
  <1>7. c = CHOOSE h : h = [i \in 0..n |-> IF i = 0 THEN 0 ELSE Next1(i, h[i - 1])]
    BY Zenon DEF Greedy, Next1
  <1> HIDE DEF c
  <1>8. c = [i \in 0..n |-> IF i = 0 THEN 0 ELSE Next1(i, c[i - 1])]
    BY <1>6, <1>7, Zenon
  <1>9. 0 \in 0..n /\ \A i \in 1..n : i \in 0..n /\ i # 0
    OBVIOUS
  <1>10. c[0] = 0 /\ DOMAIN c = 0..n /\ c = [i \in 0..n |-> c[i]]
         /\ \A i \in 1..n : c[i] = Next1(i, c[i - 1])
    <2> HIDE DEF n
    <2> QED
      BY <1>8, <1>9
  <1> QED
    BY <1>10, Zenon DEF c, Next1

\* What exec finds is a way to share s out.
LEMMA GreedyIsACut ==
    ASSUME NEW p, NEW s, Len(p) \in Nat, Len(s) \in Nat, 0 \in Tails(p, s)[Len(p)]
    PROVE  Cuts(p, s, Greedy(p, s))
  <1> DEFINE n == Len(p)
             c == Greedy(p, s)
             T == Tails(p, s)
             Kept(i) == {k \in T[n - i] : Swallows(p[i], s, c[i - 1], k)}
             I == {i \in Nat : i <= n => c[i] \in T[n - i] /\ (i > 0 => Swallows(p[i], s, c[i - 1], c[i]))}
  <1>1. T \in [0..n -> SUBSET (0..Len(s))] /\ T[0] = {j \in 0..Len(s) : Ends(s, j)}
    BY TailsAre
  <1>2. \A i \in 1..n : T[i] = {j \in 0..Len(s) : \E k \in T[i - 1] : Swallows(p[n + 1 - i], s, j, k)}
    BY TailsAre
  <1>3. c[0] = 0 /\ c = [i \in 0..n |-> c[i]] /\ \A i \in 1..n : c[i] = Max(Kept(i))
    BY GreedyIs
  <1>4. n \in Nat
    OBVIOUS
  <1>5. 0 \in T[n]
    OBVIOUS
  <1> HIDE DEF c, T, n
  <1>6. 0 \in I
    BY <1>3, <1>4, <1>5
  <1>7. ASSUME NEW m \in I PROVE m + 1 \in I
    <2>1. SUFFICES ASSUME m + 1 <= n
                   PROVE  c[m + 1] \in T[n - (m + 1)] /\ Swallows(p[m + 1], s, c[m], c[m + 1])
      OBVIOUS
    <2>2. m \in Nat /\ m + 1 \in 1..n /\ n - m \in 1..n /\ n - (m + 1) \in 0..n
          /\ n + 1 - (n - m) = m + 1 /\ (n - m) - 1 = n - (m + 1) /\ (m + 1) - 1 = m
      BY <2>1, <1>4
    <2>3. c[m] \in T[n - m]
      BY <2>1, <2>2, <1>4
    <2>4. \E k \in T[n - (m + 1)] : Swallows(p[m + 1], s, c[m], k)
      <3>1. T[n - m] = {j \in 0..Len(s) : \E k \in T[(n - m) - 1] : Swallows(p[n + 1 - (n - m)], s, j, k)}
        BY <1>2, <2>2
      <3> QED
        BY <3>1, <2>2, <2>3
    <2>5. Kept(m + 1) = {k \in T[n - (m + 1)] : Swallows(p[m + 1], s, c[m], k)}
      BY <2>2
    <2>6. Kept(m + 1) # {} /\ Kept(m + 1) \in SUBSET (0..Len(s))
      BY <2>2, <2>4, <2>5, <1>1
    <2>7. Max(Kept(m + 1)) \in Kept(m + 1)
      <3> HIDE DEF Kept
      <3> QED
        BY <2>6, Largest
    <2>8. c[m + 1] \in Kept(m + 1)
      <3> HIDE DEF Kept
      <3> QED
        BY <2>7, <2>2, <1>3
    <2> QED
      BY <2>5, <2>8
  <1>8. I = Nat
    <2>1. I \in SUBSET Nat
      OBVIOUS
    <2> HIDE DEF I
    <2> QED
      BY <1>6, <1>7, <2>1, Induction
  <1>9. \A i \in 0..n : c[i] \in T[n - i]
    <2> TAKE i \in 0..n
    <2>1. i \in Nat /\ i <= n
      BY <1>4
    <2>2. i \in I
      BY <1>8, <2>1
    <2> QED
      BY <2>1, <2>2
  <1>10. \A i \in 1..n : Swallows(p[i], s, c[i - 1], c[i])
    <2> TAKE i \in 1..n
    <2>1. i \in Nat /\ i <= n /\ i > 0
      BY <1>4
    <2>2. i \in I
      BY <1>8, <2>1
    <2> QED
      BY <2>1, <2>2
  <1>11. c \in [0..n -> 0..Len(s)]
    <2>1. \A i \in 0..n : n - i \in 0..n
      BY <1>4
    <2>2. \A i \in 0..n : c[i] \in 0..Len(s)
      BY <2>1, <1>9, <1>1
    <2> QED
      BY <2>2, <1>3
  <1>12. c[n] = Len(s)
    <2>1. n \in 0..n /\ n - n = 0
      BY <1>4
    <2>2. c[n] \in T[0]
      BY <2>1, <1>9
    <2> QED
      BY <2>2, <1>1 DEF Ends
  <1> QED
    BY <1>3, <1>10, <1>11, <1>12 DEF Cuts, n, c

\* Where there is a way, exec finds one.
LEMMA CutIsFound ==
    ASSUME NEW p, NEW s, Len(p) \in Nat, Len(s) \in Nat, NEW c, Cuts(p, s, c)
    PROVE  0 \in Tails(p, s)[Len(p)]
  <1> DEFINE n == Len(p)
             T == Tails(p, s)
             I == {i \in Nat : i <= n => c[n - i] \in T[i]}
  <1>1. T[0] = {j \in 0..Len(s) : Ends(s, j)}
    BY TailsAre
  <1>2. \A i \in 1..n : T[i] = {j \in 0..Len(s) : \E k \in T[i - 1] : Swallows(p[n + 1 - i], s, j, k)}
    BY TailsAre
  <1>3. n \in Nat /\ c \in [0..n -> 0..Len(s)] /\ c[0] = 0 /\ c[n] = Len(s)
    BY DEF Cuts
  <1>4. \A i \in 1..n : Swallows(p[i], s, c[i - 1], c[i])
    BY DEF Cuts
  <1> HIDE DEF T, n
  <1>5. 0 \in I
    <2>1. n - 0 = n /\ Len(s) \in 0..Len(s)
      BY <1>3
    <2> QED
      BY <2>1, <1>1, <1>3 DEF Ends
  <1>6. ASSUME NEW m \in I PROVE m + 1 \in I
    <2>1. SUFFICES ASSUME m + 1 <= n PROVE c[n - (m + 1)] \in T[m + 1]
      OBVIOUS
    <2>2. m \in Nat /\ m + 1 \in 1..n /\ n - m \in 1..n /\ n - (m + 1) \in 0..n
          /\ n + 1 - (m + 1) = n - m /\ (m + 1) - 1 = m /\ (n - m) - 1 = n - (m + 1)
      BY <2>1, <1>3
    <2>3. c[n - m] \in T[m]
      BY <2>1, <2>2, <1>3
    <2>4. Swallows(p[n - m], s, c[n - (m + 1)], c[n - m])
      BY <1>4, <2>2
    <2>5. T[m + 1] = {j \in 0..Len(s) : \E k \in T[m] : Swallows(p[n - m], s, j, k)}
      BY <1>2, <2>2
    <2> QED
      BY <2>2, <2>3, <2>4, <2>5, <1>3
  <1>7. I = Nat
    <2>1. I \in SUBSET Nat
      OBVIOUS
    <2> HIDE DEF I
    <2> QED
      BY <1>5, <1>6, <2>1, Induction
  <1>8. c[n - n] \in T[n]
    BY <1>7, <1>3
  <1>9. n - n = 0
    BY <1>3
  <1> QED
    BY <1>8, <1>9, <1>3 DEF T, n

\* A pattern without a wildcard.
Plain(p) == /\ Len(p) \in Nat /\ DOMAIN p = 1..Len(p)
            /\ \A i \in DOMAIN p : p[i].kind \in {"lit", "param"}

\* What a token becomes in a path.
Piece(p, t, i) == IF p[i].kind = "lit" THEN <<p[i].is>> ELSE t[i]

\* Token after token, the pattern with the texts of t.
LEMMA BuiltIs ==
    ASSUME NEW A, NEW p, NEW t, Len(p) \in Nat, \A i \in 1..Len(p) : Piece(p, t, i) \in Seq(A)
    PROVE  /\ Built(p, t) \in [0..Len(p) -> Seq(A)] /\ Built(p, t)[0] = <<>>
           /\ \A i \in 1..Len(p) : Built(p, t)[i] = Built(p, t)[i - 1] \o Piece(p, t, i)
  <1> DEFINE n == Len(p)
             S == Seq(A)
             Next1(i, b) == b \o Piece(p, t, i)
             step == [i \in 1..n |-> [b \in S |-> Next1(i, b)]]
  <1>1. step \in [1..n -> [S -> S]] /\ <<>> \in S
    <2>1. \A i \in 1..n, b \in S : Next1(i, b) \in S
      OBVIOUS
    <2>2. <<>> \in S
      OBVIOUS
    <2> HIDE DEF n, S, Next1
    <2> QED
      BY <2>1, <2>2
  <1>2. \A i \in 1..n, b \in S : step[i][b] = Next1(i, b)
    <2> HIDE DEF n, S, Next1
    <2> QED
      OBVIOUS
  <1> HIDE DEF step, S
  <1>3. PICK g \in [0..n -> S] : g[0] = <<>> /\ \A i \in 1..n : g[i] = step[i][g[i - 1]]
    <2>1. GoesOnFrom(S, n, <<>>, step)
      BY <1>1, Recursion
    <2> QED
      BY <2>1, Zenon DEF GoesOnFrom
  <1>4. \A i \in 1..n : g[i] = Next1(i, g[i - 1])
    <2> TAKE i \in 1..n
    <2>1. g[i - 1] \in S
      BY <1>3
    <2> QED
      BY <1>2, <1>3, <2>1
  <1> HIDE DEF Next1
  <1>5. g = [i \in 0..n |-> IF i = 0 THEN <<>> ELSE Next1(i, g[i - 1])]
    <2>1. \A i \in 0..n : i = 0 \/ i \in 1..n
      OBVIOUS
    <2> QED
      BY <1>3, <1>4, <2>1
  <1> DEFINE b == Built(p, t)
  <1>6. b = CHOOSE h : h = [i \in 0..n |-> IF i = 0 THEN <<>> ELSE Next1(i, h[i - 1])]
    BY Zenon DEF Built, Next1, Piece
  <1> HIDE DEF b
  <1>7. b = [i \in 0..n |-> IF i = 0 THEN <<>> ELSE Next1(i, b[i - 1])]
    BY <1>5, <1>6, Zenon
  <1>8. 0 \in 0..n /\ \A i \in 1..n : i \in 0..n /\ i # 0 /\ i - 1 \in 0..n
    OBVIOUS
  <1>9. b[0] = <<>> /\ \A i \in 1..n : b[i] = Next1(i, b[i - 1])
    <2> HIDE DEF n
    <2> QED
      BY <1>7, <1>8
  <1>10. \A i \in 0..n : b[i] \in S
    <2> DEFINE I == {m \in Nat : m <= n => b[m] = g[m]}
    <2>1. 0 \in I
      BY <1>3, <1>9
    <2>2. ASSUME NEW m \in I PROVE m + 1 \in I
      <3>1. SUFFICES ASSUME m + 1 <= n PROVE b[m + 1] = g[m + 1]
        OBVIOUS
      <3>2. m + 1 \in 1..n /\ (m + 1) - 1 = m /\ m <= n
        BY <3>1
      <3>3. b[m] = g[m]
        BY <3>2
      <3> QED
        BY <1>4, <1>9, <3>2, <3>3
    <2>3. I = Nat
      <3>1. I \in SUBSET Nat
        OBVIOUS
      <3> HIDE DEF I
      <3> QED
        BY <2>1, <2>2, <3>1, Induction
    <2>4. \A i \in 0..n : b[i] = g[i]
      <3> TAKE i \in 0..n
      <3>1. i \in Nat /\ i <= n
        OBVIOUS
      <3>2. i \in I
        BY <2>3, <3>1
      <3> QED
        BY <3>1, <3>2
    <2> QED
      BY <1>3, <2>4
  <1>11. b \in [0..n -> S]
    <2> HIDE DEF n
    <2> QED
      BY <1>7, <1>10
  <1> QED
    BY <1>9, <1>11, Zenon DEF b, Next1, S

\* The tokens of a plain pattern share s out, each of them taking something.
LEMMA PlainCuts ==
    ASSUME NEW p, Plain(p), NEW A, NEW s \in Seq(A), NEW c, Cuts(p, s, c)
    PROVE  /\ Len(s) \in Nat /\ Len(p) \in Nat
           /\ \A i \in 0..Len(p) : c[i] \in 0..Len(s)
           /\ \A i \in 1..Len(p) : c[i - 1] < c[i] /\ c[i - 1] \in 0..Len(s) /\ c[i] \in 1..Len(s)
           /\ \A i, j \in 0..Len(p) : i < j => c[i] < c[j]
  <1>1. Len(s) \in Nat /\ Len(p) \in Nat /\ \A i \in 0..Len(p) : c[i] \in 0..Len(s)
    BY DEF Plain, Cuts
  <1>2. ASSUME NEW i \in 1..Len(p)
        PROVE  c[i - 1] < c[i] /\ c[i - 1] \in 0..Len(s) /\ c[i] \in 1..Len(s)
    <2>1. i \in 0..Len(p) /\ i - 1 \in 0..Len(p)
      BY <1>1
    <2>2. c[i - 1] \in 0..Len(s) /\ c[i] \in 0..Len(s)
      BY <1>1, <2>1
    <2>3. Swallows(p[i], s, c[i - 1], c[i]) /\ p[i].kind \in {"lit", "param"}
      BY DEF Plain, Cuts
    <2>4. c[i - 1] < c[i]
      BY <2>2, <2>3 DEF Swallows
    <2> QED
      BY <2>2, <2>4
  <1>3. \A i, j \in 0..Len(p) : i < j => c[i] < c[j]
    <2> DEFINE I == {m \in Nat : m <= Len(p) => \A i \in 0..m : i < m => c[i] < c[m]}
    <2>1. 0 \in I
      OBVIOUS
    <2>2. ASSUME NEW m \in I PROVE m + 1 \in I
      <3>1. SUFFICES ASSUME m + 1 <= Len(p), NEW i \in 0..m + 1, i < m + 1 PROVE c[i] < c[m + 1]
        OBVIOUS
      <3>2. m \in Nat /\ m <= Len(p) /\ m + 1 \in 1..Len(p) /\ (m + 1) - 1 = m /\ i \in 0..m
            /\ i \in 0..Len(p)
        BY <3>1, <1>1
      <3>3. c[m] < c[m + 1] /\ c[m] \in 0..Len(s) /\ c[m + 1] \in 1..Len(s)
        BY <1>2, <3>2
      <3>4. c[i] \in 0..Len(s)
        BY <1>1, <3>2
      <3>5. i < m => c[i] < c[m]
        BY <3>2
      <3>6. i < m \/ i = m
        BY <3>2
      <3> QED
        BY <3>3, <3>4, <3>5, <3>6, <1>1
    <2>3. I = Nat
      <3>1. I \in SUBSET Nat
        OBVIOUS
      <3> HIDE DEF I
      <3> QED
        BY <2>1, <2>2, <3>1, Induction
    <2> TAKE i, j \in 0..Len(p)
    <2>4. j \in Nat /\ j <= Len(p) /\ (i < j => i \in 0..j)
      BY <1>1
    <2>5. j \in I
      BY <2>3, <2>4
    <2> QED
      BY <2>4, <2>5
  <1> QED
    BY <1>1, <1>2, <1>3

\* The pattern with the texts that its parameters took is the path.
LEMMA RefillsThePath ==
    ASSUME NEW p, Plain(p), NEW A, NEW s \in Seq(A), NEW c, Cuts(p, s, c), NEW t,
           \A x \in Params(p) : t[x] = SubSeq(s, c[x - 1] + 1, c[x])
    PROVE  Filled(p, t) = s
  <1> DEFINE n == Len(p)
             B == Built(p, t)
             I == {m \in Nat : m <= n => B[m] = SubSeq(s, 1, c[m])}
  <1>1. /\ Len(s) \in Nat /\ n \in Nat
        /\ \A i \in 1..n : c[i - 1] < c[i] /\ c[i - 1] \in 0..Len(s) /\ c[i] \in 1..Len(s)
    BY PlainCuts
  <1>2. \A i \in 1..n : Piece(p, t, i) = SubSeq(s, c[i - 1] + 1, c[i])
    <2> TAKE i \in 1..n
    <2>1. c[i - 1] < c[i] /\ c[i - 1] \in 0..Len(s) /\ c[i] \in 1..Len(s)
      BY <1>1
    <2>2. CASE p[i].kind = "lit"
      <3>1. c[i] = c[i - 1] + 1 /\ p[i].is = s[c[i]]
        BY <2>2 DEF Cuts, Swallows
      <3>2. SubSeq(s, c[i], c[i]) = <<s[c[i]]>>
        <4>1. c[i] \in 1..Len(s) /\ c[i] \in c[i]..Len(s) /\ c[i] + 1 \in Int /\ c[i] \in Int
              /\ c[i] < c[i] + 1
          BY <2>1
        <4>2. SubSeq(s, c[i], c[i]) = <<s[c[i]]>> \o SubSeq(s, c[i] + 1, c[i])
          BY <4>1, SubSeqRecursiveFirst
        <4>3. SubSeq(s, c[i] + 1, c[i]) = <<>>
          BY <4>1, SubSeqEmpty
        <4>4. <<s[c[i]]>> \in Seq(A)
          BY <4>1
        <4>5. <<s[c[i]]>> \o <<>> = <<s[c[i]]>>
          BY <4>4, ConcatEmptySeq
        <4> QED
          BY <4>2, <4>3, <4>5
      <3> QED
        BY <2>2, <3>1, <3>2 DEF Piece
    <2>3. CASE p[i].kind = "param"
      <3>1. i \in Params(p)
        BY <2>3 DEF Params, Plain
      <3> QED
        BY <2>3, <3>1 DEF Piece
    <2> QED
      BY <2>2, <2>3 DEF Plain
  <1>3. \A i \in 1..n : Piece(p, t, i) \in Seq(A)
    <2> TAKE i \in 1..n
    <2>1. c[i - 1] < c[i] /\ c[i - 1] \in 0..Len(s) /\ c[i] \in 1..Len(s)
      BY <1>1
    <2>2. SubSeq(s, c[i - 1] + 1, c[i]) \in Seq(A)
      BY <2>1, <1>1
    <2> QED
      BY <2>2, <1>2
  <1>4. B[0] = <<>> /\ \A i \in 1..n : B[i] = B[i - 1] \o Piece(p, t, i)
    BY <1>1, <1>3, BuiltIs
  <1>5. c[0] = 0 /\ c[n] = Len(s)
    BY DEF Cuts
  <1> HIDE DEF B
  <1>6. 0 \in I
    <2>1. SubSeq(s, 1, 0) = <<>>
      BY SubSeqEmpty
    <2> QED
      BY <2>1, <1>4, <1>5
  <1>7. ASSUME NEW m \in I PROVE m + 1 \in I
    <2>1. SUFFICES ASSUME m + 1 <= n PROVE B[m + 1] = SubSeq(s, 1, c[m + 1])
      OBVIOUS
    <2>2. m \in Nat /\ m + 1 \in 1..n /\ (m + 1) - 1 = m /\ m <= n
      BY <2>1, <1>1
    <2>3. B[m] = SubSeq(s, 1, c[m])
      BY <2>2
    <2>4. B[m + 1] = SubSeq(s, 1, c[m]) \o SubSeq(s, c[m] + 1, c[m + 1])
      BY <2>2, <2>3, <1>2, <1>4
    <2>5. c[m] < c[m + 1] /\ c[m] \in 0..Len(s) /\ c[m + 1] \in 1..Len(s)
      BY <1>1, <2>2
    <2>6. 1 \in 1..Len(s) + 1 /\ c[m] \in 1 - 1..Len(s) /\ c[m + 1] \in c[m]..Len(s)
      BY <1>1, <2>5
    <2>7. SubSeq(s, 1, c[m]) \o SubSeq(s, c[m] + 1, c[m + 1]) = SubSeq(s, 1, c[m + 1])
      BY <2>6, ConcatAdjacentSubSeq
    <2> QED
      BY <2>4, <2>7
  <1>8. I = Nat
    <2>1. I \in SUBSET Nat
      OBVIOUS
    <2> HIDE DEF I
    <2> QED
      BY <1>6, <1>7, <2>1, Induction
  <1>9. B[n] = SubSeq(s, 1, Len(s))
    BY <1>1, <1>5, <1>8
  <1>10. SubSeq(s, 1, Len(s)) = s
    BY SubSeqFull
  <1> QED
    BY <1>9, <1>10 DEF Filled, B

\* A filled-in pattern is a way to share the path out, in which what a parameter takes decodes.
Clean(p, s, c) == \A x \in Params(p) : \A k \in c[x - 1] + 1..c[x] : s[k] # "%"

\* v starts with u.
Starts(u, v) == Len(u) <= Len(v) /\ \A k \in 1..Len(u) : v[k] = u[k]

LEMMA StartsJoined ==
    ASSUME NEW A, NEW u \in Seq(A), NEW v \in Seq(A)
    PROVE  /\ Starts(u, u) /\ Starts(u, u \o v)
           /\ Len(u) \in Nat /\ Len(v) \in Nat /\ Len(u \o v) = Len(u) + Len(v)
           /\ \A k \in 1..Len(v) : (u \o v)[Len(u) + k] = v[k]
  BY DEF Starts

LEMMA StartsOn ==
    ASSUME NEW A, NEW u \in Seq(A), NEW v \in Seq(A), NEW w \in Seq(A), Starts(u, v), Starts(v, w)
    PROVE  Starts(u, w)
  <1>1. Len(u) \in Nat /\ Len(v) \in Nat /\ Len(w) \in Nat
    OBVIOUS
  <1>2. Len(u) <= Len(v) /\ Len(v) <= Len(w)
    BY DEF Starts
  <1>3. ASSUME NEW k \in 1..Len(u) PROVE w[k] = u[k]
    <2>1. k \in 1..Len(v)
      BY <1>1, <1>2
    <2>2. v[k] = u[k] /\ w[k] = v[k]
      BY <2>1 DEF Starts
    <2> QED
      BY <2>2
  <1> QED
    BY <1>1, <1>2, <1>3 DEF Starts

\* What is there already stays where it is.
LEMMA BuiltGrows ==
    ASSUME NEW A, NEW n \in Nat, NEW B \in [0..n -> Seq(A)],
           \A i \in 1..n : \E piece \in Seq(A) : B[i] = B[i - 1] \o piece
    PROVE  \A j \in 0..n : \A i \in 0..j : Starts(B[i], B[j])
  <1> DEFINE I == {m \in Nat : m <= n => \A i \in 0..m : Starts(B[i], B[m])}
  <1>1. 0 \in I
    <2>1. B[0] \in Seq(A)
      OBVIOUS
    <2> QED
      BY <2>1, StartsJoined
  <1>2. ASSUME NEW m \in I PROVE m + 1 \in I
    <2>1. SUFFICES ASSUME m + 1 <= n, NEW i \in 0..m + 1 PROVE Starts(B[i], B[m + 1])
      OBVIOUS
    <2>2. m \in Nat /\ m <= n /\ m \in 0..n /\ m + 1 \in 0..n /\ m + 1 \in 1..n /\ (m + 1) - 1 = m
          /\ i \in 0..n /\ (i = m + 1 \/ i \in 0..m)
      BY <2>1
    <2>3. i \in 0..m => Starts(B[i], B[m])
      BY <2>2
    <2>4. B[i] \in Seq(A) /\ B[m] \in Seq(A) /\ B[m + 1] \in Seq(A)
      BY <2>2
    <2>5. PICK piece \in Seq(A) : B[m + 1] = B[m] \o piece
      BY <2>2
    <2>6. Starts(B[m], B[m + 1]) /\ Starts(B[m + 1], B[m + 1])
      <3>1. Starts(B[m], B[m] \o piece)
        BY <2>4, StartsJoined, Zenon
      <3>2. Starts(B[m + 1], B[m + 1])
        BY <2>4, StartsJoined, Zenon
      <3> QED
        BY <3>1, <3>2, <2>5, Zenon
    <2>7. i \in 0..m => Starts(B[i], B[m + 1])
      BY <2>3, <2>4, <2>6, StartsOn
    <2> QED
      BY <2>2, <2>6, <2>7
  <1>3. I = Nat
    <2>1. I \in SUBSET Nat
      OBVIOUS
    <2> HIDE DEF I
    <2> QED
      BY <1>1, <1>2, <2>1, Induction
  <1>4. ASSUME NEW j \in 0..n PROVE \A i \in 0..j : Starts(B[i], B[j])
    <2>1. j \in Nat /\ j <= n
      OBVIOUS
    <2>2. j \in I
      BY <1>3, <2>1
    <2> QED
      BY <2>1, <2>2
  <1> QED
    BY <1>4

LEMMA FillingIsACut ==
    ASSUME NEW p, Plain(p), NEW C, NEW s \in Seq(C), NEW t \in Fillings(p, s)
    PROVE  \E d : Cuts(p, s, d) /\ Clean(p, s, d)
  <1> DEFINE n == Len(p)
             A == C \cup {p[i].is : i \in 1..n}
             B == Built(p, t)
             d == [i \in 0..n |-> Len(B[i])]
  <1>1. n \in Nat /\ DOMAIN p = 1..n /\ s \in Seq(A)
    BY DEF Plain
  <1>2. ASSUME NEW x \in Params(p)
        PROVE  t[x] \in Seq(C) /\ Len(t[x]) > 0 /\ \A k \in 1..Len(t[x]) : t[x][k] # "/" /\ t[x][k] # "%"
    <2>1. PICK at \in (1..Len(s)) \X (1..Len(s)) : t[x] = SubSeq(s, at[1], at[2])
      BY DEF Fillings
    <2>2. t[x] # <<>> /\ "/" \notin ToSet(t[x]) /\ Decodes(t[x])
      BY DEF Fillings
    <2>3. at[1] \in 1..Len(s) /\ at[2] \in 1..Len(s)
      OBVIOUS
    <2>4. t[x] \in Seq(C)
      BY <2>1, <2>3
    <2>5. \A k \in 1..Len(t[x]) : t[x][k] \in ToSet(t[x])
      BY <2>4 DEF ToSet
    <2>6. Len(t[x]) > 0
      BY <2>2, <2>4
    <2> QED
      BY <2>2, <2>4, <2>5, <2>6 DEF Decodes
  <1>3. ASSUME NEW i \in 1..n
        PROVE  /\ Piece(p, t, i) \in Seq(A)
               /\ p[i].kind = "lit" => Piece(p, t, i) = <<p[i].is>>
               /\ i \in Params(p) => Piece(p, t, i) = t[i]
               /\ p[i].kind = "lit" \/ (i \in Params(p) /\ p[i].kind = "param")
    <2>1. p[i].kind = "lit" \/ (i \in Params(p) /\ p[i].kind = "param")
      <3>1. i \in DOMAIN p
        BY <1>1
      <3>2. p[i].kind = "lit" \/ p[i].kind = "param"
        BY <3>1 DEF Plain
      <3>3. p[i].kind = "param" => i \in Params(p)
        BY <3>1, Zenon DEF Params
      <3> QED
        BY <3>2, <3>3, Zenon
    <2>2. p[i].kind = "lit" => Piece(p, t, i) = <<p[i].is>> /\ Piece(p, t, i) \in Seq(A)
      BY DEF Piece
    <2>3. i \in Params(p) => p[i].kind = "param"
      BY DEF Params
    <2>4. i \in Params(p) => Piece(p, t, i) = t[i] /\ Piece(p, t, i) \in Seq(A)
      BY <2>3, <1>2 DEF Piece
    <2> QED
      BY <2>1, <2>2, <2>4
  <1> HIDE DEF A
  <1>4. /\ B \in [0..n -> Seq(A)] /\ B[0] = <<>>
        /\ \A i \in 1..n : B[i] = B[i - 1] \o Piece(p, t, i)
    BY <1>1, <1>3, BuiltIs
  <1>5. B[n] = s
    BY DEF Fillings, Filled
  <1> HIDE DEF B, n
  <1>6. \A j \in 0..n : \A i \in 0..j : Starts(B[i], B[j])
    <2>1. \A i \in 1..n : \E piece \in Seq(A) : B[i] = B[i - 1] \o piece
      BY <1>3, <1>4
    <2> QED
      BY <1>1, <1>4, <2>1, BuiltGrows
  <1>7. \A i \in 0..n : Len(B[i]) \in 0..Len(s) /\ \A k \in 1..Len(B[i]) : s[k] = B[i][k]
    <2> TAKE i \in 0..n
    <2>1. n \in 0..n /\ i \in 0..n /\ B[i] \in Seq(A)
      BY <1>1, <1>4
    <2> QED
      BY <1>1, <1>5, <1>6, <2>1 DEF Starts
  <1>8. ASSUME NEW i \in 1..n
        PROVE  /\ i \in 0..n /\ i - 1 \in 0..n
               /\ d[i] = d[i - 1] + Len(Piece(p, t, i)) /\ d[i - 1] \in Nat
               /\ \A k \in 1..Len(Piece(p, t, i)) : s[d[i - 1] + k] = Piece(p, t, i)[k]
    <2>1. i \in 0..n /\ i - 1 \in 0..n
      BY <1>1
    <2>2. B[i - 1] \in Seq(A) /\ Piece(p, t, i) \in Seq(A) /\ B[i] = B[i - 1] \o Piece(p, t, i)
      BY <1>3, <1>4, <2>1
    <2>3. d[i] = Len(B[i]) /\ d[i - 1] = Len(B[i - 1])
      BY <2>1
    <2>4. d[i] = d[i - 1] + Len(Piece(p, t, i)) /\ d[i - 1] \in Nat /\ Len(Piece(p, t, i)) \in Nat
      BY <2>2, <2>3
    <2>5. ASSUME NEW k \in 1..Len(Piece(p, t, i)) PROVE s[d[i - 1] + k] = Piece(p, t, i)[k]
      <3>1. d[i - 1] + k \in 1..Len(B[i])
        BY <2>3, <2>4
      <3>2. B[i][d[i - 1] + k] = Piece(p, t, i)[k]
        BY <2>2, <2>3
      <3> QED
        BY <3>1, <3>2, <2>1, <1>7
    <2> QED
      BY <2>1, <2>4, <2>5
  <1>9. d \in [0..n -> 0..Len(s)] /\ d[0] = 0 /\ d[n] = Len(s)
    BY <1>1, <1>4, <1>5, <1>7
  <1> HIDE DEF d
  <1>10. ASSUME NEW i \in 1..n PROVE Swallows(p[i], s, d[i - 1], d[i])
    <2>1. CASE p[i].kind = "lit"
      <3>1. Len(Piece(p, t, i)) = 1 /\ Piece(p, t, i)[1] = p[i].is
        BY <1>3, <2>1
      <3>2. d[i] = d[i - 1] + 1 /\ s[d[i - 1] + 1] = p[i].is
        BY <3>1, <1>8
      <3> QED
        BY <2>1, <3>2 DEF Swallows
    <2>2. CASE i \in Params(p) /\ p[i].kind = "param"
      <3>1. Piece(p, t, i) = t[i]
        BY <1>3, <2>2
      <3>2. d[i] = d[i - 1] + Len(t[i]) /\ d[i - 1] \in Nat /\ Len(t[i]) \in Nat /\ Len(t[i]) > 0
            /\ \A k \in 1..Len(t[i]) : s[d[i - 1] + k] = t[i][k] /\ t[i][k] # "/"
        BY <3>1, <1>2, <1>8, <2>2
      <3>3. ASSUME NEW k \in d[i - 1] + 1..d[i] PROVE s[k] # "/"
        <4>1. k - d[i - 1] \in 1..Len(t[i]) /\ d[i - 1] + (k - d[i - 1]) = k
          BY <3>2
        <4> QED
          BY <3>2, <4>1
      <3> QED
        BY <2>2, <3>2, <3>3 DEF Swallows
    <2> QED
      BY <1>3, <2>1, <2>2
  <1>11. Clean(p, s, d)
    <2> SUFFICES ASSUME NEW x \in Params(p), NEW k \in d[x - 1] + 1..d[x] PROVE s[k] # "%"
      BY DEF Clean
    <2>1. x \in 1..n
      BY <1>1 DEF Params
    <2>2. Piece(p, t, x) = t[x]
      BY <2>1, <1>3
    <2>3. d[x] = d[x - 1] + Len(t[x]) /\ d[x - 1] \in Nat /\ Len(t[x]) \in Nat
          /\ \A m \in 1..Len(t[x]) : s[d[x - 1] + m] = t[x][m] /\ t[x][m] # "%"
      <3>1. d[x] = d[x - 1] + Len(t[x]) /\ d[x - 1] \in Nat
            /\ \A m \in 1..Len(t[x]) : s[d[x - 1] + m] = t[x][m]
        BY <2>1, <2>2, <1>8
      <3>2. t[x] \in Seq(C) /\ \A m \in 1..Len(t[x]) : t[x][m] # "%"
        BY <1>2
      <3>3. Len(t[x]) \in Nat
        BY <3>2
      <3> QED
        BY <3>1, <3>2, <3>3, Zenon
    <2>4. k - d[x - 1] \in 1..Len(t[x]) /\ d[x - 1] + (k - d[x - 1]) = k
      BY <2>3
    <2> QED
      BY <2>3, <2>4
  <1>12. Cuts(p, s, d)
    BY <1>9, <1>10 DEF Cuts, n
  <1> QED
    BY <1>11, <1>12

\* Every character of the path goes to some token.
LEMMA Covered ==
    ASSUME NEW p, Plain(p), NEW A, NEW s \in Seq(A), NEW d, Cuts(p, s, d), NEW q \in 1..Len(s)
    PROVE  \E i \in 1..Len(p) : q \in d[i - 1] + 1..d[i]
  <1> DEFINE n == Len(p)
             X == {i \in 0..n : q <= d[i]}
             m == Min(X)
  <1>1. n \in Nat /\ Len(s) \in Nat /\ \A i \in 0..n : d[i] \in 0..Len(s)
    BY PlainCuts
  <1>2. d[0] = 0 /\ d[n] = Len(s)
    BY DEF Cuts
  <1>3. n \in X /\ 0 \notin X /\ X \in SUBSET Nat
    BY <1>1, <1>2
  <1>4. m \in X /\ \A i \in X : m <= i
    <2> HIDE DEF X
    <2> QED
      BY <1>3, Smallest
  <1> HIDE DEF m
  <1>5. m \in 1..n /\ m - 1 \in 0..n /\ m - 1 \notin X
    BY <1>1, <1>3, <1>4
  <1>6. d[m - 1] \in 0..Len(s) /\ d[m] \in 0..Len(s) /\ d[m - 1] < q /\ q <= d[m]
    BY <1>1, <1>4, <1>5
  <1>7. q \in d[m - 1] + 1..d[m]
    BY <1>6
  <1> QED
    BY <1>5, <1>7

\* A path with an escape that does not decode has it in a literal in every way to share the
\* path out, or in none of them: there are as many of them as of literals to take them.
LEMMA CleanAlike ==
    ASSUME NEW p, Plain(p), NEW A, NEW s \in Seq(A), NEW c, Cuts(p, s, c),
           NEW d, Cuts(p, s, d), Clean(p, s, d)
    PROVE  Clean(p, s, c)
  <1> DEFINE n == Len(p)
             P == {q \in 1..Len(s) : s[q] = "%"}
             L == {i \in 1..n : p[i].kind = "lit" /\ p[i].is = "%"}
             OfC == {c[i] : i \in L}
             OfD == {d[i] : i \in L}
  <1>1. n \in Nat /\ Len(s) \in Nat /\ DOMAIN p = 1..n
    BY DEF Plain
  <1>2. \A i \in 1..n : c[i - 1] < c[i] /\ c[i - 1] \in 0..Len(s) /\ c[i] \in 1..Len(s)
    BY PlainCuts
  <1>3. \A i, j \in 0..n : i < j => c[i] < c[j]
    BY PlainCuts
  <1>4. \A i \in 0..n : c[i] \in 0..Len(s)
    BY PlainCuts
  <1>5. ASSUME NEW q \in P PROVE q \in OfD
    <2>1. PICK i \in 1..n : q \in d[i - 1] + 1..d[i]
      BY Covered
    <2>2. s[q] = "%"
      OBVIOUS
    <2>3. i \notin Params(p)
      BY <2>1, <2>2 DEF Clean
    <2>4. p[i].kind = "lit"
      <3>1. p[i].kind \in {"lit", "param"} /\ i \in DOMAIN p
        BY <1>1 DEF Plain
      <3> QED
        BY <2>3, <3>1 DEF Params
    <2>5. d[i] = d[i - 1] + 1 /\ s[d[i]] = p[i].is /\ d[i - 1] \in 0..Len(s)
      <3>1. d[i - 1] \in 0..Len(s)
        BY PlainCuts
      <3> QED
        BY <2>4, <3>1 DEF Cuts, Swallows
    <2>6. q = d[i]
      BY <2>1, <2>5
    <2> QED
      BY <2>2, <2>4, <2>5, <2>6
  <1>6. ASSUME NEW i \in L PROVE c[i] \in P
    <2>1. c[i] \in 1..Len(s)
      BY <1>2
    <2>2. s[c[i]] = p[i].is
      BY DEF Cuts, Swallows
    <2> QED
      BY <2>1, <2>2
  <1>7. IsFiniteSet(L) /\ IsFiniteSet(P)
    <2>1. IsFiniteSet(1..n) /\ IsFiniteSet(1..Len(s))
      BY <1>1, FS_Interval
    <2>2. L \in SUBSET (1..n) /\ P \in SUBSET (1..Len(s))
      OBVIOUS
    <2> HIDE DEF L, P, n
    <2> QED
      BY <2>1, <2>2, FS_Subset
  <1>8. OfC \in SUBSET P /\ P \in SUBSET OfD /\ L \in SUBSET (1..n)
    BY <1>5, <1>6
  <1>9. IsFiniteSet(OfD) /\ Cardinality(OfD) <= Cardinality(L)
    <2> DEFINE f == [i \in L |-> d[i]]
    <2>1. f \in Surjection(L, OfD)
      <3> HIDE DEF L
      <3> QED
        BY DEF Surjection
    <2> HIDE DEF f, OfD, L
    <2> QED
      BY <2>1, <1>7, FS_Surjection
  <1>10. IsFiniteSet(OfC) /\ Cardinality(OfC) <= Cardinality(P)
    <2> HIDE DEF OfC, P
    <2> QED
      BY <1>7, <1>8, FS_Subset
  <1>11. Cardinality(L) <= Cardinality(OfC)
    <2> DEFINE f == [i \in L |-> c[i]]
    <2>1. \A i, j \in L : c[i] = c[j] => i = j
      <3> TAKE i, j \in L
      <3>1. i \in 0..n /\ j \in 0..n
        BY <1>1
      <3>2. c[i] \in 0..Len(s) /\ c[j] \in 0..Len(s)
        BY <1>4, <3>1
      <3>3. (i < j => c[i] < c[j]) /\ (j < i => c[j] < c[i])
        BY <1>3, <3>1
      <3> QED
        BY <1>1, <3>1, <3>2, <3>3
    <2>2. f \in Injection(L, OfC)
      <3> HIDE DEF L
      <3> QED
        BY <2>1 DEF Injection, IsInjective
    <2> HIDE DEF f, OfC, L
    <2> QED
      BY <2>2, <1>10, FS_Injection
  <1>12. Cardinality(P) <= Cardinality(OfD) /\ Cardinality(P) \in Nat /\ Cardinality(OfD) \in Nat
         /\ Cardinality(OfC) \in Nat /\ Cardinality(L) \in Nat
    <2> HIDE DEF P, OfD, OfC, L
    <2>1. Cardinality(P) <= Cardinality(OfD)
      BY <1>8, <1>9, FS_Subset
    <2> QED
      BY <2>1, <1>7, <1>9, <1>10, FS_CardinalityType
  <1>13. P = OfC
    <2>1. Cardinality(P) = Cardinality(OfC)
      <3> HIDE DEF P, OfD, OfC, L
      <3> QED
        BY <1>9, <1>10, <1>11, <1>12
    <2> HIDE DEF P, OfC
    <2> QED
      BY <2>1, <1>7, <1>8, FS_Subset
  <1>14. SUFFICES ASSUME NEW x \in Params(p), NEW k \in c[x - 1] + 1..c[x], s[k] = "%" PROVE FALSE
    BY DEF Clean
  <1>15. x \in 1..n /\ p[x].kind = "param"
    BY <1>1 DEF Params
  <1>16. c[x - 1] \in 0..Len(s) /\ c[x] \in 1..Len(s)
    BY <1>2, <1>15
  <1>17. k \in P
    BY <1>1, <1>14, <1>16
  <1>18. PICK i \in L : k = c[i]
    BY <1>13, <1>17
  <1>19. i \in 0..n /\ x \in 0..n /\ x - 1 \in 0..n /\ i # x
    BY <1>1, <1>15
  <1>20. c[i] \in 0..Len(s) /\ (i < x - 1 => c[i] < c[x - 1]) /\ (x < i => c[x] < c[i])
    BY <1>3, <1>4, <1>19
  <1>21. i < x - 1 \/ i = x - 1 \/ x < i
    BY <1>1, <1>19
  <1>22. c[x - 1] < c[i] /\ c[i] <= c[x]
    BY <1>16, <1>18
  <1> QED
    BY <1>1, <1>16, <1>20, <1>21, <1>22

\* Without a wildcard, a name gets what its own parameter took.
LEMMA OwnCapture ==
    ASSUME NEW p, Plain(p), NEW x \in Params(p)
    PROVE  CaptureFor(p, x) = x
  <1> DEFINE n == Len(p)
             S == Params(p)
  <1>1. n \in Nat /\ S \in SUBSET (1..n) /\ Captured(p) = S
    <2>1. n \in Nat /\ DOMAIN p = 1..n /\ \A i \in DOMAIN p : p[i].kind \in {"lit", "param"}
      BY DEF Plain
    <2>2. S \in SUBSET (1..n)
      BY <2>1 DEF Params
    <2>3. Captured(p) = S
      BY <2>1 DEF Params, Captured
    <2> QED
      BY <2>1, <2>2, <2>3
  <1> HIDE DEF S, n
  <1>2. x \in S
    BY DEF S
  <1>3. \A y \in S : IsFiniteSet(UpTo(y, S))
    <2> TAKE y \in S
    <2>1. UpTo(y, S) \in SUBSET (1..n)
      BY <1>1 DEF UpTo
    <2>2. IsFiniteSet(1..n)
      BY <1>1, FS_Interval
    <2> QED
      BY <2>1, <2>2, FS_Subset
  <1>4. ASSUME NEW y \in S, NEW z \in S, y < z
        PROVE  Cardinality(UpTo(y, S)) # Cardinality(UpTo(z, S))
    <2>1. y \in 1..n /\ z \in 1..n
      BY <1>1
    <2>2. UpTo(y, S) \in SUBSET UpTo(z, S) /\ z \in UpTo(z, S) /\ z \notin UpTo(y, S)
      <3>1. \A w \in S : w \in Int
        BY <1>1
      <3>2. y \in Int /\ z \in Int /\ y < z
        BY <1>4, <2>1
      <3>3. \A w \in S : w <= y => w <= z
        BY <3>1, <3>2
      <3>4. z <= z /\ ~(z <= y)
        BY <3>2
      <3> QED
        BY <3>3, <3>4, Zenon DEF UpTo
    <2> QED
      BY <1>3, <2>2, FS_Subset
  <1>5. \A y \in S : Cardinality(UpTo(y, S)) = Cardinality(UpTo(x, S)) => y = x
    <2> TAKE y \in S
    <2>1. y < x \/ y = x \/ x < y
      BY <1>1, <1>2
    <2> QED
      BY <2>1, <1>2, <1>4
  <1>6. CaptureFor(p, x) = CHOOSE y \in S : Cardinality(UpTo(y, S)) = Cardinality(UpTo(x, S))
    BY <1>1, Zenon DEF CaptureFor, S
  <1> QED
    BY <1>2, <1>5, <1>6

LEMMA TextOf ==
    ASSUME NEW A, NEW s \in Seq(A), NEW a \in 0..Len(s), NEW b \in 1..Len(s), a < b
    PROVE  /\ SubSeq(s, a + 1, b) # <<>>
           /\ \A char : char \in ToSet(SubSeq(s, a + 1, b)) <=> \E k \in a + 1..b : s[k] = char
  <1> DEFINE t == SubSeq(s, a + 1, b)
  <1>1. Len(s) \in Nat /\ a \in Nat /\ b \in Nat /\ Len(t) = b - a /\ DOMAIN t = 1..b - a
        /\ \A k \in 1..b - a : t[k] = s[a + k]
    OBVIOUS
  <1>2. ToSet(t) = {t[k] : k \in 1..b - a}
    BY <1>1 DEF ToSet
  <1>3. t # <<>>
    BY <1>1
  <1> HIDE DEF t
  <1>4. ASSUME NEW char, char \in ToSet(t) PROVE \E k \in a + 1..b : s[k] = char
    <2>1. PICK k \in 1..b - a : t[k] = char
      BY <1>2, <1>4
    <2>2. a + k \in a + 1..b /\ s[a + k] = char
      BY <1>1, <2>1
    <2> QED
      BY <2>2
  <1>5. ASSUME NEW char, NEW k \in a + 1..b, s[k] = char PROVE char \in ToSet(t)
    <2>1. k - a \in 1..b - a /\ a + (k - a) = k
      BY <1>1
    <2>2. t[k - a] = char
      BY <1>1, <1>5, <2>1
    <2> QED
      BY <1>2, <2>1, <2>2
  <1> QED
    BY <1>3, <1>4, <1>5 DEF t

\* What the parameters of a plain pattern get, and when it decodes.
LEMMA BoundIs ==
    ASSUME NEW p, Plain(p), NEW A, NEW s \in Seq(A), NEW c, Cuts(p, s, c)
    PROVE  /\ Bound(p, s, c) = [x \in Params(p) |-> SubSeq(s, c[x - 1] + 1, c[x])]
           /\ Clean(p, s, c) <=> \A x \in Params(p) : Decodes(Bound(p, s, c)[x])
  <1>1. Bound(p, s, c) = [x \in Params(p) |-> SubSeq(s, c[x - 1] + 1, c[x])]
    BY OwnCapture DEF Bound
  <1>2. ASSUME NEW x \in Params(p)
        PROVE  (\A k \in c[x - 1] + 1..c[x] : s[k] # "%") <=> Decodes(Bound(p, s, c)[x])
    <2>1. x \in 1..Len(p)
      BY DEF Params, Plain
    <2>2. c[x - 1] \in 0..Len(s) /\ c[x] \in 1..Len(s) /\ c[x - 1] < c[x]
      BY <2>1, PlainCuts
    <2>3. \A char : char \in ToSet(SubSeq(s, c[x - 1] + 1, c[x]))
                       <=> \E k \in c[x - 1] + 1..c[x] : s[k] = char
      BY <2>2, TextOf
    <2>4. Bound(p, s, c)[x] = SubSeq(s, c[x - 1] + 1, c[x])
      BY <1>1
    <2> QED
      BY <2>3, <2>4 DEF Decodes
  <1> QED
    BY <1>1, <1>2 DEF Clean

\* What a clean way to share the path out gives the parameters is a filling.
LEMMA BoundFills ==
    ASSUME NEW p, Plain(p), NEW A, NEW s \in Seq(A), NEW c, Cuts(p, s, c), Clean(p, s, c)
    PROVE  Bound(p, s, c) \in Fillings(p, s)
  <1> DEFINE t == Bound(p, s, c)
             Texts == {SubSeq(s, at[1], at[2]) : at \in (1..Len(s)) \X (1..Len(s))}
             Whole == {y \in Texts : y # <<>> /\ "/" \notin ToSet(y) /\ Decodes(y)}
  <1>1. t = [x \in Params(p) |-> SubSeq(s, c[x - 1] + 1, c[x])]
        /\ \A x \in Params(p) : Decodes(t[x])
    BY BoundIs
  <1> HIDE DEF t
  <1>2. ASSUME NEW x \in Params(p) PROVE t[x] \in Whole
    <2>1. x \in 1..Len(p) /\ p[x].kind = "param"
      BY DEF Params, Plain
    <2>2. c[x - 1] \in 0..Len(s) /\ c[x] \in 1..Len(s) /\ c[x - 1] < c[x] /\ Len(s) \in Nat
      BY <2>1, PlainCuts
    <2>3. t[x] = SubSeq(s, c[x - 1] + 1, c[x])
      BY <1>1
    <2>4. t[x] \in Texts
      <3> DEFINE at == <<c[x - 1] + 1, c[x]>>
      <3>1. at \in (1..Len(s)) \X (1..Len(s)) /\ at[1] = c[x - 1] + 1 /\ at[2] = c[x]
        BY <2>2
      <3> HIDE DEF at
      <3>2. t[x] = SubSeq(s, at[1], at[2])
        BY <2>3, <3>1
      <3> QED
        BY <3>1, <3>2
    <2>5. \A k \in c[x - 1] + 1..c[x] : s[k] # "/"
      BY <2>1 DEF Cuts, Swallows
    <2>6. t[x] # <<>> /\ "/" \notin ToSet(t[x])
      <3>1. /\ SubSeq(s, c[x - 1] + 1, c[x]) # <<>>
            /\ \A char : char \in ToSet(SubSeq(s, c[x - 1] + 1, c[x]))
                          <=> \E k \in c[x - 1] + 1..c[x] : s[k] = char
        BY <2>2, TextOf
      <3> QED
        BY <2>3, <2>5, <3>1
    <2> HIDE DEF Texts
    <2> QED
      BY <1>1, <2>4, <2>6
  <1>3. t \in [Params(p) -> Whole]
    <2> HIDE DEF Whole
    <2> QED
      BY <1>1, <1>2
  <1>4. Filled(p, t) = s
    <2>1. \A x \in Params(p) : t[x] = SubSeq(s, c[x - 1] + 1, c[x])
      BY <1>1
    <2> QED
      BY <2>1, RefillsThePath
  <1> QED
    BY <1>3, <1>4 DEF Fillings, t

\* A route fits just the paths that its pattern can be filled in to.
LEMMA FitsWhatFills ==
    ASSUME NEW route, Plain(route.pattern), NEW method, NEW A, NEW s \in Seq(A)
    PROVE  LET p == route.pattern
           IN  /\ Fits(route, method, s) <=> (route.method = method /\ Fillings(p, s) # {})
               /\ Fits(route, method, s) => Bound(p, s, Greedy(p, s)) \in Fillings(p, s)
  <1> DEFINE p == route.pattern
             c == Greedy(p, s)
  <1>1. Len(p) \in Nat /\ Len(s) \in Nat
    BY DEF Plain
  <1>2. ASSUME 0 \in Tails(p, s)[Len(p)] PROVE Cuts(p, s, c) /\ Exec(p, s) = {c}
    BY <1>1, <1>2, GreedyIsACut DEF Exec
  <1>3. ASSUME Fits(route, method, s)
        PROVE  route.method = method /\ Bound(p, s, c) \in Fillings(p, s)
    <2>1. route.method = method /\ Exec(p, s) # {}
      BY <1>3 DEF Fits
    <2>2. 0 \in Tails(p, s)[Len(p)]
      BY <2>1 DEF Exec
    <2>3. Cuts(p, s, c) /\ Exec(p, s) = {c}
      BY <1>2, <2>2
    <2> HIDE DEF c
    <2>4. \A x \in Params(p) : Decodes(Bound(p, s, c)[x])
      BY <1>3, <2>3 DEF Fits
    <2> HIDE DEF p
    <2>5. Plain(p)
      BY DEF p
    <2>6. Clean(p, s, c)
      BY <2>3, <2>4, <2>5, BoundIs
    <2> QED
      BY <2>1, <2>3, <2>5, <2>6, BoundFills
  <1>4. ASSUME route.method = method, NEW t \in Fillings(p, s)
        PROVE  Fits(route, method, s)
    <2>1. PICK d : Cuts(p, s, d) /\ Clean(p, s, d)
      BY FillingIsACut
    <2>2. 0 \in Tails(p, s)[Len(p)]
      BY <1>1, <2>1, CutIsFound
    <2>3. Cuts(p, s, c) /\ Exec(p, s) = {c}
      BY <1>2, <2>2
    <2> HIDE DEF c
    <2>4. Clean(p, s, c)
      BY <2>1, <2>3, CleanAlike
    <2>5. \A x \in Params(p) : Decodes(Bound(p, s, c)[x])
      BY <2>3, <2>4, BoundIs
    <2> QED
      BY <1>4, <2>3, <2>5 DEF Fits
  <1> QED
    BY <1>3, <1>4

Route == [method : Method, pattern : Seq(PatternToken), middleware : Seq(Middleware)]

\* The routes come from the application's calls.
RoutesOK == routes \in Seq(Route)

RouterInv == RoutesOK /\ MatchesFirstRoute

LEMMA AddedRoute ==
    ASSUME RoutesOK, NEW method \in Method, NEW p \in Seq(PatternToken), NEW own \in Seq(Middleware),
           Add(method, p, own)
    PROVE  RoutesOK'
  <1> DEFINE route == [method |-> method, pattern |-> p, middleware |-> own]
  <1>1. route \in Route
    BY DEF Route
  <1>2. routes' = Append(routes, route)
    BY DEF Add
  <1> HIDE DEF route
  <1> QED
    BY <1>1, <1>2 DEF RoutesOK

LEMMA PatternsAreSequences ==
    /\ \A p \in Pattern \cup GroupPrefix : p \in Seq(PatternToken)
    /\ \A m \in Pipes \cup GroupPipes : m \in Seq(Middleware)
    /\ \A s \in Path : s \in Seq(PathChar)
  BY RouterAssumption

\* Whatever is added, alone or in a group, is a route.
LEMMA RoutesStay ==
    ASSUME RoutesOK, RouterNext
    PROVE  RoutesOK'
  <1>1. ASSUME NEW method \in Method, NEW p \in Pattern, NEW own \in Pipes, Add(method, p, own)
        PROVE  RoutesOK'
    BY <1>1, AddedRoute, PatternsAreSequences
  <1>2. ASSUME NEW method \in Method, NEW p \in Pattern, NEW own \in Pipes,
               NEW prefix \in GroupPrefix, NEW ofGroup \in GroupPipes,
               Group(prefix, method, p, ofGroup, own)
        PROVE  RoutesOK'
    <2>1. prefix \in Seq(PatternToken) /\ p \in Seq(PatternToken)
          /\ ofGroup \in Seq(Middleware) /\ own \in Seq(Middleware)
      BY PatternsAreSequences
    <2>2. prefix \o p \in Seq(PatternToken) /\ ofGroup \o own \in Seq(Middleware)
      BY <2>1
    <2> QED
      BY <1>2, <2>2, AddedRoute DEF Group
  <1>3. ASSUME NEW method \in Method, NEW s \in Path, Match(method, s) PROVE RoutesOK'
    BY <1>3 DEF Match, RoutesOK
  <1> QED
    BY <1>1, <1>2, <1>3 DEF RouterNext

LEMMA PlainRoutes ==
    ASSUME RoutesOK, NEW i \in DOMAIN routes, ~Wild(routes[i].pattern)
    PROVE  Plain(routes[i].pattern)
  <1> DEFINE p == routes[i].pattern
  <1>1. p \in Seq(PatternToken)
    <2>1. routes[i] \in Route
      BY DEF RoutesOK
    <2> QED
      BY <2>1, Zenon DEF Route
  <1> HIDE DEF p
  <1>2. Len(p) \in Nat /\ DOMAIN p = 1..Len(p) /\ \A x \in DOMAIN p : p[x] \in PatternToken
    BY <1>1
  <1>3. \A x \in DOMAIN p : p[x].kind \in {"lit", "param", "star"}
    BY <1>2, RouterAssumption
  <1>4. \A x \in DOMAIN p : p[x].kind # "star"
    BY DEF Wild, p
  <1> QED
    BY <1>2, <1>3, <1>4 DEF Plain, p

\* What match() returns: of the routes that fit, the first, and the texts of its parameters.
LEMMA MatchStep ==
    ASSUME RoutesOK, NEW method \in Method, NEW s \in Path, Match(method, s)
    PROVE  MatchesFirstRoute'
  <1> DEFINE fit == {i \in DOMAIN routes : Fits(routes[i], method, s)}
             first == IF fit = {} THEN 0 ELSE Min(fit)
             texts == IF fit = {} THEN <<>>
                      ELSE Bound(routes[Min(fit)].pattern, s, Greedy(routes[Min(fit)].pattern, s))
             plain == {i \in DOMAIN routes : ~Wild(routes[i].pattern)}
  <1>1. matched' = <<method, s, first, texts>> /\ routes' = routes
    BY DEF Match
  <1>2. fit \in SUBSET Nat /\ 0 \notin fit
    BY DEF RoutesOK
  <1>3. ASSUME fit # {} PROVE first \in fit /\ (\A i \in fit : first <= i)
                              /\ texts = Bound(routes[first].pattern, s, Greedy(routes[first].pattern, s))
    <2>1. Min(fit) \in fit /\ \A i \in fit : Min(fit) <= i
      <3> HIDE DEF fit
      <3> QED
        BY <1>2, <1>3, Smallest
    <2> HIDE DEF fit
    <2> QED
      BY <1>3, <2>1
  <1>4. ASSUME NEW i \in plain
        PROVE  /\ Fits(routes[i], method, s) <=>
                    (routes[i].method = method /\ Fillings(routes[i].pattern, s) # {})
               /\ Fits(routes[i], method, s) =>
                    Bound(routes[i].pattern, s, Greedy(routes[i].pattern, s))
                        \in Fillings(routes[i].pattern, s)
    <2>1. Plain(routes[i].pattern) /\ s \in Seq(PathChar)
      BY PlainRoutes, PatternsAreSequences
    <2> QED
      BY <2>1, FitsWhatFills
  <1>5. \A i \in fit : i \in DOMAIN routes /\ Fits(routes[i], method, s)
    OBVIOUS
  <1>6. \A i \in DOMAIN routes : Fits(routes[i], method, s) => i \in fit
    OBVIOUS
  <1>7. \A i \in DOMAIN routes : i \in Nat
    BY DEF RoutesOK
  <1>8. fit = {} => first = 0
    OBVIOUS
  <1> HIDE DEF fit, first, texts
  <1>9. ASSUME NEW i \in DOMAIN routes, first = 0 \/ i < first, ~Wild(routes[i].pattern)
        PROVE  ~(routes[i].method = method /\ Fillings(routes[i].pattern, s) # {})
    <2>1. i \notin fit
      <3>1. CASE first = 0
        BY <3>1, <1>2, <1>3
      <3>2. CASE i < first /\ first # 0
        <4>1. fit # {}
          BY <3>2, <1>8
        <4>2. first \in Nat /\ i \in Nat
          BY <4>1, <1>2, <1>3, <1>7
        <4> QED
          BY <3>2, <4>1, <4>2, <1>3
      <3> QED
        BY <1>9, <3>1, <3>2
    <2>2. i \in plain
      BY <1>9
    <2> QED
      BY <2>1, <2>2, <1>4, <1>6
  <1>10. ASSUME first # 0, ~Wild(routes[first].pattern)
         PROVE  routes[first].method = method /\ texts \in Fillings(routes[first].pattern, s)
    <2>1. first \in fit
      BY <1>3, <1>8, <1>10
    <2>2. first \in plain /\ Fits(routes[first], method, s)
      BY <2>1, <1>5, <1>10
    <2> QED
      BY <2>1, <2>2, <1>3, <1>4
  <1>11. matched'[1] = method /\ matched'[2] = s /\ matched'[3] = first /\ matched'[4] = texts
    BY <1>1
  <1> HIDE DEF plain
  <1> QED
    BY <1>1, <1>9, <1>10, <1>11 DEF MatchesFirstRoute

LEMMA AddForgets ==
    ASSUME RouterNext, \A method \in Method, s \in Path : ~Match(method, s)
    PROVE  matched' = <<>>
  BY DEF RouterNext, Add, Group

LEMMA RouterStep ==
    ASSUME RouterInv, [RouterNext]_routerVars
    PROVE  RouterInv'
  <1>1. CASE UNCHANGED routerVars
    BY <1>1 DEF RouterInv, RoutesOK, MatchesFirstRoute, routerVars
  <1>2. CASE RouterNext
    <2>1. RoutesOK'
      BY <1>2, RoutesStay DEF RouterInv
    <2>2. MatchesFirstRoute'
      <3>1. CASE \E method \in Method, s \in Path : Match(method, s)
        BY <3>1, MatchStep DEF RouterInv
      <3>2. CASE \A method \in Method, s \in Path : ~Match(method, s)
        BY <1>2, <3>2, AddForgets DEF MatchesFirstRoute
      <3> QED
        BY <3>1, <3>2
    <2> QED
      BY <2>1, <2>2 DEF RouterInv
  <1> QED
    BY <1>1, <1>2

LEMMA RouterStart ==
    ASSUME RouterInit
    PROVE  RouterInv
  BY DEF RouterInit, RouterInv, RoutesOK, MatchesFirstRoute

\* Router.match for any routes and paths: the first route that can be filled in to the path,
\* and the texts that do it; the greedy expression finds one that decodes where there is one.
THEOREM FirstRouteMatches == RouterSpec => []MatchesFirstRoute
  <1>1. RouterInv => MatchesFirstRoute
    BY DEF RouterInv
  <1> QED
    BY <1>1, RouterStart, RouterStep, PTL DEF RouterSpec
-----------------------------------------------------------------------------
\* The first tagged middleware has the schema.
LEMMA RequiredAreFields ==
    ASSUME NEW route \in Route
    PROVE  Required(route) \subseteq Fields(route)
  <1> DEFINE tagged == {i \in DOMAIN route.middleware : route.middleware[i] \in DOMAIN Form}
  <1>1. route.middleware \in Seq(Middleware)
    BY DEF Route
  <1>2. tagged \in SUBSET Nat
    BY <1>1
  <1>3. ASSUME tagged # {} PROVE route.middleware[Min(tagged)] \in DOMAIN Form
    <2>1. Min(tagged) \in tagged
      <3> HIDE DEF tagged
      <3> QED
        BY <1>2, <1>3, Smallest
    <2> QED
      BY <2>1
  <1>4. \A s \in Schema(route) : s.required \subseteq s.fields
    <2>1. CASE tagged = {}
      BY <2>1 DEF Schema
    <2>2. CASE tagged # {}
      <3>1. Schema(route) = Form[route.middleware[Min(tagged)]]
        BY <2>2 DEF Schema
      <3> HIDE DEF tagged
      <3> QED
        BY <1>3, <2>2, <3>1, OpenApiAssumption
    <2> QED
      BY <2>1, <2>2
  <1> QED
    BY <1>4 DEF Required, Fields

Asked(split) == {q \in split.parameters : q.required}

\* What is split is all there, each name in one place.
LEMMA SplitIsWhole ==
    ASSUME NEW route, Required(route) \subseteq Fields(route)
    PROVE  LET s == Split(route)
           IN  /\ Required(route) \subseteq {q.name : q \in Asked(s)} \cup s.bodyRequired
               /\ {q.name : q \in s.parameters} \cap s.body = {}
               /\ \A q, r \in s.parameters : q.name = r.name => q = r
  <1> DEFINE s == Split(route)
             body == IF CarriesBody(route) THEN Remaining(route) ELSE {}
             OfPath(n) == [name |-> n, in |-> "path", required |-> TRUE]
             OfQuery(n) == [name |-> n, in |-> "query", required |-> n \in Required(route)]
             P == {OfPath(n) : n \in InPath(route)}
             Q == {OfQuery(n) : n \in Remaining(route) \ body}
  <1>1. s.parameters = P \cup Q /\ s.body = body /\ s.bodyRequired = body \cap Required(route)
    BY DEF Split
  <1>2. \A n : OfPath(n).name = n /\ OfPath(n).required /\ OfQuery(n).name = n
               /\ (OfQuery(n).required <=> n \in Required(route))
    OBVIOUS
  <1>3. Remaining(route) = Fields(route) \ InPath(route) /\ body \subseteq Remaining(route)
    BY DEF Remaining
  <1> HIDE DEF s, body, OfPath, OfQuery
  <1>4. ASSUME NEW n \in Required(route)
        PROVE  n \in {q.name : q \in Asked(s)} \cup s.bodyRequired
    <2>1. CASE n \in InPath(route)
      <3>1. OfPath(n) \in Asked(s)
        BY <1>1, <1>2, <2>1 DEF Asked
      <3> QED
        BY <1>2, <3>1
    <2>2. CASE n \in body
      BY <1>1, <2>2
    <2>3. CASE n \in Remaining(route) \ body
      <3>1. OfQuery(n) \in Asked(s)
        BY <1>1, <1>2, <2>3 DEF Asked
      <3> QED
        BY <1>2, <3>1
    <2> QED
      BY <1>3, <2>1, <2>2, <2>3
  <1>5. \A q \in P : q.name \in InPath(route) /\ q = OfPath(q.name)
    BY <1>2
  <1>6. \A q \in Q : q.name \in Remaining(route) \ body /\ q = OfQuery(q.name)
    BY <1>2
  <1> HIDE DEF P, Q
  <1>7. ASSUME NEW q \in s.parameters PROVE q.name \notin body
    BY <1>1, <1>3, <1>5, <1>6
  <1>8. ASSUME NEW q \in s.parameters, NEW r \in s.parameters, q.name = r.name PROVE q = r
    BY <1>1, <1>3, <1>5, <1>6, <1>8
  <1> QED
    BY <1>1, <1>4, <1>7, <1>8 DEF s

Shown == {i \in DOMAIN routes : Visible(routes[i])}
KeyOf(i) == <<Template(routes[i].pattern), routes[i].method>>

LEMMA DocumentIs ==
    ASSUME RoutesOK
    PROVE  /\ DOMAIN Document = {KeyOf(i) : i \in Shown}
           /\ \A k \in DOMAIN Document : /\ Document[k].of \in DOMAIN routes
                                         /\ Document[k].split = Split(routes[Document[k].of])
  <1> DEFINE Of(k) == Max({j \in Shown : KeyOf(j) = k})
             Entry(i) == [of |-> i, split |-> Split(routes[i]), responses |-> Responses(routes[i])]
             Keys == {KeyOf(i) : i \in Shown}
  <1>1. Document = [k \in Keys |-> Entry(Of(k))]
    BY Zenon DEF Document, Shown, KeyOf
  <1>2. \A i : Entry(i).of = i /\ Entry(i).split = Split(routes[i])
    OBVIOUS
  <1>3. ASSUME NEW k \in Keys PROVE Of(k) \in DOMAIN routes
    <2> DEFINE X == {j \in Shown : KeyOf(j) = k}
    <2>1. Len(routes) \in Nat /\ DOMAIN routes = 1..Len(routes)
      BY DEF RoutesOK
    <2>2. X # {} /\ X \in SUBSET Shown
      OBVIOUS
    <2>3. Shown \in SUBSET (1..Len(routes))
      BY <2>1 DEF Shown
    <2>4. X \in SUBSET (0..Len(routes))
      BY <2>1, <2>2, <2>3
    <2>5. Max(X) \in X
      <3> HIDE DEF X
      <3> QED
        BY <2>1, <2>2, <2>4, Largest
    <2> QED
      BY <2>1, <2>3, <2>5
  <1> HIDE DEF Entry, Of, Keys
  <1>4. DOMAIN Document = Keys /\ \A k \in Keys : Document[k] = Entry(Of(k))
    BY <1>1
  <1> QED
    BY <1>2, <1>3, <1>4 DEF Keys

LEMMA DocumentIsWhole ==
    ASSUME RoutesOK
    PROVE  DocumentedCallsValidate
  <1>1. ASSUME NEW i \in DOMAIN routes, Visible(routes[i])
        PROVE  <<Template(routes[i].pattern), routes[i].method>> \in DOMAIN Document
    <2>1. i \in Shown
      BY <1>1 DEF Shown
    <2>2. KeyOf(i) \in DOMAIN Document
      BY <2>1, DocumentIs
    <2> QED
      BY <2>2 DEF KeyOf
  <1>2. ASSUME NEW k \in DOMAIN Document
        PROVE  LET route == routes[Document[k].of]
                   s == Document[k].split
                   asked == {p \in s.parameters : p.required}
               IN  /\ Required(route) \subseteq {p.name : p \in asked} \cup s.bodyRequired
                   /\ {p.name : p \in s.parameters} \cap s.body = {}
                   /\ \A p, q \in s.parameters : p.name = q.name => p = q
    <2> DEFINE route == routes[Document[k].of]
    <2>1. Document[k].of \in DOMAIN routes /\ Document[k].split = Split(route)
      BY DocumentIs
    <2>2. route \in Route
      BY <2>1 DEF RoutesOK
    <2>3. Required(route) \subseteq Fields(route)
      BY <2>2, RequiredAreFields
    <2> HIDE DEF route
    <2>4. LET s == Split(route)
          IN  /\ Required(route) \subseteq {q.name : q \in Asked(s)} \cup s.bodyRequired
              /\ {q.name : q \in s.parameters} \cap s.body = {}
              /\ \A q, r \in s.parameters : q.name = r.name => q = r
      BY <2>3, SplitIsWhole
    <2> QED
      BY <2>1, <2>4, Zenon DEF route, Asked
  <1> QED
    BY <1>1, <1>2, Zenon DEF DocumentedCallsValidate

\* The document, for any routes, forms and descriptions: every visible route is in it, and
\* what it asks for is what validation asks for, each name in one place.
THEOREM DocumentsWhatValidates == OpenApiSpec => []DocumentedCallsValidate
  <1>1. OpenApiInit => RoutesOK
    BY RouterStart DEF OpenApiInit, RouterInv
  <1>2. RoutesOK /\ [OpenApiNext]_openApiVars => RoutesOK'
    <2>1. ASSUME RoutesOK, RouterNext PROVE RoutesOK'
      BY <2>1, RoutesStay
    <2>2. ASSUME RoutesOK, UNCHANGED routerVars PROVE RoutesOK'
      BY <2>2 DEF RoutesOK, routerVars
    <2>3. ASSUME RoutesOK, UNCHANGED openApiVars PROVE RoutesOK'
      BY <2>3 DEF RoutesOK, openApiVars, routerVars
    <2> QED
      BY <2>1, <2>2, <2>3 DEF OpenApiNext, Describe
  <1>3. RoutesOK => DocumentedCallsValidate
    BY DocumentIsWhole
  <1> QED
    BY <1>1, <1>2, <1>3, PTL DEF OpenApiSpec
=============================================================================
