------------------------------- MODULE Router -------------------------------
(***************************************************************************)
(* Router of packages/http: routes are added, alone or in a group, and     *)
(* matched in the order they were added. A pattern is a sequence of        *)
(* tokens: a literal (an escaped colon is one), a parameter `:name', or a  *)
(* wildcard `*'. A path is a sequence of characters; "%2F" and "%" stand   *)
(* for an escaped slash and for an escape decodeURIComponent refuses.      *)
(***************************************************************************)
EXTENDS Naturals, SequencesExt

CONSTANTS Method, Pattern, GroupPrefix, Path,
          Pipes,      \* middleware of a route: sequences
          GroupPipes, \* middleware of a group
          MaxRoutes   \* bound

Lit(c) == [kind |-> "lit", is |-> c]
Param(name) == [kind |-> "param", is |-> name]
Star == [kind |-> "star", is |-> ""]

PatternToken == UNION {ToSet(p) : p \in Pattern \cup GroupPrefix}
PathChar == UNION {ToSet(s) : s \in Path}
Middleware == UNION {ToSet(m) : m \in Pipes \cup GroupPipes}

ASSUME RouterAssumption ==
    /\ Pattern \cup GroupPrefix \subseteq Seq(PatternToken) /\ Path \subseteq Seq(PathChar)
    /\ \A t \in PatternToken : t.kind \in {"lit", "param", "star"}
    /\ Pipes \cup GroupPipes \subseteq Seq(Middleware)

VARIABLES routes,   \* Router.routes: method, pattern and middleware
          matched   \* the last match() and what it returned

routerVars == <<routes, matched>>

RouterInit == routes = <<>> /\ matched = <<>>
-----------------------------------------------------------------------------
Add(method, pattern, middleware) ==
    /\ Len(routes) < MaxRoutes
    /\ routes' = Append(routes, [method |-> method, pattern |-> pattern,
                                 middleware |-> middleware])
    /\ matched' = <<>>

\* group: what the callback adds to the child router is added here with the prefix, behind
\* the group's middleware. The child's own use() is not looked at.
Group(prefix, method, pattern, ofGroup, middleware) ==
    Add(method, prefix \o pattern, ofGroup \o middleware)

\* What the token's part of the regular expression may take of s: what is behind the i-th
\* character, up to the j-th.
Swallows(token, s, i, j) ==
    \/ token.kind = "lit" /\ j = i + 1 /\ s[j] = token.is
    \/ token.kind = "param" /\ i < j /\ \A k \in i + 1..j : s[k] # "/"
    \/ token.kind = "star" /\ i <= j

\* Seeded defect: the expression is not anchored at its end.
EndsAnywhere(s, j) == TRUE
Ends(s, j) == j = Len(s)

\* Tails(pattern, s)[i]: from where in s its last i tokens match.
Tails(pattern, s) ==
    LET tail[i \in 0..Len(pattern)] ==
            IF i = 0 THEN {j \in 0..Len(s) : Ends(s, j)}
            ELSE LET behind == tail[i - 1]
                 IN  {j \in 0..Len(s) : \E k \in behind :
                         Swallows(pattern[Len(pattern) + 1 - i], s, j, k)}
    IN  tail

\* Up to where in s each token gets, the first ones taking as much as leaves the others a match.
Greedy(pattern, s) ==
    LET tails == Tails(pattern, s)
        cut[i \in 0..Len(pattern)] ==
            IF i = 0 THEN 0
            ELSE LET from == cut[i - 1]
                 IN  Max({k \in tails[Len(pattern) - i] : Swallows(pattern[i], s, from, k)})
    IN  cut

\* The regular expression of compilePath on s: its one match, or none.
Exec(pattern, s) ==
    IF 0 \in Tails(pattern, s)[Len(pattern)] THEN {Greedy(pattern, s)} ELSE {}

Params(pattern) == {x \in DOMAIN pattern : pattern[x].kind = "param"}
Captured(pattern) == {x \in DOMAIN pattern : pattern[x].kind # "lit"}
UpTo(x, S) == {y \in S : y <= x}

\* paramKeys has no wildcards but match has: the i-th name gets the i-th capture.
CaptureFor(pattern, x) ==
    CHOOSE y \in Captured(pattern) :
        Cardinality(UpTo(y, Captured(pattern))) = Cardinality(UpTo(x, Params(pattern)))

Bound(pattern, s, cut) ==
    [x \in Params(pattern) |->
        LET y == CaptureFor(pattern, x) IN SubSeq(s, cut[y - 1] + 1, cut[y])]

Decodes(text) == "%" \notin ToSet(text)

\* A route whose parameters do not decode is passed over.
Fits(route, method, s) ==
    /\ route.method = method
    /\ \E cut \in Exec(route.pattern, s) :
          \A x \in Params(route.pattern) : Decodes(Bound(route.pattern, s, cut)[x])

Match(method, s) ==
    LET fit == {i \in DOMAIN routes : Fits(routes[i], method, s)}
    IN  /\ matched' = <<method, s,
              IF fit = {} THEN 0 ELSE Min(fit),
              IF fit = {} THEN <<>>
              ELSE LET p == routes[Min(fit)].pattern
                   IN  Bound(p, s, Greedy(p, s))>>
        /\ UNCHANGED routes

RouterNext ==
    \/ \E method \in Method, p \in Pattern, own \in Pipes :
          \/ Add(method, p, own)
          \/ \E prefix \in GroupPrefix, ofGroup \in GroupPipes : Group(prefix, method, p, ofGroup, own)
    \/ \E method \in Method, s \in Path : Match(method, s)

RouterSpec == RouterInit /\ [][RouterNext]_routerVars
-----------------------------------------------------------------------------
\* The pattern with texts for its parameters.
Built(pattern, texts) ==
    LET built[i \in 0..Len(pattern)] ==
            IF i = 0 THEN <<>>
            ELSE built[i - 1] \o IF pattern[i].kind = "lit" THEN <<pattern[i].is>> ELSE texts[i]
    IN  built
Filled(pattern, texts) == Built(pattern, texts)[Len(pattern)]

Wild(p) == \E i \in DOMAIN p : p[i].kind = "star"

\* The ways to get s from the pattern with texts that decode.
Fillings(pattern, s) ==
    LET texts == {SubSeq(s, at[1], at[2]) : at \in (1..Len(s)) \X (1..Len(s))}
    IN  {t \in [Params(pattern) -> {x \in texts : x # <<>> /\ "/" \notin ToSet(x) /\ Decodes(x)}] :
            Filled(pattern, t) = s}

\* match() returns a route of the method whose pattern, with `:name' replaced by the text
\* the parameter got, is the path; such a text is never empty and has no slash in it, and
\* no earlier route could have been filled in so. (Said of patterns without a wildcard: one
\* before a parameter takes the parameter's text, see Bound.)
MatchesFirstRoute ==
    matched # <<>> =>
        LET s == matched[2]
            Could(i) == routes[i].method = matched[1] /\ Fillings(routes[i].pattern, s) # {}
            before == {i \in DOMAIN routes : matched[3] = 0 \/ i < matched[3]}
        IN  /\ \A i \in before : Wild(routes[i].pattern) \/ ~Could(i)
            /\ matched[3] # 0 /\ ~Wild(routes[matched[3]].pattern) =>
                  /\ routes[matched[3]].method = matched[1]
                  /\ matched[4] \in Fillings(routes[matched[3]].pattern, s)
=============================================================================
