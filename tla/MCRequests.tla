----------------------------- MODULE MCRequests ------------------------------
(* The parts a request passes that share no state with each other, each    *)
(* explored by itself: a behaviour moves the unit it has picked.            *)
EXTENDS Tokens, OpenApi, Cors, Cookies, TLC

CONSTANTS ann, bob, r1

VARIABLE unit

\* Tokens: one of two users is an admin; "read" is anybody's, "typo" is not defined.
Abilities == [a \in {"admin", "read"} |-> IF a = "admin" THEN {ann} ELSE {ann, bob, None}]

\* Router and OpenApi: routes that overlap, at the top and in a group.
Patterns == {<<Lit("/"), Param("id")>>, <<Lit("/"), Star>>,
             <<Lit("/"), Param("id"), Lit("/"), Lit("a")>>, <<Lit("/"), Lit("a")>>}
Groups == {<<Lit("/"), Lit("v")>>}
Paths == {<<"/", "a">>, <<"/", "v">>, <<"/", "%">>, <<"/">>, <<"/", "%2F">>, <<"/", "a", "a">>,
          <<"/", "a", "/", "a">>, <<"/", "v", "/", "a">>, <<"/", "v", "/", "v", "/", "a">>,
          <<"/", "%", "/", "a">>, <<"/", "a", "v">>, <<"/", "v", "/", "%2F">>}
NoPipes == {<<>>}
Guarded == {<<"auth", "create">>}
Forms == [f \in {"create"} |-> {[fields |-> {"id", "name"}, required |-> {"id"}]}]
DocsPage == {<<Lit("/"), Lit("a")>>}

\* Cookies: texts with everything the formats give a meaning to.
Texts == {<<>>, <<"a">>, <<"a", ".", "a">>, <<";", Quote>>, <<"%">>, <<Quote, "a", Quote>>, <<".">>}
Chars == {"a", ".", ";", Quote, "%"}
Mac(value, secret) == ToString(<<value, secret>>)

all == <<tokenVars, openApiVars, corsVars, cookieVars>>

Init == /\ TokensInit /\ OpenApiInit /\ CorsInit /\ CookiesInit
        /\ \/ unit = "tokens"
           \/ unit \in {"routes", "cors", "cookies"} /\ manager = [guards |-> {}, default |-> "jwt"]

Next == /\ UNCHANGED unit
        /\ \/ unit = "tokens" /\ TokensNext /\ UNCHANGED <<openApiVars, corsVars, cookieVars>>
           \/ unit = "routes" /\ OpenApiNext /\ UNCHANGED <<tokenVars, corsVars, cookieVars>>
           \/ unit = "cors" /\ CorsNext /\ UNCHANGED <<tokenVars, openApiVars, cookieVars>>
           \/ unit = "cookies" /\ CookiesNext /\ UNCHANGED <<tokenVars, openApiVars, corsVars>>

Spec == Init /\ [][Next]_<<unit, all>>
=============================================================================
