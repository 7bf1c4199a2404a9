-------------------------------- MODULE Cors --------------------------------
(***************************************************************************)
(* Cors of packages/http, and a shared cache in front of the server: what  *)
(* a page of some origin may read depends on the header the middleware     *)
(* sends and on whose request the answer was made for.                     *)
(***************************************************************************)
EXTENDS Naturals, FiniteSets

CONSTANTS Origin, NoOrigin,
          MaxShelf    \* bound

\* No page is of the origin "*".
ASSUME CorsAssumption == "*" \notin Origin \cup {NoOrigin}

VARIABLES options,   \* CorsOptions; `list' is a string, an array or a predicate
          shelf,     \* answers the cache keeps
          answer     \* the last one delivered, to the origin `to'

corsVars == <<options, shelf, answer>>

CorsInit == options = [kind |-> "none", list |-> {}, credentials |-> FALSE]
            /\ shelf = {} /\ answer = {}

\* The constructor; it throws for credentials with an origin that is only reflected.
Configure(kind, list, credentials) ==
    /\ answer = {}
    /\ ~(credentials /\ kind \in {"any", "reflect"})
    /\ options' = [kind |-> kind, list |-> list, credentials |-> credentials]
    /\ UNCHANGED <<shelf, answer>>

Allowed(origin) ==
    \/ options.kind \in {"any", "reflect"}
    \/ options.kind = "list" /\ origin \in options.list

\* resolveOrigin: {} for null.
Resolve(origin) ==
    IF ~Allowed(origin) THEN {} ELSE IF options.kind = "any" THEN {"*"} ELSE {origin}

\* Seeded defect: no answer says that it depends on the origin.
NeverVaries(allow) == FALSE
Varies(allow) == allow \notin {{}, {"*"}}

\* handle: no header for a request that is not of another origin, or of one not allowed.
Headers(origin) ==
    LET allow == IF origin = NoOrigin THEN {} ELSE Resolve(origin)
    IN  [allow |-> allow, vary |-> Varies(allow),
         credentials |-> options.credentials /\ allow # {}, to |-> origin, madeFor |-> origin]

\* A preflight ends here and is not shared.
Preflight(origin) ==
    /\ origin # NoOrigin
    /\ answer' = {[Headers(origin) EXCEPT !.madeFor = "preflight"]}
    /\ UNCHANGED <<options, shelf>>

\* Any other request goes on to the handler; the cache may keep the answer.
Ask(origin, keep) ==
    /\ answer' = {Headers(origin)}
    /\ shelf' = IF keep THEN shelf \cup answer' ELSE shelf
    /\ Cardinality(shelf') <= MaxShelf
    /\ UNCHANGED options

\* The cache answers for the server: with what does not vary, or was made for the origin.
AnswerFromShelf(origin, kept) ==
    /\ kept \in shelf /\ (kept.vary => kept.madeFor = origin)
    /\ answer' = {[kept EXCEPT !.to = origin]}
    /\ UNCHANGED <<options, shelf>>

CorsNext ==
    \/ \E kind \in {"any", "reflect", "none", "list"}, list \in SUBSET Origin,
          credentials \in BOOLEAN : Configure(kind, list, credentials)
    \/ \E origin \in Origin \cup {NoOrigin} :
          \/ Preflight(origin)
          \/ \E keep \in BOOLEAN : Ask(origin, keep)
          \/ \E kept \in shelf : AnswerFromShelf(origin, kept)

CorsSpec == CorsInit /\ [][CorsNext]_corsVars
-----------------------------------------------------------------------------
\* A page can read the answer it gets if and only if its origin is allowed, though the
\* answer may have been made for a page of another one; with credentials only if the
\* origin is listed. (Answers for requests without an Origin, or of one not allowed, say
\* nothing about varying: the cache may hand them to an allowed page, which cannot read it.)
ReadersAreAllowed ==
    \A a \in answer : a.to # NoOrigin =>
        LET readable == a.allow \in {{"*"}, {a.to}}
        IN  /\ readable => Allowed(a.to)
            /\ readable /\ a.credentials => options.kind = "list" /\ a.to \in options.list
            /\ Allowed(a.to) => \/ readable
                                \/ a.madeFor = NoOrigin \/ ~Allowed(a.madeFor)
=============================================================================
