------------------------------- MODULE OpenApi ------------------------------
(***************************************************************************)
(* packages/openapi: the document served for what the router holds. The    *)
(* middleware of a route are named by the FormRequest that ValidationPipe  *)
(* tagged them with; Form gives {its zod schema}, or {} when formRequest's *)
(* constructor or the conversion of the schema throws.                     *)
(***************************************************************************)
EXTENDS Router

CONSTANTS Form,       \* tagged middleware -> {[fields, required]} or {}
          Served,     \* ServeOpenApiOptions: the paths excluded, its own among them
          MaxHidden   \* bound

ASSUME OpenApiAssumption ==
    \A name \in DOMAIN Form : \A s \in Form[name] : s.required \subseteq s.fields

VARIABLES hidden      \* (method, path) described as hidden

openApiVars == <<routerVars, hidden>>

OpenApiInit == RouterInit /\ hidden = {}

\* describeRoute; a description of a route that does not exist does nothing.
Describe(method, pattern, hide) ==
    /\ hidden' = IF hide THEN hidden \cup {<<method, pattern>>} ELSE hidden \ {<<method, pattern>>}
    /\ Cardinality(hidden') <= MaxHidden
    /\ UNCHANGED routerVars

\* toOpenApiPath.
Template(pattern) ==
    [i \in DOMAIN pattern |-> IF pattern[i].kind = "star" THEN Param("wildcard") ELSE pattern[i]]

Visible(route) ==
    /\ route.method # "OPTIONS" /\ route.pattern \notin Served
    /\ <<route.method, route.pattern>> \notin hidden

\* extractSchema: the first tagged middleware decides.
Schema(route) ==
    LET tagged == {i \in DOMAIN route.middleware : route.middleware[i] \in DOMAIN Form}
    IN  IF tagged = {} THEN {} ELSE Form[route.middleware[Min(tagged)]]
Fields(route) == UNION {s.fields : s \in Schema(route)}
Required(route) == UNION {s.required : s \in Schema(route)}

InPath(route) == {route.pattern[x].is : x \in Params(route.pattern)}
CarriesBody(route) == route.method \in {"POST", "PUT", "PATCH"}

\* Seeded defect: what the path has is asked for again.
RemainingAll(route) == Fields(route)
Remaining(route) == Fields(route) \ InPath(route)

\* splitSchema: names in the path are parameters, always required; what remains goes to the
\* body or, where the method has none, to the query.
Split(route) ==
    LET body == IF CarriesBody(route) THEN Remaining(route) ELSE {}
    IN  [parameters |->
            {[name |-> n, in |-> "path", required |-> TRUE] : n \in InPath(route)} \cup
            {[name |-> n, in |-> "query", required |-> n \in Required(route)] :
                n \in Remaining(route) \ body},
         body |-> body, bodyRequired |-> body \cap Required(route)]

\* buildResponses, without what the author adds.
Responses(route) ==
    {IF route.method = "POST" THEN "201" ELSE "200"} \cup {"422" : s \in Schema(route)}

\* generateOpenApiDocument: of the routes with one template and method, the last is written.
Document ==
    LET shown == {i \in DOMAIN routes : Visible(routes[i])}
        Key(i) == <<Template(routes[i].pattern), routes[i].method>>
    IN  [k \in {Key(i) : i \in shown} |->
            LET i == Max({j \in shown : Key(j) = k})
            IN  [of |-> i, split |-> Split(routes[i]), responses |-> Responses(routes[i])]]

OpenApiNext ==
    \/ RouterNext /\ UNCHANGED hidden
    \/ \E method \in Method, p \in Pattern, hide \in BOOLEAN : Describe(method, p, hide)

OpenApiSpec == OpenApiInit /\ [][OpenApiNext]_openApiVars
-----------------------------------------------------------------------------
\* "The document cannot drift from the validation that actually runs": every visible route
\* has its key in it; and a call with just what it asks for brings the FormRequest of the
\* route described all the fields that are required, each asked for in one place.
DocumentedCallsValidate ==
    /\ \A i \in DOMAIN routes : Visible(routes[i]) =>
          <<Template(routes[i].pattern), routes[i].method>> \in DOMAIN Document
    /\ \A k \in DOMAIN Document :
          LET route == routes[Document[k].of]
              s == Document[k].split
              asked == {p \in s.parameters : p.required}
          IN  /\ Required(route) \subseteq {p.name : p \in asked} \cup s.bodyRequired
              /\ {p.name : p \in s.parameters} \cap s.body = {}
              /\ \A p, q \in s.parameters : p.name = q.name => p = q
=============================================================================
