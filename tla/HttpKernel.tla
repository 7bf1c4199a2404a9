----------------------------- MODULE HttpKernel -----------------------------
(***************************************************************************)
(* One request through packages/http: the body is read, a route matched,   *)
(* the middleware stack run by the Pipeline around the route handler, and  *)
(* what they throw turned into a response by HttpKernel.handleRequest.     *)
(* ValidationPipe and FormRequest (packages/validate) are middleware of    *)
(* the framework and are modelled exactly; any other middleware and the    *)
(* handler are user code, which may do whatever careful code does: send,   *)
(* call next (again), throw, recover, and return once somebody answered.   *)
(* UserFaults names the less careful things it may do as well.             *)
(*                                                                         *)
(* Frame 0 is handleRequest, frames 1 .. Len(stack) are the middleware and *)
(* frame Len(stack) + 1 the destination passed to Pipeline.run.            *)
(***************************************************************************)
EXTENDS Naturals, Sequences

CONSTANTS Globals,     \* router.use(...): sequence of "user" | "pipe"
          OfRoute,     \* the matched route's own middleware
          MaxBody,     \* maxBodyBytes
          ChunkSizes,  \* sizes of the 'data' events
          MaxNexts,    \* bound: how many calls of next() a request may see
          UserFaults,  \* subset of Faults
          None

Faults == {"validate",     \* the handler calls the standalone validate()
           "badHeader",     \* user code sets a header or status writeHead refuses
           "hookThrows"}    \* onUnhandledError itself throws

VARIABLES mode,      \* what the frame `at` is about to see, or how the request ended
          at,        \* the running frame
          stack,     \* the middleware of this request
          matched,   \* the router found a route
          exc,       \* the exception in flight
          received,  \* body bytes read so far
          sent,      \* Response._sent
          connected, \* the client's socket is still there
          badHeader, \* Response._headers holds something writeHead refuses
          answer,    \* what writeHead and end were given
          validated, \* ctx.set('validated', ...) was reached
          nexts,     \* how often next() was called
          reports    \* calls of onUnhandledError

response == <<sent, badHeader, answer>>
request == <<stack, matched, received, connected>>
vars == <<mode, at, exc, request, response, validated, nexts, reports>>

ClientErrors == {"4xx", "tooLarge", "badJSON"}    \* carry a statusCode in 400..499
Exceptions == ClientErrors \cup {"plain", "authorization", "validation"}
\* Whose words the body holds: user code's, the framework's, or an exception's.
Shown == {"user", "framework", "generic"} \cup Exceptions
Answer(status, shows) == [status |-> status, shows |-> shows]
Answers == [status : {"200", "403", "404", "422", "500", "4xx"}, shows : Shown]

ASSUME KernelAssumption ==
    /\ Globals \in Seq({"user", "pipe"})
    /\ OfRoute \in Seq({"user", "pipe"})
    /\ MaxBody \in Nat
    /\ ChunkSizes \subseteq Nat \ {0}
    /\ MaxNexts \in Nat
    /\ UserFaults \subseteq Faults
    /\ None \notin Exceptions \cup Answers

\* What user code throws of its own accord.
UserExceptions == {"plain", "4xx"} \cup
                  (IF "validate" \in UserFaults THEN {"validation"} ELSE {})
\* How a frame ends, hands over or goes on: next(), return, catch, throw.
CallNext == mode' = "call" /\ at' = at + 1 /\ exc' = None
Return == mode' = "back" /\ at' = at - 1 /\ exc' = None
Resume == mode' = "back" /\ at' = at /\ exc' = None    \* caught
Throw(e) == mode' = "thrown" /\ at' = at - 1 /\ exc' = e

\* Response.send: it throws when _sent is set; it sets _sent before writeHead
\* and end, and writeHead throws on a header it refuses.
Sends(status, shows) ==
    /\ ~sent /\ ~badHeader
    /\ sent' = TRUE
    /\ answer' = Answer(status, shows)
    /\ UNCHANGED badHeader
SendThrows ==
    /\ sent \/ badHeader
    /\ sent' = TRUE
    /\ UNCHANGED <<badHeader, answer>>
-----------------------------------------------------------------------------
Init ==
    /\ mode = "body" /\ at = 1
    /\ stack = <<>> /\ matched = FALSE
    /\ exc = None
    /\ received = 0 /\ connected = TRUE
    /\ sent = FALSE /\ badHeader = FALSE /\ answer = None
    /\ validated = FALSE
    /\ nexts = 0
    /\ reports = 0

\* Seeded defect: past the limit the socket is dropped and the promise forgotten.
DataNeverRejects(n) ==
    /\ mode = "body"
    /\ received' = received + n
    /\ IF received + n > MaxBody
       THEN mode' = "thrown" /\ connected' = FALSE /\ UNCHANGED <<at, exc>>
       ELSE UNCHANGED <<mode, at, exc, connected>>
    /\ UNCHANGED <<stack, matched, response, validated, nexts, reports>>

\* parseBody: 'data'. Past the limit the socket is dropped and the promise rejected.
Data(n) ==
    /\ mode = "body"
    /\ received' = received + n
    /\ IF received + n > MaxBody
       THEN Throw("tooLarge") /\ connected' = FALSE
       ELSE UNCHANGED <<mode, at, exc, connected>>
    /\ UNCHANGED <<stack, matched, response, validated, nexts, reports>>

\* parseBody: a declared content-length over the limit, and bad JSON at 'end'.
BodyRefused(e) ==
    /\ mode = "body"
    /\ e = "tooLarge" => received = 0
    /\ e = "badJSON" => received > 0
    /\ Throw(e)
    /\ UNCHANGED <<request, response, validated, nexts, reports>>

\* parseBody: 'error', the client is gone.
SocketFails ==
    /\ mode = "body"
    /\ connected' = FALSE
    /\ Throw("plain")
    /\ UNCHANGED <<stack, matched, received, response, validated, nexts, reports>>

\* GET and HEAD, or 'end': the body is there, or empty.
BodyRead ==
    /\ mode = "body"
    /\ mode' = "match"
    /\ UNCHANGED <<at, exc, request, response, validated, nexts, reports>>

\* Global middleware runs for every request, the route's own only for its route.
Match(found) ==
    /\ mode = "match"
    /\ matched' = found
    /\ stack' = Globals \o (IF found THEN OfRoute ELSE <<>>)
    /\ mode' = "call"
    /\ UNCHANGED <<at, exc, received, connected, response, validated, nexts, reports>>

InUserMiddleware == at \in 1..Len(stack) /\ stack[at] = "user"
InPipe == at \in 1..Len(stack) /\ stack[at] = "pipe"
InDestination == at = Len(stack) + 1
InHandler == InDestination /\ matched
\* Code of a middleware before or after next(), or of the handler.
InUserCode == mode \in {"call", "back"} /\ (InUserMiddleware \/ InHandler)

UserCallsNext ==
    /\ mode \in {"call", "back"} /\ InUserMiddleware
    /\ nexts < MaxNexts
    /\ nexts' = nexts + 1
    /\ CallNext
    /\ UNCHANGED <<request, response, validated, reports>>

UserSends ==
    /\ InUserCode
    /\ \/ Sends("200", "user") /\ UNCHANGED <<mode, at, exc>>
       \/ SendThrows /\ Throw("plain")
    /\ UNCHANGED <<request, validated, nexts, reports>>

UserSetsBadHeader ==
    /\ "badHeader" \in UserFaults
    /\ InUserCode /\ ~sent /\ ~badHeader
    /\ badHeader' = TRUE
    /\ UNCHANGED <<mode, at, exc, request, sent, answer, validated, nexts, reports>>

\* Careful code returns when it has answered, or when next() has returned to it.
UserReturns ==
    /\ InUserCode
    /\ sent \/ mode = "back"
    /\ Return
    /\ UNCHANGED <<request, response, validated, nexts, reports>>

UserThrows(e) ==
    /\ InUserCode
    /\ Throw(e)
    /\ UNCHANGED <<request, response, validated, nexts, reports>>

\* The handler calls FormRequest.validate itself: it answers, then throws.
HandlerValidates ==
    /\ mode = "call" /\ InHandler
    /\ \/ Sends("403", "framework") /\ Throw("authorization")
       \/ Sends("422", "framework") /\ Throw("validation")
       \/ SendThrows /\ Throw("plain")
    /\ UNCHANGED <<request, validated, nexts, reports>>

\* A middleware catches what next() threw: it answers unless somebody has.
UserRecovers ==
    /\ mode = "thrown" /\ InUserMiddleware
    /\ \/ sent /\ UNCHANGED response /\ Resume
       \/ ~sent /\ Sends("200", "user") /\ Resume
       \/ ~sent /\ SendThrows /\ Throw("plain")
    /\ UNCHANGED <<request, validated, nexts, reports>>

UserRethrows ==
    /\ mode = "thrown" /\ InUserMiddleware
    /\ Throw(exc)
    /\ UNCHANGED <<request, response, validated, nexts, reports>>

\* No route: the destination answers 404 unless a middleware has answered.
NotFound ==
    /\ mode = "call" /\ InDestination /\ ~matched
    /\ \/ sent /\ Return /\ UNCHANGED response
       \/ ~sent /\ Sends("404", "framework") /\ Return
       \/ ~sent /\ SendThrows /\ Throw("plain")
    /\ UNCHANGED <<request, validated, nexts, reports>>

\* ValidationPipe: validate() rejects. Its exceptions are thrown inside the pipe's
\* own try, so a ValidationException ends there and anything else goes on.
PipeRejects ==
    /\ mode = "call" /\ InPipe
    /\ \/ Sends("403", "framework") /\ Throw("authorization")
       \/ Sends("422", "framework") /\ Return
       \/ SendThrows /\ Throw("plain")
       \/ Throw("plain") /\ UNCHANGED response    \* authorize() or a refinement throws
    /\ UNCHANGED <<request, validated, nexts, reports>>

PipeAccepts ==
    /\ mode = "call" /\ InPipe
    /\ validated' = TRUE
    /\ CallNext
    /\ UNCHANGED <<request, response, nexts, reports>>

PipeReturns ==
    /\ mode = "back" /\ InPipe
    /\ Return
    /\ UNCHANGED <<request, response, validated, nexts, reports>>

\* Seeded defect: the pipe ends the request for any exception.
PipeSwallows ==
    mode = "thrown" /\ InPipe /\ Return
    /\ UNCHANGED <<request, response, validated, nexts, reports>>

\* The pipe's catch. next() is inside the try, so whatever is downstream counts.
PipeCatches ==
    /\ mode = "thrown" /\ InPipe
    /\ IF exc = "validation" THEN Return ELSE Throw(exc)
    /\ UNCHANGED <<request, response, validated, nexts, reports>>

\* handleRequest: the pipeline came back.
Settle ==
    /\ mode = "back" /\ at = 0
    /\ mode' = "settled"
    /\ UNCHANGED <<at, exc, request, response, validated, nexts, reports>>

\* handleRequest's catch: nothing more to do, a client error, or a generic 500.
\* What throws in there rejects the promise nobody awaits: the process is done.
CatchAfterSent ==
    /\ mode = "thrown" /\ at = 0 /\ sent
    /\ mode' = "settled"
    /\ UNCHANGED <<at, exc, request, response, validated, nexts, reports>>

CatchClientError ==
    /\ mode = "thrown" /\ at = 0 /\ ~sent /\ exc \in ClientErrors
    /\ \/ Sends("4xx", exc) /\ mode' = "settled"
       \/ SendThrows /\ mode' = "crashed"
    /\ UNCHANGED <<at, exc, request, validated, nexts, reports>>

\* Seeded defect: the exception's own message in the 500.
CatchShowsMessage ==
    /\ mode = "thrown" /\ at = 0 /\ ~sent /\ exc \notin ClientErrors
    /\ reports' = reports + 1
    /\ Sends("500", exc) /\ mode' = "settled"
    /\ UNCHANGED <<at, exc, request, validated, nexts>>

CatchUnhandled ==
    /\ mode = "thrown" /\ at = 0 /\ ~sent /\ exc \notin ClientErrors
    /\ reports' = reports + 1
    /\ \/ Sends("500", "generic") /\ mode' = "settled"
       \/ SendThrows /\ mode' = "crashed"
       \/ "hookThrows" \in UserFaults /\ mode' = "crashed" /\ UNCHANGED response
    /\ UNCHANGED <<at, exc, request, validated, nexts>>

User ==
    \/ UserCallsNext
    \/ UserSends
    \/ UserSetsBadHeader
    \/ UserReturns
    \/ \E e \in UserExceptions : UserThrows(e)
    \/ HandlerValidates
    \/ UserRecovers
    \/ UserRethrows

Next ==
    \/ \E n \in ChunkSizes : Data(n)
    \/ \E e \in {"tooLarge", "badJSON"} : BodyRefused(e)
    \/ SocketFails
    \/ BodyRead
    \/ \E found \in BOOLEAN : Match(found)
    \/ User
    \/ NotFound
    \/ PipeRejects \/ PipeAccepts \/ PipeReturns \/ PipeCatches
    \/ Settle \/ CatchAfterSent \/ CatchClientError \/ CatchUnhandled

\* User code finishes, the client finishes its body or its socket fails, and Node
\* keeps running callbacks: a request that can take a step takes one.
Spec == Init /\ [][Next]_vars /\ WF_vars(Next)
-----------------------------------------------------------------------------
Ended == mode \in {"settled", "crashed"}

\* Every variable has its type, and an answer is on the wire only once _sent is set.
TypeOK ==
    /\ mode \in {"body", "match", "call", "back", "thrown", "settled", "crashed"}
    /\ stack \in Seq({"user", "pipe"})
    /\ at \in 0..Len(stack) + 1
    /\ matched \in BOOLEAN
    /\ exc \in Exceptions \cup {None}
    /\ received \in Nat
    /\ connected \in BOOLEAN
    /\ sent \in BOOLEAN /\ badHeader \in BOOLEAN
    /\ answer \in Answers \cup {None}
    /\ answer # None => sent
    /\ validated \in BOOLEAN
    /\ nexts \in Nat
    /\ reports \in Nat

\* When handleRequest is done with a request, it has been answered: no
\* combination of throwing, recovering and swallowing middleware leaves it waiting.
\* (A response writeHead refuses does: send has set _sent by then.)
Answered == mode = "settled" /\ ~badHeader => answer # None

\* Whatever middleware do after somebody answered, the client keeps that answer
\* (Response.send refuses a second one, and the catch of handleRequest looks first).
FirstAnswerStands == [][answer # None => answer' = answer]_vars

\* The handler sees only input the framework let through: a body within maxBodyBytes,
\* and past every ValidationPipe in front of it.
HandlerInputAccepted ==
    (mode = "call" /\ InHandler) =>
        /\ received <= MaxBody
        /\ (\E i \in DOMAIN OfRoute : OfRoute[i] = "pipe") => validated

\* A body shows an exception's message only for deliberate client errors, and the
\* generic 500 goes out only after onUnhandledError heard of the error, once.
InternalsHidden ==
    /\ answer # None => answer.shows \notin Exceptions \ ClientErrors
    /\ answer # None /\ answer.shows = "generic" => reports = 1
    /\ reports > 0 => Ended

\* Every request comes to an end: handleRequest settles, or the process dies with it.
EveryRequestEnds == <>Ended
=============================================================================
