-------------------------- MODULE HttpKernelProofs --------------------------
(***************************************************************************)
(* For every stack of middleware and every body limit: a request is        *)
(* answered, with its first answer, whatever the middleware do; what it    *)
(* shows and what the handler is given are as the framework promises.      *)
(*                                                                         *)
(* The argument: a frame is returned to, and a ValidationException is in   *)
(* flight, only after a send; the index of the running frame passes a pipe *)
(* only when it validated; a body past the limit leaves frame 0, which no  *)
(* handler is, as the only frame.                                          *)
(***************************************************************************)
EXTENDS HttpKernel, SequenceTheorems, TLAPS

\* Until a route is matched there is no stack, and then it is the route's.
StackOfRoute ==
    /\ mode \in {"body", "match"} => at = 1 /\ stack = <<>> /\ ~matched
    /\ mode \notin {"body", "match"} /\ matched => stack = Globals \o OfRoute

\* A body past the limit never gets beyond handleRequest.
TooLargeStays == received > MaxBody => at = 0 /\ mode # "call"

\* The running frame is past a pipe only when one validated.
PipesPassed == \A i \in 1..Len(stack) : stack[i] = "pipe" /\ i < at => validated

\* _sent without an answer takes a header writeHead refuses.
SentIsAnswered == sent => answer # None \/ badHeader

\* What comes back from a frame, and a ValidationException, come after a send.
ReturnedAfterSend ==
    mode \in {"back", "settled"} \/ (mode = "thrown" /\ exc = "validation") => sent

\* TypeOK in the three parts the proof treats apart.
FrameType ==
    /\ mode \in {"body", "match", "call", "back", "thrown", "settled", "crashed"}
    /\ stack \in Seq({"user", "pipe"}) /\ at \in 0..Len(stack) + 1
    /\ matched \in BOOLEAN /\ received \in Nat
ResponseType ==
    /\ sent \in BOOLEAN /\ badHeader \in BOOLEAN
    /\ answer \in Answers \cup {None} /\ (answer # None => sent)
    /\ reports \in Nat
RestType ==
    /\ exc \in Exceptions \cup {None}
    /\ connected \in BOOLEAN /\ validated \in BOOLEAN /\ nexts \in Nat

Frames == FrameType /\ StackOfRoute /\ TooLargeStays /\ PipesPassed
Replies == ResponseType /\ SentIsAnswered /\ InternalsHidden
IInv == Frames /\ Replies /\ RestType

InFrame == mode \in {"call", "back", "thrown"} /\ at \in 1..Len(stack) + 1
\* What a frame may do to the others, other than calling the next one.
Moves ==
    \/ UNCHANGED <<mode, at, exc>>
    \/ Return
    \/ Resume
    \/ \E e \in Exceptions \cup {None} : Throw(e)
\* What a frame may do to the response.
Harmless == {"user", "framework"} \cup ClientErrors
Replying ==
    \/ UNCHANGED response
    \/ \E status \in {"200", "403", "404", "422", "500", "4xx"}, shows \in Harmless :
          Sends(status, shows)
    \/ SendThrows
    \/ ~sent /\ badHeader' = TRUE /\ UNCHANGED <<sent, answer>>
-----------------------------------------------------------------------------
LEMMA TypeParts == TypeOK <=> FrameType /\ ResponseType /\ RestType
  BY DEF TypeOK, FrameType, ResponseType, RestType

LEMMA AnswerType ==
  ASSUME NEW status \in {"200", "403", "404", "422", "500", "4xx"}, NEW shows \in Shown
  PROVE  /\ Answer(status, shows) \in Answers
         /\ Answer(status, shows) # None
         /\ Answer(status, shows).shows = shows
  BY KernelAssumption DEF Answer, Answers

LEMMA InitIInv == Init => IInv /\ ReturnedAfterSend
  <1> SUFFICES ASSUME Init PROVE IInv /\ ReturnedAfterSend
    OBVIOUS
  <1>1. stack \in Seq({"user", "pipe"}) /\ Len(stack) = 0
    BY DEF Init
  <1>2. FrameType
    <2>1. at = 1 /\ mode = "body" /\ matched = FALSE /\ received = 0
      BY DEF Init
    <2>2. at \in 0..Len(stack) + 1
      BY <1>1, <2>1
    <2>3. matched \in BOOLEAN
      BY <2>1
    <2>4. received \in Nat
      BY <2>1
    <2> QED
      BY <1>1, <2>1, <2>2, <2>3, <2>4 DEF FrameType
  <1>3. StackOfRoute
    BY DEF Init, StackOfRoute
  <1>4. TooLargeStays
    BY KernelAssumption DEF Init, TooLargeStays
  <1>5. PipesPassed
    BY <1>1 DEF PipesPassed
  <1>6. ResponseType /\ SentIsAnswered
    BY DEF Init, ResponseType, SentIsAnswered
  <1>7. InternalsHidden
    BY DEF Init, InternalsHidden
  <1>8. RestType /\ ReturnedAfterSend
    BY DEF Init, RestType, ReturnedAfterSend
  <1> QED
    BY <1>2, <1>3, <1>4, <1>5, <1>6, <1>7, <1>8 DEF IInv, Frames, Replies

\* Frames hand over to the frames around them.
LEMMA MovesFrames ==
  ASSUME Frames, InFrame, UNCHANGED <<request, validated>>, Moves
  PROVE  Frames'
  <1> USE DEF Frames, InFrame, request
  <1>1. FrameType'
    BY DEF FrameType, Moves, Return, Resume, Throw
  <1>2. StackOfRoute'
    BY DEF StackOfRoute, Moves, Return, Resume, Throw
  <1>3. TooLargeStays' /\ at' <= at
    BY DEF FrameType, TooLargeStays, Moves, Return, Resume, Throw
  <1>4. PipesPassed'
    BY <1>1, <1>3 DEF FrameType, PipesPassed
  <1> QED
    BY <1>1, <1>2, <1>3, <1>4

\* next() goes one frame on, past a pipe only when that has validated.
LEMMA NextFrames ==
  ASSUME Frames, InFrame, at <= Len(stack), mode # "thrown", UNCHANGED request, CallNext,
         \/ stack[at] = "user" /\ validated' = validated
         \/ validated' = TRUE
  PROVE  Frames'
  <1> USE DEF Frames, InFrame, request, CallNext
  <1>1. FrameType'
    BY DEF FrameType
  <1>2. StackOfRoute' /\ TooLargeStays'
    BY KernelAssumption DEF StackOfRoute, TooLargeStays, FrameType
  <1>3. PipesPassed'
    BY <1>1 DEF FrameType, PipesPassed
  <1> QED
    BY <1>1, <1>2, <1>3

\* Nobody but handleRequest says the generic 500, and it is done then.
LEMMA ReplyingReplies ==
  ASSUME Replies, ~Ended, reports' = reports, Replying
  PROVE  Replies'
  <1>1. CASE UNCHANGED response
    BY <1>1 DEF Replies, ResponseType, SentIsAnswered, InternalsHidden, response
  <1>2. ASSUME NEW status \in {"200", "403", "404", "422", "500", "4xx"},
               NEW shows \in Harmless, Sends(status, shows)
        PROVE  Replies'
    <2>1. /\ shows \in Shown /\ shows # "generic"
          /\ shows \notin Exceptions \ ClientErrors
      BY DEF Harmless, Shown, Exceptions, ClientErrors
    <2>2. answer' \in Answers /\ answer' # None /\ answer'.shows = shows
      BY <1>2, <2>1, AnswerType DEF Sends
    <2> QED
      BY <1>2, <2>1, <2>2
      DEF Replies, ResponseType, SentIsAnswered, InternalsHidden, Sends, Ended
  <1>3. CASE SendThrows
    BY <1>3
    DEF Replies, ResponseType, SentIsAnswered, InternalsHidden, SendThrows, Ended
  <1>4. CASE ~sent /\ badHeader' = TRUE /\ UNCHANGED <<sent, answer>>
    BY <1>4 DEF Replies, ResponseType, SentIsAnswered, InternalsHidden, Ended
  <1> QED
    BY <1>1, <1>2, <1>3, <1>4 DEF Replying

LEMMA OrdinaryStep ==
  ASSUME IInv, InFrame, UNCHANGED <<request, validated, nexts, reports>>, Moves, Replying
  PROVE  IInv'
  <1>1. Frames'
    BY MovesFrames DEF IInv
  <1>2. Replies'
    BY ReplyingReplies DEF IInv, InFrame, Ended
  <1>3. RestType'
    BY DEF IInv, RestType, Moves, Return, Resume, Throw, request
  <1> QED
    BY <1>1, <1>2, <1>3 DEF IInv

LEMMA UserCodeInFrame == ASSUME IInv, InUserCode PROVE InFrame
  <1>1. Len(stack) \in Nat
    BY DEF IInv, Frames, FrameType
  <1> QED
    BY <1>1
    DEF InUserCode, InUserMiddleware, InHandler, InDestination, InFrame

LEMMA UserIInv == ASSUME IInv, User PROVE IInv'
  <1> USE DEF Harmless
  <1>L. Len(stack) \in Nat
    BY DEF IInv, Frames, FrameType
  <1>1. CASE UserCallsNext
    <2>1. InFrame /\ at <= Len(stack) /\ stack[at] = "user" /\ mode # "thrown"
      BY <1>1, <1>L DEF UserCallsNext, InUserMiddleware, InFrame
    <2>2. Frames'
      BY <1>1, <2>1, NextFrames DEF IInv, UserCallsNext
    <2>3. Replies'
      BY <1>1, <2>1, ReplyingReplies
      DEF IInv, UserCallsNext, Replying, response, InFrame, Ended
    <2>4. RestType'
      BY <1>1 DEF IInv, RestType, UserCallsNext, CallNext, request
    <2> QED
      BY <2>2, <2>3, <2>4 DEF IInv
  <1>2. CASE UserSends
    <2>1. InFrame /\ UNCHANGED <<request, validated, nexts, reports>>
      BY <1>2, UserCodeInFrame DEF UserSends
    <2>2. Moves
      BY <1>2 DEF UserSends, Moves, Exceptions
    <2>3. Replying
      BY <1>2 DEF UserSends, Replying
    <2> QED
      BY <2>1, <2>2, <2>3, OrdinaryStep
  <1>3. CASE UserSetsBadHeader
    BY <1>3, UserCodeInFrame, OrdinaryStep DEF UserSetsBadHeader, Moves, Replying
  <1>4. CASE UserReturns
    BY <1>4, UserCodeInFrame, OrdinaryStep DEF UserReturns, Moves, Replying
  <1>5. ASSUME NEW e \in UserExceptions, UserThrows(e) PROVE IInv'
    <2>1. e \in Exceptions
      BY <1>5 DEF UserExceptions, Exceptions, ClientErrors
    <2> QED
      BY <1>5, <2>1, UserCodeInFrame, OrdinaryStep DEF UserThrows, Moves, Replying
  <1>6. CASE HandlerValidates
    <2>1. InFrame /\ UNCHANGED <<request, validated, nexts, reports>>
      BY <1>6, <1>L DEF HandlerValidates, InFrame, InHandler, InDestination
    <2>2. Moves
      BY <1>6 DEF HandlerValidates, Moves, Exceptions
    <2>3. Replying
      BY <1>6 DEF HandlerValidates, Replying
    <2> QED
      BY <2>1, <2>2, <2>3, OrdinaryStep
  <1>7. CASE UserRecovers
    <2>1. InFrame /\ UNCHANGED <<request, validated, nexts, reports>>
      BY <1>7, <1>L DEF UserRecovers, InFrame, InUserMiddleware
    <2>2. Moves
      BY <1>7 DEF UserRecovers, Moves, Exceptions
    <2>3. Replying
      BY <1>7 DEF UserRecovers, Replying
    <2> QED
      BY <2>1, <2>2, <2>3, OrdinaryStep
  <1>8. CASE UserRethrows
    <2>1. InFrame /\ UNCHANGED <<request, validated, nexts, reports>> /\ Replying
      BY <1>8, <1>L DEF UserRethrows, InFrame, InUserMiddleware, Replying
    <2>2. exc \in Exceptions \cup {None}
      BY DEF IInv, RestType
    <2> QED
      BY <1>8, <2>1, <2>2, OrdinaryStep DEF Moves, UserRethrows
  <1> QED
    BY <1>1, <1>2, <1>3, <1>4, <1>5, <1>6, <1>7, <1>8 DEF User

LEMMA FrameworkIInv ==
  ASSUME IInv, NotFound \/ PipeRejects \/ PipeAccepts \/ PipeReturns \/ PipeCatches
  PROVE  IInv'
  <1> USE DEF Harmless
  <1>L. Len(stack) \in Nat
    BY DEF IInv, Frames, FrameType
  <1>E. exc \in Exceptions \cup {None}
    BY DEF IInv, RestType
  <1>1. CASE NotFound
    <2>1. InFrame /\ UNCHANGED <<request, validated, nexts, reports>>
      BY <1>1, <1>L DEF NotFound, InFrame, InDestination
    <2>2. Moves
      BY <1>1 DEF NotFound, Moves, Exceptions
    <2>3. Replying
      BY <1>1 DEF NotFound, Replying
    <2> QED
      BY <2>1, <2>2, <2>3, OrdinaryStep
  <1>2. CASE PipeRejects
    <2>1. InFrame /\ UNCHANGED <<request, validated, nexts, reports>>
      BY <1>2, <1>L DEF PipeRejects, InFrame, InPipe
    <2>2. Moves
      BY <1>2 DEF PipeRejects, Moves, Exceptions
    <2>3. Replying
      BY <1>2 DEF PipeRejects, Replying
    <2> QED
      BY <2>1, <2>2, <2>3, OrdinaryStep
  <1>3. CASE PipeAccepts
    <2>1. InFrame /\ at <= Len(stack) /\ mode # "thrown" /\ validated' = TRUE
      BY <1>3, <1>L DEF PipeAccepts, InPipe, InFrame
    <2>2. Frames'
      BY <1>3, <2>1, NextFrames DEF IInv, PipeAccepts
    <2>3. Replies'
      BY <1>3, <2>1, ReplyingReplies
      DEF IInv, PipeAccepts, Replying, response, InFrame, Ended
    <2>4. RestType'
      BY <1>3 DEF IInv, RestType, PipeAccepts, CallNext, request
    <2> QED
      BY <2>2, <2>3, <2>4 DEF IInv
  <1>4. CASE PipeReturns
    BY <1>4, <1>L, OrdinaryStep DEF PipeReturns, InPipe, InFrame, Moves, Replying
  <1>5. CASE PipeCatches
    <2>1. InFrame /\ UNCHANGED <<request, validated, nexts, reports>> /\ Replying
      BY <1>5, <1>L DEF PipeCatches, InFrame, InPipe, Replying
    <2>2. Moves
      BY <1>5, <1>E DEF PipeCatches, Moves
    <2> QED
      BY <2>1, <2>2, OrdinaryStep
  <1> QED
    BY <1>1, <1>2, <1>3, <1>4, <1>5

\* Reading the body, and matching the route.
LEMMA BodyIInv ==
  ASSUME IInv,
         \/ \E n \in ChunkSizes : Data(n)
         \/ \E e \in {"tooLarge", "badJSON"} : BodyRefused(e)
         \/ SocketFails \/ BodyRead
         \/ \E found \in BOOLEAN : Match(found)
  PROVE  IInv'
  <1>1. ASSUME mode \in {"body", "match"}, reports' = reports, UNCHANGED response
        PROVE  Replies'
    BY <1>1, ReplyingReplies DEF IInv, Replying, Ended
  <1>2. ASSUME NEW n \in ChunkSizes, Data(n) PROVE IInv'
    <2>0. n \in Nat /\ mode = "body" /\ at = 1 /\ stack = <<>> /\ Len(stack) = 0
      BY <1>2, KernelAssumption DEF Data, IInv, Frames, StackOfRoute
    <2>1. FrameType'
      <3>1. stack' \in Seq({"user", "pipe"}) /\ matched' \in BOOLEAN
        BY <1>2 DEF Data, IInv, Frames, FrameType
      <3>2. at' \in 0..Len(stack') + 1
        BY <1>2, <2>0 DEF Data, Throw
      <3>3. received' \in Nat
        BY <1>2, <2>0 DEF Data, IInv, Frames, FrameType
      <3>4. mode' \in {"body", "thrown"}
        BY <1>2, <2>0 DEF Data, Throw
      <3> QED
        BY <3>1, <3>2, <3>3, <3>4 DEF FrameType
    <2>2. StackOfRoute'
      BY <1>2, <2>0 DEF Data, Throw, IInv, Frames, StackOfRoute
    <2>3. TooLargeStays'
      BY <1>2, <2>0, KernelAssumption
      DEF Data, Throw, TooLargeStays, IInv, Frames, FrameType
    <2>4. PipesPassed'
      BY <1>2, <2>0 DEF Data, PipesPassed
    <2>5. Replies'
      BY <1>1, <1>2, <2>0 DEF Data
    <2>6. RestType'
      BY <1>2 DEF Data, Throw, IInv, RestType, Exceptions, ClientErrors
    <2> QED
      BY <2>1, <2>2, <2>3, <2>4, <2>5, <2>6 DEF IInv, Frames
  \* The promise is rejected: handleRequest's catch is next.
  <1>3. ASSUME NEW e \in Exceptions, mode = "body", Throw(e), connected' \in BOOLEAN,
               UNCHANGED <<stack, matched, received, response, validated, nexts, reports>>
        PROVE  IInv'
    <2>0. at = 1 /\ stack = <<>> /\ Len(stack) = 0 /\ ~matched
      BY <1>3 DEF IInv, Frames, StackOfRoute
    <2>1. at' = 0 /\ mode' = "thrown" /\ exc' = e
      BY <1>3, <2>0 DEF Throw
    <2>2. FrameType' /\ PipesPassed'
      BY <1>3, <2>0, <2>1 DEF IInv, Frames, FrameType, PipesPassed
    <2>3. StackOfRoute' /\ TooLargeStays'
      BY <1>3, <2>0, <2>1 DEF StackOfRoute, TooLargeStays
    <2>4. Replies'
      BY <1>1, <1>3
    <2>5. RestType'
      BY <1>3, <2>1 DEF IInv, RestType
    <2> QED
      BY <2>2, <2>3, <2>4, <2>5 DEF IInv, Frames
  <1>4. ASSUME NEW e \in {"tooLarge", "badJSON"}, BodyRefused(e) PROVE IInv'
    <2>1. e \in Exceptions /\ connected' \in BOOLEAN
      BY <1>4 DEF BodyRefused, request, Exceptions, ClientErrors, IInv, RestType
    <2> QED
      BY <1>3, <1>4, <2>1 DEF BodyRefused, request
  <1>5. CASE SocketFails
    <2>1. "plain" \in Exceptions
      BY DEF Exceptions
    <2> QED
      BY <1>3, <1>5, <2>1 DEF SocketFails
  <1>6. CASE BodyRead
    <2>1. FrameType' /\ PipesPassed' /\ StackOfRoute'
      BY <1>6 DEF BodyRead, request, IInv, Frames, FrameType, PipesPassed, StackOfRoute
    <2>2. TooLargeStays' /\ RestType'
      BY <1>6 DEF BodyRead, request, IInv, Frames, TooLargeStays, RestType
    <2>3. Replies'
      BY <1>1, <1>6 DEF BodyRead
    <2> QED
      BY <2>1, <2>2, <2>3 DEF IInv, Frames
  <1>7. ASSUME NEW found \in BOOLEAN, Match(found) PROVE IInv'
    <2>0. /\ at = 1 /\ mode = "match" /\ received <= MaxBody
          /\ received \in Nat
      BY <1>7, KernelAssumption
      DEF Match, IInv, Frames, FrameType, StackOfRoute, TooLargeStays
    <2>1. /\ stack' = Globals \o (IF found THEN OfRoute ELSE <<>>)
          /\ matched' = found /\ at' = 1 /\ mode' = "call"
          /\ UNCHANGED <<received, connected, response, exc, validated, nexts, reports>>
      BY <1>7, <2>0 DEF Match
    <2>2. stack' \in Seq({"user", "pipe"})
      <3>1. (IF found THEN OfRoute ELSE <<>>) \in Seq({"user", "pipe"})
        BY KernelAssumption
      <3> QED
        BY <2>1, <3>1, KernelAssumption, ConcatProperties
    <2>3. Len(stack') \in Nat
      BY <2>2
    <2>4. at' \in 0..Len(stack') + 1
      BY <2>1, <2>3
    <2>5. FrameType'
      BY <2>0, <2>1, <2>2, <2>4 DEF FrameType
    <2>6. StackOfRoute'
      BY <2>1 DEF StackOfRoute
    <2>7. TooLargeStays'
      BY <2>0, <2>1, KernelAssumption DEF TooLargeStays
    <2>8. PipesPassed'
      BY <2>1 DEF PipesPassed
    <2>9. Replies' /\ RestType'
      BY <1>1, <2>0, <2>1 DEF IInv, RestType
    <2> QED
      BY <2>5, <2>6, <2>7, <2>8, <2>9 DEF IInv, Frames
  <1> QED
    BY <1>2, <1>4, <1>5, <1>6, <1>7

\* handleRequest after the pipeline, and its catch.
LEMMA EndIInv ==
  ASSUME IInv, Settle \/ CatchAfterSent \/ CatchClientError \/ CatchUnhandled
  PROVE  IInv'
  <1>1. ASSUME at = 0, mode \in {"back", "thrown"},
               UNCHANGED <<at, exc, request, validated, nexts>>,
               mode' \in {"settled", "crashed"}
        PROVE  Frames' /\ RestType'
    <2>1. FrameType' /\ PipesPassed'
      BY <1>1 DEF request, IInv, Frames, FrameType, PipesPassed
    <2>2. StackOfRoute' /\ TooLargeStays' /\ RestType'
      BY <1>1 DEF request, IInv, Frames, StackOfRoute, TooLargeStays, RestType
    <2> QED
      BY <2>1, <2>2 DEF Frames
  <1>2. CASE Settle \/ CatchAfterSent
    <2>1. Frames' /\ RestType'
      BY <1>1, <1>2 DEF Settle, CatchAfterSent
    <2>2. Replies'
      BY <1>2, ReplyingReplies DEF Settle, CatchAfterSent, IInv, Replying, Ended
    <2> QED
      BY <2>1, <2>2 DEF IInv
  <1>3. CASE CatchClientError
    <2>1. Frames' /\ RestType'
      BY <1>1, <1>3 DEF CatchClientError
    <2>2. ~Ended /\ reports' = reports /\ Replying
      BY <1>3 DEF CatchClientError, Replying, Harmless, Ended
    <2> QED
      BY <2>1, <2>2, ReplyingReplies DEF IInv
  <1>4. CASE CatchUnhandled
    <2>1. Frames' /\ RestType'
      BY <1>1, <1>4 DEF CatchUnhandled
    <2>2. /\ ~sent /\ reports = 0 /\ reports' = 1 /\ Ended' /\ answer = None
          /\ sent \in BOOLEAN /\ badHeader \in BOOLEAN
      BY <1>4
      DEF CatchUnhandled, IInv, Replies, ResponseType, InternalsHidden, Ended
    <2>3. CASE Sends("500", "generic")
      <3>1. "generic" \in Shown /\ "generic" \notin Exceptions
        BY DEF Shown, Exceptions, ClientErrors
      <3>2. answer' \in Answers /\ answer' # None /\ answer'.shows = "generic"
        BY <2>3, <3>1, AnswerType DEF Sends
      <3> QED
        BY <2>1, <2>2, <2>3, <3>1, <3>2
        DEF IInv, Replies, ResponseType, SentIsAnswered, InternalsHidden, Sends
    <2>4. CASE SendThrows \/ UNCHANGED response
      <3>1. answer' = None
        BY <2>2, <2>4 DEF SendThrows, response
      <3>2. sent' \in BOOLEAN /\ badHeader' \in BOOLEAN /\ (sent' => badHeader')
        <4>1. ASSUME SendThrows
              PROVE  sent' \in BOOLEAN /\ badHeader' \in BOOLEAN /\ badHeader'
          <5>1. badHeader /\ badHeader' = badHeader /\ sent' = TRUE
            BY <2>2, <4>1 DEF SendThrows
          <5> QED
            BY <2>2, <5>1
        <4>2. ASSUME UNCHANGED response
              PROVE  sent' \in BOOLEAN /\ badHeader' \in BOOLEAN /\ ~sent'
          <5>1. badHeader' = badHeader /\ sent' = sent
            BY <4>2 DEF response
          <5> QED
            BY <2>2, <5>1
        <4> QED
          BY <2>4, <4>1, <4>2
      <3>3. ResponseType' /\ SentIsAnswered' /\ InternalsHidden'
        BY <2>2, <3>1, <3>2 DEF ResponseType, SentIsAnswered, InternalsHidden
      <3> QED
        BY <2>1, <3>3 DEF IInv, Replies
    <2> QED
      BY <1>4, <2>3, <2>4 DEF CatchUnhandled
  <1> QED
    BY <1>2, <1>3, <1>4

LEMMA NextIInv == IInv /\ [Next]_vars => IInv'
  <1> SUFFICES ASSUME IInv, [Next]_vars PROVE IInv'
    OBVIOUS
  <1>1. CASE UNCHANGED vars
    BY <1>1 DEF vars, request, response, IInv, Frames, Replies, FrameType, ResponseType,
       RestType, StackOfRoute, TooLargeStays, PipesPassed, SentIsAnswered,
       InternalsHidden, Ended
  <1>2. CASE Next
    BY <1>2, BodyIInv, UserIInv, FrameworkIInv, EndIInv DEF Next
  <1> QED
    BY <1>1, <1>2
-----------------------------------------------------------------------------
\* The inductive invariant: where the running frame stands and what has been sent, for any
\* stack of middleware between parseBody and the catch of handleRequest.
THEOREM Invariance == Spec => []IInv
  BY InitIInv, NextIInv, PTL DEF Spec

\* Type correctness of the request lifecycle.
THEOREM TypeCorrect == Spec => []TypeOK
  <1>1. IInv => TypeOK
    BY TypeParts DEF IInv, Frames, Replies
  <1> QED
    BY Invariance, <1>1, PTL

\* No answer and no report shows more, or says less, than InternalsHidden allows,
\* whatever the middleware are and do.
THEOREM InternalsStayHidden == Spec => []InternalsHidden
  <1>1. IInv => InternalsHidden
    BY DEF IInv, Replies
  <1> QED
    BY Invariance, <1>1, PTL

\* The handler of a matched route runs on input within the limit and, when a pipe is
\* anywhere in front of it, validated: for every stack of global and route middleware.
THEOREM HandlerIsGuarded == Spec => []HandlerInputAccepted
  <1>1. IInv => HandlerInputAccepted
    <2> SUFFICES ASSUME IInv, mode = "call", at = Len(stack) + 1, matched
                 PROVE  /\ received <= MaxBody
                        /\ (\E i \in DOMAIN OfRoute : OfRoute[i] = "pipe") => validated
      BY DEF HandlerInputAccepted, InHandler, InDestination
    <2>1. received <= MaxBody
      BY KernelAssumption DEF IInv, Frames, FrameType, TooLargeStays
    <2>2. ASSUME NEW i \in DOMAIN OfRoute, OfRoute[i] = "pipe" PROVE validated
      <3>1. stack = Globals \o OfRoute
        BY DEF IInv, Frames, StackOfRoute
      <3>2. i \in 1..Len(OfRoute) /\ Len(Globals) \in Nat /\ Len(OfRoute) \in Nat
        BY KernelAssumption
      <3>3. Len(stack) = Len(Globals) + Len(OfRoute) /\ stack[Len(Globals) + i] = OfRoute[i]
        BY <3>1, <3>2, KernelAssumption, ConcatProperties
      <3> QED
        BY <2>2, <3>2, <3>3 DEF IInv, Frames, PipesPassed
    <2> QED
      BY <2>1, <2>2
  <1> QED
    BY Invariance, <1>1, PTL

\* The first answer is final, by type correctness alone: nothing but a send writes
\* one, and a send looks at _sent first.
THEOREM FirstAnswerIsFinal == Spec => FirstAnswerStands
  <1>1. TypeOK /\ [Next]_vars => [answer # None => answer' = answer]_vars
    <2> SUFFICES ASSUME TypeOK, Next, answer # None PROVE answer' = answer
      BY DEF vars
    <2>1. sent
      BY DEF TypeOK
    <2> QED
      BY <2>1
      DEF Next, User, Data, BodyRefused, SocketFails, BodyRead, Match, UserCallsNext,
          UserSends, UserSetsBadHeader, UserReturns, UserThrows, HandlerValidates,
          UserRecovers, UserRethrows, NotFound, PipeRejects, PipeAccepts, PipeReturns,
          PipeCatches, Settle, CatchAfterSent, CatchClientError, CatchUnhandled,
          Sends, SendThrows, response
  <1> QED
    BY TypeCorrect, <1>1, PTL DEF Spec, FirstAnswerStands

\* What comes back has been sent, if the standalone validate() is never called.
LEMMA NextReturned ==
  ASSUME "validate" \notin UserFaults
  PROVE  IInv /\ ReturnedAfterSend /\ [Next]_vars => ReturnedAfterSend'
  <1> SUFFICES ASSUME IInv, ReturnedAfterSend, [Next]_vars PROVE ReturnedAfterSend'
    OBVIOUS
  <1> USE DEF ReturnedAfterSend
  <1>1. CASE UNCHANGED vars
    BY <1>1 DEF vars, response
  <1>2. ASSUME NEW n \in ChunkSizes, Data(n) PROVE ReturnedAfterSend'
    BY <1>2 DEF Data, Throw
  <1>3. ASSUME NEW e \in {"tooLarge", "badJSON"}, BodyRefused(e) PROVE ReturnedAfterSend'
    BY <1>3 DEF BodyRefused, Throw
  <1>4. CASE SocketFails \/ BodyRead \/ \E found \in BOOLEAN : Match(found)
    BY <1>4 DEF SocketFails, BodyRead, Match, Throw
  <1>5. CASE User
    <2>1. ASSUME NEW e \in UserExceptions, UserThrows(e) PROVE ReturnedAfterSend'
      BY <2>1 DEF UserThrows, UserExceptions, Throw
    <2>2. CASE UserCallsNext \/ UserSends \/ UserSetsBadHeader
      BY <2>2
      DEF UserCallsNext, UserSends, UserSetsBadHeader, CallNext, Throw, Sends,
          SendThrows, response
    <2>3. CASE UserReturns \/ HandlerValidates
      BY <2>3 DEF UserReturns, HandlerValidates, Return, Throw, Sends, SendThrows, response
    <2>4. CASE UserRecovers \/ UserRethrows
      BY <2>4
      DEF UserRecovers, UserRethrows, Resume, Throw, Sends, SendThrows, response
    <2> QED
      BY <1>5, <2>1, <2>2, <2>3, <2>4 DEF User
  <1>6. CASE NotFound \/ PipeRejects \/ PipeAccepts \/ PipeReturns \/ PipeCatches
    BY <1>6
    DEF NotFound, PipeRejects, PipeAccepts, PipeReturns, PipeCatches, CallNext, Return,
        Throw, Sends, SendThrows, response
  <1>7. CASE Settle \/ CatchAfterSent \/ CatchClientError \/ CatchUnhandled
    BY <1>7
    DEF Settle, CatchAfterSent, CatchClientError, CatchUnhandled, Sends, SendThrows, response
  <1> QED
    BY <1>1, <1>2, <1>3, <1>4, <1>5, <1>6, <1>7 DEF Next

\* Every settled request has been answered, whatever the stack, as long as what user
\* code throws is never a ValidationException that came with no response.
THEOREM SettledIsAnswered ==
  ASSUME "validate" \notin UserFaults
  PROVE  Spec => []Answered
  <1>1. IInv /\ ReturnedAfterSend => Answered
    BY DEF IInv, Replies, SentIsAnswered, ReturnedAfterSend, Answered
  <1> QED
    BY InitIInv, NextIInv, NextReturned, <1>1, PTL DEF Spec
=============================================================================
