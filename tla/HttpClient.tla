----------------------------- MODULE HttpClient -----------------------------
(***************************************************************************)
(* backend-http-client: the client's operations.  Each sends a request     *)
(* through executeRequest or executeStreamRequest, which turn what the     *)
(* server answers into an error or a result, and resolveResult throws the  *)
(* error or validates the result.  The retries of a request are HttpRetry; *)
(* the server and the connection are external.                             *)
(***************************************************************************)
EXTENDS Naturals

CONSTANTS Calls   \* the operations callers use, with their options and routes

VARIABLES
    request,   \* the operation, its options and route
    phase,     \* where the operation is
    response,  \* what the server answered
    answer     \* requestResult, and in the end what the caller gets

vars == <<request, phase, response, answer>>

ServerAnswers == [status : {200, 204, 404}, content : {"valid", "invalid", "malformed", "text"}]
NoAnswer == [kind |-> "none"]

TypeOK ==
    /\ phase \in {"requesting", "reading", "resolving", "returned", "threw"}
    /\ response \in ServerAnswers

-----------------------------------------------------------------------------
(* The operations.  An option is "yes", "no" or "unset". *)

Or(option, default) == IF option = "unset" THEN default ELSE option = "yes"

\* what every operation passes on: throwOnError and validateResponse default to true
Send(o, emptyByDefault, streamed) ==
    [throw |-> Or(o.throw, TRUE), validate |-> Or(o.validate, TRUE), schema |-> o.schema,
     safe |-> Or(o.safe, FALSE), blob |-> Or(o.blob, FALSE),
     empty |-> Or(o.empty, emptyByDefault), streamed |-> streamed]

SendGet(o) == Send(o, FALSE, FALSE)
SendDelete(o) == Send(o, TRUE, FALSE)
SendResourceChange(o) == Send(o, FALSE, FALSE)
SendPost(o) == SendResourceChange(o)
SendPut(o) == SendResourceChange(o)
SendPatch(o) == SendResourceChange(o)
SendPostBinary(o) == Send(o, FALSE, FALSE)
SendPutBinary(o) == Send(o, FALSE, FALSE)
SendStreamed(o) == Send(o, FALSE, TRUE)
SendPayloadStreamed(o) == Send(o, FALSE, TRUE)

\* sendNonPayload: the routes of a GET and a DELETE, which say if an empty
\* response is expected
\* fault: throwOnError is not passed on
SendNonPayloadLoud(o, empty) == [Send(o, FALSE, FALSE) EXCEPT !.empty = empty, !.throw = TRUE]
SendNonPayload(o, empty) == [Send(o, FALSE, FALSE) EXCEPT !.empty = empty]

OfRoute(route, o) == [o EXCEPT !.schema = route.schema]
SendByGetRoute(route, o) == SendNonPayload(OfRoute(route, o), Or(route.empty, FALSE))
SendByDeleteRoute(route, o) == SendNonPayload(OfRoute(route, o), Or(route.empty, TRUE))
SendByPayloadRoute(route, o) == SendResourceChange([OfRoute(route, o) EXCEPT !.empty = route.empty])
SendByGetRouteStreamed(route, o) == SendStreamed(o)
SendByPayloadRouteStreamed(route, o) == SendPayloadStreamed(o)

SendByContract(route, o) ==
    CASE route.method = "get"    -> SendByGetRoute(route, o)
      [] route.method = "delete" -> SendByDeleteRoute(route, o)
      [] OTHER                   -> SendByPayloadRoute(route, o)

SendByContractStreamed(route, o) ==
    IF route.method = "get" THEN SendByGetRouteStreamed(route, o)
    ELSE SendByPayloadRouteStreamed(route, o)

\* What the operation of a name passes on; a route's operations by "contract"
Operation(c) ==
    CASE c.name = "get"      -> SendGet(c.options)
      [] c.name = "delete"   -> SendDelete(c.options)
      [] c.name = "post"     -> SendPost(c.options)
      [] c.name = "put"      -> SendPut(c.options)
      [] c.name = "patch"    -> SendPatch(c.options)
      [] c.name = "postBinary" -> SendPostBinary(c.options)
      [] c.name = "putBinary"  -> SendPutBinary(c.options)
      [] c.name = "streamed" -> SendStreamed(c.options)
      [] c.name = "contract" -> SendByContract(c.route, c.options)
      [] OTHER               -> SendByContractStreamed(c.route, c.options)

call == Operation(request)

-----------------------------------------------------------------------------

Init ==
    /\ request \in Calls
    /\ response \in ServerAnswers
    /\ phase = "requesting" /\ answer = NoAnswer

\* the server answers: a result's body may be handed over as the stream it is
Respond ==
    /\ phase = "requesting"
    /\ IF call.streamed /\ response.status < 400
       THEN /\ phase' = "resolving"
            /\ answer' = [kind |-> "result", status |-> response.status, content |-> "stream"]
       ELSE phase' = "reading" /\ UNCHANGED answer
    /\ UNCHANGED <<request, response>>

\* isRequestResult(error): an error that the server answered with
AnswerKind == IF response.status < 400 THEN "result" ELSE "status"

Internal == [kind |-> "internal"]

\* parseResponseBody: only a result is read as its options say
ParseResponseBody ==
    LET result == response.status < 400 /\ ~call.streamed
        blob == result /\ call.blob
        parsed == response.content # "malformed"
    IN  CASE blob -> [kind |-> "result", status |-> response.status, content |-> "blob"]
          [] ~blob /\ parsed ->
               [kind |-> AnswerKind, status |-> response.status, content |-> response.content]
          [] ~blob /\ ~parsed /\ result /\ call.safe -> [kind |-> "parse"]
          [] OTHER -> Internal

\* the body is read to its end and parsed
Read ==
    /\ phase = "reading"
    /\ phase' = "resolving"
    /\ answer' = ParseResponseBody
    /\ UNCHANGED <<request, response>>

\* the request or the reading of the body fails: InternalRequestError
Fail ==
    /\ phase \in {"requesting", "reading"}
    /\ phase' = "resolving"
    /\ answer' = Internal
    /\ UNCHANGED <<request, response>>

\* handleRequestResultSuccess: does the result pass?  text is not what a
\* schema asks for, unless the schema takes text
Passes ==
    \/ answer.status = 204 /\ call.empty
    \/ ~call.validate
    \/ call.schema = answer.content

\* resolveResult, and its short form for a stream
Resolve ==
    /\ phase = "resolving"
    /\ CASE answer.kind # "result" ->
              /\ phase' = IF call.throw THEN "threw" ELSE "returned"
              /\ UNCHANGED answer
         [] answer.kind = "result" /\ call.streamed -> phase' = "returned" /\ UNCHANGED answer
         [] answer.kind = "result" /\ ~call.streamed /\ Passes ->
              /\ phase' = "returned"
              /\ answer' = IF answer.status = 204 /\ call.empty
                           THEN [answer EXCEPT !.content = "null"] ELSE answer
         [] OTHER -> phase' = "threw" /\ answer' = [kind |-> "validation"]
    /\ UNCHANGED <<request, response>>

Next == Respond \/ Read \/ Fail \/ Resolve

Spec == Init /\ [][Next]_vars

-----------------------------------------------------------------------------
(* Properties: of what the request asked for, whatever its operation made of it *)

IsDelete ==
    \/ request.name = "delete"
    \/ request.name = "contract" /\ request.route.method = "delete"

Asked == IF request.name = "contract" THEN request.route ELSE request.options

StreamAsked == request.name \in {"streamed", "contractStreamed"}
ValidationAsked == request.options.validate # "no"
EmptyAsked == Asked.empty = "yes" \/ (Asked.empty = "unset" /\ IsDelete)

\* an answer without content to a request that expects it
Empty == response.status = 204 /\ EmptyAsked

\* The answer to a request follows the options that its caller gave.  A result is never
\* an error status.  Unless a stream was asked for, it is null exactly for a 204 where
\* the caller expects one (as a DELETE does unless told otherwise), else it is the body,
\* as a blob exactly if a blob was asked for, and if validation was not turned off a body
\* of the schema that the caller or the route gave.  An error of the request is returned
\* to who turned throwing off and thrown to others; a result is refused only for its body.
AnswersAreChecked ==
    /\ phase = "returned" /\ answer.kind = "result" =>
          /\ response.status < 400
          /\ StreamAsked <=> (answer.content = "stream")
          /\ ~StreamAsked =>
                /\ (answer.content = "null") <=> Empty
                /\ (answer.content = "blob") <=> (request.options.blob = "yes" /\ ~Empty)
                /\ ValidationAsked => answer.content \in {Asked.schema, "null"}
    /\ phase = "returned" /\ answer.kind # "result" => request.options.throw = "no"
    /\ phase = "threw" /\ answer.kind # "validation" => request.options.throw # "no"
    /\ phase = "threw" /\ answer.kind = "validation" =>
          response.status < 400 /\ ValidationAsked /\ ~StreamAsked /\ ~Empty

\* the content of a result that is not resolved yet
Unresolved ==
    IF StreamAsked THEN "stream"
    ELSE IF request.options.blob = "yes" THEN "blob" ELSE response.content

\* The inductive invariant: what was answered tells its status, and is a stream for who
\* asked for one and else a blob or the content that the server sent.
IInv ==
    /\ request \in Calls
    /\ response \in ServerAnswers
    /\ phase \in {"requesting", "reading", "resolving", "returned", "threw"}
    /\ phase \in {"requesting", "reading"} => answer = NoAnswer
    /\ phase = "reading" /\ StreamAsked => response.status >= 400
    /\ phase \in {"resolving", "returned"} /\ answer.kind = "result" =>
          /\ answer = [kind |-> "result", status |-> response.status, content |-> answer.content]
          /\ response.status < 400
          /\ phase = "resolving" => answer.content = Unresolved
    /\ phase = "resolving" => answer.kind # "validation"
    /\ AnswersAreChecked
=============================================================================
