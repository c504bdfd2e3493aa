--------------------------- MODULE FrontendClient ---------------------------
(***************************************************************************)
(* frontend-http-client: the deprecated operations over wretch (external), *)
(* an upload with progress over XMLHttpRequest, and sseStreamToCallbacks,  *)
(* which reads an event stream in the background.  The caller may abort an *)
(* upload and a stream at any time.                                        *)
(***************************************************************************)
EXTENDS Naturals, Sequences

CONSTANTS
    Requests,   \* the operations callers use, with their options
    MaxEvents   \* bound: how many events a stream may have

VARIABLES
    request,    \* [name, method, empty, nonJson, schema, body, query]: the operation, its options and input
    response,   \* [status, content]: what the server answers
    phase,      \* where the operation is
    outcome,    \* what its promise settled with
    sent,       \* the request left the client
    aborted,    \* the caller's AbortController
    listened,   \* onabort's listener was added before the abort
    stream,     \* the events of a stream; "broken" ends one that breaks
    heard       \* the callbacks sseStreamToCallbacks made

vars == <<request, response, phase, outcome, sent, aborted, listened, stream, heard>>

Or(option, default) == IF option = "unset" THEN default ELSE option = "yes"

\* The operations, as what they make of their options: the query and body to validate,
\* whether the response has a schema, and which odd responses they expect.
SendResourceChange(method, o) ==
    [method |-> method, query |-> o.query, body |-> o.body, schema |-> TRUE,
     empty |-> Or(o.empty, FALSE), nonJson |-> o.nonJson]
SendGet(o)   == [SendResourceChange("get", o) EXCEPT !.body = "none"]
SendPost(o)  == SendResourceChange("post", o)
SendPut(o)   == SendResourceChange("put", o)
SendPatch(o) == SendResourceChange("patch", o)
\* fault: as for the other operations
SendDeleteUnset(o) == [SendGet(o) EXCEPT !.method = "delete", !.schema = o.schema]
\* a DELETE expects no content unless it is told not to, and takes any without a schema
SendDelete(o) == [SendGet(o) EXCEPT !.method = "delete", !.schema = o.schema, !.empty = Or(o.empty, TRUE)]

\* ... and by a route's contract, which has the schemas and expectations
SendByGetRoute(o) == SendGet(o)
SendByDeleteRoute(o) == SendDelete(o)
SendByPayloadRoute(o) ==
    CASE o.method = "put"   -> SendPut(o)
      [] o.method = "patch" -> SendPatch(o)
      [] OTHER              -> SendPost(o)
SendByContract(o) ==
    CASE o.method = "get"    -> SendByGetRoute(o)
      [] o.method = "delete" -> SendByDeleteRoute(o)
      [] OTHER               -> SendByPayloadRoute(o)

call == SendByContract(request)

Init ==
    /\ request \in Requests
    /\ response \in [status : {200, 202, 204}, content : {"valid", "invalid", "malformed", "text"}]
    /\ phase = (IF request.name = "stream" THEN "streaming" ELSE "validating")
    /\ outcome = "none" /\ sent = FALSE
    /\ aborted \in IF request.name = "upload" THEN BOOLEAN ELSE {FALSE}
    /\ listened = FALSE
    /\ stream \in UNION {[1..n -> {"known", "unknown", "broken"}] : n \in 0..MaxEvents}
    /\ request.name # "stream" => stream = <<>>
    /\ heard = <<>>

\* parseRequestBody and parseQueryParams; nothing of an upload is validated
Validate ==
    /\ phase = "validating"
    /\ IF request.name = "send" /\ "invalid" \in {call.body, call.query}
       THEN phase' = "done" /\ outcome' = "invalidRequest" /\ UNCHANGED <<sent, listened>>
       ELSE /\ phase' = "requesting" /\ sent' = TRUE /\ UNCHANGED outcome
            /\ listened' = (request.name = "upload" /\ ~aborted)
    /\ UNCHANGED <<request, response, aborted, stream, heard>>

\* the request fails, or the server answers with an error status
Fail ==
    /\ phase = "requesting"
    /\ phase' = "done" /\ outcome' = "requestError"
    /\ UNCHANGED <<request, response, sent, aborted, listened, stream, heard>>

Json == response.content \in {"valid", "invalid", "malformed"}

\* tryToResolveJsonBody
TryToResolveJsonBody(empty) ==
    CASE response.status = 204 -> "EMPTY_RESPONSE"
      [] response.status # 204 /\ ~Json ->
           IF response.status = 202 /\ empty THEN "EMPTY_RESPONSE" ELSE "NOT_JSON"
      [] OTHER -> IF response.content = "invalid" /\ ~call.schema THEN "valid" ELSE response.content

\* handleBodyParseError: what an expected oddity resolves to
HandleBodyParseError(parsed, empty) ==
    CASE parsed = "EMPTY_RESPONSE" -> IF empty THEN "null" ELSE "unexpectedEmpty"
      [] parsed = "NOT_JSON" -> IF call.nonJson THEN "response" ELSE "unexpectedText"
      [] parsed = "valid" -> "body"
      [] OTHER -> "invalidBody"

\* the callback of res()
Respond ==
    /\ phase = "requesting" /\ request.name = "send"
    /\ phase' = "done"
    /\ outcome' = HandleBodyParseError(TryToResolveJsonBody(call.empty), call.empty)
    /\ UNCHANGED <<request, response, sent, aborted, listened, stream, heard>>

\* sendPostWithProgress: xhr.onload, and the response against its schema; a
\* response that is no JSON is null to XMLHttpRequest
Loaded ==
    /\ phase = "requesting" /\ request.name = "upload"
    /\ phase' = "done"
    /\ outcome' = IF response.content = "valid" /\ response.status # 204 THEN "body" ELSE "invalidBody"
    /\ UNCHANGED <<request, response, sent, aborted, listened, stream, heard>>

\* the caller aborts: xhr.abort() rejects an upload that runs, and the body of a
\* stream breaks after the events that arrived already, unless all of it has arrived
Abort ==
    /\ ~aborted /\ request.name # "send"
    /\ aborted' = TRUE
    /\ IF phase = "requesting" THEN phase' = "done" /\ outcome' = "aborted"
       ELSE UNCHANGED <<phase, outcome>>
    /\ \/ UNCHANGED stream
       \/ /\ phase = "streaming"
          /\ \E n \in Len(heard)..Len(stream) : stream' = Append(SubSeq(stream, 1, n), "broken")
    /\ UNCHANGED <<request, response, sent, listened, heard>>

\* the next event of a stream, to its handler; a handler that throws, or that
\* does not exist, ends the loop as a broken stream does: onError
Event ==
    /\ phase = "streaming" /\ Len(heard) < Len(stream)
    /\ \/ /\ stream[Len(heard) + 1] = "known"
          /\ heard' = Append(heard, "event") /\ UNCHANGED phase
       \/ heard' = Append(heard, "error") /\ phase' = "done"
    /\ UNCHANGED <<request, response, outcome, sent, aborted, listened, stream>>

\* the end of a stream: onDone, and onError should onDone throw
Done ==
    /\ phase = "streaming" /\ Len(heard) = Len(stream)
    /\ phase' = "done"
    /\ heard' \in {Append(heard, "done"), heard \o <<"done", "error">>}
    /\ UNCHANGED <<request, response, outcome, sent, aborted, listened, stream>>

Next == Validate \/ Fail \/ Respond \/ Loaded \/ Abort \/ Event \/ Done

Spec == Init /\ [][Next]_vars

-----------------------------------------------------------------------------
(* Properties *)

EmptyAsked == request.empty = "yes" \/ (request.empty = "unset" /\ request.method = "delete")
Empty == response.status = 204 \/ (response.status = 202 /\ ~Json /\ EmptyAsked)

\* A request that is refused never leaves the client.  The answer to a request follows
\* the options that its caller gave, whichever operation sent it: an answer without
\* content is null exactly where the caller expects one, which a DELETE does by itself
\* and no other operation does, and else an error; a response that is no JSON is
\* returned as it is to a caller who expects that, and else an error; a body is what
\* passed the schema, unless a DELETE gave none.
SettlesAsAsked ==
    /\ outcome = "invalidRequest" => ~sent
    /\ request.name = "send" /\ outcome \notin {"none", "invalidRequest", "requestError"} =>
          /\ (outcome = "null") <=> (Empty /\ EmptyAsked)
          /\ (outcome = "unexpectedEmpty") <=> (Empty /\ ~EmptyAsked)
          /\ (outcome = "response") <=> (~Empty /\ ~Json /\ request.nonJson)
          /\ (outcome = "unexpectedText") <=> (~Empty /\ ~Json /\ ~request.nonJson)
          /\ outcome = "body" =>
                \/ response.content = "valid"
                \/ response.content = "invalid" /\ request.method = "delete" /\ ~request.schema
    /\ request.name = "upload" /\ outcome = "body" => response.content = "valid" /\ response.status # 204

\* An upload that the caller aborts has settled then, with a rejection if it was under
\* way.  (One that was aborted before it began is sent all the same: the listener hears
\* later aborts only.)
AbortRejects ==
    /\ listened /\ aborted => outcome # "none"
    /\ outcome = "aborted" => listened

\* onDone is called for streams that did not break, after every event had its handler;
\* so it is for no stream that an abort cut off, and what such a stream ends with is
\* onError.  Nothing follows onError, and nothing but onError follows onDone.
DoneEndsStream ==
    /\ \A i \in DOMAIN heard :
          /\ heard[i] = "error" => i = Len(heard)
          /\ heard[i] = "done" => /\ i = Len(stream) + 1
                                  /\ \A k \in DOMAIN stream : stream[k] = "known" /\ heard[k] = "event"
    /\ request.name = "stream" /\ phase = "done" /\ "broken" \in {stream[k] : k \in DOMAIN stream} =>
          heard # <<>> /\ heard[Len(heard)] = "error"

\* The inductive invariant: an operation has no outcome before it is done, a listener
\* is an upload's, and all that a stream's callbacks heard before its end are the events
\* at its beginning.
IInv ==
    /\ request \in Requests
    /\ response \in [status : {200, 202, 204}, content : {"valid", "invalid", "malformed", "text"}]
    /\ phase \in {"validating", "requesting", "streaming", "done"}
    /\ phase = "validating" => ~sent /\ ~listened
    /\ phase # "done" => outcome = "none"
    /\ request.name = "upload" /\ phase = "done" =>
          outcome \in {"aborted", "body", "invalidBody", "requestError"}
    /\ phase = "streaming" => request.name = "stream"
    /\ request.name = "stream" => phase \in {"streaming", "done"} /\ outcome = "none"
    /\ listened => request.name = "upload" /\ (aborted => phase = "done")
    /\ phase = "requesting" /\ request.name = "upload" /\ ~aborted => listened
    /\ heard \in Seq({"event", "error", "done"})
    /\ stream \in Seq({"known", "unknown", "broken"})
    /\ request.name # "stream" => heard = <<>>
    /\ phase # "done" => /\ Len(heard) <= Len(stream)
                         /\ \A i \in DOMAIN heard : heard[i] = "event" /\ stream[i] = "known"
    /\ SettlesAsAsked /\ AbortRejects /\ DoneEndsStream
=============================================================================
