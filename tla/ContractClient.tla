--------------------------- MODULE ContractClient ---------------------------
(***************************************************************************)
(* sendByApiContract of backend-http-client (undici) and of                *)
(* frontend-http-client (wretch over fetch): a request described by a      *)
(* contract of api-contracts, whose responsesByStatusCode tell what kind   *)
(* of body a status and a content type stand for.  JSON is parsed at once; *)
(* a blob and an event stream are handed over unread.  The server is       *)
(* external, and the retries are HttpRetry.                                *)
(***************************************************************************)
EXTENDS ContractResponse

CONSTANTS
    Fetch,       \* TRUE: frontend-http-client
    Contracts,   \* the contracts, with the options of a request
    Types        \* the media types of responses

VARIABLES
    contract,  \* [responses, streaming, accept, strict, capture, headerSchema]: with the options
    response,  \* [status, type, valid, headers]; what the server answers
    phase,     \* where sendByApiContract is
    body,      \* the response's body: "unread", "read", "dumped"; "broken" if reading failed
    kind,      \* the kind resolved for the response
    caller     \* what the caller did with a body handed over

vars == <<contract, response, phase, body, kind, caller>>

-----------------------------------------------------------------------------
(* sendByApiContract *)

Init ==
    /\ contract \in Contracts
    /\ response \in [status : {"200", "204", "404", "500"}, type : Types \cup {"none"},
                     valid : BOOLEAN, headers : BOOLEAN]
    /\ phase = "calling" /\ body = "none" /\ kind = "none" /\ caller = "none"

Streaming ==
    IF contract.streaming = "unset" THEN HasAnySuccessSseResponse(contract.responses)
    ELSE contract.streaming = "yes"

\* the headers: a stream is asked for as text/event-stream and nothing else
Prepare ==
    /\ phase = "calling"
    /\ phase' = IF Streaming /\ contract.accept \notin {"none", "sse"} THEN "threw" ELSE "requesting"
    /\ UNCHANGED <<contract, response, body, kind, caller>>

Fail ==
    /\ phase = "requesting"
    /\ phase' = "threw"
    /\ UNCHANGED <<contract, response, body, kind, caller>>

\* the server answers; fetch hands over a clone of what is not ok, which
\* wretch has read to make an error of it
Respond ==
    /\ phase = "requesting"
    /\ phase' = "parsing" /\ body' = "unread"
    /\ kind' = ResolveResponseEntry(contract.responses, response.status, response.type,
                                    contract.strict)
    /\ UNCHANGED <<contract, response, caller>>

\* parseBody, or text() of a response that is not in the contract
ParseBody ==
    /\ phase = "parsing"
    /\ CASE kind = "unexpected" -> body' = "read" /\ phase' = "unexpected"
         [] kind = "noContent" ->
              body' = (IF Fetch THEN "unread" ELSE "dumped") /\ phase' = "headers"
         [] kind = "json" ->
              body' = "read" /\ phase' = IF response.valid THEN "headers" ELSE "threw"
         [] OTHER -> body' = "unread" /\ phase' = "headers"
    /\ UNCHANGED <<contract, response, kind, caller>>

\* the connection breaks while the body is read
Break ==
    /\ phase = "parsing"
    /\ kind \in {"unexpected", "json"} \cup IF Fetch THEN {} ELSE {"noContent"}
    /\ phase' = "threw" /\ body' = "broken"
    /\ UNCHANGED <<contract, response, kind, caller>>

Success == response.status \in {"200", "204"}

\* responseHeaderSchema, and where the response goes
ParseHeaders ==
    /\ phase = "headers"
    /\ phase' = IF contract.headerSchema /\ ~response.headers THEN "threw"
                ELSE IF contract.capture /\ ~Success THEN "error" ELSE "result"
    /\ UNCHANGED <<contract, response, body, kind, caller>>

Lazy == kind \in {"blob", "sse"}
Held == Lazy /\ phase \in {"result", "error"}

\* the caller reads a blob or cancels it (toBlobHandle: once), or takes the
\* events of a stream until it ends, one breaks its schema, or it stops
\* (parseSseStream: leaving the loop cancels the stream)
Use ==
    /\ Held
    /\ IF caller = "none" THEN caller' = "used" /\ body' = "read"
       ELSE kind = "blob" /\ caller' = "refused" /\ UNCHANGED body
    /\ UNCHANGED <<contract, response, phase, kind>>

Next == Prepare \/ Fail \/ Respond \/ ParseBody \/ Break \/ ParseHeaders \/ Use

Spec == Init /\ [][Next]_vars

-----------------------------------------------------------------------------
(* Properties *)

\* A body is read, dumped, or the caller's to read.  It is left to the connection
\* only by fetch when no content is expected, and where the headers of a blob or a
\* stream fail their schema after the body was set aside.
BodiesAccountedFor ==
    phase \in {"result", "error", "unexpected", "threw"} /\ body = "unread" =>
        \/ Held /\ caller = "none"
        \/ Fetch /\ kind = "noContent"
        \/ phase = "threw" /\ Lazy /\ contract.headerSchema /\ ~response.headers

\* The answer is as declared: a status without an entry is an error whatever the
\* options ask; a content type that the status's entry declares gives the declared kind,
\* even when another entry would fit better; and dropping strictContentType only turns
\* unexpected responses into expected ones.
ResolvesAsDeclared ==
    LET key == EntryKey(contract.responses, response.status)
        resolved(strict) ==
            ResolveResponseEntry(contract.responses, response.status, response.type, strict)
    IN  /\ key = "none" => phase \notin {"result", "error"}
        /\ resolved(TRUE) \in {resolved(FALSE), "unexpected"}
        /\ key # "none" /\ resolved(TRUE) \in {"json", "blob", "sse"} =>
              LET entry == contract.responses[key]
              IN  IF entry.bare THEN response.type = "json" /\ resolved(TRUE) = "json"
                  ELSE \E i \in DOMAIN entry.content :
                          entry.content[i] = [type |-> response.type, kind |-> resolved(TRUE)]
\* The inductive invariant: the kind is resolved with the response, and a body that is
\* unread after parsing is one that is handed over, or fetch's without content.
IInv ==
    /\ contract \in Contracts
    /\ phase \in {"calling", "requesting", "parsing", "headers", "result", "error", "unexpected", "threw"}
    /\ kind \in {"none", "unexpected", "noContent", "json", "blob", "sse"}
    /\ EntryKey(contract.responses, response.status) = "none" => kind \in {"none", "unexpected"}
    /\ phase \in {"calling", "requesting"} => kind = "none" /\ body = "none"
    /\ phase = "parsing" => kind # "none"
    /\ phase \in {"headers", "result", "error"} => kind \notin {"none", "unexpected"}
    /\ phase \notin {"result", "error"} => caller = "none"
    /\ phase = "headers" /\ body = "unread" => Lazy \/ (Fetch /\ kind = "noContent")
    /\ BodiesAccountedFor
=============================================================================
