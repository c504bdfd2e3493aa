--------------------------------- MODULE Mocks ---------------------------------
(***************************************************************************)
(* universal-testing-utils: what the helpers of msw and mockttp (external) *)
(* answer to a request, for contracts of defineApiContract and for the     *)
(* deprecated ones.  A body is "good" when it passes the contract's schema *)
(* as it is, "loose" when the schema strips something of it, and "bad"     *)
(* when it does not pass.                                                  *)
(***************************************************************************)
EXTENDS ContractResponse, SequencesExt

Passthrough == [type |-> "passthrough"]    \* no mock answers
Fails == [type |-> "fails"]                \* the mock cannot be made
Reply(status, type, kind, body) ==
    [type |-> "reply", status |-> status, content |-> type, kind |-> kind, body |-> body]
Broken == Reply("500", "none", "noContent", "none")     \* the handler threw

Parse(body) == IF body = "loose" THEN "good" ELSE body

-----------------------------------------------------------------------------
(* Events on the wire: each ends its line, and a newline is between two *)

EventText(event) ==
    <<"event:", event.event, "newline", "data:", event.data, "newline">>

\* formatSseResponse
FormatSseResponse(events) ==
    FlattenSeq([i \in DOMAIN events |->
                   (IF i = 1 THEN <<>> ELSE <<"newline">>) \o EventText(events[i])])

\* emit() of mockSseStream
Emit(event) == EventText(event) \o <<"newline">>
MockSseStream(events) == FlattenSeq([i \in DOMAIN events |-> Emit(events[i])])

-----------------------------------------------------------------------------
(* Contracts of defineApiContract *)

\* resolveContractEntry, empty when the contract says nothing of the status
ResolveContractEntry(responses, status) ==
    LET key == EntryKey(responses, status) IN IF key = "none" THEN <<>> ELSE <<responses[key]>>

\* find: the first descriptor of a kind, when there is one
OfKind(entry, kind) ==
    LET those == {i \in DOMAIN entry.content : entry.content[i].kind = kind}
    IN  IF those = {} THEN <<>>
        ELSE <<entry.content[CHOOSE i \in those : \A j \in those : i <= j]>>

Body(kind, params) == CASE kind = "json" -> Parse(params.json) [] kind = "sse" -> "events" [] kind = "blob" -> "blob"

\* resolveExplicitContentBody: the JSON must pass, or no mock is made
ResolveExplicitContentBody(entry, status, params) ==
    LET kind == KindOf(entry, params.contentType)
    IN  IF ~Declares(entry, params.contentType) \/ (kind = "json" /\ params.json = "bad") THEN Fails
        ELSE Reply(status, params.contentType, kind, Body(kind, params))

\* the answer to a request: events when it accepts them, else JSON, else a blob, else
\* the events after all
Negotiated(entry, status, params, accept) ==
    LET Of(kind) == Reply(status, OfKind(entry, kind)[1].type, kind, Body(kind, params))
    IN  IF OfKind(entry, "sse") # <<>> /\ accept = "event-stream" THEN Of("sse")
        ELSE IF OfKind(entry, "json") # <<>>
        THEN IF params.json = "bad" THEN Broken ELSE Of("json")
        ELSE IF OfKind(entry, "blob") # <<>> THEN Of("blob") ELSE Of("sse")

\* mockResponse of both helpers
MockResponse(responses, status, params, accept) ==
    LET found == ResolveContractEntry(responses, status)
    IN  IF found = <<>> THEN Fails
        ELSE IF found[1].bare
        THEN IF params.json = "bad" THEN Fails ELSE Reply(status, "json", "json", Parse(params.json))
        ELSE IF found[1].content = <<>> THEN Reply(status, "none", "noContent", "none")
        ELSE IF params.contentType # "unset" THEN ResolveExplicitContentBody(found[1], status, params)
        ELSE Negotiated(found[1], status, params, accept)

-----------------------------------------------------------------------------
(* Deprecated contracts *)

\* matchesQueryParams
MatchesQueryParams(params, request) == params.query = "unset" \/ params.query = request.query

\* registerEndpointMock of msw, for REST: the query is not compared, and a body that
\* does not pass breaks the answer
RegisterEndpointMock(params, validate) ==
    IF validate /\ params.json = "bad" THEN Broken
    ELSE Reply(params.status, "json", "json", IF validate THEN Parse(params.json) ELSE params.json)

\* the answer of a mock that may send events
Either(contract, params, request, body) ==
    IF ~MatchesQueryParams(params, request) THEN Passthrough
    ELSE IF contract = "sse" \/ request.accept = "event-stream"
    THEN Reply(params.status, "event-stream", "sse", "events")
    ELSE Reply(params.status, "json", "json", body)

MswMockValidResponse(contract, params, request) ==
    CASE contract = "rest" -> RegisterEndpointMock(params, TRUE)
      [] contract = "sse"  -> Either(contract, params, request, "none")
      [] contract = "dual" -> IF params.json = "bad" THEN Fails
                              ELSE Either(contract, params, request, Parse(params.json))

MswMockAnyResponse(contract, params, request) ==
    IF contract = "dual" THEN Either(contract, params, request, params.json)
    ELSE RegisterEndpointMock(params, FALSE)

\* the caller's handler makes the body, and maybe the status
MswMockWithImplementation(contract, params, request) ==
    IF contract = "dual" THEN Either(contract, params, request, params.json)
    ELSE Reply(params.status, "json", "json", params.json)

\* mockRestResponse of mockttp: the query is compared, the body is not
MockRestResponse(params, request) ==
    IF MatchesQueryParams(params, request) THEN Reply(params.status, "json", "json", params.json)
    ELSE Passthrough

MockttpMockAnyResponse(contract, params, request) ==
    IF contract = "dual" THEN Either(contract, params, request, params.json)
    ELSE MockRestResponse(params, request)

MockDualModeHandler(params, request) ==
    IF params.json = "bad" THEN Fails ELSE Either("dual", params, request, Parse(params.json))
MockSseHandler(params, request) == Either("sse", params, request, "none")

MockttpMockValidResponse(contract, params, request) ==
    CASE contract = "rest" -> MockRestResponse(params, request)
      [] contract = "sse"  -> MockSseHandler(params, request)
      [] contract = "dual" -> MockDualModeHandler(params, request)

-----------------------------------------------------------------------------
(* Properties *)

\* A client resolves a mocked answer as the kind of body the mock was made with, also
\* one that is strict about content types; and a body the contract's schema refuses is
\* never sent.
MockIsResolved(responses, status, params, accept) ==
    LET answer == MockResponse(responses, status, params, accept)
    IN  answer.type = "reply" /\ answer # Broken =>
            /\ \A strict \in BOOLEAN : ResolveResponseEntry(responses, answer.status, answer.content, strict) = answer.kind
            /\ answer.kind = "json" => answer.body = "good"
            /\ params.contentType # "unset" /\ answer.kind \notin {"noContent"} /\ ~ResolveContractEntry(responses, status)[1].bare
                  => answer.content = params.contentType

\* The two helpers answer alike, with three exceptions for REST: only mockttp compares
\* the query, and only msw's mockValidResponse strips and refuses a body.  A streamed
\* answer is sent to who asks for events, and only then by a contract of both.
HelpersAgree(contract, params, request) ==
    LET Same(msw, mockttp) ==
            \/ msw = mockttp
            \/ contract = "rest" /\ (~MatchesQueryParams(params, request) \/ params.json # "good")
        valid == MswMockValidResponse(contract, params, request)
    IN  /\ Same(valid, MockttpMockValidResponse(contract, params, request))
        /\ contract # "sse" => Same(MswMockAnyResponse(contract, params, request),
                                    MockttpMockAnyResponse(contract, params, request))
        /\ valid.type = "reply" /\ valid # Broken =>
              /\ valid.kind = "json" => valid.body = "good"
              /\ contract # "rest" => ((valid.kind = "sse") <=> (contract = "sse" \/ request.accept = "event-stream"))
        /\ params.json = "good" /\ contract # "sse" =>
              MswMockWithImplementation(contract, params, request) = valid
===============================================================================
