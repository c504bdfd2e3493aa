--------------------------- MODULE FastifyApiRoute ---------------------------
(***************************************************************************)
(* fastify-api-contracts: one request to a route of buildFastifyApiRoute.  *)
(* The handler returns a response, or starts an event stream and sends     *)
(* events, or returns a stream of events as the body.  @fastify/sse        *)
(* (external) keeps the connection: it sends a stream with status 200,     *)
(* closes an autoClose session when the route's handler settles, and tells *)
(* that the connection is closed.                                          *)
(* A handler answers by what it returns: left out are handlers that hijack *)
(* the reply, for which sendResponse does nothing, and those that set a    *)
(* content type of their own, which is sent as it is.                      *)
(***************************************************************************)
EXTENDS ContractResponse

CONSTANTS
    Responses,   \* the contracts: responsesByStatusCode
    MaxEvents    \* bound: the messages pulled from a body

VARIABLES
    responses,   \* of this route
    headersOk,   \* the reply's headers pass responseHeaderSchema
    phase,       \* of the route's handler: "handling", "piping", "returned", "threw"
    mode,        \* of the session: "none", "autoClose", "keepAlive"
    selection,   \* the representation that start() resolved
    wire,        \* status, type and kind of the head of the response; [kind |-> "none"]
    connection,  \* "open", "ended" by the server, "left" by the client, "closed"
    byServer,    \* closedByServer
    told,        \* the initiator onClose was called with, "none" before
    ender,       \* who closed the connection first
    pulled,      \* messages pulled from the body
    wasted,      \* those that were pulled after the connection was over
    replayed     \* onReconnect's events on their way: "none", "running", "done"

vars == <<responses, headersOk, phase, mode, selection, wire, connection, byServer,
          told, ender, pulled, wasted, replayed>>
connectionVars == <<connection, byServer, told, ender, pulled, wasted, replayed>>

-----------------------------------------------------------------------------
(* The contract *)

\* getSseSelections, as the set of the representations
Selections ==
    UNION {{[key |-> k, type |-> t] : t \in SseTypes(responses[k])} : k \in DOMAIN responses}

NoSelection == [key |-> "none", type |-> "none"]

\* resolveSseSelection: the only one, or the first that has the type on the way
\* from the exact status to 'default'
ResolveSseSelection(status, type) ==
    LET key == MostSpecific({s.key : s \in {s \in Selections : s.type = type}}, status)
    IN  IF \E s \in Selections : Selections = {s} THEN CHOOSE s \in Selections : TRUE
        ELSE IF key = "none" THEN NoSelection ELSE [key |-> key, type |-> type]

\* fault: the first representation of the response
RepresentationFirst(status, type, body) ==
    LET key == EntryKey(responses, status)
    IN  IF key = "none" THEN [kind |-> "none"]
        ELSE LET entry == responses[key]
             IN  IF entry.bare \/ entry.content = <<>>
                 THEN [kind |-> "json", status |-> status, type |-> "json"]
                 ELSE [kind |-> Head(entry.content).kind, status |-> status,
                       type |-> Head(entry.content).type]

\* resolveResponseRepresentation of a result; kind "none" where it throws
Representation(status, type, body) ==
    LET key == EntryKey(responses, status)
    IN  IF key = "none" THEN [kind |-> "none"]
        ELSE LET entry == responses[key]
             IN  IF type # "unset"
                 THEN IF ~Declares(entry, type) THEN [kind |-> "none"]
                      ELSE [kind |-> KindOf(entry, type), status |-> status, type |-> type]
                 ELSE IF entry.bare THEN [kind |-> "json", status |-> status, type |-> "json"]
                 ELSE IF entry.allowNoBody /\ body = "null"
                 THEN [kind |-> "noContent", status |-> status, type |-> "none"]
                 ELSE IF entry.content = <<>> THEN [kind |-> "none"]
                 ELSE [kind |-> Head(entry.content).kind, status |-> status,
                       type |-> Head(entry.content).type]

-----------------------------------------------------------------------------
(* The request *)

Init ==
    /\ responses \in Responses
    /\ headersOk \in BOOLEAN
    /\ phase = "handling" /\ mode = "none" /\ selection = NoSelection
    /\ wire = [kind |-> "none"]
    /\ connection = "open" /\ byServer = FALSE /\ told = "none" /\ ender = "none"
    /\ pulled = 0 /\ wasted = 0 /\ replayed = "none"

\* start(): the headers are on the wire when it returns
Open(m, status, type) ==
    /\ mode' = m
    /\ selection' = ResolveSseSelection(status, type)
    /\ wire' = [kind |-> "sse", status |-> "200", type |-> "event-stream"]

\* the handler calls sse.start(), once; a selection that does not exist or headers
\* that fail their schema throw, and it may go on and answer otherwise
Start(m, status, type) ==
    /\ phase = "handling" /\ mode = "none"
    /\ Selections # {} /\ headersOk /\ ResolveSseSelection(status, type) # NoSelection
    /\ Open(m, status, type)
    /\ \E again \in {"none", "running"} : replayed' = again
    /\ UNCHANGED <<responses, headersOk, phase, connection, byServer, told, ender, pulled, wasted>>

\* onReconnect's events have been sent again, or the connection is gone
Replayed ==
    /\ replayed = "running"
    /\ replayed' = "done"
    /\ UNCHANGED <<responses, headersOk, phase, mode, selection, wire, connection, byServer,
                   told, ender, pulled, wasted>>

\* session.close()
Close ==
    /\ mode # "none" /\ connection \in {"open", "left"}
    /\ byServer' = TRUE
    /\ connection' = IF connection = "open" THEN "ended" ELSE connection
    /\ ender' = IF ender = "none" THEN "server" ELSE ender
    /\ UNCHANGED <<responses, headersOk, phase, mode, selection, wire, told, pulled, wasted, replayed>>

\* @fastify/sse: an autoClose session ends with the handler
EndWithHandler ==
    IF mode = "autoClose" /\ connection = "open"
    THEN connection' = "ended" /\ ender' = "server"
    ELSE UNCHANGED <<connection, ender>>

\* markHandlerDone
MarkHandlerDone == byServer' = (byServer \/ mode = "autoClose")

\* the handler returns status, type and body, or fails: a started session goes its
\* way, an SSE representation is piped, and anything else is sent at once
Return(status, type, body) ==
    LET resolved == Representation(status, type, body)
    IN  /\ phase = "handling"
        /\ IF mode # "none"
           THEN phase' = "returned" /\ MarkHandlerDone /\ EndWithHandler
                /\ UNCHANGED <<mode, selection, wire>>
           ELSE /\ UNCHANGED <<connection, byServer, ender>>
                /\ CASE resolved.kind = "none" \/ ~headersOk ->
                          phase' = "threw" /\ UNCHANGED <<mode, selection, wire>>
                     [] resolved.kind = "sse" /\ headersOk ->
                          phase' = "piping" /\ Open("autoClose", status, resolved.type)
                     [] OTHER -> phase' = "returned" /\ wire' = resolved
                                 /\ UNCHANGED <<mode, selection>>
        /\ UNCHANGED <<responses, headersOk, told, pulled, wasted, replayed>>

\* the handler, a message that breaks its schema, or the body fails: the route rejects
Throw ==
    /\ phase \in {"handling", "piping"}
    /\ phase' = "threw"
    /\ UNCHANGED <<responses, headersOk, mode, selection, wire, byServer, told, pulled, wasted, replayed>>
    /\ EndWithHandler

\* sendStream: the next message, and on unless it could not be sent
Pipe ==
    /\ phase = "piping" /\ pulled < MaxEvents
    /\ pulled' = pulled + 1
    /\ IF connection = "open" THEN UNCHANGED <<phase, byServer, wasted>>
       ELSE phase' = "returned" /\ MarkHandlerDone /\ wasted' = wasted + 1
    /\ UNCHANGED <<responses, headersOk, mode, selection, wire, connection, told, ender, replayed>>

\* fault: markHandlerDone is left to the sessions that handlers start
PipedUnmarked ==
    /\ phase = "piping"
    /\ phase' = "returned" /\ EndWithHandler
    /\ UNCHANGED <<responses, headersOk, mode, selection, wire, byServer, told, pulled, wasted, replayed>>

\* the body is exhausted
Piped ==
    /\ phase = "piping"
    /\ phase' = "returned" /\ MarkHandlerDone /\ EndWithHandler
    /\ UNCHANGED <<responses, headersOk, mode, selection, wire, told, pulled, wasted, replayed>>

Disconnect ==
    /\ mode # "none" /\ connection = "open"
    /\ connection' = "left" /\ ender' = "client"
    /\ UNCHANGED <<responses, headersOk, phase, mode, selection, wire, byServer, told, pulled,
                   wasted, replayed>>

\* the connection is closed: onClose(session, initiator)
OnClose ==
    /\ connection \in {"ended", "left"}
    /\ connection' = "closed"
    /\ told' = IF byServer THEN "server" ELSE "client"
    /\ UNCHANGED <<responses, headersOk, phase, mode, selection, wire, byServer, ender, pulled,
                   wasted, replayed>>

Statuses == {"200", "404"}
Types == {"json", "event-stream", "ndjson", "pdf"}

Next ==
    \/ \E m \in {"autoClose", "keepAlive"}, s \in Statuses, t \in {"event-stream", "ndjson"} : Start(m, s, t)
    \/ \E s \in Statuses, t \in Types \cup {"unset"}, b \in {"null", "body"} : Return(s, t, b)
    \/ Close \/ Throw \/ Pipe \/ Piped \/ Replayed \/ Disconnect \/ OnClose

Spec == Init /\ [][Next]_vars

-----------------------------------------------------------------------------
(* Properties *)

\* What a route sends is what a strict client of the same contract resolves: always for
\* a response, and for a stream when the selected representation is the one declared for
\* status 200 and text/event-stream, the head every stream has.  Nothing is sent with
\* headers that fail their schema.
ClientResolves ==
    wire.kind # "none" =>
        /\ headersOk
        /\ wire.kind # "sse" \/ selection = [key |-> EntryKey(responses, "200"), type |-> "event-stream"]
              => ResolveResponseEntry(responses, wire.status, wire.type, TRUE) = wire.kind

\* The head is sent once: a started stream is not answered again.
SentOnce == [][wire.kind # "none" => wire' = wire]_vars

\* The session that streams a returned body is of the representation that the result
\* names; onClose blames the client for a close by the server only where the handler
\* failed; and a body is not read on once nobody listens.
SessionKeepsFaith ==
    /\ phase = "piping" => \E s \in Statuses : selection \in Selections /\ selection.key = EntryKey(responses, s)
    /\ told = "client" /\ ender = "server" => phase = "threw"
    /\ wasted <= 1
\* The inductive invariant: the head of a stream is sent with the representation that
\* was selected, and no message is pulled in vain before the last.
IInv ==
    /\ responses \in Responses
    /\ wasted \in Nat
    /\ phase \in {"handling", "piping", "returned", "threw"}
    /\ mode \in {"none", "autoClose", "keepAlive"}
    /\ phase = "handling" /\ mode = "none" => wire = [kind |-> "none"]
    /\ wire.kind = "sse" =>
          /\ wire = [kind |-> "sse", status |-> "200", type |-> "event-stream"]
          /\ selection \in Selections
    /\ told # "none" => connection = "closed"
    /\ ender = "server" => byServer \/ phase = "threw"
    /\ phase \in {"handling", "piping"} => wasted = 0
    /\ ClientResolves /\ SessionKeepsFaith
=============================================================================
