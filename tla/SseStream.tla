------------------------------ MODULE SseStream ------------------------------
(***************************************************************************)
(* frontend-http-client: connectSseByContract opens a text/event-stream,   *)
(* reads it chunk by chunk and hands its events to the caller's callbacks, *)
(* until the server ends the stream, it breaks, or the caller closes it.   *)
(* A stream is a sequence of symbols: the field names, words and newlines  *)
(* a line is made of, cut into chunks anywhere.                            *)
(***************************************************************************)
EXTENDS Naturals, SequencesExt

CONSTANTS Streams   \* the bodies a server may send

ASSUME StreamsAssumption == Streams \subseteq Seq(STRING)

VARIABLES
    stream,   \* the body of this connection
    taken,    \* how many of its symbols were read
    buffer,   \* the unfinished line (parseSseStream)
    lines,    \* the finished lines of the last chunk, not yet processed
    field,    \* SseParser: [event, data] so far
    phase,    \* where runSseConnection is
    aborted,  \* abortController.signal.aborted
    seen,     \* the events given to handleSseEvent
    calls     \* the calls of onOpen, onError and onClose, in order

vars == <<stream, taken, buffer, lines, field, phase, aborted, seen, calls>>

Unset == [event |-> "message", data |-> <<>>]

\* Before the first chunk is read or between two; and while the lines of one are parsed, in
\* a handler, in the onError for refused data, or in that for what else went wrong
Unread == {"fetching", "fetched", "reading"}
Parsing == {"parsing", "handling", "refusing", "reporting"}

TypeOK ==
    /\ taken \in 0..Len(stream)
    /\ phase \in Unread \cup Parsing \cup {"drained", "done"}
    /\ aborted \in BOOLEAN
    /\ \A i \in DOMAIN calls : calls[i] \in {"open", "close", "error"}

-----------------------------------------------------------------------------
(* The parser *)

\* the symbols of s up to newlines: the finished lines, then the rest
Extend(cut, symbol) ==
    IF symbol = "newline" THEN [lines |-> Append(cut.lines, cut.rest), rest |-> <<>>]
    ELSE [lines |-> cut.lines, rest |-> Append(cut.rest, symbol)]
Cut(s) ==
    LET upTo[i \in 0..Len(s)] ==
            IF i = 0 THEN [lines |-> <<>>, rest |-> <<>>] ELSE Extend(upTo[i - 1], s[i])
    IN  upTo[Len(s)]

Dispatches(f, line) == line = <<>> /\ f.data # <<>>

\* SseParser.processLine: further data lines are joined with a newline, and
\* an empty line ends an event that has data
ProcessLine(f, line) ==
    IF line = <<>> THEN IF f.data # <<>> THEN Unset ELSE f
    ELSE IF Head(line) = "event:" THEN [f EXCEPT !.event = Tail(line)]
    ELSE IF Head(line) = "data:"
    THEN [f EXCEPT !.data = (IF @ = <<>> THEN @ ELSE Append(@, "newline")) \o Tail(line)]
    ELSE f

\* What a stream says: its lines processed in order, wherever it is cut
Process(said, line) ==
    [field  |-> ProcessLine(said.field, line),
     events |-> IF Dispatches(said.field, line) THEN Append(said.events, said.field) ELSE said.events]
Said(line) ==
    LET upTo[i \in 0..Len(line)] ==
            IF i = 0 THEN [field |-> Unset, events |-> <<>>] ELSE Process(upTo[i - 1], line[i])
    IN  upTo[Len(line)]
Events(s) == Said(Cut(s).lines).events

-----------------------------------------------------------------------------
(* The connection *)

Init ==
    /\ stream \in Streams
    /\ taken = 0 /\ buffer = <<>> /\ lines = <<>> /\ field = Unset
    /\ phase = "fetching"
    /\ aborted = FALSE
    /\ seen = <<>> /\ calls = <<>>

\* fault: the end is reported to a caller that closed the connection
EndAnyway(callback) ==
    /\ phase' = "done"
    /\ calls' = Append(calls, callback)

\* the end of runSseConnection: it calls back unless the caller closed it
End(callback) ==
    /\ phase' = "done"
    /\ calls' = IF aborted THEN calls ELSE Append(calls, callback)

\* the response is there; its continuation has not run yet
Respond ==
    /\ phase = "fetching" /\ ~aborted
    /\ phase' = "fetched"
    /\ UNCHANGED <<stream, taken, buffer, lines, field, aborted, seen, calls>>

\* runSseConnection goes on: onOpen, which may throw as a missing body does,
\* and the first read, unless the caller has closed
Open ==
    /\ phase = "fetched"
    /\ \/ /\ phase' = IF aborted THEN "drained" ELSE "reading"
          /\ calls' = Append(calls, "open")
       \/ /\ phase' = "done"
          /\ calls' = calls \o (IF aborted THEN <<"open">> ELSE <<"open", "error">>)
    /\ UNCHANGED <<stream, taken, buffer, lines, field, aborted, seen>>

\* the request or a read() fails, as it does when the caller aborts it
Fail ==
    /\ phase \in {"fetching", "reading"}
    /\ End("error")
    /\ UNCHANGED <<stream, taken, buffer, lines, field, aborted, seen>>

\* fault: the unfinished line is lost
ReadAfresh ==
    /\ phase = "reading" /\ taken < Len(stream)
    /\ \E n \in 1..(Len(stream) - taken) :
          LET cut == Cut(SubSeq(stream, taken + 1, taken + n))
          IN  /\ taken' = taken + n
              /\ lines' = cut.lines
              /\ buffer' = cut.rest
    /\ phase' = "parsing"
    /\ UNCHANGED <<stream, field, aborted, seen, calls>>

\* read() resolves with a chunk: complete the unfinished line and keep the last
Read ==
    /\ phase = "reading" /\ taken < Len(stream)
    /\ \E n \in 1..(Len(stream) - taken) :
          LET cut == Cut(buffer \o SubSeq(stream, taken + 1, taken + n))
          IN  /\ taken' = taken + n
              /\ lines' = cut.lines
              /\ buffer' = cut.rest
    /\ phase' = "parsing"
    /\ UNCHANGED <<stream, field, aborted, seen, calls>>

\* read() resolves with done: what is left in the buffer is dropped
ReadDone ==
    /\ phase = "reading" /\ taken = Len(stream)
    /\ phase' = "drained"
    /\ UNCHANGED <<stream, taken, buffer, lines, field, aborted, seen, calls>>

\* onError is called
Report(next) == phase' = next /\ calls' = Append(calls, "error")

\* handleSseEvent up to the callback it calls: none for an event without a schema or a
\* handler; the handler; onError for data that the schema refuses, or that is no JSON
HandleSseEvent ==
    \/ phase' \in {"parsing", "handling"} /\ UNCHANGED calls
    \/ Report("refusing")
    \/ Report("reporting")

\* the next line of the chunk: its event, if it ends one, goes to
\* handleSseEvent, or ends the loop of a caller that has closed
Parse ==
    /\ phase = "parsing" /\ lines # <<>>
    /\ lines' = Tail(lines)
    /\ field' = ProcessLine(field, Head(lines))
    /\ IF ~Dispatches(field, Head(lines))
       THEN UNCHANGED <<phase, seen, calls>>
       ELSE IF aborted
       THEN phase' = "drained" /\ UNCHANGED <<seen, calls>>
       ELSE seen' = Append(seen, field) /\ HandleSseEvent
    /\ UNCHANGED <<stream, taken, buffer, aborted>>

\* the callback of handleSseEvent returns
Return ==
    /\ phase \in {"handling", "refusing", "reporting"}
    /\ phase' = "parsing"
    /\ UNCHANGED <<stream, taken, buffer, lines, field, aborted, seen, calls>>

\* the callback throws: handleSseEvent catches what a handler or the onError of its try
\* throws and calls onError, whoever closed meanwhile; what this one throws ends the
\* connection
Throw ==
    /\ \/ phase \in {"handling", "refusing"} /\ Report("reporting")
       \/ phase = "reporting" /\ End("error")
    /\ UNCHANGED <<stream, taken, buffer, lines, field, aborted, seen>>

\* the chunk is used up: while (!signal.aborted) read on
Parsed ==
    /\ phase = "parsing" /\ lines = <<>>
    /\ phase' = IF aborted THEN "drained" ELSE "reading"
    /\ UNCHANGED <<stream, taken, buffer, lines, field, aborted, seen, calls>>

\* the loop is over: onClose, and onError should onClose throw
Finish ==
    /\ phase = "drained"
    /\ \/ End("close")
       \/ ~aborted /\ phase' = "done" /\ calls' = calls \o <<"close", "error">>
    /\ UNCHANGED <<stream, taken, buffer, lines, field, aborted, seen>>

\* close(): the caller aborts, possibly from a callback
Close ==
    /\ ~aborted
    /\ aborted' = TRUE
    /\ UNCHANGED <<stream, taken, buffer, lines, field, phase, seen, calls>>

Next ==
    \/ Respond \/ Open \/ Fail \/ Read \/ ReadDone
    \/ Parse \/ Return \/ Throw \/ Parsed \/ Finish \/ Close

Spec == Init /\ [][Next]_vars

-----------------------------------------------------------------------------
(* Properties *)

\* The events handed over are those the stream says, in order and none twice,
\* wherever the network cuts it; and all of them once the server's end was read.
EventsInOrder ==
    /\ IsPrefix(seen, Events(stream))
    /\ phase = "done" /\ calls # <<>> /\ calls[Len(calls)] = "close" => seen = Events(stream)

\* After close() no event is handed over and the end is not reported.  The caller hears
\* an onOpen when the response had arrived, and one onError at most: when the callback of
\* the event that was being handled, which may have called close() itself, then throws.
SilentAfterClose ==
    [][aborted =>
          /\ seen' = seen
          /\ \/ calls' = calls
             \/ phase = "fetched" /\ calls' = Append(calls, "open")
             \/ phase \in {"handling", "refusing"} /\ phase' \notin {"handling", "refusing"}
                /\ calls' = Append(calls, "error")]_vars

-----------------------------------------------------------------------------
(* The inductive invariant *)

\* What was taken of the stream, and its lines
Taken == SubSeq(stream, 1, taken)
AllLines == Cut(Taken).lines

\* While the stream is read, the buffer is the unfinished line of what was taken, and the
\* lines not yet processed are the last of its lines, the others having said the field
\* and the events so far.
Accounted ==
    /\ buffer = Cut(Taken).rest
    /\ \E n \in 0..Len(AllLines) :
          /\ lines = SubSeq(AllLines, n + 1, Len(AllLines))
          /\ Said(SubSeq(AllLines, 1, n)) = [field |-> field, events |-> seen]

Callbacks == {"open", "close", "error"}

IInv ==
    /\ stream \in Streams /\ taken \in 0..Len(stream)
    /\ phase \in Unread \cup Parsing \cup {"drained", "done"}
    /\ calls \in Seq(Callbacks)
    /\ phase # "done" => \A i \in DOMAIN calls : calls[i] # "close"
    /\ phase \in Unread => lines = <<>>
    /\ phase \in Unread \cup Parsing => Accounted
    /\ phase = "drained" /\ ~aborted => seen = Events(stream)
    /\ EventsInOrder
=============================================================================
