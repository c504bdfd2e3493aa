----------------------------- MODULE MCServices -----------------------------
(***************************************************************************)
(* The HTTP clients and the routes they call, which share no state, for    *)
(* TLC: an event stream (SseStream), the retries of a request (HttpRetry), *)
(* the operations of the backend client (HttpClient) and of the frontend   *)
(* client (FrontendClient), a request by contract from either runtime      *)
(* (ContractClient) and a route that answers it (FastifyApiRoute).  A      *)
(* behaviour is one of a single part, chosen at the start in `part'; the   *)
(* others keep an initial state.  The contracts, routes and injected       *)
(* requests of Routes and the answers of Mocks are functions: `input' is   *)
(* what they are checked for.                                              *)
(***************************************************************************)
EXTENDS SseStream, FiniteSets

CONSTANTS
    Calls,       \* of HttpClient
    Requests,    \* of FrontendClient
    Responses,   \* the contracts of FastifyApiRoute
    Contracts,   \* of ContractClient
    MaxRetries, MaxEvents,
    Injections,  \* of Routes
    Mockings, Helpings, EventLists   \* of Mocks

VARIABLES
    part,
    config, retryNumber, sending, cancelled, dump, asleep, unread, late,
    call, progress, reply, answer,
    contract, response, step, body, kind, caller,
    request, result, stage, outcome, sent, stopped, listened, events, heard,
    responses, headersOk, handler, mode, selection, wire, connection, byServer, told, ender,
    pulled, wasted, replayed,
    input

streamVars   == vars
retryVars    == <<config, retryNumber, sending, cancelled, dump, asleep, unread, late>>
httpVars     == <<call, progress, reply, answer>>
contractVars == <<contract, response, step, body, kind, caller>>
frontVars    == <<request, result, stage, outcome, sent, stopped, listened, events, heard>>
routeVars    == <<responses, headersOk, handler, mode, selection, wire, connection, byServer,
                  told, ender, pulled, wasted, replayed>>

-----------------------------------------------------------------------------
(* Instances *)

\* Streams of up to four lines: data, a named event, an empty line and a line
\* that is neither; the last one may be unfinished.
Lines == {<<"data:", "x">>, <<"data:", "y">>, <<"event:", "z">>, <<>>, <<"x">>}
Finished(line) == Append(line, "newline")
MCStreams ==
    LET Bodies(n) == {FlattenSeq([i \in 1..n |-> Finished(s[i])]) : s \in [1..n -> Lines]}
    IN  UNION {Bodies(n) : n \in 0..4} \cup {b \o l : b \in Bodies(3), l \in Lines}

Options(schemas, empties) ==
    [throw : {"unset", "no"}, validate : {"unset", "no"}, schema : schemas,
     safe : {"unset", "yes"}, blob : {"unset", "yes"}, empty : empties]
MCCalls ==
    [name : {"get", "delete", "post", "put", "patch", "postBinary", "putBinary", "streamed"},
     options : Options({"none", "valid"}, {"unset", "yes", "no"})]
        \cup [name : {"contract", "contractStreamed"}, options : Options({"none"}, {"unset"}),
              route : [method : {"get", "delete", "post"}, schema : {"none", "valid"},
                       empty : {"unset", "yes", "no"}]]

MCRequests ==
    LET Requested(names, methods, options, bodies, queries, schemas) ==
            [name : names, method : methods, empty : options, nonJson : BOOLEAN,
             body : bodies, query : queries, schema : schemas]
        Tried == {"valid", "invalid"}
    IN  Requested({"send"}, {"post", "put", "patch"}, {"unset", "yes", "no"}, Tried, Tried, {TRUE})
        \cup Requested({"send"}, {"get"}, {"unset", "yes", "no"}, {"none"}, Tried, {TRUE})
        \cup Requested({"send"}, {"delete"}, {"unset", "yes", "no"}, {"none"}, Tried, BOOLEAN)
        \cup Requested({"upload", "stream"}, {"post"}, {"unset"}, {"valid"}, {"valid"}, {TRUE})

Http == INSTANCE HttpClient
    WITH request <- call, phase <- progress, response <- reply
Frontend == INSTANCE FrontendClient
    WITH response <- result, phase <- stage, aborted <- stopped, stream <- events
Retry == INSTANCE HttpRetry WITH phase <- sending, aborted <- cancelled

\* Up to two of the status keys, each with one of the kinds of entry: bare,
\* without content, one media type, several
Data(type, sort) == [type |-> type, kind |-> sort]
Entries ==
    LET C == INSTANCE ContractResponse
    IN  {C!Bare, C!NoBodyResponse,
         C!ContentEntry(<<Data("pdf", "blob"), Data("json", "json")>>, FALSE),
         C!ContentEntry(<<Data("event-stream", "sse")>>, FALSE),
         C!ContentEntry(<<Data("json", "json"), Data("event-stream", "sse"),
                          Data("ndjson", "sse")>>, TRUE)}
MCResponses ==
    UNION {[keys -> Entries] :
              keys \in {k \in SUBSET {"200", "2xx", "4xx", "default"} : Cardinality(k) \in 1..2}}
MCContracts ==
    LET Asked(accept, strict) ==
            [responses : MCResponses, streaming : {"unset"}, accept : {accept},
             strict : strict, capture : {TRUE}, headerSchema : {TRUE}]
    IN  Asked("none", BOOLEAN) \cup Asked("other", {TRUE})

Client(Fetch) == INSTANCE ContractClient
    WITH Types <- {"json", "event-stream", "pdf"}, phase <- step
Route == INSTANCE FastifyApiRoute WITH phase <- handler

R == INSTANCE Routes
M == INSTANCE Mocks

\* Each method with each shape of contract, of up to two parameters; a caller sends
\* what the contract declares, with one or two segments for a parameter
Templates ==
    {[words |-> <<"/", "users">>, params |-> {}],
     [words |-> <<"/", "users", "/", "id">>, params |-> {"id"}],
     [words |-> <<"/", "users", "/", "id", "/", "keys", "/", "key">>, params |-> {"id", "key"}]}
Configs(template, options) ==
    {[method |-> m, template |-> template.words, params |-> template.params, body |-> b,
      query |-> b, headers |-> ~b, visible |-> b, empty |-> e, nonJson |-> e, success |-> s, events |-> v] :
        m \in {"get", "delete"}, b \in {FALSE}, e \in options, s \in BOOLEAN, v \in BOOLEAN}
    \cup
    {[method |-> m, template |-> template.words, params |-> template.params, body |-> b,
      query |-> b, headers |-> ~b, visible |-> b, empty |-> e, nonJson |-> e, success |-> s, events |-> v] :
        m \in R!PayloadMethods, b \in BOOLEAN, e \in options, s \in BOOLEAN, v \in BOOLEAN}
Routed(template, options, prefixes) ==
    {[config |-> c, mapped |-> m, prefix |-> p,
      sent |-> [values |-> v, body |-> c.body, query |-> c.query, headers |-> c.headers]] :
        c \in Configs(template, options), m \in {<<>>, <<[rateLimit |-> TRUE]>>}, p \in prefixes,
        v \in [template.params -> {<<"1">>, <<"2", "/", "3">>}]}
MCRouted ==
    UNION {Routed(t, {<<>>, <<TRUE>>, <<FALSE>>}, {<<>>})
           \cup Routed(t, {<<>>}, {<<"v1">>, <<"/", "v1">>, <<"v1", "/">>, <<"/", "v1", "/">>}) : t \in Templates}

MCMocked ==
    [responses : MCResponses, status : {"200", "404", "500"}, accept : {"none", "event-stream"},
     params : [contentType : {"unset", "json", "event-stream", "pdf"}, json : {"good", "loose", "bad"}]]
MCHelped ==
    [contract : {"rest", "sse", "dual"},
     params : [status : {"200", "500"}, query : {"unset", "q1"}, json : {"good", "loose", "bad"}],
     request : [accept : {"none", "event-stream"}, query : {"none", "q1"}]]
MCEvents == UNION {[1..n -> [event : {"done", "item"}, data : {"x", "y"}]] : n \in 0..3}

ASSUME ServicesAssumption ==
    /\ MaxRetries \in Nat /\ MaxEvents \in Nat
    /\ \A c \in Calls :
          /\ LET Option == {"unset", "yes", "no"}
             IN  c.options \in [throw : Option, validate : Option, schema : {"none", "valid"},
                                safe : Option, blob : Option, empty : Option]
          /\ c.name \in {"get", "delete", "post", "put", "patch", "postBinary", "putBinary",
                         "streamed", "contract", "contractStreamed"}
    /\ \A r \in Requests :
          /\ r.name \in {"send", "upload", "stream"}
          /\ r.nonJson \in BOOLEAN /\ r.empty \in {"unset", "yes", "no"}
    /\ \A asked \in Responses : Route!IsContract(asked)
    /\ \A c \in Contracts : Route!IsContract(c.responses) /\ c.strict \in BOOLEAN
    /\ \A i \in Injections :
          /\ R!IsConfig(i.config) /\ R!IsSent(i.config, i.sent)
          /\ i.prefix \in {<<>>, <<"v1">>, <<"/", "v1">>, <<"v1", "/">>, <<"/", "v1", "/">>}
    /\ \A m \in Mockings :
          M!IsContract(m.responses) /\ m.params.json \in {"good", "loose", "bad"}
    /\ \A h \in Helpings :
          h.contract \in {"rest", "sse", "dual"} /\ h.params.json \in {"good", "loose", "bad"}
    /\ EventLists \subseteq Seq([event : STRING \ {"newline"}, data : STRING \ {"newline"}])

-----------------------------------------------------------------------------
(* The parts *)

\* the parts that do not run begin in one state
SomeCall == CHOOSE c \in Calls : TRUE
SomeReply == CHOOSE r \in Http!ServerAnswers : TRUE
SomeRequest == CHOOSE r \in Requests : r.name = "send"
SomeContract == CHOOSE c \in Contracts : TRUE
SomeResponses == CHOOSE r \in Responses : TRUE

Parts == {"stream", "retry", "http", "front", "backend", "fetch", "route"}
Algorithms == {"contract", "mock", "helpers", "events"}

\* what the function is given that a behaviour is about
InputsInit ==
    \/ part \in Parts /\ input = "none"
    \/ part = "contract" /\ input \in Injections
    \/ part = "mock" /\ input \in Mockings
    \/ part = "helpers" /\ input \in Helpings
    \/ part = "events" /\ input \in EventLists

MCInit ==
    /\ part \in Parts \cup Algorithms
    /\ IF part = "stream" THEN TRUE ELSE stream = <<>>
    /\ Init
    /\ IF part = "retry" THEN TRUE
       ELSE config = [network |-> TRUE, timeout |-> TRUE] /\ cancelled = FALSE
    /\ Retry!Init
    /\ IF part = "http" THEN TRUE
       ELSE /\ call = SomeCall
            /\ reply = SomeReply
    /\ Http!Init
    /\ IF part = "front" THEN TRUE
       ELSE /\ request = SomeRequest
            /\ result = [status |-> 200, content |-> "valid"] /\ stopped = FALSE /\ events = <<>>
    /\ Frontend!Init
    /\ IF part \in {"backend", "fetch"} THEN TRUE
       ELSE /\ contract = SomeContract
            /\ response = [status |-> "200", type |-> "json", valid |-> TRUE, headers |-> TRUE]
    /\ Client(FALSE)!Init
    /\ IF part = "route" THEN TRUE
       ELSE responses = SomeResponses /\ headersOk = TRUE
    /\ Route!Init
    /\ InputsInit

MCNext ==
    /\ UNCHANGED <<part, input>>
    /\ \/ /\ part = "stream" /\ Next
          /\ UNCHANGED <<retryVars, httpVars, contractVars, frontVars, routeVars>>
       \/ /\ part = "retry" /\ Retry!Next
          /\ UNCHANGED <<streamVars, httpVars, contractVars, frontVars, routeVars>>
       \/ /\ part = "http" /\ Http!Next
          /\ UNCHANGED <<streamVars, retryVars, contractVars, frontVars, routeVars>>
       \/ /\ part = "front" /\ Frontend!Next
          /\ UNCHANGED <<streamVars, retryVars, httpVars, contractVars, routeVars>>
       \/ /\ part = "backend" /\ Client(FALSE)!Next
          /\ UNCHANGED <<streamVars, retryVars, httpVars, frontVars, routeVars>>
       \/ /\ part = "fetch" /\ Client(TRUE)!Next
          /\ UNCHANGED <<streamVars, retryVars, httpVars, frontVars, routeVars>>
       \/ /\ part = "route" /\ Route!Next
          /\ UNCHANGED <<streamVars, retryVars, httpVars, contractVars, frontVars>>

allVars == <<part, input, streamVars, retryVars, httpVars, contractVars, frontVars, routeVars>>

MCSpec == MCInit /\ [][MCNext]_allVars

-----------------------------------------------------------------------------
(* Properties: the components' own *)

\* Every response but the one returned is dumped; at most maxRetries + 1 requests, and
\* at most one is tried after an abort.
RetriesEnd == Retry!BodiesConsumed /\ Retry!AbortEndsRetries

\* The answers of the backend client follow the options that the caller gave, whichever
\* operation passed them on.
AnswersAreChecked == part = "http" => Http!AnswersAreChecked

\* The body of a request by contract is read, dumped or handed over, except that of a blob
\* or stream whose headers are refused, which is left; and the most specific entry of a
\* status decides alone how its response is read.
ContractsAreKept ==
    /\ part = "backend" => Client(FALSE)!BodiesAccountedFor /\ Client(FALSE)!ResolvesAsDeclared
    /\ part = "fetch" => Client(TRUE)!BodiesAccountedFor

\* The frontend client's promises settle as the caller's options ask and on an abort, and
\* onDone is for streams that were neither broken nor cut off.
SettlesAsAsked == part = "front" => Frontend!SettlesAsAsked /\ Frontend!AbortRejects /\ Frontend!DoneEndsStream

\* What a route sends is what a strict client of the same contract resolves: every response,
\* and the streams declared for status 200 and text/event-stream, the head a stream has.
ClientResolves == part = "route" => Route!ClientResolves

\* A session is of the representation its result names, blames the right side for its
\* end, and stops reading a body that nobody hears.
SessionKeepsFaith == part = "route" => Route!SessionKeepsFaith

\* The events of a mocked stream reach the client, and those of a mocked response
\* (formatSseResponse) reach it in order and whole, up to the last one, of which nothing
\* is said: no empty line ends it, so the client never hears it.
MockedEventsArrive(mocked) ==
    LET Arrived(some) == [i \in DOMAIN some |-> [event |-> <<some[i].event>>, data |-> <<some[i].data>>]]
    IN  /\ Events(M!MockSseStream(mocked)) = Arrived(mocked)
        /\ Events(M!FormatSseResponse(mocked)) \in
              {Arrived(mocked), Arrived(IF mocked = <<>> THEN <<>> ELSE Front(mocked))}

\* A contract builds the same route and request whichever builder is used, the request
\* reaches the route, and what the test helpers answer in its place is resolved as the
\* contract says.
ContractsReach ==
    /\ part = "contract" =>
          /\ R!RequestReachesRoute(input.config, input.sent, input.mapped, input.prefix)
          /\ ~input.config.events => R!UnifiedIsDeprecated(input.config, input.sent, input.mapped)
    /\ part = "mock" => M!MockIsResolved(input.responses, input.status, input.params, input.accept)
    /\ part = "helpers" => M!HelpersAgree(input.contract, input.params, input.request)
    /\ part = "events" => MockedEventsArrive(input)
=============================================================================
