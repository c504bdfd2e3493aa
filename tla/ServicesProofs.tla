--------------------------- MODULE ServicesProofs ---------------------------
(***************************************************************************)
(* Proofs about MCServices, for any calls, requests, contracts and         *)
(* responses: the safety of the retries, of the clients and of a route,    *)
(* and what the builders of contracts, routes and requests and the test    *)
(* helpers make of any input. The contracts are any that are well formed,  *)
(* so that what is sent and what is resolved is compared by reasoning      *)
(* about the entries of a contract (the first section); each part with     *)
(* steps then has an inductive invariant of its own, and a behaviour keeps *)
(* them all. What is joined (the lines of events, the parts of a path) is  *)
(* reasoned about by induction on how much of it there is.                 *)
(***************************************************************************)
EXTENDS MCServices, SseStreamProofs

-----------------------------------------------------------------------------
(* A request by contract *)

\* The descriptors of an entry: records of a media type and a kind.
Descriptor == [type : STRING \ {"none", "unset"}, kind : {"json", "blob", "sse"}]

\* The elements of a sequence are where its type says, the first one too.
LEMMA Elements ==
    ASSUME NEW S, NEW s \in Seq(S)
    PROVE  /\ \A i \in DOMAIN s : s[i] \in S
           /\ s # <<>> => 1 \in DOMAIN s /\ Head(s) = s[1] /\ Head(s) \in S
           /\ Len(s) = 1 => s # <<>>
<1>1. \A i \in DOMAIN s : s[i] \in S
  OBVIOUS
<1>2. Len(s) = 1 => s # <<>>
  BY EmptySeq
<1>3. ASSUME s # <<>> PROVE 1 \in DOMAIN s /\ Head(s) = s[1]
  BY <1>3
<1>4. QED
  BY <1>1, <1>2, <1>3

\* What resolving a response of a contract can give: a kind of body that the entry of
\* its status declares, and nothing where the status has none.
LEMMA KindsOfResponses ==
    ASSUME NEW f \in BOOLEAN, NEW asked, Route!IsContract(asked), NEW status, NEW type,
           NEW strict \in BOOLEAN
    PROVE  /\ Client(f)!ResolveResponseEntry(asked, status, type, strict)
                 \in {"unexpected", "noContent", "json", "blob", "sse"}
           /\ Client(f)!EntryKey(asked, status) = "none" =>
                 Client(f)!ResolveResponseEntry(asked, status, type, strict) = "unexpected"
<1> DEFINE key == Client(f)!EntryKey(asked, status)
<1>1. CASE key = "none"
  BY <1>1 DEF Client!ResolveResponseEntry
<1>2. CASE key # "none"
  <2>1. key \in DOMAIN asked
    BY <1>2 DEF Client!EntryKey, Client!MostSpecific
  <2>2. /\ asked[key].content \in Seq(Descriptor)
        /\ asked[key].bare \in BOOLEAN
    BY <2>1 DEF Route!IsContract, Route!IsEntry, Descriptor
  <2>3. /\ \A i \in DOMAIN asked[key].content : asked[key].content[i].kind \in {"json", "blob", "sse"}
        /\ Len(asked[key].content) = 1 => Head(asked[key].content).kind \in {"json", "blob", "sse"}
    <3>1. /\ \A i \in DOMAIN asked[key].content : asked[key].content[i] \in Descriptor
          /\ Len(asked[key].content) = 1 => Head(asked[key].content) \in Descriptor
      BY <2>2, Elements
    <3>2. QED
      BY <3>1 DEF Descriptor
  <2>4. Client(f)!Declares(asked[key], type) =>
            Client(f)!KindOf(asked[key], type) \in {"json", "blob", "sse"}
    BY <2>3 DEF Client!Declares, Client!KindOf
  <2>5. QED
    BY <1>2, <2>3, <2>4 DEF Client!ResolveResponseEntry, Client!ResolveContractResponse, Client!ResolveContentEntry
<1>3. QED
  BY <1>1, <1>2

\* A response is resolved as its contract declares it, whatever the contract.
LEMMA ResolvedAsDeclared ==
    ASSUME NEW f \in BOOLEAN, Route!IsContract(contract.responses),
           Client(f)!EntryKey(contract.responses, response.status) = "none" => step \notin {"result", "error"}
    PROVE  Client(f)!ResolvesAsDeclared
<1> DEFINE key == Client(f)!EntryKey(contract.responses, response.status)
           entry == contract.responses[key]
           resolved(strict) == Client(f)!ResolveResponseEntry(contract.responses, response.status, response.type, strict)
<1>1. key # "none" => key \in DOMAIN contract.responses
  BY DEF Client!EntryKey, Client!MostSpecific
<1>2. key # "none" =>
         /\ entry.content \in Seq(Descriptor)
         /\ entry.bare \in BOOLEAN
  BY <1>1 DEF Route!IsContract, Route!IsEntry, Descriptor
<1>3. resolved(TRUE) \in {resolved(FALSE), "unexpected"}
  BY DEF Client!ResolveResponseEntry, Client!ResolveContractResponse, Client!ResolveContentEntry
<1>4. ASSUME key # "none", resolved(TRUE) \in {"json", "blob", "sse"}
      PROVE  IF entry.bare THEN response.type = "json" /\ resolved(TRUE) = "json"
             ELSE \E i \in DOMAIN entry.content :
                     entry.content[i] = [type |-> response.type, kind |-> resolved(TRUE)]
  <2>1. CASE entry.bare
    BY <1>4, <2>1 DEF Client!ResolveResponseEntry, Client!ResolveContractResponse
  <2>2. CASE ~entry.bare
    <3>1. /\ Client(f)!Declares(entry, response.type)
          /\ resolved(TRUE) = Client(f)!KindOf(entry, response.type)
      BY <1>4, <2>2 DEF Client!ResolveResponseEntry, Client!ResolveContractResponse, Client!ResolveContentEntry
    <3>2. PICK i \in DOMAIN entry.content : /\ entry.content[i].type = response.type
                                           /\ entry.content[i].kind = resolved(TRUE)
      BY <3>1 DEF Client!Declares, Client!KindOf
    <3>3. entry.content[i] \in Descriptor
      BY <1>2, <1>4, Elements
    <3>4. entry.content[i] = [type |-> response.type, kind |-> resolved(TRUE)]
      BY <3>2, <3>3 DEF Descriptor
    <3>5. QED
      BY <2>2, <3>4
  <2>3. QED
    BY <1>2, <1>4, <2>1, <2>2
<1>5. QED
  BY <1>3, <1>4 DEF Client!ResolvesAsDeclared

\* Every step of a request by contract keeps the inductive invariant, for either runtime.
LEMMA ClientSteps ==
    ASSUME NEW f \in BOOLEAN, Client(f)!IInv, Client(f)!Next \/ UNCHANGED contractVars
    PROVE  Client(f)!IInv'
<1> USE DEF Client!IInv, Client!BodiesAccountedFor, Client!Held, Client!Lazy
<1>1. CASE Client(f)!Prepare
  BY <1>1 DEF Client!Prepare
<1>2. CASE Client(f)!Fail
  BY <1>2 DEF Client!Fail
<1>3. CASE Client(f)!Respond
  <2>1. Route!IsContract(contract.responses)
    BY ServicesAssumption
  <2>2. contract.strict \in BOOLEAN
    BY ServicesAssumption
  <2>3. /\ kind' \in {"unexpected", "noContent", "json", "blob", "sse"}
        /\ Client(f)!EntryKey(contract.responses, response.status) = "none" => kind' = "unexpected"
    BY <1>3, <2>1, <2>2, KindsOfResponses DEF Client!Respond
  <2>4. QED
    BY <1>3, <2>3 DEF Client!Respond
<1>4. CASE Client(f)!ParseBody
  BY <1>4 DEF Client!ParseBody
<1>5. CASE Client(f)!Break
  BY <1>5 DEF Client!Break
<1>6. CASE Client(f)!ParseHeaders
  BY <1>6 DEF Client!ParseHeaders
<1>7. CASE Client(f)!Use
  BY <1>7 DEF Client!Use
<1>8. CASE UNCHANGED contractVars
  BY <1>8 DEF contractVars, Client!EntryKey, Client!MostSpecific, Client!RangeKey
<1>9. QED
  BY <1>1, <1>2, <1>3, <1>4, <1>5, <1>6, <1>7, <1>8 DEF Client!Next

-----------------------------------------------------------------------------
(* The retries and the backend client *)

\* Every step of a retried request keeps the inductive invariant.
LEMMA RetrySteps ==
    ASSUME Retry!IInv, Retry!Next \/ UNCHANGED retryVars
    PROVE  Retry!IInv'
<1> USE ServicesAssumption DEF Retry!IInv, Retry!BodiesConsumed, Retry!AbortEndsRetries, Retry!IsLastAttempt
<1>1. CASE Retry!Return
  BY <1>1 DEF Retry!Return, Retry!MayRespond
<1>2. CASE Retry!RetryResponse
  <2>1. sending' \in {"pausing", "threw"}
    BY <1>2 DEF Retry!RetryResponse
  <2>2. QED
    BY <1>2, <2>1 DEF Retry!RetryResponse, Retry!MayRespond
<1>3. CASE Retry!Throw
  BY <1>3 DEF Retry!Throw
<1>4. CASE Retry!RetryError
  <2>1. late = 0 /\ late' = 0
    BY <1>4 DEF Retry!RetryError, Retry!Call
  <2>2. QED
    BY <1>4, <2>1 DEF Retry!RetryError, Retry!Call
<1>5. CASE Retry!Dumped
  <2>1. sending' = sending \/ (sending = "pausing" /\ sending' = "threw")
    BY <1>5 DEF Retry!Dumped
  <2>2. QED
    BY <1>5, <2>1 DEF Retry!Dumped
<1>6. CASE Retry!WakeUp
  BY <1>6 DEF Retry!WakeUp
<1>7. CASE Retry!Again
  BY <1>7 DEF Retry!Again, Retry!Call
<1>8. CASE Retry!Abort
  BY <1>8 DEF Retry!Abort
<1>9. CASE UNCHANGED retryVars
  BY <1>9 DEF retryVars
<1>10. QED
  BY <1>1, <1>2, <1>3, <1>4, <1>5, <1>6, <1>7, <1>8, <1>9 DEF Retry!Next

\* Every operation passes on what its caller asked for: none forgets an option.
LEMMA OptionsArePassedOn ==
    ASSUME call \in Calls
    PROVE  /\ Http!call.streamed <=> Http!StreamAsked
           /\ Http!call.throw <=> call.options.throw # "no"
           /\ Http!call.validate <=> Http!ValidationAsked
           /\ Http!call.blob <=> call.options.blob = "yes"
           /\ ~Http!StreamAsked => (Http!call.empty <=> Http!EmptyAsked)
           /\ ~Http!StreamAsked => Http!call.schema = Http!Asked.schema
<1> DEFINE Option == {"unset", "yes", "no"}
<1>0. /\ call.options \in [throw : Option, validate : Option, schema : {"none", "valid"},
                           safe : Option, blob : Option, empty : Option]
      /\ call.name \in {"get", "delete", "post", "put", "patch", "postBinary", "putBinary",
                       "streamed", "contract", "contractStreamed"}
  BY ServicesAssumption
<1>1. CASE call.name = "contract"
  <2> DEFINE o == Http!OfRoute(call.route, call.options)
             p == [o EXCEPT !.empty = call.route.empty]
  <2>1. /\ o.throw = call.options.throw /\ o.validate = call.options.validate
        /\ o.blob = call.options.blob /\ o.schema = call.route.schema
    BY <1>0 DEF Http!OfRoute
  <2>2. /\ p.throw = call.options.throw /\ p.validate = call.options.validate
        /\ p.blob = call.options.blob /\ p.schema = call.route.schema
        /\ p.empty = call.route.empty
    BY <1>0 DEF Http!OfRoute
  <2>3. Http!call = Http!SendByContract(call.route, call.options)
    BY <1>1 DEF Http!call, Http!Operation
  <2>4. Http!Asked = call.route /\ Http!StreamAsked = FALSE
    BY <1>1 DEF Http!Asked, Http!StreamAsked
  <2>5. Http!EmptyAsked = (call.route.empty = "yes" \/ (call.route.empty = "unset" /\ call.route.method = "delete"))
    BY <1>1, <2>4 DEF Http!EmptyAsked, Http!IsDelete
  <2> HIDE DEF o, p
  <2>6. CASE call.route.method \in {"get", "delete"}
    <3>1. Http!call = Http!SendNonPayload(o, Http!Or(call.route.empty, call.route.method = "delete"))
      BY <2>3, <2>6 DEF Http!SendByContract, Http!SendByGetRoute, Http!SendByDeleteRoute, o
    <3>2. Http!Or(call.route.empty, call.route.method = "delete") = Http!EmptyAsked
      BY <2>5 DEF Http!Or
    <3>3. Http!call = [Http!Send(o, FALSE, FALSE) EXCEPT !.empty = Http!EmptyAsked]
      BY <3>1, <3>2 DEF Http!SendNonPayload
    <3>4. QED
      BY <1>0, <2>1, <2>4, <3>3 DEF Http!Send, Http!Or, Http!ValidationAsked
  <2>7. CASE call.route.method \notin {"get", "delete"}
    <3>1. Http!call = Http!Send(p, FALSE, FALSE)
      BY <2>3, <2>7
         DEF Http!SendByContract, Http!SendByPayloadRoute, Http!SendResourceChange, o, p
    <3>2. QED
      BY <1>0, <2>2, <2>4, <2>5, <2>7, <3>1 DEF Http!Send, Http!Or, Http!ValidationAsked
  <2>8. QED
    BY <2>6, <2>7
<1>2. CASE call.name # "contract"
  <2>1. CASE call.name = "delete"
    <3>1. Http!call = Http!Send(call.options, TRUE, FALSE)
      BY <2>1 DEF Http!call, Http!Operation, Http!SendDelete
    <3>2. ~Http!StreamAsked /\ Http!Asked = call.options /\ Http!IsDelete = TRUE
      BY <2>1 DEF Http!StreamAsked, Http!Asked, Http!IsDelete
    <3>3. Http!call.empty <=> Http!EmptyAsked
      BY <1>0, <3>1, <3>2 DEF Http!EmptyAsked, Http!Send, Http!Or
    <3>4. QED
      BY <1>0, <2>1, <3>1, <3>2, <3>3 DEF Http!Send, Http!Or, Http!ValidationAsked
  <2>2. CASE call.name \in {"get", "post", "put", "patch", "postBinary", "putBinary"}
    <3>1. Http!call = Http!Send(call.options, FALSE, FALSE)
      BY <2>2
         DEF Http!call, Http!Operation, Http!SendGet, Http!SendPost, Http!SendPut, Http!SendPatch,
             Http!SendResourceChange, Http!SendPostBinary, Http!SendPutBinary
    <3>2. ~Http!StreamAsked /\ Http!Asked = call.options /\ Http!IsDelete = FALSE
      BY <2>2 DEF Http!StreamAsked, Http!Asked, Http!IsDelete
    <3>3. Http!call.empty <=> Http!EmptyAsked
      BY <1>0, <3>1, <3>2 DEF Http!EmptyAsked, Http!Send, Http!Or
    <3>4. QED
      BY <1>0, <2>2, <3>1, <3>2, <3>3 DEF Http!Send, Http!Or, Http!ValidationAsked
  <2>3. CASE call.name \in {"streamed", "contractStreamed"}
    <3>1. Http!call = Http!Send(call.options, FALSE, TRUE)
      BY <2>3
         DEF Http!call, Http!Operation, Http!SendStreamed, Http!SendByContractStreamed,
             Http!SendByGetRouteStreamed, Http!SendByPayloadRouteStreamed, Http!SendPayloadStreamed
    <3>2. Http!StreamAsked = TRUE
      BY <2>3 DEF Http!StreamAsked
    <3>3. QED
      BY <1>0, <3>1, <3>2 DEF Http!Send, Http!Or, Http!ValidationAsked
  <2>4. QED
    BY <1>0, <1>2, <2>1, <2>2, <2>3
<1>3. QED
  BY <1>1, <1>2

\* Every step of an operation of the backend client keeps the inductive invariant.
LEMMA HttpSteps ==
    ASSUME Http!IInv, Http!Next \/ UNCHANGED httpVars
    PROVE  Http!IInv'
<1> USE DEF Http!IInv
<1>1. UNCHANGED <<call, reply>> =>
         /\ UNCHANGED <<Http!StreamAsked, Http!ValidationAsked, Http!EmptyAsked, Http!Empty, Http!Asked>>
         /\ UNCHANGED Http!Unresolved
         /\ call' \in Calls /\ reply' \in Http!ServerAnswers
  BY DEF Http!StreamAsked, Http!ValidationAsked, Http!EmptyAsked, Http!Empty, Http!Asked, Http!IsDelete,
         Http!Unresolved
<1>2. /\ Http!call.streamed <=> Http!StreamAsked
      /\ Http!call.throw <=> call.options.throw # "no"
      /\ Http!call.validate <=> Http!ValidationAsked
      /\ Http!call.blob <=> call.options.blob = "yes"
      /\ ~Http!StreamAsked => (Http!call.empty <=> Http!EmptyAsked)
      /\ ~Http!StreamAsked => Http!call.schema = Http!Asked.schema
  BY OptionsArePassedOn
<1>3. CASE Http!Respond
  <2>1. \/ /\ progress' = "resolving" /\ Http!StreamAsked /\ reply.status < 400
           /\ answer' = [kind |-> "result", status |-> reply.status, content |-> "stream"]
        \/ progress' = "reading" /\ answer' = Http!NoAnswer /\ ~(Http!StreamAsked /\ reply.status < 400)
    BY <1>2, <1>3 DEF Http!Respond
  <2>2. UNCHANGED <<call, reply>>
    BY <1>3 DEF Http!Respond
  <2>3. QED
    BY <1>1, <2>1, <2>2 DEF Http!AnswersAreChecked, Http!ServerAnswers, Http!Unresolved
<1>4. CASE Http!Read
  <2>1. /\ answer'.kind \in {"result", "status", "parse", "internal"}
        /\ answer'.kind = "result" =>
              /\ reply.status < 400
              /\ answer' = [kind |-> "result", status |-> reply.status, content |-> answer'.content]
              /\ answer'.content = Http!Unresolved
    <3> answer' = Http!ParseResponseBody
      BY <1>4 DEF Http!Read
    <3>1. CASE reply.status < 400
      <4>1. ~Http!StreamAsked /\ ~Http!call.streamed
        BY <1>2, <1>4, <3>1 DEF Http!Read, Http!ServerAnswers
      <4>2. CASE call.options.blob = "yes"
        <5>1. Http!Unresolved = "blob"
          BY <4>1, <4>2 DEF Http!Unresolved
        <5>2. answer' = [kind |-> "result", status |-> reply.status, content |-> "blob"]
          BY <1>2, <3>1, <4>1, <4>2 DEF Http!ParseResponseBody, Http!AnswerKind
        <5>3. QED
          BY <3>1, <5>1, <5>2
      <4>3. CASE call.options.blob # "yes"
        BY <1>2, <3>1, <4>1, <4>3
           DEF Http!ParseResponseBody, Http!AnswerKind, Http!Internal, Http!Unresolved
      <4>4. QED
        BY <4>2, <4>3
    <3>2. CASE ~(reply.status < 400)
      BY <3>2 DEF Http!ParseResponseBody, Http!AnswerKind, Http!Internal
    <3>3. QED
      BY <3>1, <3>2
  <2>2. UNCHANGED <<call, reply>> /\ progress' = "resolving"
    BY <1>4 DEF Http!Read
  <2>3. QED
    BY <1>1, <2>1, <2>2 DEF Http!AnswersAreChecked
<1>5. CASE Http!Fail
  BY <1>1, <1>5 DEF Http!Fail, Http!AnswersAreChecked, Http!Internal
<1>6. CASE Http!Resolve
  <2>1. UNCHANGED <<call, reply>> /\ progress = "resolving"
    BY <1>6 DEF Http!Resolve
  <2> USE <1>1, <1>2, <1>6, <2>1 DEF Http!Resolve, Http!AnswersAreChecked
  <2>2. CASE answer.kind # "result"
    BY <2>2
  <2>3. CASE answer.kind = "result" /\ Http!call.streamed
    <3>1. progress' = "returned" /\ UNCHANGED answer
      BY <2>3
    <3>2. answer.content = "stream" /\ Http!StreamAsked
      BY <2>3 DEF Http!Unresolved
    <3>3. QED
      BY <2>3, <3>1, <3>2
  <2>4. CASE answer.kind = "result" /\ ~Http!call.streamed /\ Http!Passes
    <3>1. /\ progress' = "returned" /\ answer'.kind = "result"
          /\ answer' = [kind |-> "result", status |-> reply.status, content |-> answer'.content]
          /\ answer'.content = IF Http!Empty THEN "null" ELSE answer.content
      <4>1. answer = [kind |-> "result", status |-> reply.status, content |-> answer.content]
        BY <2>4
      <4>2. answer.status = 204 /\ Http!call.empty <=> Http!Empty
        BY <2>4, <4>1 DEF Http!Empty
      <4>3. /\ progress' = "returned"
            /\ answer' = IF Http!Empty THEN [answer EXCEPT !.content = "null"] ELSE answer
        BY <2>4, <4>2
      <4>4. QED
        BY <4>1, <4>3
    <3>2. answer.content = IF call.options.blob = "yes" THEN "blob" ELSE reply.content
      BY <2>4 DEF Http!Unresolved
    <3>3. QED
      BY <2>4, <3>1, <3>2 DEF Http!Passes, Http!Empty, Http!ServerAnswers
  <2>5. CASE answer.kind = "result" /\ ~Http!call.streamed /\ ~Http!Passes
    BY <2>5 DEF Http!Passes, Http!Empty
  <2>6. QED
    BY <2>2, <2>3, <2>4, <2>5
<1>7. CASE UNCHANGED httpVars
  BY <1>1, <1>7 DEF httpVars, Http!AnswersAreChecked
<1>8. QED
  BY <1>3, <1>4, <1>5, <1>6, <1>7 DEF Http!Next

-----------------------------------------------------------------------------
(* The frontend client *)

\* Every operation asks for what its caller asked for.
LEMMA CallsAskTheSame ==
    ASSUME request \in Requests
    PROVE  /\ Frontend!call.empty <=> Frontend!EmptyAsked
           /\ Frontend!call.nonJson = request.nonJson
           /\ ~Frontend!call.schema => request.method = "delete" /\ ~request.schema
<1>0. request.empty \in {"unset", "yes", "no"}
  BY ServicesAssumption
<1>1. CASE request.method = "get"
  BY <1>0, <1>1
     DEF Frontend!call, Frontend!SendByContract, Frontend!SendByGetRoute, Frontend!SendGet,
         Frontend!SendResourceChange, Frontend!Or, Frontend!EmptyAsked
<1>2. CASE request.method = "delete"
  BY <1>0, <1>2
     DEF Frontend!call, Frontend!SendByContract, Frontend!SendByDeleteRoute, Frontend!SendDelete,
         Frontend!SendGet, Frontend!SendResourceChange, Frontend!Or, Frontend!EmptyAsked
<1>3. CASE request.method \notin {"get", "delete"}
  <2>1. \E m \in {"put", "patch", "post"} : Frontend!call = Frontend!SendResourceChange(m, request)
    BY <1>3
       DEF Frontend!call, Frontend!SendByContract, Frontend!SendByPayloadRoute,
           Frontend!SendPut, Frontend!SendPatch, Frontend!SendPost
  <2>2. PICK m : Frontend!call = Frontend!SendResourceChange(m, request)
    BY <2>1
  <2>3. /\ Frontend!call.nonJson = request.nonJson /\ Frontend!call.schema = TRUE
        /\ Frontend!call.empty = Frontend!Or(request.empty, FALSE)
    BY <2>2 DEF Frontend!SendResourceChange
  <2>4. Frontend!Or(request.empty, FALSE) <=> Frontend!EmptyAsked
    BY <1>0, <1>3 DEF Frontend!Or, Frontend!EmptyAsked
  <2>5. QED
    BY <2>3, <2>4
<1>4. QED
  BY <1>1, <1>2, <1>3

\* What an answer becomes: null, a response, a body or an error as the request's options say.
LEMMA AnswersBecome ==
    ASSUME result \in [status : {200, 202, 204}, content : {"valid", "invalid", "malformed", "text"}],
           request \in Requests,
           NEW settled, settled = Frontend!HandleBodyParseError(
                            Frontend!TryToResolveJsonBody(Frontend!call.empty), Frontend!call.empty)
    PROVE  /\ settled \notin {"none", "invalidRequest", "aborted"}
           /\ (settled = "null") <=> (Frontend!Empty /\ Frontend!EmptyAsked)
           /\ (settled = "unexpectedEmpty") <=> (Frontend!Empty /\ ~Frontend!EmptyAsked)
           /\ (settled = "response") <=> (~Frontend!Empty /\ ~Frontend!Json /\ request.nonJson)
           /\ (settled = "unexpectedText") <=> (~Frontend!Empty /\ ~Frontend!Json /\ ~request.nonJson)
           /\ settled = "body" =>
                 \/ result.content = "valid"
                 \/ result.content = "invalid" /\ request.method = "delete" /\ ~request.schema
<1> DEFINE parsed == Frontend!TryToResolveJsonBody(Frontend!call.empty)
<1>1. /\ Frontend!call.empty <=> Frontend!EmptyAsked
      /\ Frontend!call.nonJson <=> request.nonJson
      /\ ~Frontend!call.schema => request.method = "delete" /\ ~request.schema
  BY CallsAskTheSame
<1>2. /\ parsed = "EMPTY_RESPONSE" <=> Frontend!Empty
      /\ parsed = "NOT_JSON" <=> ~Frontend!Empty /\ ~Frontend!Json
      /\ parsed = "valid" => result.content = "valid" \/ (result.content = "invalid" /\ ~Frontend!call.schema)
  <2>1. CASE result.status = 204
    BY <2>1 DEF Frontend!TryToResolveJsonBody, Frontend!Empty
  <2>2. CASE result.status # 204 /\ ~Frontend!Json
    BY <1>1, <2>2 DEF Frontend!TryToResolveJsonBody, Frontend!Empty
  <2>3. CASE result.status # 204 /\ Frontend!Json
    BY <2>3 DEF Frontend!TryToResolveJsonBody, Frontend!Empty
  <2>4. QED
    BY <2>1, <2>2, <2>3
<1> HIDE DEF parsed
<1>3. settled = Frontend!HandleBodyParseError(parsed, Frontend!call.empty)
  BY DEF parsed
<1>4. CASE parsed = "EMPTY_RESPONSE"
  BY <1>1, <1>2, <1>3, <1>4 DEF Frontend!HandleBodyParseError
<1>5. CASE parsed = "NOT_JSON"
  BY <1>1, <1>2, <1>3, <1>5 DEF Frontend!HandleBodyParseError
<1>6. CASE parsed = "valid"
  BY <1>1, <1>2, <1>3, <1>6 DEF Frontend!HandleBodyParseError
<1>7. CASE parsed \notin {"EMPTY_RESPONSE", "NOT_JSON", "valid"}
  BY <1>1, <1>2, <1>3, <1>7 DEF Frontend!HandleBodyParseError
<1>8. QED
  BY <1>4, <1>5, <1>6, <1>7

\* Every step of an operation of the frontend client keeps the inductive invariant.
LEMMA FrontendSteps ==
    ASSUME Frontend!IInv, Frontend!Next \/ UNCHANGED frontVars
    PROVE  Frontend!IInv'
<1> DEFINE Reports == {"event", "error", "done"}
           Kinds == {"known", "unknown", "broken"}
<1> USE DEF Frontend!IInv
<1>0. UNCHANGED <<request, result>> =>
         UNCHANGED <<Frontend!EmptyAsked, Frontend!Empty, Frontend!Json>>
  BY DEF Frontend!EmptyAsked, Frontend!Empty, Frontend!Json
<1>1. CASE Frontend!Validate
  <2>1. /\ UNCHANGED <<request, result, stopped, events, heard>>
        /\ stage = "validating" /\ outcome = "none" /\ ~sent /\ ~listened
        /\ \/ /\ stage' = "done" /\ outcome' = "invalidRequest" /\ request.name = "send"
              /\ ~sent' /\ ~listened'
           \/ /\ stage' = "requesting" /\ outcome' = "none"
              /\ listened' <=> request.name = "upload" /\ ~stopped
    BY <1>1 DEF Frontend!Validate
  <2>2. Frontend!SettlesAsAsked' /\ Frontend!AbortRejects'
    BY <2>1 DEF Frontend!SettlesAsAsked, Frontend!AbortRejects
  <2>3. Frontend!DoneEndsStream'
    BY <2>1 DEF Frontend!DoneEndsStream
  <2>4. QED
    BY <2>1, <2>2, <2>3
<1>2. CASE Frontend!Fail
  <2>1. /\ UNCHANGED <<request, result, sent, stopped, listened, events, heard>>
        /\ stage = "requesting" /\ stage' = "done" /\ outcome' = "requestError"
    BY <1>2 DEF Frontend!Fail
  <2>2. Frontend!SettlesAsAsked' /\ Frontend!AbortRejects'
    BY <2>1 DEF Frontend!SettlesAsAsked, Frontend!AbortRejects
  <2>3. Frontend!DoneEndsStream'
    BY <2>1 DEF Frontend!DoneEndsStream
  <2>4. QED
    BY <2>1, <2>2, <2>3
<1>3. CASE Frontend!Respond
  <2>1. outcome' = Frontend!HandleBodyParseError(Frontend!TryToResolveJsonBody(Frontend!call.empty), Frontend!call.empty)
    BY <1>3 DEF Frontend!Respond
  <2>2. /\ stage' = "done" /\ request.name = "send" /\ UNCHANGED <<request, result, sent, stopped, listened, events, heard>>
        /\ stage = "requesting"
    BY <1>3 DEF Frontend!Respond
  <2>3. Frontend!SettlesAsAsked' /\ outcome' \notin {"none", "aborted"}
    BY <1>0, <2>1, <2>2, AnswersBecome DEF Frontend!SettlesAsAsked
  <2>4. Frontend!DoneEndsStream' /\ Frontend!AbortRejects'
    BY <2>2, <2>3 DEF Frontend!DoneEndsStream, Frontend!AbortRejects
  <2>5. QED
    BY <2>2, <2>3, <2>4
<1>4. CASE Frontend!Loaded
  <2>1. /\ UNCHANGED <<request, result, sent, stopped, listened, events, heard>>
        /\ stage = "requesting" /\ stage' = "done" /\ request.name = "upload"
        /\ outcome' \in {"body", "invalidBody"}
        /\ outcome' = "body" => result.content = "valid" /\ result.status # 204
    BY <1>4 DEF Frontend!Loaded
  <2>2. Frontend!SettlesAsAsked' /\ Frontend!AbortRejects'
    BY <2>1 DEF Frontend!SettlesAsAsked, Frontend!AbortRejects
  <2>3. Frontend!DoneEndsStream'
    BY <2>1 DEF Frontend!DoneEndsStream
  <2>4. QED
    BY <2>1, <2>2, <2>3
<1>5. CASE Frontend!Abort
  <2>1. /\ UNCHANGED <<request, result, sent, listened, heard>>
        /\ request.name # "send" /\ ~stopped /\ stopped'
        /\ \/ stage = "requesting" /\ stage' = "done" /\ outcome' = "aborted"
           \/ stage # "requesting" /\ UNCHANGED <<stage, outcome>>
    BY <1>5 DEF Frontend!Abort
  <2>2. Frontend!SettlesAsAsked' /\ Frontend!AbortRejects'
    <3>1. Frontend!SettlesAsAsked'
      BY <1>0, <2>1 DEF Frontend!SettlesAsAsked
    <3>2. request.name \in {"upload", "stream"}
      BY <2>1, ServicesAssumption
    <3>3. Frontend!AbortRejects'
      BY <2>1, <3>2 DEF Frontend!AbortRejects
    <3>4. QED
      BY <3>1, <3>3
  <2>3. CASE events' = events
    <3>1. Frontend!DoneEndsStream'
      BY <2>1, <2>3 DEF Frontend!DoneEndsStream
    <3>2. QED
      BY <2>1, <2>2, <2>3, <3>1
  <2>4. CASE stage = "streaming" /\ events' # events
    <3>1. PICK n \in Len(heard)..Len(events) : events' = Append(SubSeq(events, 1, n), "broken")
      BY <1>5, <2>4 DEF Frontend!Abort
    <3>2. /\ events' \in Seq(Kinds) /\ Len(events') = n + 1
          /\ n \in Nat /\ n <= Len(events)
          /\ \A k \in 1..n : events'[k] = events[k]
      BY <3>1
    <3>3. /\ Len(heard') <= Len(events')
          /\ \A i \in DOMAIN heard' : heard'[i] = "event" /\ events'[i] = "known"
      BY <2>1, <2>4, <3>1, <3>2
    <3>4. Frontend!DoneEndsStream'
      BY <2>1, <2>4, <3>3 DEF Frontend!DoneEndsStream
    <3>5. QED
      BY <2>1, <2>2, <2>4, <3>2, <3>3, <3>4
  <2>5. QED
    BY <1>5, <2>3, <2>4 DEF Frontend!Abort
<1>6. CASE Frontend!Event
  <2>1. /\ Len(heard) < Len(events)
        /\ \/ heard' = Append(heard, "event") /\ stage' = stage /\ events[Len(heard) + 1] = "known"
           \/ heard' = Append(heard, "error") /\ stage' = "done"
    BY <1>6 DEF Frontend!Event
  <2>2. /\ UNCHANGED <<request, result, outcome, sent, stopped, listened, events>>
        /\ stage = "streaming"
    BY <1>6 DEF Frontend!Event
  <2>3. Frontend!SettlesAsAsked' /\ Frontend!AbortRejects'
    BY <1>0, <2>2 DEF Frontend!SettlesAsAsked, Frontend!AbortRejects
  <2>4. CASE heard' = Append(heard, "event") /\ stage' = stage /\ events[Len(heard) + 1] = "known"
    <3>1. /\ heard' \in Seq(Reports) /\ Len(heard') <= Len(events')
          /\ \A i \in DOMAIN heard' : heard'[i] = "event" /\ events'[i] = "known"
      BY <2>1, <2>2, <2>4
    <3>2. Frontend!DoneEndsStream'
      BY <2>2, <2>4, <3>1 DEF Frontend!DoneEndsStream
    <3>3. QED
      BY <2>2, <2>3, <2>4, <3>1, <3>2
  <2>5. CASE heard' = Append(heard, "error") /\ stage' = "done"
    <3>1. /\ heard' \in Seq(Reports) /\ Len(heard') = Len(heard) + 1 /\ heard'[Len(heard')] = "error"
          /\ \A i \in DOMAIN heard' : i # Len(heard') => heard'[i] = "event"
      BY <2>2, <2>5
    <3>2. Frontend!DoneEndsStream'
      BY <3>1 DEF Frontend!DoneEndsStream
    <3>3. QED
      BY <2>2, <2>3, <2>5, <3>1, <3>2
  <2>6. QED
    BY <2>1, <2>4, <2>5
<1>7. CASE Frontend!Done
  <2>1. heard' = Append(heard, "done") \/ heard' = heard \o <<"done", "error">>
    BY <1>7 DEF Frontend!Done
  <2>2. /\ UNCHANGED <<request, result, outcome, sent, stopped, listened, events>>
        /\ stage = "streaming" /\ stage' = "done" /\ Len(heard) = Len(events)
        /\ \A i \in DOMAIN events : heard[i] = "event" /\ events[i] = "known"
    BY <1>7 DEF Frontend!Done
  <2>3. /\ heard' \in Seq(Reports) /\ Len(heard') \in {Len(heard) + 1, Len(heard) + 2}
        /\ \A i \in 1..Len(heard) : heard'[i] = heard[i]
        /\ heard'[Len(heard) + 1] = "done"
        /\ Len(heard') = Len(heard) + 2 => heard'[Len(heard) + 2] = "error"
    <3>1. CASE heard' = Append(heard, "done")
      BY <3>1
    <3>2. CASE heard' = heard \o <<"done", "error">>
      <4>1. <<"done", "error">> \in Seq(Reports) /\ Len(<<"done", "error">>) = 2
        OBVIOUS
      <4>2. QED
        BY <3>2, <4>1
    <3>3. QED
      BY <2>1, <3>1, <3>2
  <2>4. Frontend!SettlesAsAsked' /\ Frontend!AbortRejects'
    BY <1>0, <2>2 DEF Frontend!SettlesAsAsked, Frontend!AbortRejects
  <2>5. Frontend!DoneEndsStream'
    BY <2>2, <2>3 DEF Frontend!DoneEndsStream
  <2>6. QED
    BY <2>2, <2>3, <2>4, <2>5
<1>8. CASE UNCHANGED frontVars
  BY <1>0, <1>8 DEF frontVars, Frontend!SettlesAsAsked, Frontend!AbortRejects, Frontend!DoneEndsStream
<1>9. QED
  BY <1>1, <1>2, <1>3, <1>4, <1>5, <1>6, <1>7, <1>8 DEF Frontend!Next

-----------------------------------------------------------------------------
(* The route *)

\* The most specific of some keys is one of them, and still is among fewer keys that
\* hold it.
LEMMA MostSpecificStays ==
    ASSUME NEW keys, NEW fewer \in SUBSET keys, NEW status
    PROVE  /\ Route!MostSpecific(keys, status) \in keys \cup {"none"}
           /\ "none" \notin keys /\ Route!MostSpecific(keys, status) \in fewer =>
                 Route!MostSpecific(fewer, status) = Route!MostSpecific(keys, status)
  BY DEF Route!MostSpecific

\* The descriptor of an entry that is found by its media type.
LEMMA KindIsDeclared ==
    ASSUME NEW entry, Route!IsEntry(entry), NEW i \in DOMAIN entry.content
    PROVE  /\ Route!Declares(entry, entry.content[i].type)
           /\ Route!KindOf(entry, entry.content[i].type) = entry.content[i].kind
           /\ entry.content[i].kind \in {"json", "blob", "sse"}
           /\ entry.content[i].type \notin {"none", "unset"}
           /\ entry.content # <<>> /\ ~entry.bare
<1>1. /\ entry.content \in Seq(Descriptor) /\ (entry.bare => entry.content = <<>>)
      /\ \A k \in DOMAIN entry.content : entry.content[i].type = entry.content[k].type => i = k
  BY DEF Route!IsEntry, Descriptor
<1>2. entry.content[i] \in Descriptor
  BY <1>1, Elements
<1>3. entry.content # <<>>
  OBVIOUS
<1>4. /\ Route!Declares(entry, entry.content[i].type)
      /\ Route!KindOf(entry, entry.content[i].type) = entry.content[i].kind
  BY <1>1 DEF Route!Declares, Route!KindOf
<1>5. QED
  BY <1>1, <1>2, <1>3, <1>4 DEF Descriptor

\* What a route sends for a result is what a strict client resolves; an event stream is
\* one that the entry of the status declares.
LEMMA RepresentationIsResolved ==
    ASSUME Route!IsContract(responses), NEW status, NEW type, type # "none", NEW sentBody,
           NEW head, head = Route!Representation(status, type, sentBody), head.kind # "none"
    PROVE  /\ Route!ResolveResponseEntry(responses, head.status, head.type, TRUE) = head.kind
           /\ head.kind = "sse" =>
                 /\ Route!EntryKey(responses, status) \in DOMAIN responses
                 /\ head.type \in Route!SseTypes(responses[Route!EntryKey(responses, status)])
<1> DEFINE key == Route!EntryKey(responses, status)
           entry == responses[key]
<1>1. key # "none"
  BY DEF Route!Representation
<1>2. key \in DOMAIN responses
  BY <1>1, MostSpecificStays DEF Route!EntryKey
<1>3. Route!IsEntry(entry)
  BY <1>2 DEF Route!IsContract
<1>4. ASSUME NEW k, NEW t, head = [kind |-> k, status |-> status, type |-> t],
             Route!ResolveContractResponse(entry, t, TRUE) = k,
             k = "sse" => t \in Route!SseTypes(entry)
      PROVE  /\ Route!ResolveResponseEntry(responses, head.status, head.type, TRUE) = head.kind
             /\ head.kind = "sse" => head.type \in Route!SseTypes(entry)
  <2>1. head.status = status /\ head.type = t /\ head.kind = k
    BY <1>4
  <2>2. Route!ResolveResponseEntry(responses, status, t, TRUE) = k
    BY <1>1, <1>4 DEF Route!ResolveResponseEntry
  <2>3. QED
    BY <1>4, <2>1, <2>2
<1>5. ASSUME NEW i \in DOMAIN entry.content
      PROVE  /\ Route!ResolveContractResponse(entry, entry.content[i].type, TRUE) = entry.content[i].kind
             /\ entry.content[i].kind = "sse" => entry.content[i].type \in Route!SseTypes(entry)
  BY <1>3, KindIsDeclared DEF Route!ResolveContractResponse, Route!ResolveContentEntry, Route!SseTypes
<1>6. CASE type # "unset"
  <2>1. /\ Route!Declares(entry, type)
        /\ head = [kind |-> Route!KindOf(entry, type), status |-> status, type |-> type]
    BY <1>1, <1>6 DEF Route!Representation
  <2>2. PICK i \in DOMAIN entry.content : entry.content[i].type = type
    BY <2>1 DEF Route!Declares
  <2>3. Route!KindOf(entry, type) = entry.content[i].kind
    BY <1>3, <2>2, KindIsDeclared
  <2>4. /\ Route!ResolveContractResponse(entry, type, TRUE) = Route!KindOf(entry, type)
        /\ Route!KindOf(entry, type) = "sse" => type \in Route!SseTypes(entry)
    BY <1>5, <2>2, <2>3
  <2>5. QED
    BY <1>2, <1>4, <2>1, <2>4
<1>7. CASE type = "unset" /\ entry.bare
  <2>1. head = [kind |-> "json", status |-> status, type |-> "json"]
    BY <1>1, <1>7 DEF Route!Representation
  <2>2. Route!ResolveContractResponse(entry, "json", TRUE) = "json"
    BY <1>7 DEF Route!ResolveContractResponse
  <2>3. QED
    BY <1>2, <1>4, <2>1, <2>2
<1>8. CASE type = "unset" /\ ~entry.bare /\ entry.allowNoBody /\ sentBody = "null"
  <2>1. head = [kind |-> "noContent", status |-> status, type |-> "none"]
    BY <1>1, <1>8 DEF Route!Representation
  <2>2. Route!ResolveContractResponse(entry, "none", TRUE) = "noContent"
    BY <1>8 DEF Route!ResolveContractResponse, Route!ResolveContentEntry
  <2>3. QED
    BY <1>2, <1>4, <2>1, <2>2
<1>9. CASE type = "unset" /\ ~entry.bare /\ ~(entry.allowNoBody /\ sentBody = "null")
  <2>1. /\ entry.content # <<>>
        /\ head = [kind |-> Head(entry.content).kind, status |-> status, type |-> Head(entry.content).type]
    BY <1>1, <1>9 DEF Route!Representation
  <2>2. 1 \in DOMAIN entry.content /\ Head(entry.content) = entry.content[1]
    BY <1>3, <2>1, Elements DEF Route!IsEntry
  <2>3. /\ Route!ResolveContractResponse(entry, Head(entry.content).type, TRUE) = Head(entry.content).kind
        /\ Head(entry.content).kind = "sse" => Head(entry.content).type \in Route!SseTypes(entry)
    BY <1>5, <2>2
  <2>4. QED
    BY <1>2, <1>4, <2>1, <2>3
<1>10. QED
  BY <1>6, <1>7, <1>8, <1>9

\* start() selects a representation that the contract declares, or none; for a status
\* whose own entry declares the stream it is that one.
LEMMA SelectionIsDeclared ==
    ASSUME Route!IsContract(responses), NEW status, NEW type,
           NEW chosen, chosen = Route!ResolveSseSelection(status, type)
    PROVE  /\ chosen = Route!NoSelection \/ chosen \in Route!Selections
           /\ LET key == Route!EntryKey(responses, status)
              IN  key \in DOMAIN responses /\ type \in Route!SseTypes(responses[key]) =>
                     chosen \in Route!Selections /\ chosen.key = key
<1> DEFINE key == Route!EntryKey(responses, status)
           Keys == {s.key : s \in {s \in Route!Selections : s.type = type}}
<1>1. \A s \in Route!Selections : s = [key |-> s.key, type |-> s.type] /\ s.key \in DOMAIN responses
  BY DEF Route!Selections
<1>2. Keys \in SUBSET DOMAIN responses /\ "none" \notin DOMAIN responses
  BY <1>1 DEF Route!IsContract
<1>3. \A k \in Keys : [key |-> k, type |-> type] \in Route!Selections
  BY <1>1
<1>4. key \in DOMAIN responses /\ type \in Route!SseTypes(responses[key]) =>
         key \in Keys /\ [key |-> key, type |-> type] \in Route!Selections
  <2>1. key \in DOMAIN responses /\ type \in Route!SseTypes(responses[key]) =>
           [key |-> key, type |-> type] \in Route!Selections
    BY DEF Route!Selections
  <2>2. QED
    BY <2>1
<1>5. CASE \E s \in Route!Selections : Route!Selections = {s}
  BY <1>4, <1>5 DEF Route!ResolveSseSelection
<1>6. CASE ~\E s \in Route!Selections : Route!Selections = {s}
  <2>1. chosen = IF Route!MostSpecific(Keys, status) = "none" THEN Route!NoSelection
                 ELSE [key |-> Route!MostSpecific(Keys, status), type |-> type]
    BY <1>6 DEF Route!ResolveSseSelection
  <2>2. Route!MostSpecific(Keys, status) \in Keys \cup {"none"}
    BY MostSpecificStays
  <2>3. key \in Keys => Route!MostSpecific(Keys, status) = key
    BY <1>2, MostSpecificStays DEF Route!EntryKey
  <2>4. QED
    BY <1>2, <1>3, <1>4, <2>1, <2>2, <2>3
<1>7. QED
  BY <1>5, <1>6

\* A stream of the representation declared for status 200 and text/event-stream is
\* what a strict client resolves for the head that every stream has.
LEMMA StreamIsResolved ==
    ASSUME Route!IsContract(responses), NEW type,
           [key |-> Route!EntryKey(responses, "200"), type |-> type] \in Route!Selections
    PROVE  Route!ResolveResponseEntry(responses, "200", type, TRUE) = "sse"
<1> DEFINE key == Route!EntryKey(responses, "200")
           entry == responses[key]
<1>1. PICK k \in DOMAIN responses : \E t \in Route!SseTypes(responses[k]) :
         [key |-> key, type |-> type] = [key |-> k, type |-> t]
  BY DEF Route!Selections
<1>2. key \in DOMAIN responses /\ type \in Route!SseTypes(entry)
  BY <1>1
<1>3. PICK i \in DOMAIN entry.content : entry.content[i].kind = "sse" /\ entry.content[i].type = type
  BY <1>2 DEF Route!SseTypes
<1>4. Route!IsEntry(entry) /\ key # "none"
  BY <1>2 DEF Route!IsContract
<1>5. Route!ResolveContractResponse(entry, type, TRUE) = "sse"
  BY <1>3, <1>4, KindIsDeclared DEF Route!ResolveContractResponse, Route!ResolveContentEntry
<1>6. QED
  BY <1>4, <1>5 DEF Route!ResolveResponseEntry

\* What a route keeps of its contract when the rest changes.
LEMMA RouteContract ==
    ASSUME UNCHANGED responses
    PROVE  /\ UNCHANGED Route!Selections
           /\ \A status : UNCHANGED Route!EntryKey(responses, status)
           /\ \A status, type : UNCHANGED Route!ResolveResponseEntry(responses, status, type, TRUE)
  BY DEF Route!Selections, Route!EntryKey, Route!ResolveResponseEntry

\* Every step of a route keeps the inductive invariant, and none sends a second head.
LEMMA RouteSteps ==
    ASSUME Route!IInv, Route!Next \/ UNCHANGED routeVars
    PROVE  /\ Route!IInv'
           /\ wire.kind # "none" => wire' = wire
<1> USE DEF Route!IInv
<1> DEFINE Piping ==
             handler = "piping" =>
                \E s \in Route!Statuses : /\ selection \in Route!Selections
                                         /\ selection.key = Route!EntryKey(responses, s)
<1>1. UNCHANGED responses /\ responses \in Responses
  BY DEF Route!Next, routeVars, Route!Start, Route!Return, Route!Close, Route!Throw, Route!Pipe,
         Route!Piped, Route!Replayed, Route!Disconnect, Route!OnClose
<1>2. Route!IsContract(responses)
  BY <1>1, ServicesAssumption
<1>3. ASSUME UNCHANGED <<responses, headersOk, mode, selection, wire>>
      PROVE  /\ Route!ClientResolves' /\ UNCHANGED Route!Selections /\ (wire.kind # "none" => wire' = wire)
             /\ (handler' = "piping" => handler = "piping") => Piping'
  <2>1. UNCHANGED Route!Selections
    BY <1>3, RouteContract
  <2>2. Route!ClientResolves'
    BY <1>3, RouteContract DEF Route!ClientResolves
  <2>3. (handler' = "piping" => handler = "piping") => Piping'
    BY <1>3, <2>1, RouteContract DEF Route!SessionKeepsFaith
  <2>4. QED
    BY <1>3, <2>1, <2>2, <2>3
<1>15. ASSUME NEW s, NEW t, NEW m, Route!Open(m, s, t), UNCHANGED <<responses, headersOk>>, headersOk,
              selection' \in Route!Selections
       PROVE  Route!ClientResolves'
  <2>1. /\ wire' = [kind |-> "sse", status |-> "200", type |-> "event-stream"]
        /\ wire'.kind = "sse" /\ wire'.status = "200" /\ wire'.type = "event-stream"
    BY <1>15 DEF Route!Open
  <2>2. selection' = [key |-> Route!EntryKey(responses, "200"), type |-> "event-stream"]
           => Route!ResolveResponseEntry(responses, "200", "event-stream", TRUE) = "sse"
    BY <1>2, <1>15, StreamIsResolved
  <2>3. QED
    BY <1>15, <2>1, <2>2, RouteContract DEF Route!ClientResolves
<1>4. CASE Route!Replayed
  BY <1>3, <1>4 DEF Route!Replayed, Route!SessionKeepsFaith
<1>5. CASE Route!Close
  BY <1>3, <1>5, RouteContract DEF Route!Close, Route!SessionKeepsFaith
<1>6. CASE Route!Throw
  BY <1>3, <1>6, RouteContract DEF Route!Throw, Route!EndWithHandler, Route!SessionKeepsFaith
<1>7. CASE Route!Pipe
  <2>1. CASE connection = "open"
    BY <1>3, <1>7, <2>1, RouteContract DEF Route!Pipe, Route!SessionKeepsFaith
  <2>2. CASE connection # "open"
    <3>1. /\ handler = "piping" /\ handler' = "returned" /\ wasted' = wasted + 1
          /\ byServer' = (byServer \/ mode = "autoClose")
          /\ UNCHANGED <<responses, headersOk, mode, selection, wire, connection, told, ender>>
      BY <1>7, <2>2 DEF Route!Pipe, Route!MarkHandlerDone
    <3>2. Route!SessionKeepsFaith'
      BY <3>1 DEF Route!SessionKeepsFaith
    <3>3. Route!ClientResolves' /\ UNCHANGED Route!Selections /\ wire' = wire
      BY <1>3, <3>1
    <3>4. byServer => byServer'
      BY <3>1
    <3>5. QED
      BY <3>1, <3>2, <3>3, <3>4
  <2>3. QED
    BY <2>1, <2>2
<1>8. CASE Route!Piped
  BY <1>3, <1>8, RouteContract DEF Route!Piped, Route!MarkHandlerDone, Route!EndWithHandler, Route!SessionKeepsFaith
<1>9. CASE Route!Disconnect
  BY <1>3, <1>9, RouteContract DEF Route!Disconnect, Route!SessionKeepsFaith
<1>10. CASE Route!OnClose
  BY <1>3, <1>10, RouteContract DEF Route!OnClose, Route!SessionKeepsFaith
<1>11. CASE UNCHANGED routeVars
  BY <1>3, <1>11, RouteContract DEF routeVars, Route!SessionKeepsFaith
<1>12. ASSUME NEW m \in {"autoClose", "keepAlive"}, NEW s \in Route!Statuses,
              NEW t \in {"event-stream", "ndjson"}, Route!Start(m, s, t)
       PROVE  Route!IInv' /\ (wire.kind # "none" => wire' = wire)
  <2>1. selection' \in Route!Selections'
    BY <1>1, <1>2, <1>12, SelectionIsDeclared, RouteContract DEF Route!Start, Route!Open
  <2>2. Route!ClientResolves'
    <3>1. Route!Open(m, s, t) /\ headersOk /\ UNCHANGED headersOk /\ selection' \in Route!Selections
      BY <1>1, <1>12, <2>1, RouteContract DEF Route!Start
    <3>2. QED
      BY <1>1, <1>15, <3>1
  <2>3. QED
    BY <1>12, <2>1, <2>2 DEF Route!Start, Route!Open, Route!SessionKeepsFaith
<1>13. ASSUME NEW s \in Route!Statuses, NEW t \in Route!Types \cup {"unset"}, NEW b \in {"null", "body"},
              Route!Return(s, t, b)
       PROVE  Route!IInv' /\ (wire.kind # "none" => wire' = wire)
  <2> DEFINE resolved == Route!Representation(s, t, b)
  <2>1. /\ handler = "handling" /\ t # "none"
        /\ UNCHANGED <<responses, headersOk, told, pulled, wasted, replayed>>
    BY <1>13 DEF Route!Return, Route!Types
  <2>2. CASE mode # "none"
    <3>1. /\ handler' = "returned" /\ Route!MarkHandlerDone /\ Route!EndWithHandler
          /\ UNCHANGED <<mode, selection, wire>>
      BY <1>13, <2>2 DEF Route!Return
    <3>2. Route!SessionKeepsFaith'
      BY <2>1, <3>1 DEF Route!MarkHandlerDone, Route!EndWithHandler, Route!SessionKeepsFaith
    <3>3. QED
      BY <1>3, <2>1, <3>1, <3>2 DEF Route!MarkHandlerDone, Route!EndWithHandler
  <2>3. CASE mode = "none" /\ (resolved.kind = "none" \/ ~headersOk)
    <3>1. handler' = "threw" /\ UNCHANGED <<mode, selection, wire, connection, byServer, ender>>
      BY <1>13, <2>3 DEF Route!Return
    <3>2. QED
      BY <1>3, <2>1, <3>1 DEF Route!SessionKeepsFaith
  <2>4. CASE mode = "none" /\ resolved.kind = "sse" /\ headersOk
    <3>1. /\ handler' = "piping" /\ Route!Open("autoClose", s, resolved.type)
          /\ UNCHANGED <<connection, byServer, ender>>
      BY <1>13, <2>4 DEF Route!Return
    <3>2. /\ Route!EntryKey(responses, s) \in DOMAIN responses
          /\ resolved.type \in Route!SseTypes(responses[Route!EntryKey(responses, s)])
      BY <1>2, <2>1, <2>4, RepresentationIsResolved
    <3>3. selection' \in Route!Selections /\ selection'.key = Route!EntryKey(responses, s)
      BY <1>2, <3>1, <3>2, SelectionIsDeclared DEF Route!Open
    <3>4. selection' \in Route!Selections' /\ Piping'
      BY <2>1, <3>3, RouteContract
    <3>5. Route!ClientResolves'
      BY <1>15, <2>1, <2>4, <3>1, <3>3
    <3>6. QED
      BY <2>1, <2>4, <3>1, <3>4, <3>5 DEF Route!Open, Route!SessionKeepsFaith
  <2>5. CASE mode = "none" /\ resolved.kind \notin {"none", "sse"} /\ headersOk
    <3>1. /\ handler' = "returned" /\ wire' = resolved
          /\ UNCHANGED <<mode, selection, connection, byServer, ender>>
      BY <1>13, <2>5 DEF Route!Return
    <3>2. Route!ResolveResponseEntry(responses, resolved.status, resolved.type, TRUE) = resolved.kind
      BY <1>2, <2>1, <2>5, RepresentationIsResolved
    <3>3. Route!ClientResolves'
      BY <2>1, <2>5, <3>1, <3>2, RouteContract DEF Route!ClientResolves
    <3>4. QED
      BY <2>1, <2>5, <3>1, <3>3 DEF Route!SessionKeepsFaith
  <2>6. QED
    BY <2>2, <2>3, <2>4, <2>5
<1>14. QED
  BY <1>4, <1>5, <1>6, <1>7, <1>8, <1>9, <1>10, <1>11, <1>12, <1>13 DEF Route!Next

-----------------------------------------------------------------------------
(* Mocks *)

\* A set of numbers has a least.
LEMMA LeastExists ==
    ASSUME NEW T \in SUBSET Nat, T # {}
    PROVE  \E n \in T : \A m \in T : n <= m
<1>1. PICK n \in T : \A k \in T : <<k, n>> \notin Less
  BY LessIsWellFounded, WFMin, Zenon
<1>2. ASSUME NEW m \in T PROVE n <= m
  <2>1. n \in Nat /\ m \in Nat /\ <<m, n>> \notin Less
    BY <1>1
  <2>2. <<m, n>> \in Less <=> m < n
    BY <2>1 DEF Less
  <2>3. QED
    BY <2>1, <2>2
<1>3. QED
  BY <1>1, <1>2

\* The two test helpers, for any parameters and request.
LEMMA HelpersAlwaysAgree ==
    ASSUME NEW variant \in {"rest", "sse", "dual"}, NEW params, NEW asked,
           params.json \in {"good", "loose", "bad"}
    PROVE  M!HelpersAgree(variant, params, asked)
<1> DEFINE Match == M!MatchesQueryParams(params, asked)
           valid == M!MswMockValidResponse(variant, params, asked)
           json(text) == M!Reply(params.status, "json", "json", text)
           sse == M!Reply(params.status, "event-stream", "sse", "events")
           Streams0 == variant = "sse" \/ asked.accept = "event-stream"
           Chosen(text) == IF ~Match THEN M!Passthrough ELSE IF Streams0 THEN sse ELSE json(text)
<1>1. \A text : M!Either(variant, params, asked, text) = Chosen(text)
  BY DEF M!Either
<1>2. /\ \A text : json(text).kind = "json" /\ json(text).body = text /\ json(text).type = "reply"
      /\ sse.kind = "sse" /\ sse.type = "reply"
      /\ M!Passthrough.type = "passthrough" /\ M!Fails.type = "fails"
  BY DEF M!Reply, M!Passthrough, M!Fails
<1>3. /\ params.json = "good" => M!Parse(params.json) = params.json
      /\ params.json # "bad" => M!Parse(params.json) = "good"
  BY DEF M!Parse
<1> HIDE DEF json, sse, Match
<1>4. CASE variant = "rest"
  <2>1. /\ valid = IF params.json = "bad" THEN M!Broken ELSE json(M!Parse(params.json))
        /\ M!MswMockAnyResponse(variant, params, asked) = json(params.json)
        /\ M!MswMockWithImplementation(variant, params, asked) = json(params.json)
        /\ M!MockttpMockAnyResponse(variant, params, asked) = IF Match THEN json(params.json) ELSE M!Passthrough
        /\ M!MockttpMockValidResponse(variant, params, asked) = IF Match THEN json(params.json) ELSE M!Passthrough
    BY <1>4 DEF M!MswMockValidResponse, M!RegisterEndpointMock, M!MswMockAnyResponse, M!MswMockWithImplementation,
       M!MockttpMockAnyResponse, M!MockttpMockValidResponse, M!MockRestResponse, json, Match
  <2>2. valid.type = "reply" /\ valid # M!Broken => (valid.kind = "json" => valid.body = "good")
    BY <1>2, <1>3, <2>1
  <2>3. params.json = "good" => M!MswMockWithImplementation(variant, params, asked) = valid
    BY <1>3, <2>1
  <2> HIDE DEF valid
  <2>4. QED
    BY <1>3, <1>4, <2>1, <2>2, <2>3 DEF M!HelpersAgree, Match, valid
<1>5. CASE variant = "sse"
  <2>1. valid = Chosen("none") /\ M!MockttpMockValidResponse(variant, params, asked) = Chosen("none")
    BY <1>1, <1>5 DEF M!MswMockValidResponse, M!MockttpMockValidResponse, M!MockSseHandler
  <2>2. valid.type = "reply" => valid.kind = "sse"
    BY <1>2, <1>5, <2>1
  <2> HIDE DEF valid
  <2>3. QED
    BY <1>5, <2>1, <2>2 DEF M!HelpersAgree, valid
<1>6. CASE variant = "dual"
  <2>1. /\ valid = IF params.json = "bad" THEN M!Fails ELSE Chosen(M!Parse(params.json))
        /\ M!MockttpMockValidResponse(variant, params, asked) = valid
        /\ M!MswMockAnyResponse(variant, params, asked) = Chosen(params.json)
        /\ M!MockttpMockAnyResponse(variant, params, asked) = Chosen(params.json)
        /\ M!MswMockWithImplementation(variant, params, asked) = Chosen(params.json)
    BY <1>1, <1>6 DEF M!MswMockValidResponse, M!MockttpMockValidResponse, M!MockDualModeHandler,
       M!MswMockAnyResponse, M!MockttpMockAnyResponse, M!MswMockWithImplementation, M!Either
  <2>2. valid.type = "reply" =>
           /\ valid.kind = "json" => valid.body = "good"
           /\ (valid.kind = "sse") <=> asked.accept = "event-stream"
    BY <1>2, <1>3, <1>6, <2>1
  <2>3. params.json = "good" => Chosen(params.json) = valid
    BY <1>3, <2>1
  <2> HIDE DEF valid, Chosen
  <2>4. QED
    BY <1>6, <2>1, <2>2, <2>3 DEF M!HelpersAgree, valid
<1>7. QED
  BY <1>4, <1>5, <1>6

\* What is mocked of a contract, for any status, content type and accepted type.
LEMMA MocksAlwaysResolve ==
    ASSUME NEW entries, M!IsContract(entries), NEW status, NEW params, NEW accept,
           params.json \in {"good", "loose", "bad"}
    PROVE  M!MockIsResolved(entries, status, params, accept)
<1> DEFINE replied == M!MockResponse(entries, status, params, accept)
           key == M!EntryKey(entries, status)
           entry == entries[key]
           found == M!ResolveContractEntry(entries, status)
<1> SUFFICES ASSUME replied.type = "reply", replied # M!Broken
             PROVE  /\ \A strict \in BOOLEAN : M!ResolveResponseEntry(entries, replied.status, replied.content, strict) = replied.kind
                    /\ replied.kind = "json" => replied.body = "good"
                    /\ params.contentType # "unset" /\ replied.kind \notin {"noContent"} /\ ~found[1].bare
                          => replied.content = params.contentType
  BY Zenon DEF M!MockIsResolved
<1>1. \A s, t, k, b : LET r == M!Reply(s, t, k, b)
                      IN  r.status = s /\ r.content = t /\ r.kind = k /\ r.body = b /\ r.type = "reply"
  BY DEF M!Reply
<1>2. M!Fails.type = "fails"
  BY DEF M!Fails
<1>3. key # "none" /\ found = <<entry>>
  BY <1>2 DEF M!MockResponse, M!ResolveContractEntry
<1>4. M!IsEntry(entry)
  BY <1>3 DEF M!IsContract, M!EntryKey, M!MostSpecific
<1>5. \A type, strict : M!ResolveResponseEntry(entries, status, type, strict)
                           = M!ResolveContractResponse(entry, type, strict)
  BY <1>3 DEF M!ResolveResponseEntry
<1>6. params.json # "bad" => M!Parse(params.json) = "good"
  BY DEF M!Parse
<1>7. replied = IF entry.bare
               THEN IF params.json = "bad" THEN M!Fails ELSE M!Reply(status, "json", "json", M!Parse(params.json))
               ELSE IF entry.content = <<>> THEN M!Reply(status, "none", "noContent", "none")
               ELSE IF params.contentType # "unset" THEN M!ResolveExplicitContentBody(entry, status, params)
               ELSE M!Negotiated(entry, status, params, accept)
  BY <1>3 DEF M!MockResponse
<1>8. found[1] = entry
  BY <1>3
<1> HIDE DEF replied, found, entry, key
<1>9. CASE entry.bare
  <2>1. params.json # "bad" /\ replied = M!Reply(status, "json", "json", "good")
    BY <1>2, <1>6, <1>7, <1>9
  <2>2. \A strict : M!ResolveContractResponse(entry, "json", strict) = "json"
    BY <1>9 DEF M!ResolveContractResponse
  <2>3. QED
    BY <1>1, <1>5, <1>8, <1>9, <2>1, <2>2
<1>10. CASE ~entry.bare /\ entry.content = <<>>
  <2>1. replied = M!Reply(status, "none", "noContent", "none")
    BY <1>7, <1>10
  <2>2. \A strict : M!ResolveContractResponse(entry, "none", strict) = "noContent"
    BY <1>10 DEF M!ResolveContractResponse, M!ResolveContentEntry
  <2>3. QED
    BY <1>1, <1>5, <2>1, <2>2
\* an answer of a declared type and its kind
<1>11. ASSUME NEW type, NEW sort, NEW text, ~entry.bare, entry.content # <<>>,
              M!Declares(entry, type), sort = M!KindOf(entry, type),
              replied = M!Reply(status, type, sort, text),
              sort = "json" => text = "good", params.contentType # "unset" => type = params.contentType
       PROVE  /\ \A strict \in BOOLEAN : M!ResolveResponseEntry(entries, replied.status, replied.content, strict) = replied.kind
              /\ replied.kind = "json" => replied.body = "good"
              /\ params.contentType # "unset" /\ replied.kind \notin {"noContent"} /\ ~found[1].bare
                    => replied.content = params.contentType
  <2>1. type # "none"
    <3>1. PICK i \in DOMAIN entry.content : entry.content[i].type = type
      BY <1>11 DEF M!Declares
    <3>2. entry.content[i] \in [type : STRING \ {"none", "unset"}, kind : {"json", "blob", "sse"}]
      BY <1>4, Elements DEF M!IsEntry
    <3>3. QED
      BY <3>1, <3>2
  <2>2. \A strict : M!ResolveContractResponse(entry, type, strict) = sort
    BY <1>11, <2>1 DEF M!ResolveContractResponse, M!ResolveContentEntry
  <2>3. QED
    BY <1>1, <1>5, <1>11, <2>2
<1>12. CASE ~entry.bare /\ entry.content # <<>> /\ params.contentType # "unset"
  <2> DEFINE type == params.contentType
             sort == M!KindOf(entry, type)
  <2>1. /\ M!Declares(entry, type) /\ ~(sort = "json" /\ params.json = "bad")
        /\ replied = M!Reply(status, type, sort, M!Body(sort, params))
    BY <1>2, <1>7, <1>12 DEF M!ResolveExplicitContentBody
  <2>2. sort = "json" => M!Body(sort, params) = "good"
    BY <1>6, <2>1 DEF M!Body
  <2> HIDE DEF type, sort
  <2>3. QED
    BY <1>11, <1>12, <2>1, <2>2 DEF type, sort
<1>13. CASE ~entry.bare /\ entry.content # <<>> /\ params.contentType = "unset"
  <2> DEFINE Of(sort) == M!Reply(status, M!OfKind(entry, sort)[1].type, sort, M!Body(sort, params))
  <2>1. ASSUME NEW sort, M!OfKind(entry, sort) # <<>>
        PROVE  /\ M!Declares(entry, M!OfKind(entry, sort)[1].type)
               /\ M!KindOf(entry, M!OfKind(entry, sort)[1].type) = sort
    <3> DEFINE those == {i \in DOMAIN entry.content : entry.content[i].kind = sort}
               least == CHOOSE i \in those : \A j \in those : i <= j
    <3>1. entry.content \in Seq([type : STRING \ {"none", "unset"}, kind : {"json", "blob", "sse"}])
      BY <1>4 DEF M!IsEntry
    <3>2. those \subseteq Nat /\ those # {}
      BY <2>1, <3>1 DEF M!OfKind
    <3>3. least \in those
      BY <3>2, LeastExists
    <3>4. M!OfKind(entry, sort)[1] = entry.content[least]
      BY <3>2 DEF M!OfKind
    <3> HIDE DEF least
    <3>5. M!Declares(entry, entry.content[least].type)
      BY <3>3 DEF M!Declares
    <3>6. \A i \in DOMAIN entry.content : entry.content[i].type = entry.content[least].type => i = least
      BY <1>4, <3>3 DEF M!IsEntry
    <3>7. M!KindOf(entry, entry.content[least].type) = entry.content[least].kind
      BY <3>3, <3>6 DEF M!KindOf
    <3>8. QED
      BY <3>3, <3>4, <3>5, <3>7
  <2>2. replied = IF M!OfKind(entry, "sse") # <<>> /\ accept = "event-stream" THEN Of("sse")
                 ELSE IF M!OfKind(entry, "json") # <<>>
                 THEN IF params.json = "bad" THEN M!Broken ELSE Of("json")
                 ELSE IF M!OfKind(entry, "blob") # <<>> THEN Of("blob") ELSE Of("sse")
    BY <1>7, <1>13, Zenon DEF M!Negotiated
  <2>3. M!OfKind(entry, "sse") # <<>> \/ M!OfKind(entry, "json") # <<>> \/ M!OfKind(entry, "blob") # <<>>
    <3>1. entry.content \in Seq([type : STRING \ {"none", "unset"}, kind : {"json", "blob", "sse"}])
      BY <1>4 DEF M!IsEntry
    <3>2. 1 \in DOMAIN entry.content /\ entry.content[1].kind \in {"json", "blob", "sse"}
      <4>1. 1 \in DOMAIN entry.content
        BY <1>13, <3>1, Elements
      <4>2. entry.content[1] \in [type : STRING \ {"none", "unset"}, kind : {"json", "blob", "sse"}]
        BY <3>1, <4>1, Elements
      <4>3. QED
        BY <4>1, <4>2
    <3>3. \A sort : entry.content[1].kind = sort => M!OfKind(entry, sort) # <<>>
      BY <3>2 DEF M!OfKind
    <3>4. QED
      BY <3>2, <3>3
  <2>4. PICK sort \in {"json", "blob", "sse"} :
           M!OfKind(entry, sort) # <<>> /\ replied = Of(sort) /\ (sort = "json" => params.json # "bad")
    BY <2>2, <2>3
  <2>5. sort = "json" => M!Body(sort, params) = "good"
    BY <1>6, <2>4 DEF M!Body
  <2>6. QED
    BY <1>11, <1>13, <2>1, <2>4, <2>5
<1>14. QED
  BY <1>4, <1>9, <1>10, <1>12, <1>13 DEF M!IsEntry

-----------------------------------------------------------------------------
(* Sequences one after the other *)

\* The function that FlattenSeq is defined by
FlattenOf(s, n, f) == f = [i \in 1..n |-> IF i = 1 THEN s[i] ELSE f[i - 1] \o s[i]]

\* It exists, so that the sequence is its last value.
LEMMA FlattenIsDefined ==
    ASSUME NEW s, Len(s) \in Nat \ {0}
    PROVE  \E f : FlattenOf(s, Len(s), f) /\ FlattenSeq(s) = f[Len(s)]
<1> DEFINE Defined == {n \in Nat : \E f : FlattenOf(s, n, f)}
<1>1. 0 \in Defined
  <2>1. FlattenOf(s, 0, [i \in 1..0 |-> <<>>])
    BY DEF FlattenOf
  <2>2. QED
    BY <2>1
<1>2. ASSUME NEW n \in Nat, n \in Defined PROVE n + 1 \in Defined
  <2>1. PICK f : FlattenOf(s, n, f)
    BY <1>2
  <2> DEFINE g == [i \in 1..(n + 1) |->
                      IF i # n + 1 THEN f[i] ELSE IF n = 0 THEN s[1] ELSE f[n] \o s[n + 1]]
  <2>2. \A i \in 1..(n + 1) : g[i] = IF i = 1 THEN s[i] ELSE g[i - 1] \o s[i]
    <3> TAKE i \in 1..(n + 1)
    <3>1. CASE i = n + 1
      BY <3>1
    <3>2. CASE i # n + 1
      <4>1. i \in 1..n /\ (i # 1 => i - 1 \in 1..(n + 1) /\ i - 1 # n + 1)
        BY <3>2
      <4>2. f[i] = IF i = 1 THEN s[i] ELSE f[i - 1] \o s[i]
        BY <2>1, <4>1, Zenon DEF FlattenOf
      <4>3. g[i] = f[i] /\ (i # 1 => g[i - 1] = f[i - 1])
        BY <3>2, <4>1
      <4> HIDE DEF g
      <4>4. QED
        BY <4>2, <4>3
    <3>3. QED
      BY <3>1, <3>2
  <2>3. FlattenOf(s, n + 1, g)
    BY <2>2 DEF FlattenOf
  <2>4. QED
    BY <2>3
<1>3. \E f : FlattenOf(s, Len(s), f)
  BY <1>1, <1>2, NaturalInduction
<1> DEFINE f == CHOOSE f : f = [i \in 1..Len(s) |-> IF i = 1 THEN s[i] ELSE f[i - 1] \o s[i]]
<1>4. FlattenOf(s, Len(s), f)
  BY <1>3 DEF FlattenOf
<1>5. FlattenSeq(s) = f[Len(s)]
  <2>1. FlattenSeq(s) = IF Len(s) = 0 THEN s ELSE f[Len(s)]
    BY Zenon DEF FlattenSeq
  <2> HIDE DEF f
  <2>2. QED
    BY <2>1
<1>6. QED
  BY <1>4, <1>5

\* It puts one sequence after the other.
LEMMA FlattenOfAppend ==
    ASSUME NEW S
    PROVE  /\ FlattenSeq(<<>>) = <<>>
           /\ \A s \in Seq(Seq(S)), x \in Seq(S) : FlattenSeq(Append(s, x)) = FlattenSeq(s) \o x
<1>1. FlattenSeq(<<>>) = <<>>
  BY DEF FlattenSeq
<1>2. ASSUME NEW s \in Seq(Seq(S)), NEW x \in Seq(S)
      PROVE  FlattenSeq(Append(s, x)) = FlattenSeq(s) \o x
  <2> DEFINE T == Seq(S)
             t == Append(s, x)
  <2>1. /\ Len(s) \in Nat /\ Len(t) = Len(s) + 1
        /\ \A i \in 1..Len(s) : t[i] = s[i]
        /\ t[Len(s) + 1] = x
    <3> HIDE DEF T
    <3>1. QED
      BY AppendFacts
  <2> HIDE DEF t
  <2>2. PICK g : FlattenOf(t, Len(s) + 1, g) /\ FlattenSeq(t) = g[Len(s) + 1]
    <3>1. Len(t) \in Nat \ {0}
      BY <2>1
    <3>2. \E g : FlattenOf(t, Len(t), g) /\ FlattenSeq(t) = g[Len(t)]
      BY <3>1, FlattenIsDefined
    <3>3. QED
      BY <2>1, <3>2
  <2>3. CASE Len(s) = 0
    <3>1. s = <<>>
      BY <2>3, EmptySeq
    <3>2. FlattenSeq(t) = t[1]
      BY <2>1, <2>2, <2>3 DEF FlattenOf
    <3>3. <<>> \o x = x
      OBVIOUS
    <3>4. QED
      BY <1>1, <2>1, <2>3, <3>1, <3>2, <3>3 DEF t
  <2>4. CASE Len(s) # 0
    <3>1. PICK f : FlattenOf(s, Len(s), f) /\ FlattenSeq(s) = f[Len(s)]
      BY <2>1, <2>4, FlattenIsDefined
    <3> DEFINE Agree == {n \in Nat : 1 <= n /\ n <= Len(s) => g[n] = f[n]}
    <3>2. 0 \in Agree
      OBVIOUS
    <3>3. ASSUME NEW n \in Nat, n \in Agree PROVE n + 1 \in Agree
      <4>1. CASE n + 1 <= Len(s)
        <5>1. n + 1 \in 1..Len(s) /\ n + 1 \in 1..(Len(s) + 1) /\ (n + 1) - 1 = n
          BY <2>1, <4>1
        <5>2. f[n + 1] = IF n = 0 THEN s[1] ELSE f[n] \o s[n + 1]
          <6>1. f[n + 1] = IF n + 1 = 1 THEN s[n + 1] ELSE f[(n + 1) - 1] \o s[n + 1]
            BY <3>1, <5>1, Zenon DEF FlattenOf
          <6>2. QED
            BY <5>1, <6>1
        <5>3. g[n + 1] = IF n = 0 THEN t[1] ELSE g[n] \o t[n + 1]
          <6>1. g[n + 1] = IF n + 1 = 1 THEN t[n + 1] ELSE g[(n + 1) - 1] \o t[n + 1]
            BY <2>2, <5>1, Zenon DEF FlattenOf
          <6>2. QED
            BY <5>1, <6>1
        <5>4. n # 0 => g[n] = f[n]
          BY <3>3, <4>1
        <5>5. t[n + 1] = s[n + 1]
          BY <2>1, <5>1
        <5>6. QED
          BY <5>2, <5>3, <5>4, <5>5
      <4>2. QED
        BY <4>1
    <3>4. g[Len(s)] = f[Len(s)]
      <4>1. Nat \subseteq Agree
        BY <3>2, <3>3, NaturalInduction
      <4>2. QED
        BY <2>1, <2>4, <4>1
    <3>5. g[Len(s) + 1] = g[Len(s)] \o x
      <4>1. Len(s) + 1 \in 1..(Len(s) + 1) /\ Len(s) + 1 # 1 /\ (Len(s) + 1) - 1 = Len(s)
        BY <2>1, <2>4
      <4>2. QED
        BY <2>1, <2>2, <4>1 DEF FlattenOf
    <3>6. QED
      BY <2>2, <3>1, <3>4, <3>5 DEF t
  <2>5. QED
    BY <2>3, <2>4
<1>3. QED
  BY <1>1, <1>2

\* What is put together of sequences that are not empty is as long as there are of them
\* when each has one element, which is then at its place, and longer otherwise.
LEMMA FlattenLengths ==
    ASSUME NEW S, NEW s \in Seq(Seq(S)), \A i \in DOMAIN s : s[i] # <<>>
    PROVE  /\ FlattenSeq(s) \in Seq(S) /\ Len(FlattenSeq(s)) >= Len(s)
           /\ Len(FlattenSeq(s)) = Len(s) =>
                 \A i \in DOMAIN s : Len(s[i]) = 1 /\ FlattenSeq(s)[i] = s[i][1]
           /\ (\A i \in DOMAIN s : Len(s[i]) = 1) => Len(FlattenSeq(s)) = Len(s)
<1> DEFINE F(r) == FlattenSeq(r)
           Full(r) == \A i \in DOMAIN r : r[i] # <<>>
           Even(r) == \A i \in DOMAIN r : Len(r[i]) = 1 /\ F(r)[i] = r[i][1]
           Ones(r) == \A i \in DOMAIN r : Len(r[i]) = 1
           T == {r \in Seq(Seq(S)) : /\ F(r) \in Seq(S)
                                     /\ Full(r) => /\ Len(F(r)) >= Len(r)
                                                   /\ Len(F(r)) = Len(r) => Even(r)
                                                   /\ Ones(r) => Len(F(r)) = Len(r)}
<1>1. <<>> \in T
  <2>1. F(<<>>) = <<>> /\ <<>> \in Seq(Seq(S)) /\ <<>> \in Seq(S) /\ DOMAIN <<>> = {} /\ Len(<<>>) = 0
    BY FlattenOfAppend
  <2>2. Len(F(<<>>)) >= Len(<<>>) /\ Even(<<>>) /\ Len(F(<<>>)) = Len(<<>>)
    BY <2>1
  <2> HIDE DEF F, Even, Ones, Full
  <2>3. QED
    BY <2>1, <2>2
<1>2. ASSUME NEW r \in Seq(Seq(S)), NEW x \in Seq(S), r \in T PROVE Append(r, x) \in T
  <2> DEFINE t == Append(r, x)
             Q == Seq(S)
  <2>1. F(t) = F(r) \o x
    BY FlattenOfAppend
  <2>2. /\ t \in Seq(Q) /\ Len(r) \in Nat /\ Len(t) = Len(r) + 1
        /\ DOMAIN r = 1..Len(r) /\ DOMAIN t = 1..(Len(r) + 1)
        /\ \A i \in 1..Len(r) : t[i] = r[i]
        /\ t[Len(r) + 1] = x
    <3>1. r \in Seq(Q) /\ x \in Q
      OBVIOUS
    <3> HIDE DEF Q
    <3>2. QED
      BY <3>1, AppendFacts, AppendProperties
  <2>3. F(r) \in Seq(S)
    BY <1>2
  <2> DEFINE a == F(r)
             b == F(t)
  <2>4. /\ b \in Seq(S) /\ Len(a) \in Nat /\ Len(x) \in Nat /\ Len(b) = Len(a) + Len(x)
        /\ \A i \in 1..Len(a) : b[i] = a[i]
        /\ Len(x) = 1 => b[Len(a) + 1] = x[1]
        /\ x # <<>> => Len(x) >= 1
    <3>1. a \in Seq(S) /\ b = a \o x
      BY <2>1, <2>3
    <3> HIDE DEF a, b
    <3>2. QED
      BY <3>1
  <2> HIDE DEF t, a, b
  <2>5. ASSUME Full(t)
        PROVE  /\ Len(b) >= Len(t)
               /\ Len(b) = Len(t) => Even(t)
               /\ Ones(t) => Len(b) = Len(t)
    <3>1. Full(r) /\ x # <<>>
      <4>1. Len(r) + 1 \in DOMAIN t
        BY <2>2
      <4>2. t[Len(r) + 1] # <<>>
        BY <2>5, <4>1
      <4>3. ASSUME NEW i \in DOMAIN r PROVE r[i] # <<>>
        <5>1. i \in 1..Len(r) /\ i \in DOMAIN t
          BY <2>2, <4>3
        <5>2. t[i] # <<>> /\ t[i] = r[i]
          BY <2>2, <2>5, <5>1
        <5>3. QED
          BY <5>2
      <4>4. QED
        BY <2>2, <4>2, <4>3
    <3>2. /\ Len(a) >= Len(r)
          /\ Len(a) = Len(r) => Even(r)
          /\ Ones(r) => Len(a) = Len(r)
      <4> HIDE DEF F, Full, Even, Ones
      <4>1. QED
        BY <1>2, <3>1 DEF a
    <3> HIDE DEF F
    <3>3. Len(b) >= Len(t)
      BY <2>2, <2>4, <3>1, <3>2
    <3>4. ASSUME Len(b) = Len(t) PROVE Even(t)
      <4>1. Len(a) = Len(r) /\ Len(x) = 1
        <5>1. /\ Len(r) \in Nat /\ Len(a) \in Nat /\ Len(x) \in Nat /\ Len(x) >= 1
              /\ Len(a) >= Len(r)
          BY <2>2, <2>4, <3>1, <3>2
        <5>2. Len(a) + Len(x) = Len(r) + 1
          BY <2>2, <2>4, <3>4
        <5>3. \A p, q, k \in Nat : k >= 1 /\ p >= q /\ p + k = q + 1 => p = q /\ k = 1
          OBVIOUS
        <5>4. QED
          BY <5>1, <5>2, <5>3, Zenon
      <4>2. Even(r)
        BY <3>2, <4>1, Zenon
      <4>3. ASSUME NEW i \in 1..(Len(r) + 1) PROVE Len(t[i]) = 1 /\ b[i] = t[i][1]
        <5>1. CASE i = Len(r) + 1
          BY <2>2, <2>4, <4>1, <5>1
        <5>2. CASE i # Len(r) + 1
          <6>1. i \in 1..Len(r)
            BY <2>2, <5>2
          <6>2. Len(r[i]) = 1 /\ a[i] = r[i][1]
            BY <2>2, <4>2, <6>1 DEF a
          <6>3. b[i] = a[i] /\ t[i] = r[i]
            BY <2>2, <2>4, <4>1, <6>1
          <6>4. QED
            BY <6>2, <6>3
        <5>3. QED
          BY <5>1, <5>2
      <4>4. QED
        BY <2>2, <4>3 DEF b
    <3>5. ASSUME Ones(t) PROVE Len(b) = Len(t)
      <4>1. Ones(r)
        BY <2>2, <3>5
      <4>2. Len(x) = 1
        <5>1. Len(r) + 1 \in 1..(Len(r) + 1)
          BY <2>2
        <5>2. QED
          BY <2>2, <3>5, <5>1
      <4>3. QED
        BY <2>2, <2>4, <3>2, <4>1, <4>2
    <3>6. QED
      BY <3>3, <3>4, <3>5
  <2> HIDE DEF Full, Even, Ones, F, Q
  <2>6. QED
    BY <2>2, <2>4, <2>5 DEF t, b, Q
<1>3. s \in T
  <2> DEFINE Q == Seq(S)
  <2>1. \A r \in Seq(Q), x \in Q : r \in T => Append(r, x) \in T
    BY <1>2
  <2> HIDE DEF T, Q
  <2>2. Seq(Q) \subseteq T
    BY <1>1, <2>1, SequenceInduction
  <2>3. QED
    BY <2>2 DEF Q
<1>4. QED
  BY <1>3

\* What is put together is a sequence of the same elements.
LEMMA FlattenTypes ==
    ASSUME NEW S
    PROVE  \A s \in Seq(Seq(S)) : FlattenSeq(s) \in Seq(S)
<1> DEFINE Q == Seq(S)
           T == {s \in Seq(Q) : FlattenSeq(s) \in Q}
<1>1. <<>> \in T
  <2>1. FlattenSeq(<<>>) = <<>> /\ <<>> \in Seq(Q) /\ <<>> \in Q
    BY FlattenOfAppend
  <2> HIDE DEF Q
  <2>2. QED
    BY <2>1
<1>2. \A s \in Seq(Q), x \in Q : s \in T => Append(s, x) \in T
  <2> TAKE s \in Seq(Q), x \in Q
  <2> HAVE s \in T
  <2>1. FlattenSeq(Append(s, x)) = FlattenSeq(s) \o x
    BY FlattenOfAppend
  <2>2. FlattenSeq(s) \o x \in Q
    OBVIOUS
  <2>3. Append(s, x) \in Seq(Q)
    <3> HIDE DEF Q
    <3>1. QED
      OBVIOUS
  <2> HIDE DEF Q
  <2>4. QED
    BY <2>1, <2>2, <2>3
<1> HIDE DEF Q, T
<1>3. Seq(Q) \subseteq T
  BY <1>1, <1>2, SequenceInduction
<1>4. QED
  BY <1>3 DEF Q, T

\* An instance puts sequences together as the module does.
LEMMA FlattenOfMocks == \A s : M!FlattenSeq(s) = FlattenSeq(s)
  BY DEF M!FlattenSeq, FlattenSeq

-----------------------------------------------------------------------------
(* Events that are mocked *)

\* The events of a mock, whose words are one symbol each
MockedEvent == [event : STRING \ {"newline"}, data : STRING \ {"newline"}]

\* How an event arrives, and the lines of its text
Heard(e) == [event |-> <<e.event>>, data |-> <<e.data>>]
EventLines(e) == <<<<"event:", e.event>>, <<"data:", e.data>>>>

\* The text of an event is two lines, and what is emitted of it an empty one more.
LEMMA CutOfEvent ==
    ASSUME NEW e \in MockedEvent
    PROVE  /\ M!EventText(e) \in Text /\ M!Emit(e) \in Text
           /\ Cut(M!EventText(e)) = [lines |-> EventLines(e), rest |-> <<>>]
           /\ Cut(M!Emit(e)) = [lines |-> Append(EventLines(e), <<>>), rest |-> <<>>]
<1> DEFINE a == e.event
           b == e.data
<1>1. a \in Symbol /\ b \in Symbol /\ a # "newline" /\ b # "newline"
  BY DEF MockedEvent, Symbol
<1>2. "event:" \in Symbol /\ "data:" \in Symbol /\ "newline" \in Symbol
  BY DEF Symbol
<1> HIDE DEF a, b
<1> DEFINE s1 == <<"event:">>
           s2 == <<"event:", a>>
           s3 == <<"event:", a, "newline">>
           s4 == <<"event:", a, "newline", "data:">>
           s5 == <<"event:", a, "newline", "data:", b>>
           s6 == <<"event:", a, "newline", "data:", b, "newline">>
           s7 == <<"event:", a, "newline", "data:", b, "newline", "newline">>
           d1 == <<"data:">>
           d2 == <<"data:", b>>
           C(l, r) == [lines |-> l, rest |-> r]
<1>3. /\ s1 \in Text /\ s2 \in Text /\ s3 \in Text /\ s4 \in Text /\ s5 \in Text /\ s6 \in Text /\ s7 \in Text
  BY <1>1, <1>2 DEF Text
<1>4. /\ s1 = Append(<<>>, "event:") /\ s2 = Append(s1, a) /\ s3 = Append(s2, "newline")
      /\ s4 = Append(s3, "data:") /\ s5 = Append(s4, b) /\ s6 = Append(s5, "newline")
      /\ s7 = Append(s6, "newline")
      /\ d1 = Append(<<>>, "data:") /\ d2 = Append(d1, b)
  OBVIOUS
<1>5. M!EventText(e) = s6 /\ M!Emit(e) = s7
  <2>1. M!EventText(e) = s6
    BY DEF M!EventText, a, b
  <2>2. s7 = s6 \o <<"newline">>
    OBVIOUS
  <2>3. QED
    BY <2>1, <2>2 DEF M!Emit
<1> HIDE DEF s1, s2, s3, s4, s5, s6, s7, d1, d2
<1> DEFINE k1 == <<s2>>
           k2 == <<s2, d2>>
<1>6. k1 = Append(<<>>, s2) /\ k2 = Append(k1, d2)
  OBVIOUS
<1>7. EventLines(e) = k2
  BY DEF EventLines, a, b, s2, d2
<1> HIDE DEF k1, k2
<1>8. \A s \in Text, x \in Symbol : Cut(Append(s, x)) = Extend(Cut(s), x)
  BY CutOfAppend DEF Text
<1>9. Cut(<<>>) = C(<<>>, <<>>) /\ <<>> \in Text
  BY CutOfAppend DEF NoText, Text
<1>10. \A l, r, x : x # "newline" => Extend(C(l, r), x) = C(l, Append(r, x))
  BY DEF Extend
<1>11. \A l, r : Extend(C(l, r), "newline") = C(Append(l, r), <<>>)
  BY DEF Extend
<1>12. "event:" # "newline" /\ "data:" # "newline"
  OBVIOUS
<1> HIDE DEF C
<1>13. Cut(s1) = C(<<>>, s1)
  <2>1. Cut(s1) = Extend(Cut(<<>>), "event:")
    BY <1>2, <1>4, <1>8, <1>9, Zenon
  <2>2. Extend(C(<<>>, <<>>), "event:") = C(<<>>, Append(<<>>, "event:"))
    BY <1>10, <1>12, Zenon
  <2>3. QED
    BY <1>4, <1>9, <2>1, <2>2, Zenon
<1>14. Cut(s2) = C(<<>>, s2)
  BY <1>1, <1>3, <1>4, <1>8, <1>10, <1>13
<1>15. Cut(s3) = C(k1, <<>>)
  <2>1. Cut(s3) = Extend(Cut(s2), "newline")
    BY <1>2, <1>3, <1>4, <1>8, Zenon
  <2>2. Extend(C(<<>>, s2), "newline") = C(Append(<<>>, s2), <<>>)
    BY <1>11, Zenon
  <2>3. QED
    BY <1>6, <1>14, <2>1, <2>2, Zenon
<1>16. Cut(s4) = C(k1, d1)
  <2>1. Cut(s4) = Extend(Cut(s3), "data:")
    BY <1>2, <1>3, <1>4, <1>8, Zenon
  <2>2. Extend(C(k1, <<>>), "data:") = C(k1, Append(<<>>, "data:"))
    BY <1>10, <1>12, Zenon
  <2>3. QED
    BY <1>4, <1>15, <2>1, <2>2, Zenon
<1>17. Cut(s5) = C(k1, d2)
  BY <1>1, <1>3, <1>4, <1>8, <1>10, <1>16
<1>18. Cut(s6) = C(k2, <<>>)
  BY <1>2, <1>3, <1>4, <1>6, <1>8, <1>11, <1>17
<1>19. Cut(s7) = C(Append(k2, <<>>), <<>>)
  BY <1>2, <1>3, <1>4, <1>8, <1>11, <1>18
<1>20. QED
  BY <1>3, <1>5, <1>7, <1>18, <1>19 DEF C

\* Its lines say it, to a parser between two events.
LEMMA SaidOfEvent ==
    ASSUME NEW e \in MockedEvent, NEW l \in Seq(Text), NEW before,
           Said(l) = [field |-> Unset, events |-> before]
    PROVE  /\ Said(l \o EventLines(e)).events = before
           /\ Said(l \o Append(EventLines(e), <<>>)) = [field |-> Unset, events |-> Append(before, Heard(e))]
<1> DEFINE x == <<"event:", e.event>>
           y == <<"data:", e.data>>
<1>1. x \in Text /\ y \in Text /\ <<>> \in Text
  <2>1. e.event \in Symbol /\ e.data \in Symbol /\ "event:" \in Symbol /\ "data:" \in Symbol
    BY DEF MockedEvent, Symbol
  <2>2. QED
    BY <2>1 DEF Text
<1>2. /\ x # <<>> /\ Head(x) = "event:" /\ Tail(x) = <<e.event>>
      /\ y # <<>> /\ Head(y) = "data:" /\ Tail(y) = <<e.data>>
  OBVIOUS
<1>3. /\ l \o EventLines(e) = Append(Append(l, x), y)
      /\ l \o Append(EventLines(e), <<>>) = Append(Append(Append(l, x), y), <<>>)
  <2> DEFINE S == Text
  <2>1. EventLines(e) = Append(Append(<<>>, x), y)
    BY DEF EventLines
  <2> HIDE DEF x, y
  <2>2. l \in Seq(S) /\ x \in S /\ y \in S /\ <<>> \in S
    BY <1>1
  <2> HIDE DEF S
  <2>3. l \o <<>> = l /\ <<>> \in Seq(S)
    BY <2>2
  <2>4. /\ Append(<<>>, x) \in Seq(S) /\ Append(Append(<<>>, x), y) \in Seq(S)
    BY <2>2
  <2>5. Append(l, x) = l \o Append(<<>>, x)
    BY <2>2, <2>3, ConcatOfAppend
  <2>6. Append(Append(l, x), y) = l \o Append(Append(<<>>, x), y)
    BY <2>2, <2>4, <2>5, ConcatOfAppend
  <2>7. Append(Append(Append(l, x), y), <<>>) = l \o Append(Append(Append(<<>>, x), y), <<>>)
    BY <2>2, <2>4, <2>6, ConcatOfAppend
  <2>8. QED
    BY <2>1, <2>6, <2>7
<1> HIDE DEF x, y
<1>4. Append(l, x) \in Seq(Text) /\ Append(Append(l, x), y) \in Seq(Text)
  <2> DEFINE S == Text
  <2>1. l \in Seq(S) /\ x \in S /\ y \in S
    BY <1>1
  <2> HIDE DEF S
  <2>2. Append(l, x) \in Seq(S) /\ Append(Append(l, x), y) \in Seq(S)
    BY <2>1
  <2>3. QED
    BY <2>2 DEF S
<1>5. \A k \in Seq(Text), t \in Text : Said(Append(k, t)) = Process(Said(k), t)
  BY SaidOfAppend
<1> DEFINE f1 == [event |-> <<e.event>>, data |-> <<>>]
<1>6. Process([field |-> Unset, events |-> before], x) = [field |-> f1, events |-> before]
  <2>1. ProcessLine(Unset, x) = f1
    BY <1>2 DEF ProcessLine, Unset
  <2>2. ~Dispatches(Unset, x)
    BY <1>2 DEF Dispatches
  <2>3. QED
    BY <2>1, <2>2 DEF Process
<1>7. Process([field |-> f1, events |-> before], y) = [field |-> Heard(e), events |-> before]
  <2>1. <<>> \o <<e.data>> = <<e.data>>
    OBVIOUS
  <2>2. ProcessLine(f1, y) = Heard(e)
    BY <1>2, <2>1 DEF ProcessLine, Heard
  <2>3. ~Dispatches(f1, y)
    BY <1>2 DEF Dispatches
  <2>4. QED
    BY <2>2, <2>3 DEF Process
<1>8. Process([field |-> Heard(e), events |-> before], <<>>) = [field |-> Unset, events |-> Append(before, Heard(e))]
  <2>1. Heard(e).data # <<>>
    BY DEF Heard
  <2>2. QED
    BY <2>1 DEF Process, ProcessLine, Dispatches
<1> HIDE DEF f1
<1>9. /\ Said(Append(l, x)) = [field |-> f1, events |-> before]
      /\ Said(Append(Append(l, x), y)) = [field |-> Heard(e), events |-> before]
      /\ Said(Append(Append(Append(l, x), y), <<>>)) = [field |-> Unset, events |-> Append(before, Heard(e))]
  BY <1>1, <1>4, <1>5, <1>6, <1>7, <1>8
<1>10. Said(l \o EventLines(e)).events = before
  BY <1>3, <1>9
<1>11. QED
  BY <1>3, <1>9, <1>10

\* The texts that the helpers send
Emitted(m) == FlattenSeq([i \in DOMAIN m |-> M!Emit(m[i])])
Formatted(m) == FlattenSeq([i \in DOMAIN m |-> (IF i = 1 THEN <<>> ELSE <<"newline">>) \o M!EventText(m[i])])
ArrivedOf(m) == [i \in DOMAIN m |-> Heard(m[i])]

\* One text more is appended to what the others are together.
LEMMA FlattenOfOneMore ==
    ASSUME NEW n \in Nat, NEW g \in [1..n -> Text], NEW h \in [1..(n + 1) -> Text],
           \A i \in 1..n : h[i] = g[i]
    PROVE  FlattenSeq(h) = FlattenSeq(g) \o h[n + 1] /\ FlattenSeq(g) \in Text
<1> DEFINE S == Text
           z == h[n + 1]
<1>1. z \in S
  OBVIOUS
<1>2. g \in [1..n -> S] /\ h \in [1..(n + 1) -> S] /\ \A i \in 1..(n + 1) : h[i] = IF i = n + 1 THEN z ELSE g[i]
  OBVIOUS
<1> HIDE DEF S, z
<1>3. g \in Seq(S) /\ Len(g) = n /\ h \in Seq(S) /\ Len(h) = n + 1
  BY <1>2
<1>4. /\ Append(g, z) \in Seq(S) /\ Len(Append(g, z)) = n + 1
      /\ \A i \in 1..(n + 1) : Append(g, z)[i] = IF i = n + 1 THEN z ELSE g[i]
  BY <1>1, <1>3, AppendProperties
<1>5. h = Append(g, z)
  BY <1>2, <1>3, <1>4, SeqEqual
<1>6. g \in Seq(Seq(Symbol)) /\ z \in Seq(Symbol)
  BY <1>1, <1>3 DEF S, Text
<1>7. FlattenSeq(h) = FlattenSeq(g) \o z /\ FlattenSeq(g) \in Seq(Symbol)
  BY <1>5, <1>6, FlattenOfAppend, FlattenTypes
<1>8. QED
  BY <1>7 DEF z, Text

\* They grow by one event: a response is a stream whose last event lacks the empty line.
LEMMA TextsOfAppend ==
    /\ Emitted(<<>>) = <<>> /\ Formatted(<<>>) = <<>>
    /\ \A m \in Seq(MockedEvent), e \in MockedEvent :
          /\ Emitted(m) \in Text
          /\ Emitted(Append(m, e)) = Emitted(m) \o M!Emit(e)
          /\ Formatted(Append(m, e)) = Formatted(m) \o ((IF m = <<>> THEN <<>> ELSE <<"newline">>) \o M!EventText(e))
          /\ Formatted(m) \in Text
<1>1. [i \in DOMAIN <<>> |-> M!Emit(<<>>[i])] = <<>> /\ FlattenSeq(<<>>) = <<>>
  BY FlattenOfAppend
<1>2. [i \in DOMAIN <<>> |-> (IF i = 1 THEN <<>> ELSE <<"newline">>) \o M!EventText(<<>>[i])] = <<>>
  OBVIOUS
<1>3. ASSUME NEW m \in Seq(MockedEvent), NEW e \in MockedEvent
      PROVE  /\ Emitted(m) \in Text
             /\ Emitted(Append(m, e)) = Emitted(m) \o M!Emit(e)
             /\ Formatted(Append(m, e)) = Formatted(m) \o ((IF m = <<>> THEN <<>> ELSE <<"newline">>) \o M!EventText(e))
             /\ Formatted(m) \in Text
  <2> DEFINE Piece(i, v) == (IF i = 1 THEN <<>> ELSE <<"newline">>) \o M!EventText(v)
             t == Append(m, e)
             n == Len(m)
  <2>1. /\ n \in Nat /\ DOMAIN m = 1..n /\ DOMAIN t = 1..(n + 1) /\ (n = 0 <=> m = <<>>)
        /\ \A i \in 1..n : t[i] = m[i] /\ m[i] \in MockedEvent
        /\ t[n + 1] = e
    <3> DEFINE S == MockedEvent
    <3>1. m \in Seq(S) /\ e \in S
      OBVIOUS
    <3> HIDE DEF S
    <3>2. /\ n \in Nat /\ DOMAIN m = 1..n /\ DOMAIN t = 1..(n + 1) /\ (n = 0 <=> m = <<>>)
          /\ \A i \in 1..n : t[i] = m[i] /\ m[i] \in S
          /\ t[n + 1] = e
      BY <3>1, AppendFacts, AppendProperties, EmptySeq
    <3>3. QED
      BY <3>2 DEF S
  <2>2. \A i : \A v \in MockedEvent : M!Emit(v) \in Text /\ Piece(i, v) \in Text
    <3> TAKE i
    <3> TAKE v \in MockedEvent
    <3>1. M!Emit(v) \in Text /\ M!EventText(v) \in Text
      BY CutOfEvent
    <3>2. <<>> \in Text /\ <<"newline">> \in Text
      BY DEF Text, Symbol
    <3>3. QED
      BY <3>1, <3>2 DEF Text
  <2> HIDE DEF t, n, Piece
  <2>3. Emitted(t) = Emitted(m) \o M!Emit(e) /\ Emitted(m) \in Text
    <3> DEFINE g == [i \in DOMAIN m |-> M!Emit(m[i])]
               h == [i \in DOMAIN t |-> M!Emit(t[i])]
    <3>1. /\ g \in [1..n -> Text] /\ h \in [1..(n + 1) -> Text]
          /\ \A i \in 1..n : h[i] = g[i]
          /\ h[n + 1] = M!Emit(e)
      <4>1. \A v \in MockedEvent : M!Emit(v) \in Text
        BY <2>2
      <4>2. \A i \in 1..(n + 1) : t[i] \in MockedEvent
        BY <2>1
      <4>3. QED
        BY <2>1, <4>1, <4>2
    <3> HIDE DEF g, h
    <3>2. FlattenSeq(h) = FlattenSeq(g) \o M!Emit(e) /\ FlattenSeq(g) \in Text
      BY <2>1, <3>1, FlattenOfOneMore
    <3>3. QED
      BY <3>2 DEF g, h, Emitted
  <2>4. Formatted(t) = Formatted(m) \o Piece(n + 1, e) /\ Formatted(m) \in Text
    <3> DEFINE g == [i \in DOMAIN m |-> Piece(i, m[i])]
               h == [i \in DOMAIN t |-> Piece(i, t[i])]
    <3>1. /\ g \in [1..n -> Text] /\ h \in [1..(n + 1) -> Text]
          /\ \A i \in 1..n : h[i] = g[i]
          /\ h[n + 1] = Piece(n + 1, e)
      BY <2>1, <2>2
    <3> HIDE DEF g, h
    <3>2. FlattenSeq(h) = FlattenSeq(g) \o Piece(n + 1, e) /\ FlattenSeq(g) \in Text
      BY <2>1, <3>1, FlattenOfOneMore
    <3>3. QED
      BY <3>2 DEF g, h, Formatted, Piece
  <2>6. Piece(n + 1, e) = (IF m = <<>> THEN <<>> ELSE <<"newline">>) \o M!EventText(e)
    BY <2>1 DEF Piece
  <2>7. QED
    BY <2>3, <2>4, <2>6 DEF t
<1>4. QED
  BY <1>1, <1>2, <1>3 DEF Emitted, Formatted

\* One event more arrives.
LEMMA ArrivedOfAppend ==
    \A m \in Seq(MockedEvent), e \in MockedEvent : ArrivedOf(Append(m, e)) = Append(ArrivedOf(m), Heard(e))
<1> DEFINE S == MockedEvent
           V == {Heard(d) : d \in S}
<1> TAKE m \in Seq(MockedEvent), e \in MockedEvent
<1> DEFINE t == Append(m, e)
           n == Len(m)
           g == ArrivedOf(m)
           h == ArrivedOf(t)
           z == Heard(e)
<1>1. m \in Seq(S) /\ e \in S
  OBVIOUS
<1>2. \A d \in S : Heard(d) \in V
  OBVIOUS
<1> HIDE DEF S, V
<1>3. /\ n \in Nat /\ DOMAIN m = 1..n /\ DOMAIN t = 1..(n + 1)
      /\ \A i \in 1..n : t[i] = m[i] /\ m[i] \in S
      /\ t[n + 1] = e
  BY <1>1, AppendFacts, AppendProperties
<1> HIDE DEF t, n
<1>4. /\ g \in [1..n -> V] /\ h \in [1..(n + 1) -> V] /\ z \in V
      /\ \A i \in 1..(n + 1) : h[i] = IF i = n + 1 THEN z ELSE g[i]
  BY <1>1, <1>2, <1>3 DEF ArrivedOf
<1> HIDE DEF g, h, z
<1>5. g \in Seq(V) /\ Len(g) = n /\ h \in Seq(V) /\ Len(h) = n + 1
  BY <1>3, <1>4
<1>6. /\ Append(g, z) \in Seq(V) /\ Len(Append(g, z)) = n + 1
      /\ \A i \in 1..(n + 1) : Append(g, z)[i] = IF i = n + 1 THEN z ELSE g[i]
  BY <1>3, <1>4, <1>5, AppendProperties
<1>7. h = Append(g, z)
  BY <1>3, <1>4, <1>5, <1>6, SeqEqual
<1>8. QED
  BY <1>7 DEF g, h, z, t

\* A sequence that is not empty ends with its last element.
LEMMA LastOfSequence ==
    ASSUME NEW S, NEW s \in Seq(S), s # <<>>
    PROVE  \E p \in Seq(S), e \in S : s = Append(p, e) /\ Front(s) = p
<1>1. Len(s) \in Nat /\ Len(s) # 0
  BY EmptySeq, LenProperties
<1>2. /\ SubSeq(s, 1, Len(s) - 1) \in Seq(S)
      /\ s[Len(s)] \in S
      /\ s = Append(SubSeq(s, 1, Len(s) - 1), s[Len(s)])
  BY <1>1
<1>3. QED
  BY <1>2 DEF Front

\* The lines of two texts one after the other
LEMMA LinesOfConcat ==
    ASSUME NEW s \in Text, NEW t \in Text
    PROVE  /\ Cut(s \o t).lines = Cut(s).lines \o Cut(Cut(s).rest \o t).lines
           /\ Cut(s \o t).rest = Cut(Cut(s).rest \o t).rest
<1> DEFINE c == Cut(s \o t)
           x == Cut(s).lines \o Cut(Cut(s).rest \o t).lines
           y == Cut(Cut(s).rest \o t).rest
<1>1. c = [lines |-> x, rest |-> y]
  BY CutOfConcat
<1> HIDE DEF c, x, y
<1>2. c.lines = x /\ c.rest = y
  BY <1>1
<1>3. QED
  BY <1>2 DEF c, x, y

\* Texts one after another.
LEMMA TextConcat ==
    \A a, b, c \in Text : /\ (a \o b) \o c = a \o (b \o c) /\ a \o b \in Text
                          /\ <<>> \o a = a /\ a \o <<>> = a
<1> DEFINE S == Symbol
<1> HIDE DEF S
<1>1. \A a, b, c \in Seq(S) : /\ (a \o b) \o c = a \o (b \o c) /\ a \o b \in Seq(S)
                              /\ <<>> \o a = a /\ a \o <<>> = a
  OBVIOUS
<1>2. QED
  BY <1>1 DEF S, Text

\* The newline between two texts may as well end the first.
LEMMA NewlineBetween ==
    ASSUME NEW a \in Text, NEW b \in Text, NEW n \in Text, NEW c \in Text
    PROVE  (a \o b) \o (n \o c) = (a \o (b \o n)) \o c
<1>1. a \in Seq(Symbol) /\ b \in Seq(Symbol) /\ n \in Seq(Symbol) /\ c \in Seq(Symbol)
  BY DEF Text
<1>2. QED
  BY <1>1

\* A response is a stream whose last event lacks the empty line.
LEMMA FormattedIsEmitted ==
    \A m \in Seq(MockedEvent), e \in MockedEvent : Formatted(Append(m, e)) = Emitted(m) \o M!EventText(e)
<1> DEFINE S == MockedEvent
           T == {m \in Seq(S) : \A e \in S : Formatted(Append(m, e)) = Emitted(m) \o M!EventText(e)}
<1>1. \A e \in S : M!EventText(e) \in Text
  BY CutOfEvent
<1>2. <<"newline">> \in Text /\ <<>> \in Text
  BY DEF Text, Symbol
<1>3. /\ Emitted(<<>>) = <<>> /\ Formatted(<<>>) = <<>>
      /\ \A m \in Seq(S), e \in S :
            /\ Emitted(m) \in Text
            /\ Emitted(Append(m, e)) = Emitted(m) \o M!Emit(e)
            /\ Formatted(Append(m, e)) = Formatted(m) \o ((IF m = <<>> THEN <<>> ELSE <<"newline">>) \o M!EventText(e))
  BY TextsOfAppend
<1>4. <<>> \in T
  <2>1. ASSUME NEW e \in S PROVE Formatted(Append(<<>>, e)) = Emitted(<<>>) \o M!EventText(e)
    <3>1. <<>> \in Seq(S)
      OBVIOUS
    <3>2. Formatted(Append(<<>>, e)) = <<>> \o (<<>> \o M!EventText(e))
      BY <1>3, <3>1, Zenon
    <3>3. <<>> \o M!EventText(e) = M!EventText(e)
      BY <1>1, <1>2, TextConcat
    <3>4. QED
      BY <1>3, <3>2, <3>3
  <2>2. QED
    BY <2>1
<1>5. ASSUME NEW m \in Seq(S), NEW d \in S, m \in T PROVE Append(m, d) \in T
  <2> DEFINE t == Append(m, d)
  <2>1. t \in Seq(S) /\ t # <<>>
    <3>1. m \in Seq(S) /\ d \in S
      OBVIOUS
    <3> HIDE DEF S, T
    <3>2. QED
      BY <3>1, AppendProperties
  <2>2. ASSUME NEW e \in S PROVE Formatted(Append(t, e)) = Emitted(t) \o M!EventText(e)
    <3> DEFINE a == Emitted(m)
               b == M!EventText(d)
               c == M!EventText(e)
               n == <<"newline">>
    <3>1. a \in Text /\ b \in Text /\ c \in Text /\ n \in Text
      BY <1>1, <1>2, <1>3
    <3>2. Formatted(t) = a \o b
      BY <1>5
    <3>3. Formatted(Append(t, e)) = Formatted(t) \o (n \o c)
      BY <1>3, <2>1, Zenon
    <3>4. Emitted(t) = a \o (b \o n)
      BY <1>3 DEF M!Emit
    <3> HIDE DEF a, b, c, n, t
    <3>5. (a \o b) \o (n \o c) = (a \o (b \o n)) \o c
      <4>1. \A x, y, z, w \in Text : (x \o y) \o (z \o w) = (x \o (y \o z)) \o w
        BY NewlineBetween
      <4> DEFINE And(x, y) == x \o y
      <4>2. \A x, y, z, w \in Text : And(And(x, y), And(z, w)) = And(And(x, And(y, z)), w)
        BY <4>1, Zenon
      <4> HIDE DEF And
      <4>3. And(And(a, b), And(n, c)) = And(And(a, And(b, n)), c)
        BY <3>1, <4>2
      <4>4. QED
        BY <4>3 DEF And
    <3>6. QED
      BY <3>2, <3>3, <3>4, <3>5 DEF c
  <2>3. QED
    BY <2>1, <2>2
<1> HIDE DEF T
<1>6. Seq(S) \subseteq T
  <2> HIDE DEF S
  <2>1. QED
    BY <1>4, <1>5, SequenceInduction
<1>7. QED
  BY <1>6 DEF T

\* The lines of a stream say its events, and leave the parser between two.
LEMMA EmittedSays ==
    \A m \in Seq(MockedEvent) :
        /\ Emitted(m) \in Text
        /\ Cut(Emitted(m)).lines \in Seq(Text) /\ Cut(Emitted(m)).rest = <<>>
        /\ Said(Cut(Emitted(m)).lines) = [field |-> Unset, events |-> ArrivedOf(m)]
<1> DEFINE S == MockedEvent
           Says(m) == /\ Cut(Emitted(m)).rest = <<>>
                      /\ Said(Cut(Emitted(m)).lines) = [field |-> Unset, events |-> ArrivedOf(m)]
           T == {m \in Seq(S) : Says(m)}
<1>1. \A m \in Seq(S) : Emitted(m) \in Text /\ Cut(Emitted(m)).lines \in Seq(Text)
  <2>1. ASSUME NEW m \in Seq(S) PROVE Emitted(m) \in Text
    <3>1. CASE m = <<>>
      <4>1. Emitted(<<>>) = <<>> /\ <<>> \in Text
        BY TextsOfAppend DEF Text
      <4>2. QED
        BY <3>1, <4>1, Zenon
    <3>2. CASE m # <<>>
      <4>1. S # {}
        BY <3>2, LastOfSequence
      <4>2. QED
        BY <4>1, TextsOfAppend
    <3>3. QED
      BY <3>1, <3>2
  <2>2. QED
    BY <2>1, CutTypes
<1>2. <<>> \in T
  <2>1. Emitted(<<>>) = <<>> /\ Cut(<<>>) = NoText /\ Said(<<>>) = NothingSaid
    BY TextsOfAppend, CutOfAppend, SaidOfAppend
  <2>2. ArrivedOf(<<>>) = <<>>
    BY DEF ArrivedOf
  <2>3. Says(<<>>)
    BY <2>1, <2>2 DEF NoText, NothingSaid
  <2>4. <<>> \in Seq(S)
    OBVIOUS
  <2>5. QED
    BY <2>3, <2>4
<1>3. ASSUME NEW m \in Seq(S), NEW e \in S, m \in T PROVE Append(m, e) \in T
  <2>1. Append(m, e) \in Seq(S)
    <3> HIDE DEF S
    <3>1. QED
      OBVIOUS
  <2> DEFINE l == Cut(Emitted(m)).lines
             t == Append(m, e)
  <2>2. Emitted(t) = Emitted(m) \o M!Emit(e) /\ M!Emit(e) \in Text /\ Emitted(m) \in Text
    BY <1>1, TextsOfAppend, CutOfEvent
  <2>3. Cut(Emitted(t)) = [lines |-> l \o Append(EventLines(e), <<>>), rest |-> <<>>]
    <3>1. <<>> \o M!Emit(e) = M!Emit(e)
      BY <2>2, TextConcat
    <3>2. Cut(M!Emit(e)) = [lines |-> Append(EventLines(e), <<>>), rest |-> <<>>]
      BY CutOfEvent
    <3>3. /\ Cut(Emitted(t)).lines = l \o Cut(<<>> \o M!Emit(e)).lines
          /\ Cut(Emitted(t)).rest = Cut(<<>> \o M!Emit(e)).rest
      BY <1>3, <2>2, LinesOfConcat
    <3>4. /\ Cut(<<>> \o M!Emit(e)).lines = Append(EventLines(e), <<>>)
          /\ Cut(<<>> \o M!Emit(e)).rest = <<>>
      BY <3>1, <3>2
    <3>5. Cut(Emitted(t)) = [lines |-> Cut(Emitted(t)).lines, rest |-> Cut(Emitted(t)).rest]
      BY <1>1, <2>1, CutTypes
    <3>6. QED
      BY <3>3, <3>4, <3>5
  <2>4. Said(l \o Append(EventLines(e), <<>>)) = [field |-> Unset, events |-> Append(ArrivedOf(m), Heard(e))]
    <3>1. Said(l) = [field |-> Unset, events |-> ArrivedOf(m)] /\ l \in Seq(Text)
      BY <1>1, <1>3
    <3> HIDE DEF l
    <3>2. QED
      BY <3>1, SaidOfEvent
  <2>5. ArrivedOf(t) = Append(ArrivedOf(m), Heard(e))
    BY ArrivedOfAppend
  <2>6. Says(t)
    BY <2>3, <2>4, <2>5
  <2>7. QED
    BY <2>1, <2>6
<1> HIDE DEF T
<1>4. Seq(S) \subseteq T
  <2> HIDE DEF S
  <2>1. QED
    BY <1>2, <1>3, SequenceInduction
<1>5. QED
  BY <1>1, <1>4 DEF T

\* All the events of a stream reach the client, and all but perhaps the last of a response.
LEMMA MockedEventsAlwaysArrive == \A m \in Seq(MockedEvent) : MockedEventsArrive(m)
<1> SUFFICES ASSUME NEW m \in Seq(MockedEvent) PROVE MockedEventsArrive(m)
  OBVIOUS
<1>1. /\ M!MockSseStream(m) = Emitted(m) /\ M!FormatSseResponse(m) = Formatted(m)
  BY FlattenOfMocks DEF M!MockSseStream, M!FormatSseResponse, Emitted, Formatted
<1>2. Events(Emitted(m)) = ArrivedOf(m)
  <2>1. Said(Cut(Emitted(m)).lines) = [field |-> Unset, events |-> ArrivedOf(m)]
    BY EmittedSays
  <2>2. QED
    BY <2>1 DEF Events
<1>3. Events(Formatted(m)) = ArrivedOf(IF m = <<>> THEN <<>> ELSE Front(m))
  <2>1. CASE m = <<>>
    <3>1. Formatted(m) = <<>> /\ Emitted(m) = <<>>
      BY <2>1, TextsOfAppend
    <3>2. QED
      BY <1>2, <2>1, <3>1
  <2>2. CASE m # <<>>
    <3>1. PICK p \in Seq(MockedEvent), e \in MockedEvent : m = Append(p, e) /\ Front(m) = p
      BY <2>2, LastOfSequence
    <3> DEFINE l == Cut(Emitted(p)).lines
    <3>2. Formatted(m) = Emitted(p) \o M!EventText(e) /\ M!EventText(e) \in Text
      BY <3>1, FormattedIsEmitted, CutOfEvent
    <3>3. /\ Emitted(p) \in Text /\ l \in Seq(Text) /\ Cut(Emitted(p)).rest = <<>>
          /\ Said(l) = [field |-> Unset, events |-> ArrivedOf(p)]
      BY EmittedSays
    <3>4. Cut(Emitted(p) \o M!EventText(e)).lines = l \o Cut(<<>> \o M!EventText(e)).lines
      BY <3>2, <3>3, LinesOfConcat
    <3>5. <<>> \o M!EventText(e) = M!EventText(e)
      BY <3>2, TextConcat, <3>3
    <3>6. Cut(M!EventText(e)).lines = EventLines(e)
      BY CutOfEvent
    <3> HIDE DEF l
    <3>7. Said(l \o EventLines(e)).events = ArrivedOf(p)
      BY <3>3, SaidOfEvent
    <3>8. QED
      BY <2>2, <3>1, <3>2, <3>4, <3>5, <3>6, <3>7 DEF Events
  <2>3. QED
    BY <2>1, <2>2
<1>4. QED
  BY <1>1, <1>2, <1>3 DEF MockedEventsArrive, ArrivedOf, Heard

\* It begins as its first sequence does.
LEMMA FlattenBegins ==
    ASSUME NEW S, NEW s \in Seq(Seq(S)), s # <<>>, s[1] # <<>>
    PROVE  FlattenSeq(s) # <<>> /\ FlattenSeq(s)[1] = s[1][1]
<1> DEFINE Q == Seq(S)
           F(r) == FlattenSeq(r)
           Begins(r) == r # <<>> /\ r[1] # <<>> => F(r) # <<>> /\ F(r)[1] = r[1][1]
           T == {r \in Seq(Q) : Begins(r)}
<1>1. /\ F(<<>>) = <<>>
      /\ \A r \in Seq(Q), x \in Q : F(Append(r, x)) = F(r) \o x /\ F(r) \in Q
  BY FlattenOfAppend, FlattenTypes
<1>2. <<>> \in Q /\ \A a, b \in Q : /\ <<>> \o a = a
                                    /\ a # <<>> => a \o b # <<>> /\ (a \o b)[1] = a[1]
  OBVIOUS
<1> HIDE DEF F, Q
<1>3. <<>> \in T
  OBVIOUS
<1>4. ASSUME NEW r \in Seq(Q), NEW x \in Q, r \in T PROVE Append(r, x) \in T
  <2> DEFINE t == Append(r, x)
  <2>1. t \in Seq(Q) /\ F(t) = F(r) \o x /\ F(r) \in Q
    BY <1>1
  <2>2. CASE r = <<>>
    <3>1. t[1] = x
      <4>1. r \in Seq(Q) /\ Len(r) = 0
        BY <2>2
      <4>2. t[0 + 1] = x
        BY <4>1, AppendFacts
      <4>3. QED
        BY <4>2
    <3>2. F(t) = x
      BY <1>1, <1>2, <2>1, <2>2
    <3>3. QED
      BY <2>1, <3>1, <3>2
  <2>3. CASE r # <<>>
    <3>1. t[1] = r[1]
      <4>1. r \in Seq(Q) /\ Len(r) \in Nat /\ Len(r) # 0
        BY <2>3, EmptySeq, LenProperties
      <4>2. 1 \in 1..Len(r)
        BY <4>1
      <4>3. QED
        BY <4>1, <4>2, AppendFacts
    <3>2. ASSUME t[1] # <<>> PROVE F(t) # <<>> /\ F(t)[1] = t[1][1]
      <4>1. F(r) # <<>> /\ F(r)[1] = r[1][1]
        BY <1>4, <2>3, <3>1, <3>2
      <4>2. F(t) # <<>> /\ F(t)[1] = F(r)[1]
        BY <1>2, <2>1, <4>1
      <4>3. QED
        BY <3>1, <4>1, <4>2
    <3>3. QED
      BY <2>1, <3>2
  <2>4. QED
    BY <2>2, <2>3
<1>5. s \in T
  <2>1. Seq(Q) \subseteq T
    BY <1>3, <1>4, SequenceInduction
  <2>2. QED
    BY <2>1 DEF Q
<1>6. QED
  BY <1>5 DEF F

-----------------------------------------------------------------------------
(* Paths *)

\* What the paths of a contract are made of
Segment(names) == STRING \cup {"/", "v1"} \cup {R!Placeholder(n) : n \in names}

\* A path is as long as its template when every parameter has one segment, which is then
\* at its place, and longer otherwise; it begins with the template's first word.
LEMMA PathOfTemplate ==
    ASSUME NEW S, NEW t \in Seq(S), NEW names, NEW values \in [names -> Seq(S) \ {<<>>}]
    PROVE  LET path == R!PathResolver(t, values)
           IN  /\ path \in Seq(S) /\ Len(path) >= Len(t)
               /\ Len(path) = Len(t) =>
                     \A i \in 1..Len(t) : IF t[i] \in names THEN Len(values[t[i]]) = 1 /\ path[i] = values[t[i]][1]
                                          ELSE path[i] = t[i]
               /\ (\A n \in names : Len(values[n]) = 1) => Len(path) = Len(t)
               /\ t # <<>> /\ t[1] \notin names => path # <<>> /\ path[1] = t[1]
<1> DEFINE path == R!PathResolver(t, values)
           parts == [i \in DOMAIN t |-> IF t[i] \in DOMAIN values THEN values[t[i]] ELSE <<t[i]>>]
<1>1. path = FlattenSeq(parts)
  BY DEF R!PathResolver, R!FlattenSeq, FlattenSeq
<1>2. DOMAIN t = 1..Len(t) /\ Len(t) \in Nat /\ \A i \in 1..Len(t) : t[i] \in S
  BY LenProperties, ElementOfSeq
<1>3. \A x \in S : <<x>> \in Seq(S) /\ <<x>> # <<>> /\ Len(<<x>>) = 1 /\ <<x>>[1] = x
  OBVIOUS
<1>4. /\ parts \in [1..Len(t) -> Seq(S)]
      /\ \A i \in 1..Len(t) : /\ parts[i] # <<>>
                              /\ t[i] \in names => parts[i] = values[t[i]]
                              /\ t[i] \notin names => parts[i] = <<t[i]>>
  BY <1>2, <1>3
<1> HIDE DEF path, parts
<1>5. parts \in Seq(Seq(S)) /\ Len(parts) = Len(t) /\ DOMAIN parts = 1..Len(t)
  <2> DEFINE Q == Seq(S)
  <2>1. parts \in [1..Len(t) -> Q]
    BY <1>4
  <2> HIDE DEF Q
  <2>2. parts \in Seq(Q) /\ Len(parts) = Len(t) /\ DOMAIN parts = 1..Len(t)
    BY <1>2, <2>1
  <2>3. QED
    BY <2>2 DEF Q
<1>6. /\ path \in Seq(S) /\ Len(path) >= Len(t)
      /\ Len(path) = Len(t) => \A i \in 1..Len(t) : Len(parts[i]) = 1 /\ path[i] = parts[i][1]
      /\ (\A i \in 1..Len(t) : Len(parts[i]) = 1) => Len(path) = Len(t)
  BY <1>1, <1>4, <1>5, FlattenLengths
<1>7. ASSUME Len(path) = Len(t), NEW i \in 1..Len(t)
      PROVE  IF t[i] \in names THEN Len(values[t[i]]) = 1 /\ path[i] = values[t[i]][1] ELSE path[i] = t[i]
  BY <1>2, <1>3, <1>4, <1>6, <1>7
<1>8. ASSUME \A n \in names : Len(values[n]) = 1 PROVE Len(path) = Len(t)
  <2>1. \A i \in 1..Len(t) : Len(parts[i]) = 1
    <3> TAKE i \in 1..Len(t)
    <3>1. CASE t[i] \in names
      BY <1>4, <1>8, <3>1
    <3>2. CASE t[i] \notin names
      <4>1. t[i] \in S /\ parts[i] = <<t[i]>>
        BY <1>2, <1>4, <3>2
      <4>2. Len(<<t[i]>>) = 1
        BY <1>3, <4>1
      <4>3. QED
        BY <4>1, <4>2
    <3>3. QED
      BY <3>1, <3>2
  <2>2. QED
    BY <1>6, <2>1
<1>9. ASSUME t # <<>>, t[1] \notin names PROVE path # <<>> /\ path[1] = t[1]
  <2>1. 1 \in 1..Len(t)
    BY <1>2, <1>9, EmptySeq
  <2>2. parts # <<>> /\ parts[1] # <<>> /\ parts[1] = <<t[1]>>
    BY <1>4, <1>5, <1>9, <2>1
  <2>3. path # <<>> /\ path[1] = parts[1][1]
    BY <1>1, <1>5, <2>2, FlattenBegins
  <2>4. QED
    BY <2>2, <2>3
<1>10. QED
  BY <1>6, <1>7, <1>8, <1>9 DEF path

\* What a request of a path is sent to below a prefix, with and without slashes around it
LEMMA RequestPath ==
    ASSUME NEW S, {"/", "v1"} \subseteq S, NEW path \in Seq(S), path # <<>>, path[1] = "/",
           NEW prefix \in {<<>>, <<"v1">>, <<"/", "v1">>, <<"v1", "/">>, <<"/", "v1", "/">>}
    PROVE  R!BuildRequestPath(path, prefix) = (IF prefix = <<>> THEN <<>> ELSE <<"/", "v1">>) \o path
<1> DEFINE tail == Tail(path)
<1>1. Head(path) = "/" /\ tail \in Seq(S) /\ path = <<"/">> \o tail
  OBVIOUS
<1>2. R!StartsWithSlash(path)
  BY <1>1 DEF R!StartsWithSlash
<1> HIDE DEF tail
<1>3. CASE prefix = <<>>
  BY <1>1, <1>2, <1>3 DEF R!BuildRequestPath, R!EnsureStartsWithSlash
<1>4. ASSUME NEW clean \in {<<"v1">>, <<"/", "v1">>}
      PROVE  R!EnsureStartsWithSlash(clean \o <<"/">> \o tail) = <<"/", "v1">> \o path
  <2>1. CASE clean = <<"v1">>
    <3>1. /\ clean \o <<"/">> \o tail # <<>> /\ Head(clean \o <<"/">> \o tail) = "v1"
          /\ <<"/">> \o (clean \o <<"/">> \o tail) = <<"/", "v1">> \o path
      BY <1>1, <2>1
    <3>2. QED
      BY <3>1 DEF R!EnsureStartsWithSlash, R!StartsWithSlash
  <2>2. CASE clean = <<"/", "v1">>
    <3>1. /\ clean \o <<"/">> \o tail # <<>> /\ Head(clean \o <<"/">> \o tail) = "/"
          /\ clean \o <<"/">> \o tail = <<"/", "v1">> \o path
      BY <1>1, <2>2
    <3>2. QED
      BY <3>1 DEF R!EnsureStartsWithSlash, R!StartsWithSlash
  <2>3. QED
    BY <2>1, <2>2
<1>5. CASE prefix # <<>>
  <2>1. PICK clean \in {<<"v1">>, <<"/", "v1">>} :
           clean = IF R!Last(prefix) = "/" THEN R!Front(prefix) ELSE prefix
    <3>1. /\ <<"v1">>[Len(<<"v1">>)] = "v1" /\ <<"/", "v1">>[Len(<<"/", "v1">>)] = "v1"
          /\ <<"v1", "/">>[Len(<<"v1", "/">>)] = "/" /\ <<"/", "v1", "/">>[Len(<<"/", "v1", "/">>)] = "/"
      OBVIOUS
    <3>2. /\ <<"v1">> = SubSeq(<<"v1", "/">>, 1, Len(<<"v1", "/">>) - 1)
          /\ <<"/", "v1">> = SubSeq(<<"/", "v1", "/">>, 1, Len(<<"/", "v1", "/">>) - 1)
      OBVIOUS
    <3>3. CASE prefix \in {<<"v1">>, <<"/", "v1">>}
      BY <3>1, <3>3 DEF R!Last
    <3>4. CASE prefix \in {<<"v1", "/">>, <<"/", "v1", "/">>}
      BY <3>1, <3>2, <3>4, Zenon DEF R!Last, R!Front
    <3>5. QED
      BY <1>5, <3>3, <3>4
  <2>2. R!BuildRequestPath(path, prefix) = R!EnsureStartsWithSlash(clean \o <<"/">> \o tail)
    BY <1>2, <1>5, <2>1 DEF R!BuildRequestPath, tail
  <2>3. QED
    BY <1>4, <1>5, <2>2
<1>6. QED
  BY <1>3, <1>5

-----------------------------------------------------------------------------
(* Contracts *)

\* The parts of a contract are those of its config.
LEMMA ContractOfConfig ==
    ASSUME NEW c, R!IsConfig(c)
    PROVE  LET made == R!BuildContract(c)
           IN  made.common = R!Common(c) /\ made.method = c.method /\ made.body = c.body
<1>1. c.body \in BOOLEAN /\ (c.body => c.method \in R!PayloadMethods)
  BY DEF R!IsConfig
<1>2. (c.method \in R!PayloadMethods /\ c.body) = c.body
  BY <1>1
<1>3. CASE c.events
  BY <1>3, Zenon DEF R!BuildContract, R!BuildSseContract
<1>4. CASE ~c.events
  BY <1>2, <1>4, Zenon DEF R!BuildContract, R!BuildRestContract, R!Rest
<1>5. QED
  BY <1>3, <1>4

\* A path fits a URL when they differ in the placeholders of the names, which have their
\* values.
Fits(url, path, names, value) ==
    /\ \A i \in DOMAIN url :
          \/ \E n \in names : url[i] = R!Placeholder(n) /\ path[i] = value[n]
          \/ url[i] = path[i] /\ \A n \in names : url[i] # R!Placeholder(n)
    /\ \A n \in names : \E i \in DOMAIN url : url[i] = R!Placeholder(n)

\* A request of a route's method has every part that the route declares.
Asks(route, asked, names) ==
    /\ route.method = asked.method /\ route.schema.params = names
    /\ (route.schema.body => asked.body) /\ (route.schema.query => asked.query)
    /\ (route.schema.headers => asked.headers)

\* A route of a contract, whatever its URL, handles a request of the same contract with
\* the values of its path when the path fits, and no path of another length.
LEMMA HandledWhenFits ==
    ASSUME NEW c, R!IsConfig(c), NEW route, NEW asked, NEW value,
           Asks(route, asked, c.params),
           \A n \in c.params : value[n] # "/"
    PROVE  /\ Len(route.url) # Len(asked.path) => R!Handled(route, asked) = [type |-> "404"]
           /\ Len(route.url) = Len(asked.path) /\ Fits(route.url, asked.path, c.params, value) =>
                 R!Handled(route, asked) =
                     [type |-> "handled", body |-> asked.body, values |-> [n \in c.params |-> value[n]]]
<1>1. ASSUME Len(route.url) # Len(asked.path) PROVE R!Handled(route, asked) = [type |-> "404"]
  BY <1>1, Zenon DEF R!Handled, R!Takes
<1> USE DEF Asks
<1>2. ASSUME Len(route.url) = Len(asked.path), Fits(route.url, asked.path, c.params, value)
      PROVE  R!Handled(route, asked) =
                 [type |-> "handled", body |-> asked.body, values |-> [n \in c.params |-> value[n]]]
  <2> DEFINE url == route.url
             path == asked.path
             place(n) == CHOOSE i \in DOMAIN url : url[i] = R!Placeholder(n)
  <2>1. R!Takes(route, asked)
    <3>1. ASSUME NEW i \in DOMAIN url
          PROVE  \/ url[i] = path[i]
                 \/ path[i] # "/" /\ \E n \in route.schema.params : url[i] = R!Placeholder(n)
      BY <1>2 DEF Fits
    <3>2. QED
      BY <1>2, <3>1 DEF R!Takes
  <2>2. ASSUME NEW n \in c.params PROVE path[place(n)] = value[n]
    <3>1. place(n) \in DOMAIN url /\ url[place(n)] = R!Placeholder(n)
      BY <1>2 DEF Fits
    <3>2. PICK k \in c.params : url[place(n)] = R!Placeholder(k) /\ path[place(n)] = value[k]
      BY <1>2, <3>1 DEF Fits
    <3>3. n = k
      <4>1. \A a, b \in c.params : R!Placeholder(a) = R!Placeholder(b) => a = b
        BY Zenon DEF R!IsConfig
      <4>2. QED
        BY <3>1, <3>2, <4>1
    <3>4. QED
      BY <3>2, <3>3
  <2>3. [n \in c.params |-> path[place(n)]] = [n \in c.params |-> value[n]]
    BY <2>2
  <2>4. R!Handled(route, asked) =
            [type |-> "handled", body |-> asked.body, values |-> [n \in c.params |-> path[place(n)]]]
    BY <2>1, Zenon DEF R!Handled
  <2>5. QED
    BY <2>3, <2>4
<1>3. QED
  BY <1>1, <1>2

\* What fits, fits below the same prefix.
LEMMA FitsBelow ==
    ASSUME NEW S, {"/", "v1"} \subseteq S, NEW url \in Seq(S), NEW path \in Seq(S), NEW names, NEW value,
           Len(url) = Len(path), Fits(url, path, names, value),
           \A n \in names : R!Placeholder(n) \notin {"/", "v1"}
    PROVE  Fits(<<"/", "v1">> \o url, <<"/", "v1">> \o path, names, value)
<1> DEFINE u == <<"/", "v1">> \o url
           p == <<"/", "v1">> \o path
<1>1. /\ DOMAIN url = 1..Len(url) /\ Len(url) \in Nat /\ DOMAIN u = 1..(Len(url) + 2)
      /\ u[1] = "/" /\ p[1] = "/" /\ u[2] = "v1" /\ p[2] = "v1"
      /\ \A i \in 1..Len(url) : u[i + 2] = url[i] /\ p[i + 2] = path[i]
  OBVIOUS
<1> HIDE DEF u, p
<1>2. ASSUME NEW i \in DOMAIN u
      PROVE  \/ \E n \in names : u[i] = R!Placeholder(n) /\ p[i] = value[n]
             \/ u[i] = p[i] /\ \A n \in names : u[i] # R!Placeholder(n)
  <2>1. CASE i = 1 \/ i = 2
    BY <1>1, <2>1
  <2>2. CASE i # 1 /\ i # 2
    <3>1. i - 2 \in 1..Len(url) /\ (i - 2) + 2 = i
      BY <1>1, <2>2
    <3>2. u[i] = url[i - 2] /\ p[i] = path[i - 2] /\ i - 2 \in DOMAIN url
      BY <1>1, <3>1
    <3>3. QED
      BY <3>2 DEF Fits
  <2>3. QED
    BY <2>1, <2>2
<1>3. ASSUME NEW n \in names PROVE \E i \in DOMAIN u : u[i] = R!Placeholder(n)
  <2>1. PICK i \in DOMAIN url : url[i] = R!Placeholder(n)
    BY DEF Fits
  <2>2. i + 2 \in DOMAIN u /\ u[i + 2] = url[i]
    BY <1>1
  <2>3. QED
    BY <2>1, <2>2
<1>4. QED
  BY <1>2, <1>3 DEF Fits, u, p

\* What is a sequence of some is one of more.
LEMMA SequencesOfMore ==
    ASSUME NEW A, NEW B, A \subseteq B
    PROVE  Seq(A) \subseteq Seq(B)
  OBVIOUS

\* The URL of a route has a placeholder for each parameter, however it is built.
LEMMA UrlOfConfig ==
    ASSUME NEW c, R!IsConfig(c)
    PROVE  LET made == R!BuildContract(c)
               url == R!MapRouteToPath(made)
           IN  /\ c.template \in Seq(Segment(c.params)) /\ Len(c.template) \in Nat
               /\ url \in Seq(Segment(c.params)) /\ Len(url) = Len(c.template)
               /\ \A i \in 1..Len(url) :
                     url[i] = IF c.template[i] \in c.params THEN R!Placeholder(c.template[i]) ELSE c.template[i]
               /\ R!MapApiContractToPath(made) = url
<1> DEFINE S == Segment(c.params)
           t == c.template
           made == R!BuildContract(c)
           url == R!MapRouteToPath(made)
           marks == R!Placeholders(c.params)
<1>1. t \in Seq(S) /\ Len(t) \in Nat
  <2>1. t \in Seq(STRING) /\ STRING \subseteq S
    BY DEF R!IsConfig, Segment
  <2>2. Seq(STRING) \subseteq Seq(S)
    BY <2>1, SequencesOfMore
  <2> HIDE DEF S, t
  <2>3. t \in Seq(S)
    BY <2>1, <2>2
  <2>4. QED
    BY <2>3, LenProperties
<1>2. /\ \A n \in c.params : marks[n] = <<R!Placeholder(n)>> /\ Len(marks[n]) = 1 /\ marks[n][1] = R!Placeholder(n)
      /\ marks \in [c.params -> Seq(S) \ {<<>>}]
  <2>1. \A n \in c.params : R!Placeholder(n) \in S
    BY DEF Segment
  <2> HIDE DEF S
  <2>2. \A n \in c.params : <<R!Placeholder(n)>> \in Seq(S) \ {<<>>}
    BY <2>1
  <2>3. QED
    BY <2>2 DEF R!Placeholders
<1>3. made.common.template = t /\ made.common.params = c.params
  <2>1. made.common = R!Common(c)
    BY ContractOfConfig
  <2> HIDE DEF made
  <2>2. QED
    BY <2>1 DEF R!Common
<1>4. url = R!PathResolver(t, marks)
  BY <1>3, Zenon DEF R!MapRouteToPath
<1> HIDE DEF S, t, url, marks, made
<1>5. url \in Seq(S) /\ Len(url) = Len(t)
  BY <1>1, <1>2, <1>4, PathOfTemplate
<1>6. ASSUME NEW i \in 1..Len(url) PROVE url[i] = IF t[i] \in c.params THEN R!Placeholder(t[i]) ELSE t[i]
  <2>1. IF t[i] \in c.params THEN Len(marks[t[i]]) = 1 /\ url[i] = marks[t[i]][1] ELSE url[i] = t[i]
    BY <1>1, <1>2, <1>4, <1>5, PathOfTemplate
  <2>2. QED
    BY <1>2, <2>1
<1>7. R!MapApiContractToPath(made) = url
  <2>1. R!MapApiContractToPath(made) = IF c.params = {} THEN R!PathResolver(t, <<>>) ELSE R!PathResolver(t, marks)
    BY <1>3, Zenon DEF R!MapApiContractToPath, marks, t
  <2>2. c.params = {} => R!PathResolver(t, <<>>) = R!PathResolver(t, marks)
    <3>1. ASSUME c.params = {} PROVE DOMAIN marks = {} /\ DOMAIN <<>> = {}
      BY <3>1 DEF marks, R!Placeholders
    <3>2. QED
      BY <3>1 DEF R!PathResolver
  <2>3. QED
    BY <1>4, <2>1, <2>2
<1>8. QED
  BY <1>1, <1>5, <1>6, <1>7 DEF S, t, url, made

\* The path of a request fits the URL when every value has one segment, and is longer
\* otherwise.
LEMMA PathOfRequest ==
    ASSUME NEW c, R!IsConfig(c), NEW given, R!IsSent(c, given)
    PROVE  LET url == R!MapRouteToPath(R!BuildContract(c))
               path == R!PathResolver(c.template, given.values)
               value == [n \in c.params |-> given.values[n][1]]
           IN  /\ path \in Seq(Segment(c.params)) /\ path # <<>> /\ path[1] = "/"
               /\ Len(url) = Len(path) <=> \A n \in c.params : Len(given.values[n]) = 1
               /\ Len(url) = Len(path) => Fits(url, path, c.params, value)
               /\ (\A n \in c.params : Len(given.values[n]) = 1) => \A n \in c.params : value[n] # "/"
<1> DEFINE S == Segment(c.params)
           t == c.template
           url == R!MapRouteToPath(R!BuildContract(c))
           path == R!PathResolver(t, given.values)
           value == [n \in c.params |-> given.values[n][1]]
           whole == \A n \in c.params : Len(given.values[n]) = 1
<1>1. /\ t \in Seq(S) /\ Len(t) \in Nat /\ url \in Seq(S) /\ Len(url) = Len(t)
      /\ \A i \in 1..Len(url) : url[i] = IF t[i] \in c.params THEN R!Placeholder(t[i]) ELSE t[i]
  BY UrlOfConfig
<1>2. given.values \in [c.params -> Seq(S) \ {<<>>}]
  <2>1. given.values \in [c.params -> Seq(STRING) \ {<<>>}] /\ STRING \subseteq S
    BY DEF R!IsSent, Segment
  <2> HIDE DEF S
  <2>2. Seq(STRING) \subseteq Seq(S)
    BY <2>1, SequencesOfMore
  <2>3. QED
    BY <2>1, <2>2
<1>3. /\ t # <<>> /\ t[1] = "/"
      /\ \A n \in c.params : n # "/" /\ \E i \in DOMAIN t : t[i] = n
      /\ \A n \in c.params, i \in DOMAIN t : R!Placeholder(n) # t[i]
  <2>1. t # <<>> /\ t[1] = "/"
    BY Zenon DEF R!IsConfig
  <2>2. \A n \in c.params : n # "/" /\ \E i \in DOMAIN t : t[i] = n
    BY Zenon DEF R!IsConfig
  <2>3. ASSUME NEW n \in c.params, NEW i \in DOMAIN t PROVE R!Placeholder(n) # t[i]
    <3>1. \A word \in {t[k] : k \in DOMAIN t} \cup {"/", "v1"} : R!Placeholder(n) # word
      BY Zenon DEF R!IsConfig
    <3>2. QED
      BY <3>1
  <2>4. QED
    BY <2>1, <2>2, <2>3
<1>4. \A n \in c.params : Len(given.values[n]) = 1 => value[n] # "/"
  <2>1. ASSUME NEW n \in c.params, Len(given.values[n]) = 1 PROVE given.values[n][1] # "/"
    <3>1. given.values[n] # <<"/">>
      BY DEF R!IsSent
    <3>2. given.values[n] \in Seq(S)
      BY <1>2
    <3> HIDE DEF S
    <3>3. given.values[n] = <<given.values[n][1]>>
      BY <2>1, <3>2
    <3>4. QED
      BY <3>1, <3>3
  <2>2. QED
    BY <2>1
<1> HIDE DEF S, url, t
<1>5. DOMAIN url = 1..Len(url) /\ DOMAIN t = 1..Len(t)
  BY <1>1
<1>6. /\ path \in Seq(S) /\ path # <<>> /\ path[1] = "/"
      /\ Len(path) = Len(t) =>
            \A i \in 1..Len(t) : IF t[i] \in c.params THEN Len(given.values[t[i]]) = 1 /\ path[i] = given.values[t[i]][1]
                                 ELSE path[i] = t[i]
      /\ whole => Len(path) = Len(t)
  <2>1. t[1] \notin c.params
    BY <1>3
  <2>2. PICK values : values = given.values
    OBVIOUS
  <2> DEFINE built == R!PathResolver(t, values)
  <2> HIDE DEF whole
  <2>3. /\ built \in Seq(S)
        /\ Len(built) = Len(t) =>
              \A i \in 1..Len(t) : IF t[i] \in c.params THEN Len(values[t[i]]) = 1 /\ built[i] = values[t[i]][1]
                                   ELSE built[i] = t[i]
        /\ (\A n \in c.params : Len(values[n]) = 1) => Len(built) = Len(t)
        /\ t # <<>> /\ t[1] \notin c.params => built # <<>> /\ built[1] = t[1]
    <3>1. values \in [c.params -> Seq(S) \ {<<>>}] /\ t \in Seq(S)
      BY <1>1, <1>2, <2>2
    <3>2. PICK names : names = c.params
      OBVIOUS
    <3>3. values \in [names -> Seq(S) \ {<<>>}]
      BY <3>1, <3>2
    <3>4. /\ built \in Seq(S)
          /\ Len(built) = Len(t) =>
                \A i \in 1..Len(t) : IF t[i] \in names THEN Len(values[t[i]]) = 1 /\ built[i] = values[t[i]][1]
                                     ELSE built[i] = t[i]
          /\ (\A n \in names : Len(values[n]) = 1) => Len(built) = Len(t)
          /\ t # <<>> /\ t[1] \notin names => built # <<>> /\ built[1] = t[1]
      BY <3>1, <3>3, PathOfTemplate
    <3>5. QED
      BY <3>2, <3>4
  <2>4. built = path
    BY <2>2
  <2> HIDE DEF built, path
  <2>5. QED
    BY <1>3, <2>1, <2>2, <2>3, <2>4 DEF whole
<1> HIDE DEF path
<1>7. Len(url) = Len(path) <=> whole
  <2>1. ASSUME Len(path) = Len(t), NEW n \in c.params PROVE Len(given.values[n]) = 1
    <3>1. PICK i \in 1..Len(t) : t[i] = n
      BY <1>3, <1>5
    <3>2. QED
      BY <1>6, <2>1, <3>1
  <2>2. QED
    BY <1>1, <1>6, <2>1
<1>8. ASSUME Len(url) = Len(path) PROVE Fits(url, path, c.params, value)
  <2>1. ASSUME NEW i \in DOMAIN url
        PROVE  \/ \E n \in c.params : url[i] = R!Placeholder(n) /\ path[i] = value[n]
               \/ url[i] = path[i] /\ \A n \in c.params : url[i] # R!Placeholder(n)
    <3>1. i \in 1..Len(t) /\ i \in 1..Len(url) /\ i \in DOMAIN t
      BY <1>1, <1>5
    <3>2. CASE t[i] \in c.params
      BY <1>1, <1>6, <1>8, <3>1, <3>2
    <3>3. CASE t[i] \notin c.params
      <4>1. url[i] = t[i] /\ path[i] = t[i]
        BY <1>1, <1>6, <1>8, <3>1, <3>3
      <4>2. QED
        BY <1>3, <3>1, <4>1
    <3>4. QED
      BY <3>2, <3>3
  <2>2. ASSUME NEW n \in c.params PROVE \E i \in DOMAIN url : url[i] = R!Placeholder(n)
    <3>1. PICK i \in DOMAIN t : t[i] = n
      BY <1>3
    <3>2. i \in DOMAIN url /\ url[i] = R!Placeholder(n)
      BY <1>1, <1>5, <3>1
    <3>3. QED
      BY <3>2
  <2>3. QED
    BY <2>1, <2>2 DEF Fits
<1>9. QED
  BY <1>4, <1>6, <1>7, <1>8 DEF S, url, t, path

\* A request reaches its route exactly when every value has one segment, also below a
\* prefix, and whoever builds the route.
LEMMA RequestsAlwaysReach ==
    ASSUME NEW c, R!IsConfig(c), NEW given, R!IsSent(c, given), NEW mapped,
           NEW prefix \in {<<>>, <<"v1">>, <<"/", "v1">>, <<"v1", "/">>, <<"/", "v1", "/">>}
    PROVE  R!RequestReachesRoute(c, given, mapped, prefix)
<1> DEFINE S == Segment(c.params)
           made == R!BuildContract(c)
           route == R!BuildFastifyRoute(made, mapped)
           api == R!BuildFastifyApiRoute(made, <<>>, mapped)
           pre == IF prefix = <<>> THEN <<>> ELSE <<"/", "v1">>
           url == R!MapRouteToPath(made)
           path == R!PathResolver(c.template, given.values)
           value == [n \in c.params |-> given.values[n][1]]
           whole == \A n \in c.params : Len(given.values[n]) = 1
           Reached == [type |-> "handled", body |-> made.body, values |-> [n \in c.params |-> given.values[n][1]]]
           below == [api EXCEPT !.url = pre \o @]
<1>1. /\ made.common = R!Common(c) /\ made.method = c.method /\ made.body = c.body
      /\ made.common.template = c.template /\ made.common.params = c.params
      /\ made.common.query = c.query /\ made.common.headers = c.headers
  BY ContractOfConfig DEF R!Common
<1>2. url \in Seq(S) /\ R!MapApiContractToPath(made) = url
  BY UrlOfConfig
<1>3. /\ path \in Seq(S) /\ path # <<>> /\ path[1] = "/"
      /\ Len(url) = Len(path) <=> whole
      /\ Len(url) = Len(path) => Fits(url, path, c.params, value)
      /\ whole => \A n \in c.params : value[n] # "/"
  BY PathOfRequest
<1>4. {"/", "v1"} \subseteq S
  BY DEF Segment
<1> HIDE DEF S, made, url, path, whole, value
<1>5. route = api /\ route.config.contract = made
  <2>1. (IF mapped = <<>> THEN <<>> ELSE mapped) = mapped
    OBVIOUS
  <2>2. route = api
    BY <1>2, <2>1 DEF R!BuildFastifyRoute, R!BuildFastifyApiRoute, R!Route, R!BuildFastifyApiSchema, R!Config, url
  <2>3. route.config.contract = made
    BY DEF R!BuildFastifyRoute, R!Route, R!Config
  <2>4. QED
    BY <2>2, <2>3
<1>6. /\ route.method = c.method /\ route.url = url /\ route.schema.params = c.params
      /\ route.schema.body = c.body /\ route.schema.query = c.query /\ route.schema.headers = c.headers
      /\ below.method = c.method /\ below.url = pre \o url /\ below.schema = route.schema
  <2>1. /\ route.method = c.method /\ route.url = url /\ route.schema.params = c.params
        /\ route.schema.body = c.body /\ route.schema.query = c.query /\ route.schema.headers = c.headers
    BY <1>1 DEF R!BuildFastifyRoute, R!Route, url
  <2>2. below = [route EXCEPT !.url = pre \o @]
    BY <1>5
  <2>3. below.method = route.method /\ below.url = pre \o route.url /\ below.schema = route.schema
    BY <2>2 DEF R!BuildFastifyRoute, R!Route
  <2>4. QED
    BY <2>1, <2>3
<1> DEFINE plain == R!InjectByContract(made, given)
           prefixed == R!InjectByApiContract(made, given, prefix)
<1>7. /\ plain.method = c.method /\ plain.path = path
      /\ plain.body = c.body /\ plain.query = given.query /\ plain.headers = given.headers
      /\ prefixed.method = c.method /\ prefixed.path = pre \o path
      /\ prefixed.body = c.body /\ prefixed.query = given.query /\ prefixed.headers = given.headers
  <2>1. (c.method \in R!PayloadMethods /\ given.body) = c.body
    BY DEF R!IsConfig, R!IsSent
  <2>2. R!BuildRequestPath(path, prefix) = pre \o path
    BY <1>3, <1>4, RequestPath
  <2>3. /\ plain = R!Request(c.method, path, c.method \in R!PayloadMethods /\ given.body, given)
        /\ prefixed = R!Request(c.method, R!BuildRequestPath(path, prefix),
                                c.method \in R!PayloadMethods /\ given.body, given)
    BY <1>1, Zenon DEF R!InjectByContract, R!InjectByApiContract, R!DispatchInjectByMethod, path
  <2>4. QED
    BY <2>1, <2>2, <2>3 DEF R!Request
<1>8. (c.query => given.query) /\ (c.headers => given.headers)
  BY DEF R!IsSent
<1> HIDE DEF route, api, below, plain, prefixed, pre
<1>9. /\ Len(pre \o url) = Len(pre \o path) <=> whole
      /\ whole => Fits(pre \o url, pre \o path, c.params, value)
  <2>1. CASE prefix = <<>>
    <3>1. pre \o url = url /\ pre \o path = path
      BY <1>2, <1>3, <2>1 DEF pre
    <3>2. QED
      BY <1>3, <3>1
  <2>2. CASE prefix # <<>>
    <3>1. pre = <<"/", "v1">>
      BY <2>2 DEF pre
    <3>2. Len(pre \o url) = Len(pre \o path) <=> Len(url) = Len(path)
      BY <1>2, <1>3, <1>4, <3>1
    <3>3. \A n \in c.params : R!Placeholder(n) \notin {"/", "v1"}
      <4>1. \A n \in c.params : \A word \in {c.template[i] : i \in DOMAIN c.template} \cup {"/", "v1"} :
                R!Placeholder(n) # word
        BY Zenon DEF R!IsConfig
      <4>2. QED
        BY <4>1
    <3>4. whole => Fits(pre \o url, pre \o path, c.params, value)
      BY <1>2, <1>3, <1>4, <3>1, <3>3, FitsBelow
    <3>5. QED
      BY <1>3, <3>2, <3>4
  <2>3. QED
    BY <2>1, <2>2
<1>10. ASSUME whole
       PROVE  R!Handled(route, plain) = Reached /\ R!Handled(below, prefixed) = Reached
  <2>1. [n \in c.params |-> value[n]] = [n \in c.params |-> given.values[n][1]]
    BY DEF value
  <2>2. Reached = [type |-> "handled", body |-> c.body, values |-> [n \in c.params |-> value[n]]]
    BY <1>1, <2>1
  <2>3. Asks(route, plain, c.params) /\ Asks(below, prefixed, c.params)
    BY <1>6, <1>7, <1>8, Zenon DEF Asks
  <2>4. /\ Len(route.url) = Len(plain.path) /\ Fits(route.url, plain.path, c.params, value)
        /\ Len(below.url) = Len(prefixed.path) /\ Fits(below.url, prefixed.path, c.params, value)
        /\ \A n \in c.params : value[n] # "/"
    BY <1>3, <1>6, <1>7, <1>9, <1>10, Zenon
  <2>5. R!Handled(route, plain) = [type |-> "handled", body |-> plain.body, values |-> [n \in c.params |-> value[n]]]
    BY <2>3, <2>4, HandledWhenFits
  <2>6. R!Handled(below, prefixed) =
            [type |-> "handled", body |-> prefixed.body, values |-> [n \in c.params |-> value[n]]]
    BY <2>3, <2>4, HandledWhenFits
  <2>7. QED
    BY <1>7, <2>2, <2>5, <2>6
<1>11. ASSUME ~whole
       PROVE  R!Handled(route, plain) # Reached /\ R!Handled(below, prefixed) # Reached
  <2>1. [type |-> "404"] # Reached
    <3>1. [type |-> "404"].type = "404" /\ Reached.type = "handled"
      OBVIOUS
    <3>2. QED
      BY <3>1
  <2>2. R!Handled(route, plain) = [type |-> "404"]
    BY <1>3, <1>6, <1>7, <1>11, Zenon DEF R!Handled, R!Takes
  <2>3. R!Handled(below, prefixed) = [type |-> "404"]
    BY <1>6, <1>7, <1>9, <1>11, Zenon DEF R!Handled, R!Takes
  <2>4. QED
    BY <2>1, <2>2, <2>3
<1>12. /\ (R!Handled(route, plain) = Reached) <=> whole
       /\ (R!Handled(below, prefixed) = Reached) <=> whole
  BY <1>10, <1>11
<1>13. QED
  BY <1>5, <1>12, Zenon DEF R!RequestReachesRoute, route, api, below, plain, prefixed, pre, made, whole

\* The unified builders and injectors are the deprecated ones of the config's method.
LEMMA UnifiedIsAlwaysDeprecated ==
    ASSUME NEW c, R!IsConfig(c), NEW given, R!IsSent(c, given), NEW mapped
    PROVE  R!UnifiedIsDeprecated(c, given, mapped)
<1> DEFINE made == R!BuildRestContract(c)
           payload == c.method \in R!PayloadMethods
           path == R!PathResolver(made.common.template, given.values)
<1>1. /\ c.method \in {"post", "put", "patch", "get", "delete"}
      /\ payload <=> c.method \in {"post", "put", "patch"}
      /\ c.body \in BOOLEAN /\ given.body = c.body /\ (c.body => payload)
  BY DEF R!IsConfig, R!IsSent, R!PayloadMethods
<1>2. /\ payload => (payload /\ c.body) = c.body
      /\ ~payload => (payload /\ c.body) = FALSE /\ (payload /\ given.body) = FALSE
      /\ payload => (payload /\ given.body) = given.body
  BY <1>1
<1>3. /\ made = R!Rest(c, c.method, payload /\ c.body, R!Or(c.empty, c.method = "delete"))
      /\ made.method = c.method /\ made.body = (payload /\ c.body)
  BY Zenon DEF R!BuildRestContract, R!Rest
<1>4. R!InjectByContract(made, given) = R!Request(c.method, path, payload /\ given.body, given)
  BY <1>3, Zenon DEF R!InjectByContract, R!DispatchInjectByMethod
<1>5. c.method = "delete" => (c.method = "delete") = TRUE
  OBVIOUS
<1>6. c.method # "delete" => (c.method = "delete") = FALSE
  OBVIOUS
<1> HIDE DEF payload, path
<1>7. made = CASE c.method = "get"    -> R!BuildGetRoute(c)
                   [] c.method = "delete" -> R!BuildDeleteRoute(c)
                   [] OTHER               -> R!BuildPayloadRoute(c)
  <2>1. CASE c.method = "get"
    <3>1. ~payload /\ c.method # "delete"
      BY <1>1, <2>1
    <3>2. made = R!BuildGetRoute(c)
      BY <1>2, <1>3, <1>6, <2>1, <3>1, Zenon DEF R!BuildGetRoute
    <3>3. QED
      BY <2>1, <3>2
  <2>2. CASE c.method = "delete"
    <3>1. ~payload
      BY <1>1, <2>2
    <3>2. made = R!BuildDeleteRoute(c)
      BY <1>2, <1>3, <1>5, <2>2, <3>1, Zenon DEF R!BuildDeleteRoute
    <3>3. QED
      BY <2>2, <3>2
  <2>3. CASE c.method # "get" /\ c.method # "delete"
    <3>1. payload
      BY <1>1, <2>3
    <3>2. made = R!BuildPayloadRoute(c)
      BY <1>2, <1>3, <1>6, <2>3, <3>1, Zenon DEF R!BuildPayloadRoute
    <3>3. QED
      BY <2>3, <3>2
  <2>4. QED
    BY <2>1, <2>2, <2>3
<1>8. R!BuildFastifyRoute(made, mapped) =
         IF c.method \in R!PayloadMethods THEN R!BuildFastifyPayloadRoute(made, mapped)
         ELSE R!BuildFastifyNoPayloadRoute(made, mapped)
  <2>1. payload => R!BuildFastifyRoute(made, mapped) = R!BuildFastifyPayloadRoute(made, mapped)
    BY Zenon DEF R!BuildFastifyRoute, R!BuildFastifyPayloadRoute
  <2>2. ~payload => R!BuildFastifyRoute(made, mapped) = R!BuildFastifyNoPayloadRoute(made, mapped)
    BY <1>2, <1>3, Zenon DEF R!BuildFastifyRoute, R!BuildFastifyNoPayloadRoute
  <2>3. QED
    BY <2>1, <2>2 DEF payload
<1>9. R!InjectByContract(made, given) =
         CASE c.method = "get"    -> R!InjectGet(made, given)
           [] c.method = "delete" -> R!InjectDelete(made, given)
           [] c.method = "post"   -> R!InjectPost(made, given)
           [] c.method = "put"    -> R!InjectPut(made, given)
           [] c.method = "patch"  -> R!InjectPatch(made, given)
  <2> DEFINE injected == R!InjectByContract(made, given)
  <2>1. /\ c.method = "get" => injected = R!InjectGet(made, given)
        /\ c.method = "delete" => injected = R!InjectDelete(made, given)
    <3>1. c.method \in {"get", "delete"} => ~payload
      BY <1>1
    <3>2. c.method \in {"get", "delete"} => injected = R!Request(c.method, path, FALSE, given)
      BY <1>2, <1>4, <3>1, Zenon
    <3>3. QED
      BY <3>2 DEF R!InjectGet, R!InjectDelete, path
  <2>2. /\ c.method = "post" => injected = R!InjectPost(made, given)
        /\ c.method = "put" => injected = R!InjectPut(made, given)
        /\ c.method = "patch" => injected = R!InjectPatch(made, given)
    <3>1. c.method \in {"post", "put", "patch"} => payload
      BY <1>1
    <3>2. c.method \in {"post", "put", "patch"} => injected = R!Request(c.method, path, given.body, given)
      BY <1>2, <1>4, <3>1, Zenon
    <3>3. QED
      BY <3>2 DEF R!InjectPost, R!InjectPut, R!InjectPatch, path
  <2> HIDE DEF injected
  <2>3. QED
    <3> HIDE DEF made
    <3>1. QED
      BY <1>1, <2>1, <2>2 DEF injected
<1>10. QED
  BY <1>7, <1>8, <1>9, Zenon DEF R!UnifiedIsDeprecated

-----------------------------------------------------------------------------
(* The parts together *)

\* Each part keeps its own inductive invariant, whichever runs; the requests by contract
\* keep the one of their runtime.
ServicesInv ==
    /\ Retry!IInv
    /\ Http!IInv
    /\ Frontend!IInv
    /\ part # "fetch" => Client(FALSE)!IInv
    /\ part = "fetch" => Client(TRUE)!IInv
    /\ Route!IInv

\* Each part begins in its invariant.
LEMMA ServicesInit == MCInit => ServicesInv
<1> SUFFICES ASSUME MCInit PROVE ServicesInv
  OBVIOUS
<1>1. Retry!Init /\ Http!Init /\ Frontend!Init /\ Client(FALSE)!Init /\ Route!Init
  BY DEF MCInit
<1>2. Retry!IInv
  BY <1>1, ServicesAssumption
     DEF Retry!Init, Retry!IInv, Retry!BodiesConsumed, Retry!AbortEndsRetries, Retry!IsLastAttempt
<1>3. Http!IInv
  BY <1>1 DEF Http!Init, Http!IInv, Http!NoAnswer, Http!AnswersAreChecked
<1>4. Frontend!IInv
  <2>1. events \in Seq({"known", "unknown", "broken"}) /\ heard = <<>>
    BY <1>1 DEF Frontend!Init
  <2>2. QED
    BY <1>1, <2>1 DEF Frontend!Init, Frontend!IInv, Frontend!SettlesAsAsked, Frontend!AbortRejects,
                      Frontend!DoneEndsStream
<1>5. ASSUME NEW f \in BOOLEAN PROVE Client(f)!IInv
  BY <1>1 DEF Client!Init, Client!IInv, Client!BodiesAccountedFor
<1>6. Route!IInv
  BY <1>1 DEF Route!Init, Route!IInv, Route!NoSelection, Route!ClientResolves, Route!SessionKeepsFaith
<1>7. QED
  BY <1>2, <1>3, <1>4, <1>5, <1>6 DEF ServicesInv

\* Every step is one of a single part, which keeps its invariant.
LEMMA ServicesStep == ServicesInv /\ [MCNext]_allVars => ServicesInv'
<1> SUFFICES ASSUME ServicesInv, [MCNext]_allVars PROVE ServicesInv'
  OBVIOUS
<1> USE DEF ServicesInv
<1>1. /\ part' = part
      /\ Retry!Next \/ UNCHANGED retryVars
      /\ Http!Next \/ UNCHANGED httpVars
      /\ Frontend!Next \/ UNCHANGED frontVars
      /\ Route!Next \/ UNCHANGED routeVars
      /\ part # "fetch" => Client(FALSE)!Next \/ UNCHANGED contractVars
      /\ part = "fetch" => Client(TRUE)!Next \/ UNCHANGED contractVars
  BY DEF MCNext, allVars
<1>2. Retry!IInv'
  BY <1>1, RetrySteps
<1>3. Http!IInv'
  BY <1>1, HttpSteps
<1>4. Frontend!IInv'
  BY <1>1, FrontendSteps
<1>5. Route!IInv'
  BY <1>1, RouteSteps
<1>6. part' # "fetch" => Client(FALSE)!IInv'
  BY <1>1, ClientSteps
<1>7. part' = "fetch" => Client(TRUE)!IInv'
  BY <1>1, ClientSteps
<1>8. QED
  BY <1>2, <1>3, <1>4, <1>5, <1>6, <1>7

\* The invariants of all parts hold always.
THEOREM ServicesInvariant == MCSpec => []ServicesInv
<1>1. QED
  BY ServicesInit, ServicesStep, PTL DEF MCSpec

-----------------------------------------------------------------------------
(* The properties *)

\* withRetry leaves no response body behind but the one it returns, makes at most
\* maxRetries + 1 requests, and tries at most one after an abort.
THEOREM RetriesAlwaysEnd == MCSpec => []RetriesEnd
<1>1. ServicesInv => RetriesEnd
  BY DEF ServicesInv, Retry!IInv, RetriesEnd
<1>2. QED
  BY <1>1, ServicesInvariant, PTL

\* For every set of calls: what a caller gets follows the options it gave itself, whichever
\* operation passed them on and on whatever attempt the answer came.
THEOREM AnswersAreAlwaysChecked == MCSpec => []AnswersAreChecked
<1>1. ServicesInv => AnswersAreChecked
  BY DEF ServicesInv, Http!IInv, AnswersAreChecked
<1>2. QED
  BY <1>1, ServicesInvariant, PTL

\* Whatever the contract: a response is resolved as the entry of its status declares; its
\* body is read, dumped or handed over, except that of a blob or stream whose headers are
\* refused, which is left.
THEOREM ContractsAreAlwaysKept == MCSpec => []ContractsAreKept
<1>1. ASSUME NEW f \in BOOLEAN, Client(f)!IInv
      PROVE  Client(f)!BodiesAccountedFor /\ Client(f)!ResolvesAsDeclared
  <2>1. Route!IsContract(contract.responses)
    BY <1>1, ServicesAssumption DEF Client!IInv
  <2>2. Client(f)!EntryKey(contract.responses, response.status) = "none" => step \notin {"result", "error"}
    BY <1>1 DEF Client!IInv
  <2>3. Client(f)!BodiesAccountedFor
    BY <1>1 DEF Client!IInv
  <2>4. QED
    BY <2>1, <2>2, <2>3, ResolvedAsDeclared
<1>2. ServicesInv => ContractsAreKept
  BY <1>1 DEF ServicesInv, ContractsAreKept
<1>3. QED
  BY <1>2, ServicesInvariant, PTL

\* The frontend client's promises settle as their options ask, null by an expected empty
\* response only; an aborted upload rejects, and a stream's onDone ends what its callbacks
\* hear.
THEOREM PromisesSettleAsAsked == MCSpec => []SettlesAsAsked
<1>1. Frontend!IInv => Frontend!SettlesAsAsked /\ Frontend!AbortRejects /\ Frontend!DoneEndsStream
  BY DEF Frontend!IInv, Frontend!AbortRejects
<1>2. ServicesInv => SettlesAsAsked
  BY <1>1 DEF ServicesInv, SettlesAsAsked
<1>3. QED
  BY <1>2, ServicesInvariant, PTL

\* Whatever the contract, a strict client of it resolves every response the route sends,
\* and of the streams those declared for status 200 and text/event-stream.
THEOREM ClientsAlwaysResolve == MCSpec => []ClientResolves
<1>1. ServicesInv => ClientResolves
  BY DEF ServicesInv, Route!IInv, ClientResolves
<1>2. QED
  BY <1>1, ServicesInvariant, PTL

\* A session streams a representation of its result's entry, blames the right side for its
\* end, and pulls at most one message that nobody hears.
THEOREM SessionsAlwaysKeepFaith == MCSpec => []SessionKeepsFaith
<1>1. ServicesInv => SessionKeepsFaith
  BY DEF ServicesInv, Route!IInv, SessionKeepsFaith
<1>2. QED
  BY <1>1, ServicesInvariant, PTL

\* A route sends one head: a started stream is not answered again.
THEOREM HeadsAreSentOnce == MCSpec => Route!SentOnce
<1>1. ServicesInv /\ [MCNext]_allVars => [wire.kind # "none" => wire' = wire]_(Route!vars)
  <2> SUFFICES ASSUME ServicesInv, [MCNext]_allVars PROVE wire.kind # "none" => wire' = wire
    OBVIOUS
  <2>1. Route!Next \/ UNCHANGED routeVars
    BY DEF MCNext, allVars
  <2>2. QED
    BY <2>1, RouteSteps DEF ServicesInv
<1>2. QED
  BY <1>1, ServicesInvariant, PTL DEF MCSpec, Route!SentOnce

\* The input is one of its part's, and stays.
THEOREM InputsAreTheParts == MCSpec => []InputsInit
<1>1. MCInit => InputsInit
  BY DEF MCInit
<1>2. InputsInit /\ [MCNext]_allVars => InputsInit'
  BY DEF InputsInit, MCNext, allVars
<1>3. QED
  BY <1>1, <1>2, PTL DEF MCSpec

\* Whatever the config of a contract, what is sent and what is mocked: a request reaches its
\* route exactly when every value is one segment, the deprecated builders build what the
\* unified one does, a mock is resolved as its contract says, the two test helpers agree,
\* and the events of a mock arrive, of a formatted response all but perhaps the last.
THEOREM ContractsAlwaysReach == MCSpec => []ContractsReach
<1>1. ASSUME InputsInit PROVE ContractsReach
  <2>1. ASSUME part = "contract"
        PROVE  /\ R!RequestReachesRoute(input.config, input.sent, input.mapped, input.prefix)
               /\ ~input.config.events => R!UnifiedIsDeprecated(input.config, input.sent, input.mapped)
    <3>1. input \in Injections
      BY <1>1, <2>1 DEF InputsInit, Parts
    <3>2. /\ R!IsConfig(input.config) /\ R!IsSent(input.config, input.sent)
          /\ input.prefix \in {<<>>, <<"v1">>, <<"/", "v1">>, <<"v1", "/">>, <<"/", "v1", "/">>}
      BY <3>1, ServicesAssumption
    <3>3. QED
      BY <3>2, RequestsAlwaysReach, UnifiedIsAlwaysDeprecated
  <2>2. ASSUME part = "mock"
        PROVE  M!MockIsResolved(input.responses, input.status, input.params, input.accept)
    <3>1. input \in Mockings
      BY <1>1, <2>2 DEF InputsInit, Parts
    <3>2. M!IsContract(input.responses) /\ input.params.json \in {"good", "loose", "bad"}
      BY <3>1, ServicesAssumption
    <3>3. QED
      BY <3>2, MocksAlwaysResolve
  <2>3. ASSUME part = "helpers"
        PROVE  M!HelpersAgree(input.contract, input.params, input.request)
    <3>1. input \in Helpings
      BY <1>1, <2>3 DEF InputsInit, Parts
    <3>2. input.contract \in {"rest", "sse", "dual"} /\ input.params.json \in {"good", "loose", "bad"}
      BY <3>1, ServicesAssumption
    <3>3. QED
      BY <3>2, HelpersAlwaysAgree
  <2>4. ASSUME part = "events" PROVE MockedEventsArrive(input)
    <3>1. input \in EventLists
      BY <1>1, <2>4 DEF InputsInit, Parts
    <3>2. input \in Seq(MockedEvent)
      BY <3>1, ServicesAssumption DEF MockedEvent
    <3>3. QED
      BY <3>2, MockedEventsAlwaysArrive
  <2>5. QED
    BY <2>1, <2>2, <2>3, <2>4, Zenon DEF ContractsReach
<1>2. InputsInit => ContractsReach
  BY <1>1
<1>3. QED
  BY <1>2, InputsAreTheParts, PTL
=============================================================================
