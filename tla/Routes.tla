-------------------------------- MODULE Routes --------------------------------
(***************************************************************************)
(* The contracts that api-contracts builds, the routes that                *)
(* fastify-api-contracts makes of them, and the requests its injectors     *)
(* send to an app by the same contract, in the deprecated and in the       *)
(* unified way.  A schema is whether there is one; a path is a sequence of *)
(* slashes, words and, in a template, the names of parameters.  Fastify's  *)
(* router and light-my-request are external.                               *)
(***************************************************************************)
EXTENDS Naturals, Sequences, SequencesExt

PayloadMethods == {"post", "put", "patch"}

\* an option is a sequence of its value, or empty when undefined
Or(option, default) == IF option = <<>> THEN default ELSE option[1]

Placeholder(name) == ":" \o name

\* A config of a contract, whose paths begin with a slash, have every parameter of its
\* schema and no other word with a colon; and what a caller sends of it
IsConfig(c) ==
    /\ c.method \in PayloadMethods \cup {"get", "delete"}
    /\ {c.body, c.query, c.headers, c.visible, c.success, c.events} \subseteq BOOLEAN
    /\ {c.empty, c.nonJson} \subseteq {<<>>, <<TRUE>>, <<FALSE>>}
    /\ c.body => c.method \in PayloadMethods
    /\ c.template \in Seq(STRING) /\ c.template # <<>> /\ c.template[1] = "/"
    /\ \A n \in c.params :
          /\ n # "/" /\ \E i \in DOMAIN c.template : c.template[i] = n
          /\ \A word \in {c.template[i] : i \in DOMAIN c.template} \cup {"/", "v1"} : Placeholder(n) # word
          /\ \A k \in c.params : Placeholder(n) = Placeholder(k) => n = k
IsSent(c, sent) ==
    /\ {sent.body, sent.query, sent.headers} \subseteq BOOLEAN
    /\ sent.body = c.body /\ (c.query => sent.query) /\ (c.headers => sent.headers)
    /\ sent.values \in [c.params -> Seq(STRING) \ {<<>>}]
    /\ \A n \in c.params : sent.values[n] # <<"/">>

-----------------------------------------------------------------------------
(* Contracts *)

\* what every builder copies of its config
Common(c) ==
    [params |-> c.params, template |-> c.template, query |-> c.query, headers |-> c.headers,
     visible |-> c.visible]

Rest(c, method, body, empty) ==
    [type |-> "rest", method |-> method, common |-> Common(c), body |-> body,
     empty |-> empty, nonJson |-> Or(c.nonJson, FALSE), success |-> c.success]

BuildPayloadRoute(c) == Rest(c, c.method, c.body, Or(c.empty, FALSE))
BuildGetRoute(c) == Rest(c, "get", FALSE, Or(c.empty, FALSE))
BuildDeleteRoute(c) == Rest(c, "delete", FALSE, Or(c.empty, TRUE))

\* one builder of the three, by the method
BuildRestContract(c) ==
    Rest(c, c.method, c.method \in PayloadMethods /\ c.body, Or(c.empty, c.method = "delete"))

\* with a schema of the response, a contract that answers either way
BuildSseContract(c) ==
    [type |-> IF c.success THEN "dual" ELSE "sse", method |-> c.method, common |-> Common(c),
     body |-> c.body, empty |-> IF c.success THEN Or(c.empty, FALSE) ELSE FALSE,
     nonJson |-> FALSE, success |-> c.success]

BuildContract(c) == IF c.events THEN BuildSseContract(c) ELSE BuildRestContract(c)

-----------------------------------------------------------------------------
(* Paths *)

\* pathResolver: a value may have segments of its own, as nothing escapes a `/'
PathResolver(template, values) ==
    FlattenSeq([i \in DOMAIN template |->
                   IF template[i] \in DOMAIN values THEN values[template[i]] ELSE <<template[i]>>])

Placeholders(names) == [n \in names |-> <<Placeholder(n)>>]

\* mapRouteToPath: a placeholder for each key of the schema of the parameters
MapRouteToPath(contract) == PathResolver(contract.common.template, Placeholders(contract.common.params))
\* mapApiContractToPath
MapApiContractToPath(contract) ==
    IF contract.common.params = {} THEN PathResolver(contract.common.template, <<>>)
    ELSE PathResolver(contract.common.template, Placeholders(contract.common.params))

StartsWithSlash(path) == path # <<>> /\ Head(path) = "/"

\* ensureStartsWithSlash
EnsureStartsWithSlash(path) == IF StartsWithSlash(path) THEN path ELSE <<"/">> \o path

\* fault: a slash of either side is kept
BuildRequestPathJoined(path, prefix) ==
    EnsureStartsWithSlash(IF prefix = <<>> THEN path ELSE prefix \o <<"/">> \o path)

\* buildRequestPath
BuildRequestPath(path, prefix) ==
    LET cleanPrefix == IF Last(prefix) = "/" THEN Front(prefix) ELSE prefix
        cleanPath == IF StartsWithSlash(path) THEN Tail(path) ELSE path
    IN  EnsureStartsWithSlash(IF prefix = <<>> THEN path ELSE cleanPrefix \o <<"/">> \o cleanPath)

-----------------------------------------------------------------------------
(* Routes *)

\* `config' of the route: what metadata are mapped to does not replace the contract
Config(contract, mapped) ==
    [contract |-> contract, rateLimit |-> mapped # <<>> /\ mapped[1].rateLimit]

Route(contract, mapped, body) ==
    [method |-> contract.method, url |-> MapRouteToPath(contract), config |-> Config(contract, mapped),
     schema |-> [body |-> body, params |-> contract.common.params, query |-> contract.common.query,
                 headers |-> contract.common.headers, hide |-> ~contract.common.visible]]

BuildFastifyNoPayloadRoute(contract, mapped) == Route(contract, mapped, FALSE)
BuildFastifyPayloadRoute(contract, mapped) == Route(contract, mapped, contract.body)
BuildFastifyRoute(contract, mapped) == Route(contract, mapped, contract.body)

\* buildFastifyApiSchema
BuildFastifyApiSchema(contract) ==
    [body |-> contract.body, params |-> contract.common.params, query |-> contract.common.query,
     headers |-> contract.common.headers, hide |-> ~contract.common.visible]

\* buildFastifyApiRoute, of a contract of defineApiContract: the explicit options are
\* merged over what metadata are mapped to
BuildFastifyApiRoute(contract, mapped, options) ==
    [method |-> contract.method, url |-> MapApiContractToPath(contract),
     config |-> Config(contract, IF options = <<>> THEN mapped ELSE options),
     schema |-> BuildFastifyApiSchema(contract)]

-----------------------------------------------------------------------------
(* Injected requests *)

Request(method, path, body, sent) ==
    [method |-> method, path |-> path, body |-> body, query |-> sent.query, headers |-> sent.headers]

InjectGet(contract, sent) == Request("get", PathResolver(contract.common.template, sent.values), FALSE, sent)
InjectDelete(contract, sent) == Request("delete", PathResolver(contract.common.template, sent.values), FALSE, sent)
InjectPost(contract, sent) == Request("post", PathResolver(contract.common.template, sent.values), sent.body, sent)
InjectPut(contract, sent) == Request("put", PathResolver(contract.common.template, sent.values), sent.body, sent)
InjectPatch(contract, sent) == Request("patch", PathResolver(contract.common.template, sent.values), sent.body, sent)

\* by the contract's method, with a body where the method has one
DispatchInjectByMethod(method, path, sent) ==
    Request(method, path, method \in PayloadMethods /\ sent.body, sent)

InjectByContract(contract, sent) ==
    DispatchInjectByMethod(contract.method, PathResolver(contract.common.template, sent.values), sent)

InjectByApiContract(contract, sent, prefix) ==
    DispatchInjectByMethod(contract.method,
        BuildRequestPath(PathResolver(contract.common.template, sent.values), prefix), sent)

-----------------------------------------------------------------------------
(* Fastify *)

\* a route takes a path that differs from its own in the words of placeholders only
Takes(route, request) ==
    /\ route.method = request.method /\ Len(route.url) = Len(request.path)
    /\ \A i \in DOMAIN route.url :
          \/ route.url[i] = request.path[i]
          \/ request.path[i] # "/" /\ \E n \in route.schema.params : route.url[i] = Placeholder(n)

\* what the handler gets, when every declared part is there
Handled(route, request) ==
    IF ~Takes(route, request) THEN [type |-> "404"]
    ELSE IF (route.schema.body /\ ~request.body) \/ (route.schema.query /\ ~request.query)
            \/ (route.schema.headers /\ ~request.headers) THEN [type |-> "400"]
    ELSE [type |-> "handled", body |-> request.body,
          values |-> [n \in route.schema.params |->
                         request.path[CHOOSE i \in DOMAIN route.url : route.url[i] = Placeholder(n)]]]

-----------------------------------------------------------------------------
(* Properties *)

\* The request that is injected by a contract reaches its route with the values it was
\* sent with, unless a value has a `/', and with the body the contract declares; with a
\* path prefix it reaches the route of the same contract below that prefix, with and
\* without slashes around the prefix.
RequestReachesRoute(config, sent, mapped, prefix) ==
    LET contract == BuildContract(config)
        route == BuildFastifyRoute(contract, mapped)
        api == BuildFastifyApiRoute(contract, <<>>, mapped)
        below == [api EXCEPT !.url = (IF prefix = <<>> THEN <<>> ELSE <<"/", "v1">>) \o @]
        whole == \A n \in config.params : Len(sent.values[n]) = 1
        Reached == [type |-> "handled", body |-> contract.body,
                    values |-> [n \in config.params |-> sent.values[n][1]]]
    IN  /\ (Handled(route, InjectByContract(contract, sent)) = Reached) <=> whole
        /\ (Handled(below, InjectByApiContract(contract, sent, prefix)) = Reached) <=> whole
        /\ route = api /\ route.config.contract = contract

\* Whoever moves from a deprecated builder or injector to the unified one keeps the
\* contract, the route and the request.
UnifiedIsDeprecated(config, sent, mapped) ==
    LET contract == BuildRestContract(config)
        injected == InjectByContract(contract, sent)
    IN  /\ contract = CASE config.method = "get"    -> BuildGetRoute(config)
                        [] config.method = "delete" -> BuildDeleteRoute(config)
                        [] OTHER                    -> BuildPayloadRoute(config)
        /\ BuildFastifyRoute(contract, mapped) =
              IF config.method \in PayloadMethods THEN BuildFastifyPayloadRoute(contract, mapped)
              ELSE BuildFastifyNoPayloadRoute(contract, mapped)
        /\ injected = CASE config.method = "get"    -> InjectGet(contract, sent)
                        [] config.method = "delete" -> InjectDelete(contract, sent)
                        [] config.method = "post"   -> InjectPost(contract, sent)
                        [] config.method = "put"    -> InjectPut(contract, sent)
                        [] config.method = "patch"  -> InjectPatch(contract, sent)
===============================================================================
