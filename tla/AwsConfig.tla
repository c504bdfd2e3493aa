------------------------------ MODULE AwsConfig ------------------------------
(***************************************************************************)
(* aws-config: the configuration that getAwsConfig and getEnvaseAwsConfig  *)
(* read from the environment, and the options that the SNS and the SQS     *)
(* resolver make of a routing configuration for the publishers and the     *)
(* consumers of message-queue-toolkit, which create or locate the topics   *)
(* and queues (AWS, the toolkit and envase are external).                  *)
(* A name is the application it starts with, the separator that follows,   *)
(* whether the rest has the shape of the convention, and its length.       *)
(***************************************************************************)
EXTENDS Integers, Sequences, FiniteSets

CONSTANTS
    Project,                                      \* config.project
    MaxPrefixLength,                              \* MAX_AWS_RESOURCE_PREFIX_LENGTH
    MaxQueueNameLength, MaxTopicNameLength,
    QueueLimit, TopicLimit                        \* of AWS itself

Throws == [type |-> "throws"]

\* an option is a sequence of its value, or empty when undefined
Option(T) == {o \in Seq(T) : Len(o) <= 1}
Or(option, default) == IF option = <<>> THEN default ELSE option[1]

-----------------------------------------------------------------------------
(* The environment: the length of the prefix is 0 when there is none *)

Environment ==
    [region : BOOLEAN, prefix : Nat, endpoint : {"unset", "url", "text"}, keyId : BOOLEAN,
     secret : BOOLEAN, kmsKeyId : Option(STRING), owner : STRING]

\* resolveCredentials: both keys, or else the chain of the SDK's providers
Credentials(env) == IF env.keyId /\ env.secret THEN "static" ELSE "chain"

GenerateAwsConfig(env) ==
    [region |-> env.region, kmsKeyId |-> Or(env.kmsKeyId, ""), endpoint |-> env.endpoint,
     owner |-> env.owner, prefix |-> env.prefix, credentials |-> Credentials(env)]

\* fault: the environment is read at each call
GetAwsConfigAnew(cached, env) ==
    [cached |-> <<>>,
     result |-> IF ~env.region \/ env.prefix > MaxPrefixLength THEN Throws ELSE GenerateAwsConfig(env)]

\* getAwsConfig: what is cached is not validated again
GetAwsConfig(cached, env) ==
    LET config == GenerateAwsConfig(env) IN
    IF cached # <<>> THEN [cached |-> cached, result |-> cached[1]]
    ELSE IF ~env.region THEN [cached |-> <<>>, result |-> Throws]
         ELSE [cached |-> <<config>>, result |-> IF config.prefix > MaxPrefixLength THEN Throws ELSE config]

\* getEnvaseAwsConfig: the schema, and the credentials computed of what was parsed
GetEnvaseAwsConfig(env) ==
    IF ~env.region \/ env.endpoint = "text" \/ env.prefix > MaxPrefixLength THEN Throws
    ELSE GenerateAwsConfig(env)

-----------------------------------------------------------------------------
(* Names *)

Name == [app : STRING, separator : STRING, valid : BOOLEAN, length : Nat]
Queue == [name : Name, external : BOOLEAN, owner : STRING]
Topic ==
    [name : Name, external : BOOLEAN, queues : Seq(Queue), apps : SUBSET [name : STRING, end : STRING],
     owner : STRING]

\* applyAwsResourcePrefix, and the suffix of a dead letter queue
Resource(name, awsConfig, suffix) == [prefix |-> awsConfig.prefix, name |-> name, suffix |-> suffix]
Length(resource) ==
    (IF resource.prefix = 0 THEN 0 ELSE resource.prefix + 1) + resource.name.length + Len(resource.suffix)
Dlq == <<"-", "d", "l", "q">>

\* the project, `-' or the older `_', and one to three parts of a queue's name
Conventional(name) == name.app = Project /\ name.separator \in {"-", "_"} /\ name.valid

ValidQueues(queues) ==
    \A i \in DOMAIN queues :
        /\ queues[i].name.length <= MaxQueueNameLength
        /\ queues[i].external \/ Conventional(queues[i].name)

ValidTopics(topics) ==
    \A i \in DOMAIN topics :
        /\ topics[i].name.length <= MaxTopicNameLength
        /\ topics[i].external \/ Conventional(topics[i].name)
        /\ ValidQueues(topics[i].queues)

\* groupByUnique
Unique(items) == \A i, j \in DOMAIN items : items[i].name = items[j].name => i = j

\* the constructors of the resolvers
SqsResolves(queues, config) == (config.validate => ValidQueues(queues)) /\ Unique(queues)
SnsResolves(topics, config) ==
    /\ config.validate => ValidTopics(topics)
    /\ \A i \in DOMAIN topics : Unique(topics[i].queues)
    /\ Unique(topics)

-----------------------------------------------------------------------------
(* Permissions *)

\* which queues may subscribe: those of the project, and of the applications named,
\* which may end in `-' or in `*'
SubscribePrefixes(topic, awsConfig) ==
    IF topic.external THEN {}
    ELSE {[prefix |-> awsConfig.prefix, app |-> app.name, separator |-> IF app.end = "*" THEN "" ELSE "-"] :
             app \in {[name |-> Project, end |-> ""]} \cup topic.apps}

\* AWS matches an ARN with a wildcard
Covers(pattern, resource) ==
    /\ pattern.prefix = resource.prefix /\ pattern.app = resource.name.app
    /\ pattern.separator \in {"", resource.name.separator}

\* resolvePolicyConfig
Principal(awsConfig) == IF awsConfig.owner \in {"", " "} THEN "*" ELSE awsConfig.owner

-----------------------------------------------------------------------------
(* Options *)

Routing == [appEnv : {"development", "staging", "production"}, validate : BOOLEAN]
Resolution ==
    [awsConfig : [prefix : Nat, owner : STRING, kmsKeyId : STRING], isTest : BOOLEAN,
     update : Option(BOOLEAN), forceTags : Option(BOOLEAN), preHandlers : Nat]

Development(config) == config.appEnv = "development"

StartupPolling(config, params) ==
    [enabled |-> ~params.isTest,
     interval |-> IF Development(config) THEN 5 ELSE 30,
     timeout |-> IF Development(config) THEN <<>> ELSE <<300>>]

Located(name, config, params) ==
    [locator |-> <<[name |-> Resource(name, params.awsConfig, <<>>),
                    polling |-> StartupPolling(config, params)]>>,
     creation |-> <<>>]

\* appEnvToTagEnv
TagEnv(appEnv) ==
    CASE appEnv = "production" -> "live" [] appEnv = "development" -> "dev" [] appEnv = "staging" -> "stage"

Tags(item, config, service) ==
    [env |-> TagEnv(config.appEnv), project |-> Project, service |-> service, owner |-> item.owner]

Created(item, config, params, service, subscribers, principal) ==
    [locator |-> <<>>,
     creation |-> <<[name |-> Resource(item.name, params.awsConfig, <<>>),
                     tags |-> Tags(item, config, service), key |-> params.awsConfig.kmsKeyId,
                     subscribers |-> subscribers, principal |-> principal,
                     update |-> Or(params.update, TRUE),
                     forceTags |-> Or(params.forceTags, Development(config))]>>]

ResolveTopic(topic, config, params) ==
    IF topic.external THEN Located(topic.name, config, params)
    ELSE Created(topic, config, params, "sns", SubscribePrefixes(topic, params.awsConfig), "")

ResolveQueue(queue, config, params, principal) ==
    IF queue.external THEN Located(queue.name, config, params)
    ELSE Created(queue, config, params, "sqs", {}, principal)

\* the dead letter queue is of a queue that is created, and not in tests
CommonConsumerOptions(params, creation) ==
    [deleteIfExists |-> params.isTest,
     terminateVisibilityTimeout |-> params.isTest,
     preHandlers |-> params.preHandlers + 1,
     dlq |-> IF params.isTest \/ creation = <<>> THEN <<>>
             ELSE <<[creation[1].name EXCEPT !.suffix = Dlq]>>]

Find(items, name) == {items[i] : i \in {j \in DOMAIN items : items[j].name = name}}

SqsPublisherOptions(queues, name, config, params) ==
    IF Find(queues, name) = {} THEN Throws
    ELSE LET queue == CHOOSE q \in Find(queues, name) : TRUE
         IN  [type |-> "publisher", queue |-> ResolveQueue(queue, config, params, Principal(params.awsConfig))]

SqsConsumerOptions(queues, name, config, params) ==
    LET queue == CHOOSE q \in Find(queues, name) : TRUE
        resolved == ResolveQueue(queue, config, params, Principal(params.awsConfig))
    IN  IF Find(queues, name) = {} THEN Throws
        ELSE [type |-> "consumer", queue |-> resolved,
              common |-> CommonConsumerOptions(params, resolved.creation)]

SnsPublisherOptions(topics, name, config, params) ==
    IF Find(topics, name) = {} THEN Throws
    ELSE LET topic == CHOOSE t \in Find(topics, name) : TRUE
         IN  [type |-> "publisher", topic |-> ResolveTopic(topic, config, params)]

SnsConsumerOptions(topics, name, queueName, config, params) ==
    LET topic == CHOOSE t \in Find(topics, name) : TRUE
        queue == CHOOSE q \in Find(topic.queues, queueName) : TRUE
        resolved == ResolveQueue(queue, config, params, "")
    IN  IF Find(topics, name) = {} THEN Throws
        ELSE IF Find(topic.queues, queueName) = {} THEN Throws
        ELSE IF queue.external THEN Throws
        ELSE [type |-> "consumer", topic |-> ResolveTopic(topic, config, params), queue |-> resolved,
              publishers |-> Resource(topic.name, params.awsConfig, <<>>),
              common |-> CommonConsumerOptions(params, resolved.creation)]

-----------------------------------------------------------------------------
(* Properties *)

\* The first call of getAwsConfig tells, as envase does, which environment is valid, but
\* for the endpoint, which envase alone checks.  The calls after it return what it made,
\* and read the environment anew when it threw.  Nothing is claimed of the calls after one
\* that refused the prefix: the code has cached what it refused, and returns it.
ConfigsAgree(first, second) ==
    LET call == GetAwsConfig(<<>>, first)
        next == GetAwsConfig(call.cached, second)
        Refused == first.region /\ first.prefix > MaxPrefixLength
    IN  /\ first.endpoint # "text" => GetEnvaseAwsConfig(first) = call.result
        /\ GetEnvaseAwsConfig(first) # Throws => GetEnvaseAwsConfig(first) = call.result
        /\ call.result # Throws => next.result = call.result
        /\ call.result = Throws /\ ~Refused => next = GetAwsConfig(<<>>, second)

\* When names and prefix are valid, no name is too long for AWS.  Nothing is claimed of a
\* topic's name of the greatest length behind the longest prefix, for which the code's
\* limits leave no room for the separator, but that it is one character too long at most.
NamesFit(topics, config, params) ==
    config.validate /\ SnsResolves(topics, config) /\ params.awsConfig.prefix <= MaxPrefixLength =>
        \A i \in DOMAIN topics :
            LET topic == Resource(topics[i].name, params.awsConfig, <<>>)
                Longest == topics[i].name.length = MaxTopicNameLength /\ topic.prefix = MaxPrefixLength
            IN  /\ Length(topic) <= TopicLimit + (IF Longest THEN 1 ELSE 0)
                /\ \A j \in DOMAIN topics[i].queues :
                      LET consumer == SnsConsumerOptions(topics, topics[i].name, topics[i].queues[j].name, config, params)
                      IN  consumer # Throws /\ consumer.common.dlq # <<>> => Length(consumer.common.dlq[1]) <= QueueLimit

\* Publishers and consumers resolve a name to the same resource, which is created by
\* all of them or, when external, by none; what is created has tags and a key.  The
\* queues of a topic may subscribe to it, but for those whose name has the older `_'.
OptionsAgree(topics, config, params) ==
    SnsResolves(topics, config) =>
        \A i \in DOMAIN topics : \A j \in DOMAIN topics[i].queues :
            LET topic == topics[i]
                queue == topic.queues[j]
                publisher == SnsPublisherOptions(topics, topic.name, config, params)
                consumer == SnsConsumerOptions(topics, topic.name, queue.name, config, params)
                Pattern == publisher.topic.creation[1].subscribers
            IN  /\ publisher # Throws
                /\ consumer = Throws <=> queue.external
                /\ consumer # Throws =>
                      /\ consumer.topic = publisher.topic
                      /\ (consumer.topic.creation = <<>>) # (consumer.topic.locator = <<>>)
                      /\ consumer.topic.locator # <<>> <=> topic.external
                      /\ consumer.queue.creation # <<>>
                      /\ consumer.common.dlq = <<>> <=> params.isTest
                      /\ consumer.common.dlq # <<>> => Length(consumer.common.dlq[1]) = Length(consumer.queue.creation[1].name) + 4
                      /\ ~topic.external /\ config.validate =>
                            ((\E p \in Pattern : Covers(p, consumer.queue.creation[1].name)) <=>
                                \/ queue.name.separator = "-"
                                \/ [name |-> Project, end |-> "*"] \in topic.apps)

\* The same of a queue for commands, which the account that may send to it is told.
CommandsAgree(queues, name, config, params) ==
    LET publisher == SqsPublisherOptions(queues, name, config, params)
        consumer == SqsConsumerOptions(queues, name, config, params)
    IN  SqsResolves(queues, config) =>
            /\ publisher = Throws <=> consumer = Throws
            /\ publisher = Throws <=> \A i \in DOMAIN queues : queues[i].name # name
            /\ publisher # Throws =>
                  /\ publisher.queue = consumer.queue
                  /\ consumer.common.dlq # <<>> => consumer.queue.locator = <<>> /\ ~params.isTest
                  /\ publisher.queue.creation # <<>> =>
                        publisher.queue.creation[1].principal \notin {"", " "}
=============================================================================
