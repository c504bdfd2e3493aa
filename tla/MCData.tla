------------------------------- MODULE MCData -------------------------------
(***************************************************************************)
(* Parts that share no state, for TLC: the baseline of a database's        *)
(* migrations (MigrationBaseline), the polling loop (Polling), the bull    *)
(* board's refreshes (BullBoard) with closes that may fail and with closes *)
(* that do not, the collection of pages (Pagination), the retries of a     *)
(* transaction (PrismaTransaction), a promise's timeout (PromiseRace), the *)
(* deprecated job processor (LegacyProcessor), a transaction manager and a *)
(* dimensional metric (Metrics), and the health checks (Health).           *)
(* A behaviour is one of a single part, chosen at the start in `part'; the *)
(* others keep an initial state.  The algorithms of Delays, AwsConfig and  *)
(* BulkUpdate have no steps: `input' is what they are checked for.         *)
(***************************************************************************)
EXTENDS MigrationBaseline, Integers, Sequences

CONSTANTS
    Generations, MaxAttempts, MaxItem, Limits, RetriesAllowed, Timeouts, MaxTimeout,
    Processors, Disposals, NoProcessor, TestMode,
    Keys, TransactionNames, CustomLabels, Attributes, MaxClock,
    Instances, Dimensions, Amounts, MaxTotal,
    Checks, MaxHealthcheckNumber, Ttl, Concurrency,
    Steps, Project, UpdateColumns, TypeByColumn, EntriesLimit, BindParametersLimit,
    Updates, Retries, Polls, Tries, AnswerLists, Environments, Topics, Commands   \* inputs of the algorithms

ASSUME DataAssumption ==
    /\ MaxAttempts \in Nat \ {0}
    /\ MaxItem \in Nat /\ Limits \subseteq Nat \ {0}
    /\ RetriesAllowed \in Nat /\ Timeouts \subseteq Nat /\ MaxTimeout \in Nat
    /\ NoProcessor \notin Processors /\ TestMode \in BOOLEAN
    /\ "none" \notin TransactionNames
    /\ Amounts \subseteq Nat
    /\ IsFiniteSet(Checks) /\ MaxHealthcheckNumber \in Nat \ {0} /\ Ttl \in Nat

VARIABLES
    part,
    attempt, step, stopped, timer, listener, waited, polled, outcome, told,
    open, current, shown, refresh, fresh, old, server, closing,
    limit, items, lasting, cursor, collected, hasMore,
    initial, cockroach, timeout, retries, expired, result, applied, lost,
    controller, halted, promise, fuse, listening, settled,
    active, started, starting, queue, worker, listens, job, hook, waiting, refused,
    stage, target, overlapped, failed, orphans,
    transaction, labels, clock, run, runs, clean, emitted, owed, config, made, cached, series, added,
    store, checking, due, answer, age,
    input

baselineVars == vars
pollVars   == <<attempt, step, stopped, timer, listener, waited, polled, outcome, told>>
boardVars  == <<open, current, shown, refresh, fresh, old, server, closing>>
pageVars   == <<limit, items, lasting, cursor, collected, hasMore>>
prismaVars == <<initial, cockroach, timeout, retries, expired, result, applied, lost>>
raceVars   == <<controller, halted, promise, fuse, listening, settled>>
legacyVars == <<active, started, starting, queue, worker, listens, job, hook, waiting, refused,
                stage, target, overlapped, failed, orphans>>
metricVars == <<transaction, labels, clock, run, runs, clean, emitted, owed,
                config, made, cached, series, added>>
healthVars == <<store, checking, due, answer, age>>

Poll == INSTANCE Polling WITH aborted <- stopped
Failing == INSTANCE BullBoard WITH CloseMayFail <- TRUE
Reliable == INSTANCE BullBoard WITH CloseMayFail <- FALSE
Pages == INSTANCE Pagination
Transaction == INSTANCE PrismaTransaction
Race == INSTANCE PromiseRace WITH aborted <- halted, timer <- fuse
Deprecated == INSTANCE LegacyProcessor
    WITH IsTest <- TestMode, LazyInit <- TRUE, promise <- starting, lost <- refused
Metric == INSTANCE Metrics WITH Names <- TransactionNames, built <- made
Checkup == INSTANCE Health
Delays == INSTANCE Delays
Aws == INSTANCE AwsConfig WITH
    MaxPrefixLength <- 10, MaxQueueNameLength <- 64, MaxTopicNameLength <- 246,
    QueueLimit <- 80, TopicLimit <- 256
Bulk == INSTANCE BulkUpdate

\* what the algorithms are given, as their types allow it
ASSUME InputsAssumption ==
    /\ Steps \in Nat \ {0}
    /\ Retries \subseteq Delays!Headers \X (Nat \ {0}) \X Delays!RetryOptions \X Delays!Random
    /\ Polls \subseteq Delays!PollConfig \X Delays!Random \X Delays!Random
    /\ Tries \subseteq (Nat \ {0}) \X Nat \X Nat
    /\ AnswerLists \subseteq {w \in Seq(Delays!Answers) \X Nat : w[2] = 0 \/ Len(w[1]) >= w[2] + 2}
    /\ Environments \subseteq Aws!Environment \X Aws!Environment
    /\ Topics \subseteq Seq(Aws!Topic) \X Aws!Routing \X Aws!Resolution
    /\ Commands \subseteq Seq(Aws!Queue) \X Aws!Name \X Aws!Routing \X Aws!Resolution
    /\ IsFiniteSet(UpdateColumns) /\ DOMAIN TypeByColumn \subseteq UpdateColumns
    /\ EntriesLimit \in Nat /\ BindParametersLimit \in Nat
    /\ \A u \in Updates : Bulk!IsUpdate(u[1], u[2])

Eager == [family |-> "dimensional", kind |-> "counter", lazy |-> FALSE, declared |-> [i \in Instances |-> {}]]

Parts == {"baseline", "poll", "failing", "reliable", "pages", "transaction", "race",
          "processor", "runs", "series", "health"}

\* the parts that do not run begin in one state
PartsInit ==
    /\ IF part = "poll" THEN TRUE ELSE stopped = FALSE
    /\ IF part \in {"failing", "reliable"} THEN TRUE ELSE current = CHOOSE g \in Generations : TRUE
    /\ IF part = "pages" THEN TRUE ELSE items = {} /\ limit = CHOOSE n \in Limits : TRUE
    /\ IF part = "transaction" THEN TRUE ELSE cockroach = FALSE /\ initial = CHOOSE t \in Timeouts : TRUE
    /\ IF part = "race" THEN TRUE ELSE controller = FALSE
    /\ IF part = "series" THEN TRUE ELSE config = Eager
    /\ Init /\ Poll!Init /\ Failing!Init /\ Pages!Init /\ Transaction!Init /\ Race!Init
    /\ Deprecated!Init /\ Metric!Init /\ Checkup!Init
    /\ part # "pages" => cursor = 0

\* what is given to the algorithm that a behaviour is about
InputsInit ==
    \/ part \in Parts /\ input = <<>>
    \/ part = "bulk" /\ input \in Updates
    \/ part = "retries" /\ input \in Retries
    \/ part = "polls" /\ input \in Polls
    \/ part = "tries" /\ input \in Tries
    \/ part = "predicate" /\ input \in AnswerLists
    \/ part = "environment" /\ input \in Environments
    \/ part = "topics" /\ input \in Topics
    \/ part = "commands" /\ input \in Commands

MCInit == InputsInit /\ PartsInit

restVars == <<legacyVars, metricVars, healthVars>>

\* the parts about data and pages, and the waits
DataNext ==
    /\ UNCHANGED restVars
    /\ \/ /\ part = "baseline" /\ Next
          /\ UNCHANGED <<pollVars, boardVars, pageVars, prismaVars, raceVars>>
       \/ /\ part = "poll" /\ Poll!Next
          /\ UNCHANGED <<baselineVars, boardVars, pageVars, prismaVars, raceVars>>
       \/ /\ part = "failing" /\ Failing!Next
          /\ UNCHANGED <<baselineVars, pollVars, pageVars, prismaVars, raceVars>>
       \/ /\ part = "reliable" /\ Reliable!Next
          /\ UNCHANGED <<baselineVars, pollVars, pageVars, prismaVars, raceVars>>
       \/ /\ part = "pages" /\ Pages!Next
          /\ UNCHANGED <<baselineVars, pollVars, boardVars, prismaVars, raceVars>>
       \/ /\ part = "transaction" /\ Transaction!Next
          /\ UNCHANGED <<baselineVars, pollVars, boardVars, pageVars, raceVars>>
       \/ /\ part = "race" /\ Race!Next
          /\ UNCHANGED <<baselineVars, pollVars, boardVars, pageVars, prismaVars>>

\* the processor and what observes the service
ServiceNext ==
    /\ UNCHANGED <<baselineVars, pollVars, boardVars, pageVars, prismaVars, raceVars>>
    /\ \/ part = "processor" /\ Deprecated!Next /\ UNCHANGED <<metricVars, healthVars>>
       \/ part = "runs" /\ Metric!TransactionNext /\ UNCHANGED <<legacyVars, healthVars>>
       \/ part = "series" /\ Metric!SeriesNext /\ UNCHANGED <<legacyVars, healthVars>>
       \/ part = "health" /\ Checkup!Next /\ UNCHANGED <<legacyVars, metricVars>>

MCNext ==
    /\ UNCHANGED <<part, input>>
    /\ DataNext \/ ServiceNext

allVars == <<part, input, baselineVars, pollVars, boardVars, pageVars, prismaVars, raceVars, restVars>>

MCSpec == MCInit /\ [][MCNext]_allVars

-----------------------------------------------------------------------------
(* Properties: the components' own *)

\* The hooks tell how polling ended, once, with the polls that were made; neither a
\* timer nor a listener outlives a delay, or a race of a promise and its timeout, which
\* aborts the operation it gives up.
EndsCleanly == Poll!HooksTellOutcome /\ Poll!DelayCleansUp /\ Race!RaceCleansUp

\* The dashboard never shows closed queues while the server is up, and when closes
\* succeed, at most two generations of queues are open.
ShowsOpenQueues ==
    /\ Failing!ShowsOpenQueues
    /\ part = "reliable" => Failing!TwoGenerations

\* Every item that lasts is collected, and none twice.  A transaction is committed as
\* often as its result says, and once more for each commit whose answer was lost; its
\* timeout is doubled after each try that timed out, up to maxTimeout.
OnceEach == Pages!CollectsAll /\ Transaction!AppliedOnce /\ Transaction!TimeoutDoubles

\* One deprecated processor of a queue id works at a time, with open connections.
OneProcessorWorks == Deprecated!OneProcessorWorks

\* What metrics and health checks report is what was measured, declared and answered.
ObservationsAreTrue == Metric!RunsAreMeasured /\ Metric!SeriesAreDeclared /\ Checkup!HealthIsFresh

\* A bulk update does to every row what its entries would one by one, and refuses those
\* that cannot be one statement.
BulkUpdatesApply == part = "bulk" => Bulk!BulkUpdatesApply(input[1], input[2])

\* An accepted environment makes one configuration however it is read; valid names fit, and
\* publishers and consumers resolve them to the same resources, to which the consumers'
\* queues may subscribe.  Every delay is as long as it was configured, and a wait for a
\* predicate ends.  The cases left open are named by ConfigsAgree, NamesFit and WaitEnds.
ConfigsHold ==
    /\ part = "environment" => Aws!ConfigsAgree(input[1], input[2])
    /\ part = "topics" => Aws!NamesFit(input[1], input[2], input[3])
                          /\ Aws!OptionsAgree(input[1], input[2], input[3])
    /\ part = "commands" => Aws!CommandsAgree(input[1], input[2], input[3], input[4])
    /\ part = "retries" => Delays!RetriesWait(input[1], input[2], input[3], input[4])
    /\ part = "polls" => Delays!PollsWait(input[1], input[2], input[3])
    /\ part = "tries" => Delays!TriesWait(input[1], input[2], input[3])
    /\ part = "predicate" => Delays!WaitEnds(input[1], input[2])
=============================================================================
