# Verification of shared-ts-libs

TLA+ models of the parts of this monorepo whose correctness depends on the order
in which things happen: locks and timers in Redis, processors and queues that are
started and stopped by overlapping calls, migrations run by overlapping deploys,
streams, retries, polling and transactions; and of the algorithms whose answers
several parts have to agree on: contracts and the clients and routes that use them,
filters, schema snapshots, bulk updates, delays and configurations. The modules are
checked with TLC on small instances; the theorems are checked with TLAPS for every
value of the constants.

`PROJECT.json` maps every definition to the source lines it models, lists the runs,
the hazards and the theorems. Paths below are relative to `src/packages/app/`.

Contents: [inventory](#1-inventory) · [modules](#2-modules-and-how-they-correspond-to-the-code)
· [runs](#3-runs-bounds-and-what-they-show) · [fairness](#4-fairness) ·
[proofs](#5-proofs) · [divergences](#6-where-the-code-does-something-else-than-it-says)
· [not modelled](#7-what-is-not-modelled) · [plan](#8-plan)

## 1. Inventory

The monorepo holds some thirty packages that share no process state; within a
package the components below keep state and interact.

### Background jobs (`background-jobs-common`)

| Component | State | Operations | What is hard | What makes it correct |
|---|---|---|---|---|
| Periodic jobs (`AbstractPeriodicJob`) | scheduler registration, the mutex and its refresh timer per node; one key with a TTL in Redis | register, timer, acquire, reacquire, refresh, run, shorten the lock, dispose | every await on Redis interleaves with timers, disposal, other nodes, expiry and crashes; late refreshes; leftover mutexes of earlier runs | undisturbed runs exclude each other; a running job holds its lock; nobody loses an unexpired lock; a crashed or disposed node frees it; the job keeps running |
| Throttling barrier | none of its own; the count of another queue | count, pass or delay, schedule children | check-then-act between executions on all nodes | the overflow is bounded |
| Processor lifecycle (`AbstractBackgroundJobProcessorNew`, `BackgroundJobProcessorMonitor`) | the registered queue ids of the process, worker reference, start promise, hooks under way | start, dispose | overlapping calls of processors that share a queue id; jobs and hooks that run meanwhile | one worker per queue id; no worker that nobody can dispose; a disposal drains and ends |
| Execution of a job (same class) | BullMQ job: attempts, state, lock, data; hooks | barrier, process, fail, complete, stall, retry, hooks, purge | events of one job are heard late and by different workers; stalls; manual retries; workers that die | hooks tell how the job ended, once each time; an end goes untold only for a known reason; only completed jobs are purged |
| Job spy | recorded results, list of waits | wait, record, clear | several waits answered by one job | no wait is lost or left unanswered |
| Queue manager and registry | BullMQ `Queue` objects by id, start promise | start, lazy start, operations, dispose | callers join or overtake a start or a disposal | no leaked connection; calls end; a started queue is found |
| Flow manager | one `FlowProducer`, start and dispose promises | start, lazy start, flows, dispose | a disposal during a start; a connection that fails | no leaked producer; a disposal is final; calls end |
| Factories, configuration, errors | a sorted set of queue ids in Redis | constructors, option merging | — | — |

The processor builds the worker that executes jobs; the barrier is awaited inside
an execution; the queue manager puts jobs into the queues; manager and processor
report to the spy; the bull board plugin reads the set of queue ids that managers
and processors add to.

### Other stateful components

| Component | State | Operations | What is hard | What makes it correct |
|---|---|---|---|---|
| Migration baseline (`drizzle-utils`) | the migrations table, the journal of the folder, the schema | probe, read rows, insert per entry; then `migrate` | overlapping deploys, death between two INSERTs, migrations added later | migrate never meets existing tables; rows are not duplicated by restarts; new migrations run |
| Bull board plugin | queues shown, scheduled refresh (module state) | discover, replace, close, shutdown | refresh against shutdown, closes that fail | never shows closed queues; connections do not pile up |
| Backend HTTP retries | attempts, sleep, response body | attempt, dump, sleep, abort | abort at any await | bodies consumed; attempts bounded |
| Frontend SSE connection | parser state, closed flag | connect, read, parse, close | chunks cut lines anywhere; `close()` inside a callback | events in order, once; after `close()` no event and no end |
| Polling | attempt, timer, listener | poll, wait, abort | timer and abort race | hooks tell the outcome; nothing is left behind |
| `promiseWithTimeout` | timer, listener | race, abort | three-way race for one settlement | timer stopped, operation aborted |
| `waitAndRetry` | attempt, timer | poll a predicate | exceptions in timer callbacks | it ends with the first truthy answer or the last |
| Pagination (`api-common`) | cursor | page, collect | items come and go between pages | what lasts is collected once |
| Prisma transactions | retries, timeout | run, retry | lost answers, growing timeouts | committed as often as reported |
| Route by contract (`fastify-api-contracts`) | one request: head, session or stream, connection, close initiator | respond, start, send, replay, pipe, close | the handler, the client and the replay interleave; the head is sent once | what is sent is what a strict client resolves; the close has the right initiator; nothing is read for nobody |
| Deprecated processor (`AbstractBackgroundJobProcessor`) | the id, queue, worker and start promise of each processor | start, schedule (lazy start), dispose | failed starts and closes, lazy starts that wait | one processor per id, with open connections; nothing open is lost |
| Health checks | last results with an expiry, in a FIFO map | refresh job, read | staleness, eviction, rejected checks | an old result is not reported as healthy |
| Transaction metrics, dimensional and labeled metrics | running transactions by key; series in a registry | start, label, stop; construct, register | keys that repeat, measurements that throw, instances that share a series | durations, labels and series match |
| AWS configuration | the configuration cached by the module | read, resolve publishers and consumers | what is cached before it is checked; names at their limits | both sides of a topic or a queue resolve to one resource |

### Clients and algorithms

| Component | Operations | What is hard | What makes it correct |
|---|---|---|---|
| Legacy HTTP client (`backend-http-client`) | ten operations with their options | every operation chooses its defaults | what was to be validated is validated; no error status is a result |
| Requests by contract (both clients) | select the entry, read or hand over the body | exact, range and default entries; refusals after the body was set aside | every body is accounted for; the entry is the most specific |
| Frontend requests (`frontend-http-client`) | send, upload with progress, events to callbacks | aborts, empty responses | promises settle as the options ask |
| Contract builders, routes and injectors | build, route, inject | two generations of builders and injectors | a request reaches the route of its contract |
| Mock servers (`universal-testing-utils`) | answers and streams by contract | four helpers for one contract | what is mocked is resolved as the contract says |
| OData mapper | transform, extract | operands in any order, binds, lists | a filter keeps its meaning; extraction loses no row |
| Bulk updates, schema snapshots (`drizzle-utils`, `prisma-utils`) | one statement; snapshot, difference | columns that differ per entry; numbered columns | as the entries one by one; the same exactly if the databases are |
| Delays (four packages) | backoff, jitter, Retry-After | limits and rounding | waits are as long as configured |

Without state or with none of their own, and not modelled: dashboard authentication
and error reporting, authentication (`auth`), most of `universal-ts-utils`,
`context-fastify-plugins`, text and language data, telemetry bootstraps and a handful
of small packages; [section 7](#7-what-is-not-modelled) has the reasons.

## 2. Modules and how they correspond to the code

In all modules of JavaScript code **a step is what runs between two awaits**. The
callers that await one promise resume together, in the microtasks that follow its
settlement and before any timer or I/O event, so they resume in one step. External
parts (Redis and `redis-semaphore`, BullMQ, the database, undici, the browser's
fetch, timers) are modelled from how the code uses them and are marked external in
the map.

Operators under a comment that begins with `fault` are alternatives of the
definition below them, with the mistake the comment names: a dropped guard, a
missing reset, an off-by-one. No specification uses them. Each property of a passing
run is paired in `PROJECT.json` ("mutants") with one that breaks it, which shows
that the property can fail within the run's bounds.

**PeriodicJob** — `periodic-jobs/`. An executor is one registration. `pc` is the
await `process()` is in, `owner`/`ttl` the Redis key, `timer`/`refresh` the refresh
timer of the mutex and its command, `release` a release on its way, `reg` the
scheduler. A Redis command is sent, executed (`Redis...`) and answered (`...Reply`)
in separate steps; `Tick` ages the key, the timers and what is unanswered.
Refresh and release are separate from the commands `process()` awaits and may
overtake one another: redis-semaphore runs scripts by hash and falls back to the
text when the server does not know it, which costs a round trip. Mutexes that are
left by earlier runs of one executor carry the same identifier; their refreshes are
one command (`RedisLeftover`). Only the single-consumer mode is modelled: without a
lock every node runs on its own.

**LeasedLock** — what that mode promises, as a specification of its own: clients take,
renew, shorten and release a lease, and are inside an exclusive section that only the
holder enters. The lease does not run out, and is not shortened, under a client that is
inside; it ends before its time only when its holder has resigned. `ImplementsLock` in
PeriodicJob says that it implements LeasedLock under this mapping: holder and time left
are the Redis key's, inside are the executors whose run is undisturbed, resigned are the
disposed ones. Most commands and awaits map to stutters.

**ThrottlingBarrier** — `barrier/`. Executions on all nodes count, pass or are
delayed, and schedule children one by one into the counted queue.

**ProcessorLifecycle** — `start()`, `dispose()`, listeners, hooks under way and the
monitor's set of queue ids. `IsTest` is the test mode, where `start()` awaits the
worker and a disposal closes by force.

**JobExecution** — one job through `processInternal`, BullMQ's outcome and the hooks.
Redis changes the job in one step (`Complete`, `Fail`, `Stall`), and the worker's event is
heard in a later one (`HearCompleted`, `HearFailed`): meanwhile the job may be retried, taken by
another worker and end again. `round` counts its lives between one retry and the next; `outcome`
is how a round ended in Redis, `told` the hook that was called for it. A worker may die with what it
has not told. A manual retry leaves `attemptsMade` as it is, which is BullMQ's default (the
peer dependency is ^5.28).

**JobSpy** — `waitForJob`, `waitForJobWithId`, `addJob`, `clear`.

**QueueManager**, **FlowManager** — start, lazy start, operations and dispose, with
the registry of queues or the one producer. A `close()` that rejects is caught or swallowed by
`allSettled` and the code goes on as after one that succeeds, so "closed" in these two modules
means that `close()` has settled.

**MigrationBaseline** — `markMigrationsApplied` in every deploy, followed by
`drizzle-kit migrate` (external). `Legacy` are the migrations whose tables the earlier
ORM built.

**BullBoard** — discovery, `replaceQueues`, closes, server shutdown.

**LegacyProcessor** — the deprecated processor, of which two share a queue id, with its own
queue as well as its worker: `start`, `schedule` with its lazy start, `dispose`; any connection
and the close of the worker or the queue may fail.

**HttpRetry** — `withRetry`. A delay is nothing or some time; Delays has how long. undici refuses
a request whose signal is aborted already.

**Delays** — how long four packages wait: `computeRetryDelay` and the delay builders, the
exponential backoff of polling, the retry delay of transactions, and `waitAndRetry` as a
function of its predicate's answers. Jitter is a fraction of `Steps`.

**HttpClient**, **FrontendClient** — one call of an operation over every answer of a server: what
is read, parsed, validated, thrown or returned. Options are unset or set, so that each
operation's defaults matter: the properties compare the outcome with what the caller asked for
(`request`), whatever the operation passed on. FrontendClient has the upload and its abort, and
the events that `sseStreamToCallbacks` delivers.

**ContractResponse** — the selection of a response entry by status and media type, which the
clients, the routes and the mocks instantiate. **ContractClient** — `sendByApiContract` of
either runtime (`Fetch`), with what becomes of the body at every exit.

**FastifyApiRoute** — one request to a route of `buildFastifyApiRoute`: the handler returns, throws, starts
a session or returns a stream, while the client disconnects and missed events are replayed.

**Routes** — builders of contracts, routes and injected requests, old and new, as functions; a
path is a sequence of slashes, words and parameters. **Mocks** — what msw and mockttp helpers
answer.

**Metrics**, **Health**, **AwsConfig**, **ODataFilter**, **SchemaSnapshot**, **BulkUpdate** — metrics-utils,
healthcheck-utils, aws-config, odata-mapper and the two algorithms on databases. ODataFilter
evaluates a filter on rows before and after the transformation; SchemaSnapshot compares
catalogs by what they say, with the text that PostgreSQL makes of an `int2vector` and the numbers
that `parsePgIntArray` reads of it; names have no dots. BulkUpdate applies the statement to a row.

**SseStream** — the connection of `sse.ts` with the parser of `sseUtils.ts`. A body is a
sequence of symbols that is cut into chunks anywhere. `HandleSseEvent` calls a handler or `onError`,
and that callback returns or throws in a step of its own (`Return`, `Throw`), between which and
the call it may have closed the connection; what the `catch` of `handleSseEvent` does with an
exception is part of `Throw`. Carriage returns are not in the alphabet: a blank line that ends
with CRLF does not dispatch an event in this parser.

**Polling** — the exponential backoff strategy with `delay()`; the durations are in Delays.

**PromiseRace** — `promiseWithTimeout`.

**Pagination** — `getPaginatedEntries` over `createPaginatedResponse`, with unique ids as
cursor keys; the query is external and returns one item more than the page holds.

**PrismaTransaction** — `prismaTransaction`; its delays are in Delays.

The **MC modules** compose components for TLC. `MCQueueManager` and `MCFlowManager` run a manager
in both configurations, chosen at the start in `setup`. `MCJobs`, `MCData` and `MCServices` hold components
that share nothing: a behaviour is one of a single component, chosen at the start in
`part`, and the state space is the sum, not the product, of theirs. The algorithms (Delays,
AwsConfig and BulkUpdate in MCData, Routes and Mocks in MCServices) are functions without
steps: their parts have an initial state for every `input`, of sets that are constants, and
their properties are about `input`. **MCInputs** extends MCData with the values of those sets and
with the filters of ODataFilter and the catalogs of SchemaSnapshot, which are checked in the
same way; they are recursive operators, which a module with proofs may not reach.
Components that do interact are composed inside one module (nodes and Redis in PeriodicJob,
processors, monitor, workers and hooks in ProcessorLifecycle, manager and registry in
QueueManager, deploys and database in MigrationBaseline).

The constants of the composed components are constants of the MC modules, with the
assumptions that proofs need named `JobsAssumption`, `DataAssumption`, `InputsAssumption` and
`ServicesAssumption`. Each component
defines its inductive invariant (`IInv`, or named parts of it) next to its properties.

## 3. Runs, bounds and what they show

| Run | Instance | Shows |
|---|---|---|
| PeriodicJobSafety | 2 registrations, lease 5, refresh every 2, delays of up to 1, shortened lease 3, one Redis error; symmetric | `LeaseMargins` (how much lease is left at each point of a refresh cycle), `ExclusiveRun`, `ImplementsLock` |
| PeriodicJobLiveness | 2 registrations, lease 2, refresh every 1, punctual answers, shortened lease 1, one Redis error | `CrashFreesLock`, `JobKeepsRunning`, `DisposalFreesLock` |
| Jobs | 3 executions with 2 children each against a limit of 3; 3 workers, 3 attempts, 1 stall, 1 retry by hand, 1 death; 2 jobs, 3 waits; a processor in test mode | `BoundedOverflow`, `HooksTellState`, `ListedIsUnanswered`, `LossNeedsTwoMatches`, `StartedListens` |
| ProcessorLifecycle | 2 processors of one queue id, 2 workers, 3 hooks, concurrency 2 | `OneWorkerPerQueue`, `DisposeDrains`, `DisposeEnds` |
| QueueManager | 2 queues, 3 calls, both configurations | `NoLeakedQueue`, `CallsEnd`, `ExplicitFindsQueue` |
| FlowManager | 3 calls, 2 disposals, 2 producers, both configurations | `NoLeakedProducer`, `DisposeIsFinal`, `CallsEnd` |
| Data | the parts of MCData and MCInputs, below | eleven properties, below |
| Services | the parts of MCServices, below | nine properties, below |
| ProcessorDisposeStops, JobSpyMissedJob, MigrationNew, QueueManagerLazy | small instances | the counterexamples of [section 6](#6-where-the-code-does-something-else-than-it-says) |

Parts of **Data** and what is checked of them:

| Part | Instance | Property |
|---|---|---|
| baseline | 2 overlapping deploys, 4 migrations of which 1, 2 and 4 are legacy | `NeverCollides`, `RowsPerDeploy` |
| poll, race | 3 attempts; one race | `EndsCleanly` |
| failing, reliable | 4 generations of queues, closes that fail and that do not | `ShowsOpenQueues` |
| pages, transaction | 5 items in pages of 1 or 2; 3 retries, timeouts 2, 3 and 9 against a maximum of 6 | `OnceEach` |
| processor | 2 deprecated processors of one id, 2 disposals, lazy start | `OneProcessorWorks` |
| runs, series, health | one key with two names; two instances with two dimensions; 3 checks in a store for 2 | `ObservationsAreTrue` |
| filter | trees of up to two levels over all leaves, 4 binds, every row of two fields | `FiltersKeepMeaning` |
| snapshot, mysql | pairs of catalogs with two numberings, keys and indexes present or not; sets of statistics rows | `SnapshotsTellApart` |
| bulk | lists of up to two entries over three columns, with nulls and undefined values, and one list beyond the limits | `BulkUpdatesApply` |
| environment, topics, commands | prefixes and names at and beyond their limits, internal and external resources | `ConfigsHold` |
| retries, polls, tries, predicate | options set and unset, headers of seconds and dates, jitter in quarters, predicates that answer, reject or throw | `ConfigsHold` |

Parts of **Services**:

| Part | Instance | Property |
|---|---|---|
| stream | bodies of up to 4 lines in all cuts, closed at any point | `EventsInOrder`, `SilentAfterClose` |
| retry | 2 retries, aborts at any await | `RetriesEnd` |
| http | every operation with options set and unset, every answer | `AnswersAreChecked` |
| front | every operation, uploads and streams of up to 2 events with aborts | `SettlesAsAsked` |
| backend, fetch | contracts of one or two status keys with five kinds of entry, strict and not, three media types | `ContractsAreKept` |
| route | the same contracts; a handler that returns, throws, streams or starts a session, 2 messages | `ClientResolves`, `SessionKeepsFaith` |
| contract | each method, schemas present or not, up to two parameters with values of one and two segments, five prefixes | `ContractsReach` |
| mock, helpers, events | the same contracts; rest, SSE and dual contracts with bodies that pass, are stripped or fail; up to 3 events | `ContractsReach` |

A property of these two runs is the conjunction of what its components state, named
in the MC module: the components' own modules hold the formulas and say in their
comments which code they are about.

Why the bounds are enough for these questions:

* Two registrations meet in every way the lock allows: one key, and an executor tells
  only itself from the others. Lease 5, interval 2 and delay 1 are the smallest numbers
  that satisfy `Punctuality` with a delay; the theorems take over for others. The
  liveness run's times are the smallest at which a lease outlasts a refresh interval.
* Three executions let two be ahead of a third that has counted; children are
  scheduled one by one, so two are enough to interleave.
* Three workers: one that lost the job, one that has it and one that finishes a hook.
  Three attempts contain a first, a middle and a last one. One retry makes a second round,
  whose events meet those of the first; one stall may be forgiven, the next fails the job.
* One waiter that is lost needs two that are answered: three.
* Two processors contend for one id; workers that are dead are used again, so any
  number of restarts is covered; three hooks fill and refill a set of two.
* Migration 3 is new between legacy ones; an overlap needs two deploys, and each may be
  repeated without limit.
* Three calls: one that starts, one that joins and one that comes after a disposal.
* Four lines hold two events with fields in between; the last line may be unfinished.
  Five items in pages of one or two give empty, full, partial and several pages.
* The algorithms look at one pair of things at a time (two entries of a statement, two
  columns of a key, two status keys of a contract, two operands of a node): inputs with
  pairs of them contain every case of a branch. Numbers are taken at, below and above the
  constants they are compared with.

`CHECK_DEADLOCK FALSE` stands in two configurations. In Jobs a job that completed (and that
nobody retries) has no step left. In Data and Services streams, polls, requests,
transactions, races and collections end, a closed server refreshes nothing, and an
algorithm takes no step at all.

Bounds that cap something unbounded are named in comments with the word `bound` where
the constant or variable is declared (`Workers`, `Retries`, `Deaths`, `Producers`, `Hooks`, `Generations`,
`MaxItem`, `Migrations`, `MaxEvents`, `MaxClock`, `MaxTotal`, `late`).

## 4. Fairness

Only liveness properties use it, and nobody who calls the libraries is assumed to
call anything.

* **PeriodicJob** (`FairSpec`): Redis executes and answers commands, due timers are served, the
  scheduler fires, and time passes. The clock needs strong fairness because `Tick` waits
  for what is due. The job itself may hang; crashes and disposals need not happen.
  A hanging job is why `DisposalFreesLock` speaks of executors that have finished.
* **ProcessorLifecycle**: steps after an await run, hooks settle, and jobs end. Job
  ends need strong fairness, since between two of them a worker that is not closing
  fetches another job. README of the package: `dispose()` waits for the current jobs,
  so jobs that hang are outside what it promises.
* **QueueManager, FlowManager**: connections succeed or fail, closes finish, and calls whose
  promise settled go on. `Connected \/ ConnectFails` is fair as a whole: which one is open.
  In the MC modules both configurations take these steps in the same way.

## 5. Proofs

A proof module extends the component's module, or the MC module where several components
are proved side by side, and TLAPS. Type correctness comes first; then an invariant that is
inductive; one named step per action. The theorems of JobsProofs, QueueManagerProofs,
DataProofs and ServicesProofs are about the specifications that the runs check, with their
constants left open. Of the 40 properties that the passing runs check, 32 are theorems:
all but the six about liveness and the two about recursive algorithms.

| Proof module | Theorems and the properties they state |
|---|---|
| PeriodicJobProofs | `MarginsHold` (LeaseMargins), `RunsAreExclusive` (ExclusiveRun), `JobImplementsLock` (ImplementsLock); `TypeCorrect`, `RunnersHoldTheLock`, `LocksAreNotStolen`, `LockIsExclusive` |
| JobsProofs | `OverflowIsBounded` (BoundedOverflow), `HooksAreCalled` (HooksTellState), `NoListedWaitIsMissed` (ListedIsUnanswered), `WaitsAreLostBySplices` (LossNeedsTwoMatches), `StartedWorkersListen` (StartedListens); `RoomIsReserved`, `JobsInvariant` |
| ProcessorLifecycleProofs | `WorkersAreExclusive` (OneWorkerPerQueue), `DisposalsDrain` (DisposeDrains); `LifecycleTypes`, `RegistrationIsOwned` |
| QueueManagerProofs | `NoQueueIsLeaked` (NoLeakedQueue), `OperationsFindTheirQueue` (ExplicitFindsQueue); `ManagerTypes`, `EitherInvariant`, `RefusalsNeedDisposal` |
| FlowManagerProofs | `ProducersAreDisposed` (NoLeakedProducer), `DisposalsAreFinal` (DisposeIsFinal); `FlowTypes` |
| DataProofs | `MigrateNeverCollides` (NeverCollides), `RowsAreBounded` (RowsPerDeploy), `DelaysAlwaysEndCleanly` (EndsCleanly), `BoardShowsOpenQueues` (ShowsOpenQueues), `PagesAndRetriesApplyOnce` (OnceEach), `AtMostOneProcessorWorks` (OneProcessorWorks), `ReportsAreTrue` (ObservationsAreTrue), `ConfigsAlwaysHold` (ConfigsHold), `BulkUpdatesAlwaysApply` (BulkUpdatesApply); `BaselineTypes`, `DataInvariant`, `InputsAreTyped` |
| SseStreamProofs | `EventsArriveInOrder` (EventsInOrder), `ClosedStreamsAreSilent` (SilentAfterClose); `StreamInvariant` |
| ServicesProofs | `RetriesAlwaysEnd` (RetriesEnd), `AnswersAreAlwaysChecked` (AnswersAreChecked), `ContractsAreAlwaysKept` (ContractsAreKept), `PromisesSettleAsAsked` (SettlesAsAsked), `ClientsAlwaysResolve` (ClientResolves), `SessionsAlwaysKeepFaith` (SessionKeepsFaith), `ContractsAlwaysReach` (ContractsReach); `ServicesInvariant`, `HeadsAreSentOnce`, `InputsAreTheParts` |

**PeriodicJobProofs** — for any number of registrations. `TypeCorrect`, `LocksAreNotStolen` and
`LockIsExclusive` need nothing but `ConstantsAssumption`. The others assume `Punctuality`: delays are shorter than the
refresh interval, and an interval with two delays is shorter than the lease. (The
default interval of redis-semaphore is 80% of the lock timeout; a configuration whose delays violate
this does lose its lock.) `RunnerHoldsLock` is not inductive: that the key is there now
says nothing of the next tick. `LeaseMargins` says how long the TTL still is when the
acquisition is answered, while the refresh timer runs, when it is late, when the
refresh is sent and when it is answered; each tick and step keeps these margins
(`StepKeepsMargins`, `TickKeepsMargins`), and `RunnersHoldTheLock` and `RunsAreExclusive` follow.
`JobImplementsLock` is the refinement: `StepMapsToLock` gives for each action the one of
LeasedLock it is, or the stutter, and `TickMapsToLock` shows that a tick never ends the lease
of somebody inside, since whoever is inside after the tick still holds the key. Both use the
margins, and that the key has an owner exactly while it has time left (`KeysHaveTime`).
`LockIsExclusive` proves of LeasedLock alone that whoever is inside holds the lease.

**JobsProofs** — for any number of executions, workers, jobs, waits, attempts, stalls and retries.

* *Barrier.* The bound on the queue's length is not inductive: an execution that has passed
  may add children later. `Reserved` counts, for every execution that saw room, the
  children the *others* may still add (`Potential`) and says that the count it saw leaves
  space for them; the bound follows with a lemma on the cardinality of `Slots \X (1..Fanout)`.
* *Execution.* The property is not inductive, since a hook is called for an event that was sent
  when the round ended, while the job may be in a later one. `IInv` adds that an event that will
  call a hook is of a round that ended so, which nobody else has told or will tell
  (`EventsMatch`); that rounds end one after the other, the last one with the job
  (`OutcomesMatch`); that only an active job is locked, by a worker with nothing to tell
  (`LockedIsActive`); and that a job that is not over has tries left (`TriesAreLeft`), without
  which an attempt could not be told from the last one. `EventsOfEndsKeepInv` is about the steps
  that end a round, `HearingKeepsInv` about those that hear of one.
* *Spy.* `ListedIsUnanswered` needs that nobody is listed twice (`ListedOnce`) and what `addJob` leaves
  of a list. `Splice` is the code's loop, a recursive function. `SpliceKeepsTheRest` says what it does to
  a list of any length: index `i` removes the element that is `i` plus the number of smaller
  indexes places from the front (`Gone`), and the others stay in their order. The induction
  (`OneMoreSplice`) keeps that, before index `i` is spliced, every place from `i` on holds the element
  as many places further as there were splices, and that the list ends that much earlier
  (`SplicedBefore`): so the splice of an index beyond the end loses nothing. `WaitsAreLostBySplices` is the action property: a loss
  needs two other waits that the same job answers.
* *Test mode.* `Listening` is the property with the types of what it is about.

**ProcessorLifecycleProofs** — for any number of processors, workers and hooks, outside test
mode (`IsTest = FALSE`; in test mode two of the properties are false, see section 6). The
invariant `Inv` is `RegistrationOwned /\ NoOrphan /\ DrainsAwaitAll /\ RefsMatch`: the registered id has
one owner, a busy worker is the one its processor refers to, a closed worker that is
still referenced has hooks that all its disposals await, and references are set last.
`WorkersAreExclusive` and `DisposalsDrain` follow.

**QueueManagerProofs**, **FlowManagerProofs** — for any queues, calls, disposals and producers, in both
configurations. `NoLeakedQueue` needs that what a disposal forgets is what it closed
(`ForgetsWhatItCloses`). `FlowInv` relates promises, producer and calls (`StatesMatch`) and says where a
disposal that has not returned is waiting (`DisposalsAccounted`); `ProducersAreDisposed` and
`DisposalsAreFinal` follow. A manager that starts explicitly has a registry that holds all
queues or none (`AllOrNone`); `EitherInv` joins it to the invariant of both configurations, and
`ExplicitSteps` shows that the steps of such a manager are those of the lazy one but for what
it starts. So an operation is refused only when a disposal emptied the registry on its way
(`OperationsFindTheirQueue`; `RefusalsNeedDisposal` says it of QueueManager alone).

**DataProofs** — under `BaselineAssumption` and `DataAssumption`, which ask for numbers that are
natural and a finite set of checks, and `InputsAssumption`, which says of what the algorithms are
given no more than the types of the code do (an option is set or unset, a header has a
form and an integer, an entry is two records of integers). `DataInv` is the conjunction of the components' invariants:
`DataSteps` shows that a step of the composition is one of a component or a stutter of it, so
each is proved alone.

* *Baseline*: any finite set of deploys and any migrations. `BaselineInv` explains every table (legacy
  tables are recorded by the time a deploy migrates). `RowsAccounted` adds the deploys that
  do not know of a row to the rows there are: `rows[m] + |Unaware(m)| <= |Deploys|`, from which
  `RowsPerDeploy` follows. `BaselineRuns` says that the composition implements MigrationBaseline.
* *Polling*: `IInv` says how many polls have answered at each point of the loop.
* *Races and the board*: the properties are nearly inductive; `OpenInv` says which generations
  are open while queues are replaced when closes succeed.
* *Pages*: what was collected is not behind the cursor. `PageFacts` says of a page that it is
  sorted, without repetition, and holds the next items.
* *Transactions*: the timeout after *n* tries that expired is `initial * 2^n` or the maximum. The power is a
  recursive function; that it is defined and doubles is an induction over the naturals
  (`PowerIsDefined`, `PowerDoubles`).
* *Deprecated processor*, with lazy start: `Orderly` says where a disposal is and what is still open there, as
  long as none overlaps another; `IInv` keeps the books of targets and promises always.
* *Metrics*: a run that overlaps no other is the one the manager knows; an instance caches the
  dimensions it declares. The invariants are first taken apart by key, dimension and
  instance (`RunCases`, `SeriesCases`), so that a step is about one of them.
* *Health*: entries are of different checks and tell their last answer and its age. What
  `HealthIsFresh` says of a store with room needs a pigeonhole: a store without room holds
  `MaxHealthcheckNumber` different checks, so that a new one would be one more than there may be (`NoRoom`).

`ConfigsAlwaysHold` and `BulkUpdatesAlwaysApply` are about functions: that `input` stays one of its part's
(`InputsAreTyped`) is all the invariant there is, and the work is in the lemmas.

* *Waits*: powers are recursive functions that are shown to be defined and to grow
  (`PowersAreDefined`, `PowerGrows`). A retry's wait is compared case by case with the header or the delay
  that it was asked for (`RetriesAlwaysWait`). The solvers have no division of unknowns: `Quotients`,
  `Cancels` and `RoundingGrows` give what rounding preserves, `JitterIsBounded` keeps a jittered delay
  in its band, and `PollsAlwaysWait` follows for any rational multiplier. `LeastExists` gives the first answer
  that ends `waitAndRetry` (`WaitsAlwaysEnd`), for any list of answers.
* *Configurations*: a list of topics or queues that was accepted has names once
  (`FoundIsUnique`), so what a publisher and a consumer look up is the same entry (`OptionsAlwaysAgree`,
  `CommandsAlwaysAgree`); lengths add up below the limits of the services (`NamesAlwaysFit`), and a
  queue that may subscribe is covered by a pattern of the topic (`SubscribersAreCovered`).
* *Bulk updates*: entries that are accepted name the same columns (`SameIsWellFormed`), so a row is
  matched by one entry at most when they are distinct, and doing them one by one changes
  it as that entry says (`OneMatches`, by induction on the entries); `StatementApplies` is the
  statement's side of the comparison.

**SseStreamProofs** — for any streams, hence any text cut into chunks at any points. The invariant
`Accounted` ties the parser to what was taken: the buffer is the unfinished line of all of it, and
the events so far are those that the lines before the waiting ones say. A read needs that
lines may be cut out of two parts one after the other (`CutOfConcat`), a parse that more lines
add events and change none (`SaidGrows`). `Cut` and `Said` are folds; `SequenceInduction` (from the
least length at which a statement fails) is what both lemmas rest on. `SilentAfterClose` is
an action property of the same invariant and needs nothing of it but what the phases say.

**ServicesProofs** — under `ServicesAssumption`: the contracts are well formed (`IsContract`: entries have content,
no content, or one bare schema; `IsConfig`, `IsSent`: a path begins with a slash and has every parameter of its schema,
whose placeholder is no other word of it, and what is sent has the declared parts; a prefix
is empty or one segment with slashes or without; mocked events have one line of data).
`ServicesInv` has the invariant of each client and of the route.

* *Retries*: an attempt that begins after the abort is the only one and gets no response; a pause
  is followed by an attempt that is still allowed.
* *Legacy client*: `OptionsArePassedOn` says of every operation that what it passes on is what its
  caller asked for, defaults included; with it `HttpSteps` compares what the client does by the
  passed options with the request. The invariant says of an answer that is on its way its
  status and whether it is a stream, a blob or what the server sent.
* *Contracts*: the kind of a response is what the entry of its status declares
  (`ResolvedAsDeclared`, from `Elements` of a content map); a body that is unread after
  parsing is one that is handed over, or that fetch leaves without content.
* *Frontend client*: an operation has no outcome before it is done, and all that callbacks
  heard before the end are events. `CallsAskTheSame` says that an operation asks what its caller
  asked, and `AnswersBecome` what becomes of each answer.
* *Route*: `RepresentationIsResolved` and `StreamIsResolved` compare what the route selects with what a
  strict client of the same contract looks up, entry by entry, for any contract; `HeadsAreSentOnce` is
  the action property that no second head is sent.

`ContractsAlwaysReach` needs, like the algorithms of DataProofs, only that `input` stays
(`InputsAreTheParts`):

* *Requests*: a template, a URL and a path are sequences that are joined. `FlattenOfAppend` unfolds the
  community module's `FlattenSeq` from its last part; by induction `FlattenLengths` says that the joined
  sequence has as many elements as parts exactly when each part is one, and `FlattenBegins`
  with what it starts. `PathOfRequest` and `UrlOfConfig` put the prefix in front. So a path whose values are single
  segments fits its URL word by word (`HandledWhenFits`), and any other is too long for it:
  `RequestsAlwaysReach` says both. `UnifiedIsAlwaysDeprecated` compares the builders.
* *Mocks*: the descriptor of a kind that a mock chooses is one of the entry that a client
  resolves (`MocksAlwaysResolve`); the deprecated helpers agree with each other (`HelpersAlwaysAgree`).
* *Mocked events*: by induction on the list, from `CutOfConcat` and `SaidGrows` of SseStreamProofs:
  one event more is its two lines and an empty one (`EmittedSays`). A formatted response is the
  emitted one without its last empty line (`FormattedIsEmitted`), so that the events before its
  last arrive; of the last one the property says nothing (`MockedEventsAlwaysArrive`).

What is only model-checked:

* Liveness: `JobKeepsRunning`, `CrashFreesLock`, `DisposalFreesLock`, `DisposeEnds`, the two
  `CallsEnd`. Fairness and ENABLED are beyond the prover.
* `FiltersKeepMeaning` and `SnapshotsTellApart`: a filter and a catalog are trees, and the meaning of
  the one, like the comparison of the other, is a recursive operator; the prover refuses
  modules with one, and an induction over trees would take an operator as a parameter. (Where
  an induction was possible, over the naturals and sequences, it is on a *set* of numbers or
  sequences: `NaturalInduction`, `SequenceInduction`.)

## 6. Where the code does something else than it says

Four runs end with a counterexample, each against a sentence of the documentation:

1. **ProcessorDisposeStops** — `dispose()` returns at once while `start()` is under way
   (`AbstractBackgroundJobProcessorNew.ts:246`); the worker that `start()` builds then keeps processing.
2. **JobSpyMissedJob** — `addJob` (`BackgroundJobProcessorSpy.ts:111`) collects indexes and then splices them in
   ascending order: when one job answers two waits, the second splice drops another.
3. **MigrationNew** — every journal entry without a row is inserted on every deploy
   (`markMigrationsApplied.ts:491`): a migration added after the baseline is recorded before
   `migrate` sees it and is never run.
4. **QueueManagerLazy** — a lazy start builds one queue, and from then on the registry counts as
   started (`QueueManager.ts:264`): operations on other queues are refused.

Met while modelling, described here without a run:

* `dispose()` of a periodic job releases the lock while its run continues
  (`AbstractPeriodicJob.ts:140`), so another node may run beside it. `ExclusiveRun` and
  `RunnerHoldsLock` are therefore about undisturbed runs (`Holding`).
* After a run the lock is shortened before its refreshes are stopped (`:203-216`): a
  refresh on its way extends it to the full lease again, although `periodicJobTypes.ts:56`
  promises the shorter one. A Redis error while shortening skips `stopRefresh()` (`:215`)
  and the idle job's lock is kept alive until its next run. A job that `dispose()` met during its
  acquire has no next run: its node runs once more, and after such an error refreshes the key
  for ever, so that no other node runs the job. `DisposalFreesLock` and `JobKeepsRunning`
  leave exactly this case open (`LeftRefreshing`).
* A rejected start promise of a processor stays (`AbstractBackgroundJobProcessorNew.ts:189-192`): the
  refusal "not unique" is repeated after the other processor is gone.
* In test mode, overlapping disposals of a processor may unregister the id that
  another one has taken meanwhile (`:245`).
* The final attempt is recognised with `===` (`:336`): when a finished job is retried by hand,
  `attemptsMade` is past the limit and a second final failure calls no `onFailed`, whose comment
  (`:413`) has it triggered on the failed state. `EndsAreTold` leaves it open.
* Calls of `QueueManager.start()` join a start promise that a disposal has overtaken
  (`QueueManager.ts:75`). `NoLeakedQueue` and `CallsEnd` hold nevertheless.
* A refresh of the bull board that is under way when the server closes leaves its queues
  open (`bullBoard.ts:145-147` against `:215-220`): `ShutdownCleansUp`, defined in BullBoard, is false and no
  run claims it. A close that fails leaves a generation behind (`:146`), so
  `TwoGenerations` is about closes that succeed. A second registration of the plugin in one
  process would share `currentQueues` (`:196`).
* A transaction whose answer is lost with the connection (P1017) after its commit is
  committed again; `OnceEach` counts these. A timeout above the maximum shrinks on the
  first retry (`prismaTransaction.ts:66-69`) where the package's README speaks of doubling; `OnceEach` is about
  the others.
* An abort during the last poll is reported as `TIMEOUT`; during earlier ones as
  `CANCELLED`. An abort between a promise's resolution and its delivery makes
  `promiseWithTimeout` report the promise as unfinished; its abort listener stays on the signal.
* `onOpen` of an SSE connection may still be called after `close()` when the response had
  arrived, and `onError` when the callback of an event calls `close()` and then throws
  (`sse.ts:129-136` does not look at the signal). `SilentAfterClose` admits these two and nothing else.
* `waitAndRetry` calls its predicate once more than a first time and `maxRetryCount` retries
  (`waitAndRetry.ts:31`; `:8` promises that maximum). This last call runs in a timer callback, where a
  synchronous exception settles nothing. `WaitEnds` leaves the call open.
* A `close()` of a queue or a producer that rejects is forgotten with its connection in whatever
  state it is (`QueueRegistry.ts:97`, `FlowManager.ts:132-139`): `NoLeakedQueue` and `NoLeakedProducer` are
  about a `close()` that has not settled.

In the modules of the clients, the route and the contracts:

* **HttpClient** — a body that fails its schema throws a `ZodError` also with `throwOnError: false`. An error
  status with malformed JSON loses the status. `sendPostBinary` and `sendPutBinary` with a stream as
  body and a `retryConfig` send the spent stream again.
* **ContractClient** — when the headers fail their schema, the body of a blob or a stream stays
  unread; the frontend does not consume a body where no content is expected. `BodiesAccountedFor`
  exempts both.
* **FrontendClient** — the package's README:40-41 says that an answer 204 is valid by default except
  for `sendGet`; the code makes an error of it for every method but `DELETE`. README:64 says that a
  response that is no JSON, where it is expected, is returned as null; the code returns the response.
  `SettlesAsAsked` is about what the options ask of the code. An upload whose signal was aborted before the call is sent all the same. An
  `onDone` that throws also calls `onError`; a handler's promise is not awaited.
* **FastifyApiRoute** — a stream always has status 200 and `text/event-stream`, whichever entry was
  selected, and the selection falls from an exact entry to a range and the default where the
  client's lookup does not: `ClientResolves` is about streams declared for 200. A replay is not
  awaited (`sseUtils.ts:250`), so live events may overtake it. A close by the server after a handler
  that failed is reported as `client`.
* **Routes** — a `/` in a parameter's value is not escaped (`pathResolver`): such a request reaches
  no route or another one.
* **Mocks** — `formatSseResponse` (`MockttpHelper.ts:58`, `api-contracts/types.ts:22`) leaves the last event without
  the empty line that dispatches it: the client never delivers it. The package's README:620-633 shows
  this text as the expected one; `MockedEventsArrive` leaves the last event open. Of the REST helpers only
  msw's validates and strips a body, and only mockttp's compares the query.

In the other modules:

* **LegacyProcessor** — a start that failed keeps its rejected promise and the queue id for good
  (`AbstractBackgroundJobProcessor.ts:189-205`). Overlapping disposals of one processor (`:256`) may unregister an id
  taken by another, mark a restarted processor as stopped and close its queue;
  `OneProcessorWorks` excludes them. A close of the worker or of the queue that fails leaves the
  queue open (`:262-265`); it exempts such a queue.
* **AwsConfig** — `getAwsConfig` keeps the configuration before it validates it (`awsConfig.ts:65`): a refused prefix
  is returned by the next call, where `awsConfig.spec.ts:112` expects a refusal. `ConfigsAgree` says
  nothing of the calls after it. A topic of 246 characters behind a prefix of 10 is one longer than
  SNS allows (`constants.ts:66`); `NamesFit` leaves this one name open. Queues with the older `_` separator are not covered by the pattern that
  grants subscription (`utils.ts:118`).
* **Metrics** — two runs of one key (a stalled job) share an entry: the second start overwrites
  the first, and the second stop measures nothing. A labeled measurement that throws leaves its
  labels to the next run of the key.
* **Health** — with more checks than `maxHealthcheckNumber` the oldest results are evicted, healthy or not; a
  check that rejects stores nothing, so its last success stays until it expires.
* **ODataFilter** — `5 gt price` becomes `price gt 5` (`filterTransformer.ts:170`), a comparison of two fields compares with
  the text of a path, and `contains('x', field)` swaps its operands; `FiltersKeepMeaning` is about the other
  forms (`Upright`). `tolower` and `toupper`, named in the package's README, throw. When a filter has two
  lower bounds the last one wins, so `extractInclusiveRange` may accept one that has a strict bound.
* **SchemaSnapshot** — the key of a PostgreSQL index with several columns is an `int2vector`, numbers
  between spaces, which `parsePgIntArray` splits at commas (`postgres.ts:321-334`, `:387`): the columns of
  every composite index are missing from the snapshot, where the package's README:207 lists
  them as captured. `SnapshotTellsApart` leaves them open. Tables are looked up by `schema.table`, so
  names with dots may meet; the model has none. A MySQL index with a dot in its name is left out
  (`mysql.ts:333`), which `MysqlKeepsKeys` leaves open; keys into a table outside the snapshot look the
  same whatever column they refer to (`postgres.ts:212`).
* **BulkUpdate** — drizzle's makes a JSON null of a null in a json column (`drizzleFullBulkUpdate.ts:28`).

## 7. What is not modelled

* The single-consumer mode's counterpart (no lock), logging and request context everywhere;
  metrics where components report them.
* The execution of a job in the deprecated processor (lines 319-507): the same steps as in the
  new one, which JobExecution models.
* Cursors with several keys or keys that are not unique, and their encoding.
* SQL of the two dialects, dialect inference, the file formats of migrations, enums of
  snapshots and the printed form of a difference.
* Callbacks that throw in Polling; BullMQ's job schedulers, progress and flows beyond their
  producer; undici-retry inside the legacy client; serialization of queries and bodies.
* Authentication: the chain is a loop over promises that stops at the first success, and the
  cache and rotation of keys are get-jwks, external.
* `context-fastify-plugins`, dashboard authentication and error reporting: request hooks without
  state, in an order that is Fastify's. Telemetry bootstraps wire third-party SDKs.
* Text and language data: tables, and functions over characters that a model would have to
  spell out. Of `universal-ts-utils` only `groupByUnique`, `promiseWithTimeout` and `waitAndRetry` are used by what
  is modelled; the others are total functions of a few lines.
* A reply that a handler hijacks, and a content type that it sets itself (`buildFastifyApiRoute.ts:198-206`).
* Types: much of `api-contracts` and of the clients is TypeScript types without code.

## 8. Plan

Done, in the order of importance: PeriodicJob (locks and time) and the abstract lock it
implements, ProcessorLifecycle and JobExecution with ThrottlingBarrier and JobSpy,
QueueManager and FlowManager, MigrationBaseline, the services around them, the clients and
routes with their contracts, and the algorithms; then the inductive invariants and theorems of
section 5, which cover every safety property of the components that have steps and those of
the algorithms that are not recursive.

Left:

1. An abstract resource (open or closed) that QueueManager and FlowManager implement, as a
   PROPERTY of their runs and then as a theorem; the same for the queue that the deprecated
   processor starts and disposes.
2. Test mode of ProcessorLifecycle and the overlapping disposals of LegacyProcessor, where
   properties that hold in spite of the divergences are still to be found.
3. Filters and catalogs as trees over finite sets of nodes, whose meaning is a function of the
   node, so that an induction over the depth of a tree is possible.
4. A mock's server and a client composed with a route, over several requests of one session
   (`Last-Event-ID`).
