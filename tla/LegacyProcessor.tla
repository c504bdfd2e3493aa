--------------------------- MODULE LegacyProcessor ---------------------------
(***************************************************************************)
(* The deprecated AbstractBackgroundJobProcessor, which builds its own     *)
(* queue as well as its worker (BullMQ's, external): start(), dispose()    *)
(* and schedule() of the processors that a process has for one queue id.   *)
(* A step is what runs between two awaits; a connection or a close that is *)
(* awaited may fail.                                                       *)
(***************************************************************************)
EXTENDS Naturals

CONSTANTS
    Processors,   \* of the queue id
    Disposals,    \* bound: calls of dispose() at a time
    NoProcessor,
    IsTest, LazyInit

VARIABLES
    active,     \* queueIdsWithActiveProcessorsSet has the queue id
    started,    \* this.isStarted
    promise,    \* this.startPromise: how far internalStart is
    queue,      \* this._queue
    worker,     \* this._worker
    listens,    \* registerListeners was called on it
    job,        \* the worker processes a job
    hook,       \* this.runningPromises has one
    waiting,    \* a schedule() awaits the start
    lost,       \* history: a schedule() was refused although nobody disposed its processor
    stage,      \* what a dispose() awaits
    target,     \* the processor of a dispose()
    overlapped, \* history: a dispose() was called while another was under way
    failed,     \* history: a connection or a close failed
    orphans     \* history: a queue or a worker was replaced while open

vars == <<active, started, promise, queue, worker, listens, job, hook, waiting, lost,
          stage, target, overlapped, failed, orphans>>
calls == <<stage, target, overlapped>>

TypeOK ==
    /\ active \in BOOLEAN /\ overlapped \in BOOLEAN /\ failed \in BOOLEAN
    /\ orphans \in BOOLEAN /\ lost \in BOOLEAN
    /\ started \in [Processors -> BOOLEAN] /\ listens \in [Processors -> BOOLEAN]
    /\ job \in [Processors -> BOOLEAN] /\ hook \in [Processors -> BOOLEAN]
    /\ waiting \in [Processors -> BOOLEAN]
    /\ promise \in [Processors -> {"none", "registering", "connecting", "joining", "refused", "failed"}]
    /\ queue \in [Processors -> {"none", "open", "closing", "closed"}]
    /\ worker \in [Processors -> {"none", "open", "closing", "closed"}]
    /\ stage \in [Disposals -> {"idle", "worker", "hooks", "queue"}]
    /\ target \in [Disposals -> Processors \cup {NoProcessor}]

Init ==
    /\ active = FALSE /\ overlapped = FALSE /\ failed = FALSE /\ orphans = FALSE
    /\ started = [p \in Processors |-> FALSE]
    /\ promise = [p \in Processors |-> "none"]
    /\ queue = [p \in Processors |-> "none"] /\ worker = [p \in Processors |-> "none"]
    /\ listens = [p \in Processors |-> FALSE]
    /\ job = [p \in Processors |-> FALSE] /\ hook = [p \in Processors |-> FALSE]
    /\ waiting = [p \in Processors |-> FALSE]
    /\ lost = FALSE
    /\ stage = [c \in Disposals |-> "idle"] /\ target = [c \in Disposals |-> NoProcessor]

Of(p) == {c \in Disposals : target[c] = p}
Starting(p) == promise[p] \in {"registering", "connecting", "joining"}

-----------------------------------------------------------------------------
(* start(), and schedule(), which starts lazily *)

\* registerQueueProcessor: the id is taken at once; a second processor is refused for
\* good, as the rejected promise is kept
Register(p) ==
    /\ ~started[p] /\ promise[p] = "none"
    /\ promise' = [promise EXCEPT ![p] = IF active THEN "refused" ELSE "registering"]
    /\ active' = TRUE

Start(p) ==
    /\ Register(p)
    /\ UNCHANGED <<started, queue, worker, listens, job, hook, waiting, lost, calls, failed, orphans>>

\* _queue.add(): a queue that closes or is closed refuses the job
Add(p) == lost' = (lost \/ (queue[p] # "open" /\ Of(p) = {}))

Schedule(p) ==
    /\ ~waiting[p]
    /\ \/ /\ started[p]
          /\ Add(p)
          /\ UNCHANGED <<active, promise, waiting>>
       \/ /\ LazyInit
          /\ Register(p) \/ (Starting(p) /\ UNCHANGED <<active, promise>>)
          /\ waiting' = [waiting EXCEPT ![p] = promise'[p] # "refused"]
          /\ UNCHANGED lost
    /\ UNCHANGED <<started, queue, worker, listens, job, hook, calls, failed, orphans>>

\* registerActiveQueueIds resolved: buildQueue
BuildQueue(p) ==
    /\ promise[p] = "registering"
    /\ promise' = [promise EXCEPT ![p] = "connecting"]
    /\ queue' = [queue EXCEPT ![p] = "open"]
    /\ orphans' = (orphans \/ queue[p] = "open")
    /\ UNCHANGED <<active, started, worker, listens, job, hook, waiting, lost, calls, failed>>

\* registerListeners and isStarted, at the end of internalStart; schedule() goes on
Begin(p) ==
    /\ promise' = [promise EXCEPT ![p] = "none"]
    /\ started' = [started EXCEPT ![p] = TRUE]
    /\ listens' = [listens EXCEPT ![p] = TRUE]
    /\ waiting' = [waiting EXCEPT ![p] = FALSE]
    /\ IF waiting[p] THEN Add(p) ELSE UNCHANGED lost

\* the queue is ready: buildWorker, which works from now on; in test mode its connection
\* is awaited too
BuildWorker(p) ==
    /\ promise[p] = "connecting"
    /\ worker' = [worker EXCEPT ![p] = "open"]
    /\ job' = [job EXCEPT ![p] = FALSE]
    /\ orphans' = (orphans \/ worker[p] = "open")
    /\ IF IsTest
       THEN /\ promise' = [promise EXCEPT ![p] = "joining"]
            /\ listens' = [listens EXCEPT ![p] = FALSE]
            /\ UNCHANGED <<started, waiting, lost>>
       ELSE Begin(p)
    /\ UNCHANGED <<active, queue, hook, calls, failed>>

Joined(p) ==
    /\ promise[p] = "joining"
    /\ Begin(p)
    /\ UNCHANGED <<active, queue, worker, job, hook, calls, failed, orphans>>

\* Redis fails one of the awaits: nothing is undone
StartFails(p) ==
    /\ Starting(p)
    /\ promise' = [promise EXCEPT ![p] = "failed"]
    /\ waiting' = [waiting EXCEPT ![p] = FALSE]
    /\ failed' = TRUE
    /\ UNCHANGED <<active, started, queue, worker, listens, job, hook, lost, calls, orphans>>

-----------------------------------------------------------------------------
(* Jobs *)

Fetch(p) ==
    /\ worker[p] = "open" /\ ~job[p]
    /\ job' = [job EXCEPT ![p] = TRUE]
    /\ UNCHANGED <<active, started, promise, queue, worker, listens, hook, waiting, lost, calls, failed, orphans>>

JobEnds(p) ==
    /\ job[p] /\ ~hook[p]
    /\ job' = [job EXCEPT ![p] = FALSE]
    /\ hook' = [hook EXCEPT ![p] = listens[p]]
    /\ UNCHANGED <<active, started, promise, queue, worker, listens, waiting, lost, calls, failed, orphans>>

-----------------------------------------------------------------------------
(* dispose() *)

\* the disposals cs of p go on from the worker or from the hooks: the queue is closed
\* when there are no hooks (left) to await
GoOn(p, cs, hooks) ==
    /\ stage' = [c \in Disposals |-> IF c \in cs THEN (IF hooks THEN "hooks" ELSE "queue") ELSE stage[c]]
    /\ queue' = [queue EXCEPT ![p] = IF cs # {} /\ ~hooks /\ @ = "open" THEN "closing" ELSE @]

Dispose(c, p) ==
    /\ stage[c] = "idle" /\ started[p]
    /\ target' = [target EXCEPT ![c] = p]
    /\ overlapped' = (overlapped \/ Of(p) # {})
    /\ IF worker[p] = "closed"
       THEN GoOn(p, {c}, hook[p]) /\ UNCHANGED worker
       ELSE /\ stage' = [stage EXCEPT ![c] = "worker"]
            /\ worker' = [worker EXCEPT ![p] = "closing"]
            /\ UNCHANGED queue
    /\ UNCHANGED <<active, started, promise, listens, job, hook, waiting, lost, failed, orphans>>

\* the worker's close() resolves for all who await it; in test mode it waits for no job
WorkerClosed(p) ==
    /\ worker[p] = "closing" /\ (IsTest \/ ~job[p])
    /\ worker' = [worker EXCEPT ![p] = "closed"]
    /\ GoOn(p, {c \in Of(p) : stage[c] = "worker"}, hook[p])
    /\ UNCHANGED <<active, started, promise, listens, job, hook, waiting, lost, target, overlapped, failed, orphans>>

HookSettles(p) ==
    /\ hook[p]
    /\ hook' = [hook EXCEPT ![p] = FALSE]
    /\ GoOn(p, {c \in Of(p) : stage[c] = "hooks"}, FALSE)
    /\ UNCHANGED <<active, started, promise, worker, listens, job, waiting, lost, target, overlapped, failed, orphans>>

\* fault: the processor stays registered
ForgetRegistered(c) ==
    /\ started' = [started EXCEPT ![target[c]] = FALSE]
    /\ stage' = [stage EXCEPT ![c] = "idle"]
    /\ target' = [target EXCEPT ![c] = NoProcessor]
    /\ UNCHANGED active

\* the end of dispose(): the id is given back, whoever has it now
Forget(c) ==
    /\ active' = FALSE
    /\ started' = [started EXCEPT ![target[c]] = FALSE]
    /\ stage' = [stage EXCEPT ![c] = "idle"]
    /\ target' = [target EXCEPT ![c] = NoProcessor]

\* the worker's close() rejects: the rest of dispose(), the queue's close too, is skipped
WorkerCloseFails(c) ==
    /\ stage[c] = "worker"
    /\ worker' = [worker EXCEPT ![target[c]] = "closed"]
    /\ failed' = TRUE
    /\ Forget(c)
    /\ UNCHANGED <<promise, queue, listens, job, hook, waiting, lost, overlapped, orphans>>

\* the queue's close() resolved, or failed, which is ignored
QueueClosed(c) ==
    /\ stage[c] = "queue"
    /\ \E fails \in BOOLEAN :
          /\ failed' = (failed \/ fails)
          /\ queue' = [queue EXCEPT ![target[c]] =
                          IF @ # "closing" THEN @ ELSE IF fails THEN "open" ELSE "closed"]
    /\ Forget(c)
    /\ UNCHANGED <<promise, worker, listens, job, hook, waiting, lost, overlapped, orphans>>

Next ==
    \/ \E p \in Processors :
          \/ Start(p) \/ Schedule(p) \/ BuildQueue(p) \/ BuildWorker(p) \/ Joined(p) \/ StartFails(p)
          \/ Fetch(p) \/ JobEnds(p) \/ WorkerClosed(p) \/ HookSettles(p)
          \/ \E c \in Disposals : Dispose(c, p)
    \/ \E c \in Disposals : QueueClosed(c) \/ WorkerCloseFails(c)

Spec == Init /\ [][Next]_vars

-----------------------------------------------------------------------------
(* Properties *)

\* A start that failed holds the id as one that is under way does
Claims(p) == started[p] \/ Starting(p) \/ promise[p] = "failed"

OneWorks ==
    /\ active <=> \E p \in Processors : Claims(p)
    /\ \A p, q \in Processors : Claims(p) /\ Claims(q) => p = q
    /\ \A p \in Processors :
          /\ started[p] /\ Of(p) = {} => queue[p] = "open" /\ worker[p] = "open" /\ listens[p]
          /\ worker[p] \in {"open", "closing"} => Claims(p)
          /\ queue[p] = "open" => Claims(p) \/ failed
    /\ orphans => failed
    /\ ~lost

\* As long as no disposals of a processor overlap, the queue id is registered for the
\* one processor that claims it, a started processor that nobody disposes has an open
\* queue, which refuses no job, and a worker that it listens to, and nothing open is
\* lost sight of, but for a queue that a failed close, its own or its worker's, left open.
OneProcessorWorks == ~overlapped => OneWorks

-----------------------------------------------------------------------------
(* The inductive invariant *)

\* What a processor has that does not work
RestsClosed(p) ==
    ~started[p] =>
        /\ worker[p] # "closing" /\ queue[p] # "closing"
        /\ promise[p] \in {"none", "refused", "registering"}
              => worker[p] \in {"none", "closed"} /\ (queue[p] = "open" => failed)
        /\ promise[p] = "connecting" => worker[p] \in {"none", "closed"} /\ queue[p] = "open"
        /\ promise[p] = "joining" => worker[p] = "open" /\ queue[p] = "open"

\* How far a disposal is with the processor that it disposes
DisposesInOrder(c) ==
    /\ stage[c] # "idle" => started[target[c]]
    /\ stage[c] = "worker" => worker[target[c]] = "closing" /\ queue[target[c]] = "open"
    /\ stage[c] = "hooks" => worker[target[c]] = "closed" /\ queue[target[c]] = "open"
    /\ stage[c] = "queue" => worker[target[c]] = "closed" /\ queue[target[c]] = "closing"

\* As long as no disposals overlap
Orderly ==
    /\ OneWorks
    /\ \A c, d \in Disposals : target[c] = target[d] /\ target[c] # NoProcessor => c = d
    /\ \A p \in Processors : RestsClosed(p)
    /\ \A c \in Disposals : DisposesInOrder(c)

IInv ==
    /\ TypeOK
    /\ \A c \in Disposals : stage[c] = "idle" <=> target[c] = NoProcessor
    /\ \A p \in Processors : started[p] => promise[p] = "none"
    /\ ~overlapped => Orderly
=============================================================================
