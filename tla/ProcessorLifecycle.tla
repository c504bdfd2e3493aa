-------------------------- MODULE ProcessorLifecycle --------------------------
(***************************************************************************)
(* start() and dispose() of AbstractBackgroundJobProcessorNew: several     *)
(* processors of one process are built for the same queue id, callers      *)
(* start and dispose them in any order and overlapping, and their BullMQ   *)
(* workers (external) process jobs meanwhile.                              *)
(*                                                                         *)
(* A step is what runs between two awaits.  Callers that await the same    *)
(* promise resume together, before anything else can happen.               *)
(***************************************************************************)
EXTENDS Naturals

CONSTANTS
    Processors,   \* processors built for the queue id
    Workers,      \* bound: BullMQ Worker objects (a dead one is used again)
    NoWorker,     \* this._worker is undefined
    Hooks,        \* bound: onSuccess / onFailed executions at a time
    Concurrency,  \* jobs a worker processes at a time
    IsTest        \* queueManager.config.isTest

ASSUME LifecycleAssumption ==
    /\ NoWorker \notin Workers
    /\ Concurrency \in Nat \ {0}
    /\ IsTest \in BOOLEAN

VARIABLES
    active,   \* queueIdsWithActiveProcessorsSet has the queue id
    ref,      \* this._worker
    promise,  \* this.startPromise: how far internalStart is
    wanted,   \* the last call on the processor was start(), not dispose()
    builder,  \* the processor that built the worker
    worker,   \* state of the worker
    listens,  \* workers whose events have listeners
    jobs,     \* jobs the worker is processing
    hook,     \* the worker whose event a running hook handles, or NoWorker
    drains    \* what the processor's dispose() calls past close() still await

vars == <<active, ref, promise, wanted, builder, worker, listens, jobs, hook, drains>>

workerVars == <<builder, worker, listens, jobs, hook>>

TypeOK ==
    /\ active \in BOOLEAN
    /\ ref \in [Processors -> Workers \cup {NoWorker}]
    /\ promise \in [Processors -> {"none", "registered", "connecting", "rejected"}]
    /\ wanted \in [Processors -> BOOLEAN]
    /\ builder \in [Workers -> Processors]
    /\ worker \in [Workers -> {"open", "closing", "closed"}]
    /\ listens \in [Workers -> BOOLEAN]
    /\ jobs \in [Workers -> 0 .. Concurrency]
    /\ hook \in [Hooks -> Workers \cup {NoWorker}]
    /\ drains \in [Processors -> SUBSET (SUBSET Hooks)]

Init ==
    /\ active = FALSE
    /\ ref = [p \in Processors |-> NoWorker]
    /\ promise = [p \in Processors |-> "none"]
    /\ wanted = [p \in Processors |-> FALSE]
    /\ builder \in [Workers -> Processors]
    /\ worker = [w \in Workers |-> "closed"]
    /\ listens = [w \in Workers |-> FALSE]
    /\ jobs = [w \in Workers |-> 0]
    /\ hook = [h \in Hooks |-> NoWorker]
    /\ drains = [p \in Processors |-> {}]

\* this.runningPromises: hooks of every worker the processor ever had
Running(p) == {h \in Hooks : hook[h] # NoWorker /\ builder[hook[h]] = p}

Busy(w) == jobs[w] > 0 \/ \E h \in Hooks : hook[h] = w

-----------------------------------------------------------------------------

\* start(): skip if there is a worker, join (or be refused by) the promise there
\* is, else register the queue id, which is refused if it is taken
Start(p) ==
    /\ wanted' = [wanted EXCEPT ![p] = TRUE]
    /\ IF ref[p] # NoWorker \/ promise[p] # "none"
       THEN UNCHANGED <<active, promise>>
       ELSE /\ active' = TRUE
            /\ promise' = [promise EXCEPT ![p] = IF active THEN "rejected" ELSE "registered"]
    /\ UNCHANGED <<ref, workerVars, drains>>

\* internalStart past the registration: build the worker and listen to it; in
\* test mode the listeners wait for the worker to be ready
Build(p) ==
    /\ promise[p] = "registered"
    /\ \E w \in Workers :
          /\ worker[w] = "closed" /\ ~Busy(w) /\ \A q \in Processors : ref[q] # w
          /\ ref' = [ref EXCEPT ![p] = w]
          /\ builder' = [builder EXCEPT ![w] = p]
          /\ worker' = [worker EXCEPT ![w] = "open"]
          /\ listens' = [listens EXCEPT ![w] = ~IsTest]
    /\ promise' = [promise EXCEPT ![p] = IF IsTest THEN "connecting" ELSE "none"]
    /\ UNCHANGED <<active, wanted, jobs, hook, drains>>

\* fault: the worker that connected is not listened to
ConnectedDeaf(p) ==
    /\ promise[p] = "connecting"
    /\ promise' = [promise EXCEPT ![p] = "none"]
    /\ UNCHANGED <<active, ref, wanted, workerVars, drains>>

\* waitUntilReady settled: listen to whatever this._worker is now
Connected(p) ==
    /\ promise[p] = "connecting"
    /\ \/ /\ promise' = [promise EXCEPT ![p] = "none"]
          /\ listens' = [w \in Workers |-> listens[w] \/ ref[p] = w]
       \/ /\ promise' = [promise EXCEPT ![p] = "rejected"]
          /\ UNCHANGED listens
    /\ UNCHANGED <<active, ref, wanted, builder, worker, jobs, hook, drains>>

\* the end of a dispose() that awaits nothing more
Forget(p) ==
    /\ ref' = [ref EXCEPT ![p] = NoWorker]
    /\ active' = FALSE

\* fault: the hooks are not awaited
DrainAtOnce(p) == Forget(p) /\ UNCHANGED drains

\* Promise.allSettled over the hooks that are running now; with none, dispose()
\* goes straight to its end
Drain(p) ==
    IF Running(p) = {}
    THEN Forget(p) /\ UNCHANGED drains
    ELSE /\ drains' = [drains EXCEPT ![p] = @ \cup {Running(p)}]
         /\ UNCHANGED <<ref, active>>

\* fault: the queue id is given back before the worker is closed
DisposeUnregistering(p) ==
    /\ ref[p] # NoWorker
    /\ worker' = [worker EXCEPT ![ref[p]] = "closing"]
    /\ active' = FALSE
    /\ UNCHANGED <<ref, promise, wanted, builder, listens, jobs, hook, drains>>

\* dispose(): nothing without a worker, else close it (a second close() joins
\* the first, a closed worker's resolves at once)
Dispose(p) ==
    /\ wanted' = [wanted EXCEPT ![p] = FALSE]
    /\ IF ref[p] = NoWorker
       THEN UNCHANGED <<active, ref, worker, drains>>
       ELSE IF worker[ref[p]] = "closed"
       THEN Drain(p) /\ UNCHANGED worker
       ELSE /\ worker' = [worker EXCEPT ![ref[p]] = "closing"]
            /\ UNCHANGED <<active, ref, drains>>
    /\ UNCHANGED <<promise, builder, listens, jobs, hook>>

\* close() resolves once no job is running; in test mode it does not wait
Closed(p) ==
    /\ ref[p] # NoWorker
    /\ worker[ref[p]] = "closing"
    /\ IsTest \/ jobs[ref[p]] = 0
    /\ worker' = [worker EXCEPT ![ref[p]] = "closed"]
    /\ Drain(p)
    /\ UNCHANGED <<promise, wanted, builder, listens, jobs, hook>>

-----------------------------------------------------------------------------
(* Jobs and hooks *)

Fetch(w) ==
    /\ worker[w] = "open" /\ jobs[w] < Concurrency
    /\ jobs' = [jobs EXCEPT ![w] = @ + 1]
    /\ UNCHANGED <<active, ref, promise, wanted, builder, worker, listens, hook, drains>>

\* a job completed or failed: the listener adds the hook to runningPromises
JobEnds(w) ==
    /\ jobs[w] > 0
    /\ jobs' = [jobs EXCEPT ![w] = @ - 1]
    /\ IF listens[w]
       THEN \E h \in Hooks : hook[h] = NoWorker /\ hook' = [hook EXCEPT ![h] = w]
       ELSE UNCHANGED hook
    /\ UNCHANGED <<active, ref, promise, wanted, builder, worker, listens, drains>>

\* fault: dispose() does not learn that a hook settled
HookSettlesUnseen(h) ==
    /\ hook[h] # NoWorker
    /\ hook' = [hook EXCEPT ![h] = NoWorker]
    /\ UNCHANGED <<active, ref, promise, wanted, builder, worker, listens, jobs, drains>>

\* a hook settled: the dispose() calls that awaited only it come to their end
HookSettles(h) ==
    /\ hook[h] # NoWorker
    /\ hook' = [hook EXCEPT ![h] = NoWorker]
    /\ LET p == builder[hook[h]]
           left == {s \ {h} : s \in drains[p]}
       IN /\ drains' = [drains EXCEPT ![p] = left \ {{}}]
          /\ IF {} \in left THEN Forget(p) ELSE UNCHANGED <<ref, active>>
    /\ UNCHANGED <<promise, wanted, builder, worker, listens, jobs>>

\* In production start() ends with Build: nothing is ever "connecting".
Next ==
    \/ \E p \in Processors :
          Start(p) \/ Build(p) \/ Dispose(p) \/ Closed(p)
    \/ \E w \in Workers : Fetch(w) \/ JobEnds(w)
    \/ \E h \in Hooks : HookSettles(h)

Spec == Init /\ [][Next]_vars

\* In test mode start() also awaits the worker's connection.
TestNext == Next \/ \E p \in Processors : Connected(p)

\* Jobs and hooks come to an end, and a close() whose jobs have ended resolves.
\* Nobody is assumed to call anything, and new jobs may never arrive.
Fairness ==
    /\ \A p \in Processors : WF_vars(Build(p)) /\ WF_vars(Closed(p))
    /\ \A w \in Workers : SF_vars(JobEnds(w))
    /\ \A h \in Hooks : WF_vars(HookSettles(h))

FairSpec == Spec /\ Fairness

-----------------------------------------------------------------------------
(* Properties *)

\* A processor that registered the queue id and has not given it back
Claims(p) == promise[p] = "registered" \/ ref[p] # NoWorker

\* The queue id is registered for exactly as long as one processor claims it,
\* however starts, refused starts and overlapping disposals interleave
\* (Monitor's unregisterQueueProcessor deletes the id whoever added it).
RegistrationOwned ==
    /\ active <=> \E p \in Processors : Claims(p)
    /\ \A p, q \in Processors : Claims(p) /\ Claims(q) => p = q

\* A worker that fetches or processes jobs, or whose hooks still run, is the one
\* its processor knows: it can be disposed, and its queue id stays taken.
NoOrphan ==
    \A w \in Workers :
        worker[w] # "closed" \/ Busy(w) => ref[builder[w]] = w

\* No two processors of the process work on one queue, not even while one of
\* them drains (registerQueueProcessor's "is not unique").
OneWorkerPerQueue ==
    \A v, w \in Workers :
        (worker[v] # "closed" \/ Busy(v)) /\ (worker[w] # "closed" \/ Busy(w)) => v = w

\* README: dispose() waits for the current jobs to finish; their hooks included
\* (runningPromises).
DisposeDrains ==
    [][\A p \in Processors, w \in Workers :
          ref[p] = w /\ ref'[p] # w => worker'[w] = "closed" /\ ~Busy(w)']_vars

\* What the drain rests on: a closed worker that is still referenced has hooks
\* running, and every dispose() past close() awaits all of them.
DrainsAwaitAll ==
    \A p \in Processors :
        IF ref[p] # NoWorker /\ worker[ref[p]] = "closed"
        THEN /\ jobs[ref[p]] = 0
             /\ Running(p) # {}
             /\ drains[p] = {Running(p)}
        ELSE drains[p] = {}

\* Outside test mode the reference is set last and points to a worker of the
\* processor's own (the third part of the inductive invariant).
RefsMatch ==
    \A p \in Processors :
        /\ promise[p] # "connecting"
        /\ promise[p] = "registered" => ref[p] = NoWorker
        /\ ref[p] # NoWorker => builder[ref[p]] = p

\* A dispose() of a running processor comes to an end once the jobs and hooks do.
DisposeEnds ==
    \A w \in Workers :
        worker[w] = "closing" ~> \A p \in Processors : ref[p] # w

\* A worker that was started listens to its events: no outcome of a job goes
\* unnoticed, whatever was disposed while the worker connected (internalStart's
\* registerListeners comes after waitUntilReady in test mode).
StartedListens ==
    \A p \in Processors :
        promise[p] = "none" /\ ref[p] # NoWorker => listens[ref[p]]

\* README: dispose() correctly stops processing any new messages.
DisposeStops ==
    \A p \in Processors :
        ~wanted[p] => \A w \in Workers : builder[w] = p => worker[w] # "open"
===============================================================================
