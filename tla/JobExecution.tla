----------------------------- MODULE JobExecution -----------------------------
(***************************************************************************)
(* One job and the workers that execute it: processInternal with its       *)
(* barrier, the outcome BullMQ (external) gives the job, and the hooks     *)
(* that AbstractBackgroundJobProcessorNew runs on the worker's "completed" *)
(* and "failed" events.  A worker can lose the job's lock (a stalled job)  *)
(* while it is still processing, and another one then takes the job.  An   *)
(* event is heard some time after Redis has changed the job: meanwhile     *)
(* other workers and operators go on with the job, and a worker that dies  *)
(* is not heard.  A round is the life of the job up to its end, or from    *)
(* one retry of the ended job to its next end.                             *)
(***************************************************************************)
EXTENDS Naturals

CONSTANTS
    Workers,
    NoWorker,
    Attempts,   \* job.opts.attempts
    MaxStalled, \* maxStalledCount
    Retries,    \* bound: retries of the finished job by an operator
    Deaths,     \* bound: workers that die
    Purge       \* purgeJobDataOnSuccess # false and not removeOnComplete

VARIABLES
    state,    \* of the job in Redis
    lock,     \* the worker that holds its lock
    made,     \* job.attemptsMade
    stalls,   \* how often it stalled
    retried,  \* how often an operator retried it
    died,     \* how many workers have died
    data,     \* job.data
    pc,       \* where processInternal of each worker is, and how it ended
    event,    \* the event each worker is about to emit
    hook,     \* the hook each worker's last event runs
    outcome,  \* how the job ended in each round
    told      \* the hook that was called for each round

countVars == <<made, stalls, retried, died>>
vars == <<state, lock, countVars, data, pc, event, hook, outcome, told>>

Rounds == 0 .. Retries

\* What a worker tells its listeners of a round; a failed one is told with its cause and
\* the attempts the job then had
Events == [kind : {"none", "completed", "rejected", "unrecoverable", "stalled"},
           made : Nat, round : Rounds]
Event(kind, attempts) == [kind |-> kind, made |-> attempts, round |-> retried]
NoEvent == [kind |-> "none", made |-> 0, round |-> 0]

TypeOK ==
    /\ state \in {"waiting", "active", "delayed", "completed", "failed"}
    /\ lock \in Workers \cup {NoWorker}
    /\ made \in 0 .. (Attempts + Retries + 1)
    /\ stalls \in 0 .. (MaxStalled + 1)
    /\ retried \in Rounds
    /\ died \in 0 .. Deaths
    /\ data \in {"full", "purged"}
    /\ pc \in [Workers -> {"idle", "barrier", "process",
                           "resolved", "rejected", "unrecoverable", "delayed"}]
    /\ event \in [Workers -> Events]
    /\ hook \in [Workers -> {"none", "onFailed", "onSuccess", "purge"}]
    /\ outcome \in [Rounds -> {"none", "completed", "failed"}]
    /\ told \in [Rounds -> {"none", "onFailed", "onSuccess", "twice"}]

Init ==
    /\ state = "waiting" /\ lock = NoWorker
    /\ made = 0 /\ stalls = 0 /\ retried = 0 /\ died = 0
    /\ data = "full"
    /\ pc = [w \in Workers |-> "idle"]
    /\ event = [w \in Workers |-> NoEvent]
    /\ hook = [w \in Workers |-> "none"]
    /\ outcome = [r \in Rounds |-> "none"]
    /\ told = [r \in Rounds |-> "none"]

Goto(w, next) == pc' = [pc EXCEPT ![w] = next]

-----------------------------------------------------------------------------
(* processInternal *)

\* safeParse of the payload the job was taken with: without its data the job can
\* never succeed, the ZodUnrecoverableError is unrecoverable
Parsed == IF data = "full" THEN "barrier" ELSE "unrecoverable"

\* the barrier answered: go on, or move the job to delayed and throw DelayedError;
\* the move rejects when the lock is lost
Barrier(w) ==
    /\ pc[w] = "barrier"
    /\ \/ /\ Goto(w, "process")
          /\ UNCHANGED <<state, lock>>
       \/ /\ lock = w
          /\ Goto(w, "delayed")
          /\ state' = "delayed" /\ lock' = NoWorker
       \/ /\ lock # w
          /\ Goto(w, "rejected")
          /\ UNCHANGED <<state, lock>>
    /\ UNCHANGED <<countVars, data, event, hook, outcome, told>>

\* process() and updateProgress(100) settled
Process(w) ==
    /\ pc[w] = "process"
    /\ \E result \in {"resolved", "rejected", "unrecoverable"} : Goto(w, result)
    /\ UNCHANGED <<state, lock, countVars, data, event, hook, outcome, told>>

-----------------------------------------------------------------------------
(* The worker's events *)

\* A hook is called for a round
Call(w, name, round) ==
    /\ hook' = [hook EXCEPT ![w] = name]
    /\ told' = [told EXCEPT ![round] = IF @ = "none" THEN name ELSE "twice"]

\* The failures after which internalOnFailed runs the hook: an unrecoverable or stalled
\* job, or the last attempt, of the job as the worker knows it
IsLast(e) ==
    \/ e.kind \in {"unrecoverable", "stalled"}
    \/ e.kind = "rejected" /\ e.made = Attempts

\* fault: onFailed after every attempt
HearFailedAlways(w) ==
    /\ event[w].kind \in {"rejected", "unrecoverable", "stalled"}
    /\ event' = [event EXCEPT ![w] = NoEvent]
    /\ Call(w, "onFailed", event[w].round)
    /\ UNCHANGED <<state, lock, countVars, data, pc, outcome>>

\* the "failed" listener, internalOnFailed: an attempt that is not the last one is only
\* reported
HearFailed(w) ==
    /\ event[w].kind \in {"rejected", "unrecoverable", "stalled"}
    /\ event' = [event EXCEPT ![w] = NoEvent]
    /\ IF IsLast(event[w]) THEN Call(w, "onFailed", event[w].round)
       ELSE UNCHANGED <<hook, told>>
    /\ UNCHANGED <<state, lock, countVars, data, pc, outcome>>

\* the "completed" listener, internalOnSuccess: onSuccess first
HearCompleted(w) ==
    /\ event[w].kind = "completed"
    /\ event' = [event EXCEPT ![w] = NoEvent]
    /\ Call(w, "onSuccess", event[w].round)
    /\ UNCHANGED <<state, lock, countVars, data, pc, outcome>>

\* the hook settled (a rejection is reported); a successful job is purged next
HookSettles(w) ==
    /\ hook[w] \in {"onFailed", "onSuccess"}
    /\ hook' = [hook EXCEPT ![w] = IF @ = "onSuccess" /\ Purge THEN "purge" ELSE "none"]
    /\ UNCHANGED <<state, lock, countVars, data, pc, event, outcome, told>>

\* purgeJobData: keep the metadata only
PurgeJobData(w) ==
    /\ hook[w] = "purge"
    /\ hook' = [hook EXCEPT ![w] = "none"]
    /\ data' = "purged"
    /\ UNCHANGED <<state, lock, countVars, pc, event, outcome, told>>

-----------------------------------------------------------------------------
(* BullMQ: Redis changes the job, and the worker's event follows later *)

Quiet(w) == event[w] = NoEvent /\ hook[w] = "none"

\* (bound: a worker takes the job again when its last event was heard and the hook of it
\* has settled)
Take(w) ==
    /\ state = "waiting" /\ pc[w] = "idle" /\ Quiet(w)
    /\ state' = "active" /\ lock' = w
    /\ Goto(w, Parsed)
    /\ UNCHANGED <<countVars, data, event, hook, outcome, told>>

\* The job ends, or a failed attempt is delayed
Moved(next) ==
    /\ state' = next /\ lock' = NoWorker
    /\ outcome' = IF next \in {"completed", "failed"}
                  THEN [outcome EXCEPT ![retried] = next] ELSE outcome

\* moveToCompleted
Complete(w) ==
    /\ pc[w] = "resolved" /\ lock = w
    /\ Goto(w, "idle")
    /\ Moved("completed")
    /\ made' = made + 1
    /\ event' = [event EXCEPT ![w] = Event("completed", made')]
    /\ UNCHANGED <<stalls, retried, died, data, hook, told>>

\* moveToFailed: the job fails for good, or waits for its next attempt
Fail(w) ==
    /\ pc[w] \in {"rejected", "unrecoverable"} /\ lock = w
    /\ Goto(w, "idle")
    /\ made' = made + 1
    /\ Moved(IF pc[w] = "unrecoverable" \/ made' >= Attempts THEN "failed" ELSE "delayed")
    /\ event' = [event EXCEPT ![w] = Event(pc[w], made')]
    /\ UNCHANGED <<stalls, retried, died, data, hook, told>>

\* a DelayedError, or an outcome without the lock: the worker emits no event
Dropped(w) ==
    /\ \/ pc[w] = "delayed"
       \/ pc[w] \in {"resolved", "rejected", "unrecoverable"} /\ lock # w
    /\ Goto(w, "idle")
    /\ UNCHANGED <<state, lock, countVars, data, event, hook, outcome, told>>

\* the lock expired: a worker's check gives the job another try, or fails it
Stall(w) ==
    /\ state = "active" /\ Quiet(w)
    /\ stalls' = stalls + 1
    /\ \/ /\ stalls < MaxStalled
          /\ Moved("waiting")
          /\ UNCHANGED event
       \/ /\ stalls >= MaxStalled
          /\ Moved("failed")
          /\ event' = [event EXCEPT ![w] = Event("stalled", made)]
    /\ UNCHANGED <<made, retried, died, data, pc, hook, told>>

Promote ==
    /\ state = "delayed"
    /\ state' = "waiting"
    /\ UNCHANGED <<lock, countVars, data, pc, event, hook, outcome, told>>

\* an operator retries the finished job (dashboard): attemptsMade stays
Retry ==
    /\ state \in {"completed", "failed"} /\ retried < Retries
    /\ state' = "waiting"
    /\ retried' = retried + 1
    /\ stalls' = 0
    /\ UNCHANGED <<lock, made, died, data, pc, event, hook, outcome, told>>

\* the worker's process dies, with its event and its hook; the lock is left to expire
Die(w) ==
    /\ died < Deaths
    /\ died' = died + 1
    /\ Goto(w, "idle")
    /\ event' = [event EXCEPT ![w] = NoEvent]
    /\ hook' = [hook EXCEPT ![w] = "none"]
    /\ UNCHANGED <<state, lock, made, stalls, retried, data, outcome, told>>

Next ==
    \/ Promote \/ Retry
    \/ \E w \in Workers :
          \/ Barrier(w) \/ Process(w) \/ Dropped(w)
          \/ HearCompleted(w) \/ HearFailed(w) \/ HookSettles(w) \/ PurgeJobData(w)
          \/ Take(w) \/ Complete(w) \/ Fail(w) \/ Stall(w) \/ Die(w)

Spec == Init /\ [][Next]_vars

-----------------------------------------------------------------------------
(* Properties *)

\* The events that call a hook
Calls(e) == e.kind = "completed" \/ IsLast(e)

\* A hook tells how its round ended, and each round has one call at most: whichever
\* workers lose the job, take it over or finish it without owning it any more, and
\* however late their events are heard, next to those of later rounds.
HooksTellState ==
    \A r \in Rounds :
        /\ told[r] = "onSuccess" => outcome[r] = "completed"
        /\ told[r] = "onFailed" => outcome[r] = "failed"
        /\ told[r] # "twice"

\* "The hook will be triggered on 'failed' job state.", and on 'completed': the end of a
\* round goes untold only when the event of it is still to come, or a worker died with
\* it, or the attempts were used up before the job was retried.
EndsAreTold ==
    \A r \in Rounds :
        outcome[r] # "none" /\ told[r] = "none" =>
            \/ \E w \in Workers : Calls(event[w]) /\ event[w].round = r
            \/ died > 0
            \/ outcome[r] = "failed" /\ r > 0 /\ made > Attempts

\* The payload is purged only from a job that has completed: neither a failed
\* attempt nor one that stalls and is taken over ever costs a later attempt its data.
PurgedWhenDone == data = "purged" => \E r \in Rounds : outcome[r] = "completed"

-----------------------------------------------------------------------------
(* The inductive invariant *)

\* Only the job that is being processed is locked, by a worker with nothing to tell yet.
LockedIsActive ==
    lock # NoWorker => state = "active" /\ event[lock] = NoEvent

Over == state \in {"completed", "failed"}

\* A job that is not over has an attempt left for every retry and not stalled too often.
TriesAreLeft ==
    /\ made <= Attempts + retried
    /\ ~Over => made < Attempts + retried /\ stalls <= MaxStalled

\* The rounds before this one have ended, and this one when the job has.
OutcomesMatch ==
    /\ outcome[retried] = IF Over THEN state ELSE "none"
    /\ \A r \in Rounds : r > retried => outcome[r] = "none"

\* A hook or an event that will call one is about a round that has ended so and that
\* nobody else tells.
EventsMatch ==
    /\ \A w \in Workers : Calls(event[w]) =>
          /\ outcome[event[w].round] =
                IF event[w].kind = "completed" THEN "completed" ELSE "failed"
          /\ told[event[w].round] = "none"
    /\ \A v, w \in Workers :
          Calls(event[v]) /\ Calls(event[w]) /\ event[v].round = event[w].round => v = w
    /\ \A w \in Workers : hook[w] \in {"onSuccess", "purge"} =>
          \E r \in Rounds : outcome[r] = "completed"

IInv ==
    /\ TypeOK /\ LockedIsActive /\ TriesAreLeft /\ OutcomesMatch /\ EventsMatch
    /\ HooksTellState /\ EndsAreTold /\ PurgedWhenDone
=============================================================================
