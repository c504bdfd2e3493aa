------------------------------- MODULE MCJobs -------------------------------
(***************************************************************************)
(* What happens to a background job, for TLC: the barrier that counts jobs *)
(* (ThrottlingBarrier), the execution of one job (JobExecution), the spy   *)
(* that tests await it with (JobSpy) and a processor in the test mode that *)
(* the spy needs (ProcessorLifecycle).  They share no state, so a          *)
(* behaviour is one of a single component, chosen at the start in `part';  *)
(* the others keep their initial state.                                    *)
(***************************************************************************)
EXTENDS ThrottlingBarrier

CONSTANTS
    Workers, NoWorker, Attempts, MaxStalled, Retries, Deaths,
    Jobs, Waiters, Processors

ASSUME JobsAssumption ==
    /\ NoWorker \notin Workers \cup Slots
    /\ Attempts \in Nat \ {0} /\ MaxStalled \in Nat
    /\ Retries \in Nat /\ Deaths \in Nat
    /\ Jobs \cap {"none", "pending", "cleared"} = {}

VARIABLES
    part,
    state, lock, made, stalls, retried, died, data, worker, event, hook, outcome, told,
    results, promises, awaited, answer,
    active, ref, promise, wanted, builder, stage, listens, running, handler, drains

executionVars ==
    <<state, lock, made, stalls, retried, died, data, worker, event, hook, outcome, told>>
spyVars       == <<results, promises, awaited, answer>>
processorVars == <<active, ref, promise, wanted, builder, stage, listens, running, handler, drains>>

Execution == INSTANCE JobExecution WITH Purge <- TRUE, pc <- worker

Spy == INSTANCE JobSpy

\* two hooks at a time, one job at a time
TestMode == INSTANCE ProcessorLifecycle WITH
    Workers <- Slots, Hooks <- Jobs, Concurrency <- 1, IsTest <- TRUE,
    worker <- stage, jobs <- running, hook <- handler

MCInit ==
    /\ part \in {"barrier", "execution", "spy", "testMode"}
    /\ Init
    /\ Execution!Init
    /\ Spy!Init
    /\ TestMode!Init

MCNext ==
    /\ UNCHANGED part
    /\ \/ part = "barrier" /\ Next /\ UNCHANGED <<executionVars, spyVars, processorVars>>
       \/ part = "execution" /\ Execution!Next /\ UNCHANGED <<vars, spyVars, processorVars>>
       \/ part = "spy" /\ Spy!Next /\ UNCHANGED <<vars, executionVars, processorVars>>
       \/ part = "testMode" /\ TestMode!TestNext /\ UNCHANGED <<vars, executionVars, spyVars>>

MCSpec == MCInit /\ [][MCNext]_<<part, vars, executionVars, spyVars, processorVars>>

-----------------------------------------------------------------------------
(* Properties: the components' own, where their configuration is explored *)

\* onSuccess and onFailed tell how the job ended, once for each retry of it and however
\* late the events are heard; an end goes untold only for the reasons of EndsAreTold, and
\* only the payload of a job that completed is purged.
HooksTellState ==
    Execution!HooksTellState /\ Execution!EndsAreTold /\ Execution!PurgedWhenDone

\* A wait that is still listed is for a job state that has not been recorded.
ListedIsUnanswered == Spy!ListedIsUnanswered

\* A wait is lost only when two others wait for the job that is recorded.
LossNeedsTwoMatches == Spy!LossNeedsTwoMatches

\* In test mode, too, a worker that was started listens to its events.
StartedListens == TestMode!StartedListens
=============================================================================
