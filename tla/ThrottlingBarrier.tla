-------------------------- MODULE ThrottlingBarrier --------------------------
(***************************************************************************)
(* createJobQueueSizeThrottlingBarrier(New): before a job is processed the *)
(* barrier counts the jobs of another queue and lets the job pass only     *)
(* while there are fewer than maxQueueJobsInclusive.  The check is         *)
(* optimistic: the count is read, answered and acted on in separate steps, *)
(* and a job that passed schedules its children one by one.                *)
(***************************************************************************)
EXTENDS Integers, FiniteSets

CONSTANTS
    Slots,    \* concurrent executions of the throttled processor, over all nodes
    MaxJobs,  \* maxQueueJobsInclusive
    Fanout    \* children a job schedules into the counted queue, at most

ASSUME BarrierAssumption ==
    /\ IsFiniteSet(Slots)
    /\ MaxJobs \in Nat \ {0}
    /\ Fanout \in Nat

VARIABLES
    pc,     \* where each execution is
    count,  \* jobs in the counted queue: active, waiting, paused, delayed, ...
    due     \* children that executions past the barrier may still schedule

vars == <<pc, count, due>>

Children(s) == {s} \X (1 .. Fanout)

TypeOK ==
    /\ pc \in [Slots -> {"idle", "counting", "below", "full", "process"}]
    /\ count \in Nat
    /\ due \subseteq Slots \X (1 .. Fanout)

Init ==
    /\ pc = [s \in Slots |-> "idle"]
    /\ count = 0
    /\ due = {}

Goto(s, next) == pc' = [pc EXCEPT ![s] = next]

\* processInternal calls the barrier, which asks for getJobCount
Take(s) ==
    /\ pc[s] = "idle"
    /\ Goto(s, "counting")
    /\ UNCHANGED <<count, due>>

\* Redis counts; the answer is on its way
Count(s) ==
    /\ pc[s] = "counting"
    /\ Goto(s, IF count < MaxJobs THEN "below" ELSE "full")
    /\ UNCHANGED <<count, due>>

\* isPassing: the job is processed
Pass(s) ==
    /\ pc[s] = "below"
    /\ Goto(s, "process")
    /\ due' = due \cup Children(s)
    /\ UNCHANGED count

\* fault: the answer of the barrier is not looked at
DelayIgnored(s) ==
    /\ pc[s] = "full"
    /\ Goto(s, "process")
    /\ due' = due \cup Children(s)
    /\ UNCHANGED count

\* not passing: the job is moved to delayed and the slot is free for another one
Delay(s) ==
    /\ pc[s] = "full"
    /\ Goto(s, "idle")
    /\ UNCHANGED <<count, due>>

\* process() schedules a child
Schedule(s) ==
    /\ pc[s] = "process"
    /\ \E child \in due \cap Children(s) : due' = due \ {child}
    /\ count' = count + 1
    /\ UNCHANGED pc

\* process() resolves or rejects, with or without having scheduled them all
End(s) ==
    /\ pc[s] = "process"
    /\ Goto(s, "idle")
    /\ due' = due \ Children(s)
    /\ UNCHANGED count

\* a job of the counted queue completes or fails for good
ChildEnds ==
    /\ count > 0
    /\ count' = count - 1
    /\ UNCHANGED <<pc, due>>

Next ==
    \/ ChildEnds
    \/ \E s \in Slots :
          Take(s) \/ Count(s) \/ Pass(s) \/ Delay(s) \/ Schedule(s) \/ End(s)

Spec == Init /\ [][Next]_vars

-----------------------------------------------------------------------------

\* Children that are, or will be, allowed by counts already answered
Potential == due \cup ({s \in Slots : pc[s] = "below"} \X (1 .. Fanout))

\* The strengthening: every count answered "below" has room reserved for it.
Reserved ==
    /\ count + Cardinality(Potential) <= MaxJobs - 1 + Cardinality(Slots) * Fanout
    /\ \A child \in due : pc[child[1]] = "process"

\* The overflow of the optimistic check is bounded: however the counts and the
\* schedulings of the concurrent executions interleave, the counted queue never
\* holds more than one job less than the limit plus everything the concurrent
\* executions can schedule (JobQueueSizeThrottlingBarrierNew's "can overflow").
BoundedOverflow == count < MaxJobs + Cardinality(Slots) * Fanout
=============================================================================
