--------------------------- MODULE MCQueueManager ---------------------------
(***************************************************************************)
(* QueueManager for TLC, in both of its configurations: `setup' is chosen  *)
(* at the start.  The cfg's constants are those of the manager with lazy   *)
(* start; Explicit is the one without, whose starts are of all queues.     *)
(***************************************************************************)
EXTENDS QueueManager

VARIABLE setup

Explicit == INSTANCE QueueManager WITH LazyInitEnabled <- FALSE, Starts <- {Queues}

MCInit == Init /\ setup \in {"lazy", "explicit"}

MCNext ==
    /\ UNCHANGED setup
    /\ \/ setup = "lazy" /\ Next
       \/ setup = "explicit" /\ Explicit!Next

\* Fairness is about steps in which the two do not differ
MCSpec == MCInit /\ [][MCNext]_<<setup, vars>> /\ Fairness

\* Without lazy start, an operation whose start succeeded finds its queue unless
\* the manager was disposed on its way (schedule, startIfNotStarted).
ExplicitFindsQueue == [][setup = "explicit" => RefusesWhenEmpty]_vars
=============================================================================
