---------------------------- MODULE MCFlowManager ----------------------------
(***************************************************************************)
(* FlowManager for TLC, with lazy start (the cfg's constants) and without  *)
(* (Explicit), chosen at the start in `setup'.                             *)
(***************************************************************************)
EXTENDS FlowManager

VARIABLE setup

Explicit == INSTANCE FlowManager WITH LazyInitEnabled <- FALSE

MCInit == Init /\ setup \in {"lazy", "explicit"}

MCNext ==
    /\ UNCHANGED setup
    /\ \/ setup = "lazy" /\ Next
       \/ setup = "explicit" /\ Explicit!Next

\* Fairness is about steps in which the two do not differ
MCSpec == MCInit /\ [][MCNext]_<<setup, vars>> /\ Fairness
=============================================================================
