--------------------------- MODULE MCPeriodicJob ---------------------------
(* Small instances of PeriodicJob for TLC. *)
EXTENDS PeriodicJob, TLC

\* executors differ in nothing but their id (safety runs only)
ExecutorSymmetry == Permutations(Executors)
=============================================================================
