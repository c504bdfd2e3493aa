------------------------------ MODULE PromiseRace ------------------------------
(***************************************************************************)
(* universal-ts-utils: promiseWithTimeout, a race of the promise, a timer  *)
(* and the caller's AbortController for one settlement.  Callbacks of a    *)
(* promise run before the next timer; abort listeners run within abort().  *)
(***************************************************************************)
EXTENDS Naturals

VARIABLES
    controller,  \* opts.abortController is given
    aborted,     \* its signal.aborted
    promise,     \* the caller's promise
    timer,       \* the timer is running
    listening,   \* the abort listener is on the signal
    settled      \* what the returned promise is resolved with

vars == <<controller, aborted, promise, timer, listening, settled>>

TypeOK ==
    /\ {controller, aborted, timer, listening} \subseteq BOOLEAN
    /\ promise \in {"pending", "done", "delivered"}
    /\ settled \in {"none", "finished", "unfinished"}

\* with a controller that is aborted already there is no race
Init ==
    /\ controller \in BOOLEAN
    /\ aborted \in {FALSE, controller}
    /\ promise = "pending"
    /\ timer = ~aborted
    /\ listening = (controller /\ ~aborted)
    /\ settled = IF aborted THEN "unfinished" ELSE "none"

\* createSettler: the first one wins and clears the timer
Settle(outcome) ==
    IF settled = "none"
    THEN settled' = outcome /\ timer' = FALSE
    ELSE UNCHANGED <<settled, timer>>

\* fault: the operation is not aborted
TimerFiresSilently ==
    /\ timer /\ promise # "done"
    /\ Settle("unfinished")
    /\ UNCHANGED <<controller, aborted, promise, listening>>

\* the timer fires when no callback is due; it aborts the operation
TimerFires ==
    /\ timer /\ promise # "done"
    /\ aborted' = (aborted \/ controller)
    /\ listening' = FALSE
    /\ Settle("unfinished")
    /\ UNCHANGED <<controller, promise>>

\* the caller aborts, at any time: the listener (once) settles
Abort ==
    /\ controller /\ ~aborted
    /\ aborted' = TRUE
    /\ listening' = FALSE
    /\ IF listening THEN Settle("unfinished") ELSE UNCHANGED <<settled, timer>>
    /\ UNCHANGED <<controller, promise>>

\* the promise is resolved or rejected, and its callback runs later
PromiseDone ==
    /\ promise = "pending"
    /\ promise' = "done"
    /\ UNCHANGED <<controller, aborted, timer, listening, settled>>

Delivered ==
    /\ promise = "done"
    /\ promise' = "delivered"
    /\ Settle("finished")
    /\ UNCHANGED <<controller, aborted, listening>>

Next == TimerFires \/ Abort \/ PromiseDone \/ Delivered

Spec == Init /\ [][Next]_vars

-----------------------------------------------------------------------------
(* Properties *)

\* The timer lives as long as the race is open, who gives up on the promise has told
\* its operation to abort where it can, and a promise that answered in time is
\* reported as such.
RaceCleansUp ==
    /\ timer = (settled = "none")
    /\ settled = "unfinished" /\ controller => aborted
    /\ settled = "finished" => promise = "delivered"

-----------------------------------------------------------------------------
(* The inductive invariant *)

IInv == TypeOK /\ RaceCleansUp
=============================================================================
