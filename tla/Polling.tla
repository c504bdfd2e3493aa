------------------------------- MODULE Polling -------------------------------
(***************************************************************************)
(* polling: ExponentialBackoffStrategy.execute polls until pollFn reports  *)
(* completion, the attempts are used up or the caller aborts, and waits in *)
(* delay() between two polls.  How long it waits is left out: a delay is   *)
(* over when its timer fires.                                              *)
(***************************************************************************)
EXTENDS Naturals

CONSTANTS MaxAttempts   \* config.maxAttempts

VARIABLES
    attempt,   \* the loop's counter
    step,      \* what execute() does or awaits
    aborted,   \* signal.aborted
    timer,     \* the timer of delay() is running
    listener,  \* the abort listener of delay() is on the signal
    waited,    \* how the promise of delay() was settled
    polled,    \* polls that have answered
    outcome,   \* how execute() ended
    told       \* the onSuccess and onFailure hooks called, [cause, made]

vars == <<attempt, step, aborted, timer, listener, waited, polled, outcome, told>>

TypeOK ==
    /\ attempt \in 1..MaxAttempts
    /\ step \in {"checking", "polling", "waiting", "ended"}
    /\ {aborted, timer, listener} \subseteq BOOLEAN
    /\ waited \in {"pending", "resolved", "rejected"}
    /\ polled \in 0..MaxAttempts
    /\ outcome \in {"none", "value", "CANCELLED", "TIMEOUT", "thrown"}

Init ==
    /\ attempt = 1 /\ step = "checking"
    /\ aborted \in BOOLEAN
    /\ timer = FALSE /\ listener = FALSE /\ waited = "pending"
    /\ polled = 0 /\ outcome = "none" /\ told = {}

\* execute() throws a PollingError, having called onFailure
FailWith(cause, made) ==
    /\ step' = "ended"
    /\ outcome' = cause
    /\ told' = told \cup {[cause |-> cause, made |-> made]}

\* checkAborted, then pollFn(attempt)
Poll ==
    /\ step = "checking"
    /\ IF aborted
       THEN FailWith("CANCELLED", attempt - 1)
       ELSE step' = "polling" /\ UNCHANGED <<outcome, told>>
    /\ UNCHANGED <<attempt, aborted, timer, listener, waited, polled>>

\* pollFn rejected: execute() rejects with its error and calls no hook
PollThrows ==
    /\ step = "polling"
    /\ step' = "ended" /\ outcome' = "thrown"
    /\ UNCHANGED <<attempt, aborted, timer, listener, waited, polled, told>>

PollCompletes ==
    /\ step = "polling"
    /\ polled' = polled + 1
    /\ step' = "ended" /\ outcome' = "value"
    /\ told' = told \cup {[cause |-> "value", made |-> attempt]}
    /\ UNCHANGED <<attempt, aborted, timer, listener, waited>>

\* delay(): a signal that is aborted already rejects before there is a timer
Delay ==
    /\ step' = "waiting"
    /\ IF aborted
       THEN waited' = "rejected" /\ UNCHANGED <<timer, listener>>
       ELSE waited' = "pending" /\ timer' = TRUE /\ listener' = TRUE

\* not complete: wait, or give up after the last attempt, aborted or not
PollGoesOn ==
    /\ step = "polling"
    /\ polled' = polled + 1
    /\ IF attempt < MaxAttempts
       THEN Delay /\ UNCHANGED <<outcome, told>>
       ELSE FailWith("TIMEOUT", MaxAttempts) /\ UNCHANGED <<timer, listener, waited>>
    /\ UNCHANGED <<attempt, aborted>>

\* the delay is over: take the listener off the signal and resolve
TimerFires ==
    /\ timer
    /\ timer' = FALSE /\ listener' = FALSE
    /\ waited' = "resolved"
    /\ UNCHANGED <<attempt, step, aborted, polled, outcome, told>>

\* the caller aborts, which calls the listener (once): clear the timer and reject
Abort ==
    /\ ~aborted
    /\ aborted' = TRUE
    /\ listener' = FALSE
    /\ IF listener
       THEN timer' = FALSE /\ waited' = "rejected"
       ELSE UNCHANGED <<timer, waited>>
    /\ UNCHANGED <<attempt, step, polled, outcome, told>>

\* fault: a cancelled wait counts the attempt that it waits for
WaitedOff ==
    /\ step = "waiting" /\ waited # "pending"
    /\ IF waited = "rejected"
       THEN FailWith("CANCELLED", attempt + 1) /\ UNCHANGED attempt
       ELSE attempt' = attempt + 1 /\ step' = "checking" /\ UNCHANGED <<outcome, told>>
    /\ UNCHANGED <<aborted, timer, listener, waited, polled>>

\* waitBeforeRetry goes on: the next attempt, or the cancellation
Waited ==
    /\ step = "waiting" /\ waited # "pending"
    /\ IF waited = "rejected"
       THEN FailWith("CANCELLED", attempt) /\ UNCHANGED attempt
       ELSE attempt' = attempt + 1 /\ step' = "checking" /\ UNCHANGED <<outcome, told>>
    /\ UNCHANGED <<aborted, timer, listener, waited, polled>>

Next ==
    \/ Poll \/ PollThrows \/ PollCompletes \/ PollGoesOn
    \/ TimerFires \/ Abort \/ Waited

Spec == Init /\ [][Next]_vars

-----------------------------------------------------------------------------
(* Properties *)

\* The hooks tell what execute() does, once, with the polls that were made,
\* wherever the abort falls; a rejection of pollFn is told to nobody.
HooksTellOutcome ==
    told = IF outcome \in {"none", "thrown"} THEN {}
           ELSE {[cause |-> outcome, made |-> polled]}

\* Neither a timer nor a listener on the caller's signal outlives a delay, and
\* while it waits it has both: it can be woken and it can be cancelled.
DelayCleansUp ==
    LET waiting == step = "waiting" /\ waited = "pending"
    IN  timer = waiting /\ listener = waiting

-----------------------------------------------------------------------------
(* The inductive invariant *)

\* How many polls have answered at each point of the loop
IInv ==
    /\ attempt \in 1..MaxAttempts /\ polled \in Nat
    /\ step \in {"checking", "polling", "waiting", "ended"}
    /\ step \in {"checking", "polling"} => polled = attempt - 1
    /\ step = "waiting" => polled = attempt /\ attempt < MaxAttempts
    /\ step # "ended" => outcome = "none"
    /\ HooksTellOutcome /\ DelayCleansUp
=============================================================================
