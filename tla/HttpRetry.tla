------------------------------ MODULE HttpRetry ------------------------------
(***************************************************************************)
(* backend-http-client: withRetry calls fn - one HTTP request - until it   *)
(* has an answer to return, an error to throw or no retries left, while    *)
(* the caller may abort.  Delays are chosen by the configuration or by the *)
(* server (Retry-After): here a delay is either nothing or some time.      *)
(***************************************************************************)
EXTENDS Naturals

CONSTANTS MaxRetries   \* config.maxRetries

VARIABLES
    config,      \* [network, timeout : BOOLEAN]: retryOnNetworkError, retryOnTimeout
    retryNumber, \* the attempts made
    phase,       \* what withRetry awaits, or how it ended
    aborted,     \* signal.aborted
    dump,        \* response.body.dump() of the last retryable response
    asleep,      \* the timer of setTimeoutPromise
    unread,      \* responses whose body withRetry did not dump
    late         \* bound: attempts started after the abort, counted up to 2

vars == <<config, retryNumber, phase, aborted, dump, asleep, unread, late>>

TypeOK ==
    /\ retryNumber \in 0..(MaxRetries + 1)
    /\ phase \in {"calling", "pausing", "returned", "threw"}
    /\ dump \in {"none", "running", "done"}
    /\ asleep \in BOOLEAN
    /\ unread \in 0..1
    /\ late \in 0..2

\* fn() of the next attempt; retryNumber counts it at once
Call ==
    /\ retryNumber' = retryNumber + 1
    /\ phase' = "calling"
    /\ late' = IF aborted /\ late < 2 THEN late + 1 ELSE late

Init ==
    /\ config \in [network : BOOLEAN, timeout : BOOLEAN]
    /\ retryNumber = 1 /\ phase = "calling"
    /\ aborted \in BOOLEAN
    /\ dump = "none" /\ asleep = FALSE
    /\ unread = 0
    /\ late = IF aborted THEN 1 ELSE 0

\* retryNumber was compared with maxRetries before it was counted up
IsLastAttempt == retryNumber > MaxRetries

\* undici refuses a request whose signal is aborted when it starts
MayRespond == phase = "calling" /\ late = 0

\* fn() resolved with a response that is returned: its body is the caller's
Return ==
    /\ MayRespond
    /\ phase' = "returned"
    /\ unread' = unread + 1
    /\ UNCHANGED <<config, retryNumber, aborted, dump, asleep, late>>

\* fault: the body is only dumped if there is time for it
RetryResponseUndumped ==
    /\ MayRespond /\ ~IsLastAttempt
    /\ \/ dump' = "running" /\ asleep' = TRUE /\ phase' = "pausing" /\ UNCHANGED <<retryNumber, late, unread>>
       \/ Call /\ unread' = unread + 1 /\ UNCHANGED <<dump, asleep>>
    /\ UNCHANGED <<config, aborted>>

\* fn() resolved with a retryable status: dump the body and, if there is a
\* delay, sleep; a signal that is aborted already rejects the sleep at once
RetryResponse ==
    /\ MayRespond /\ ~IsLastAttempt
    /\ dump' = "running"
    /\ \/ asleep' = FALSE /\ phase' = "pausing"
       \/ asleep' = ~aborted /\ phase' = IF aborted THEN "threw" ELSE "pausing"
    /\ UNCHANGED <<config, retryNumber, aborted, unread, late>>

\* fn() rejected and the error is thrown on; kind is the configuration's name
\* for it, and an abort rejects with the caller's reason
Throw ==
    /\ phase = "calling"
    /\ \/ IsLastAttempt
       \/ aborted
       \/ \E kind \in DOMAIN config : ~config[kind]
    /\ phase' = "threw"
    /\ UNCHANGED <<config, retryNumber, aborted, dump, asleep, unread, late>>

\* fn() rejected, and the error is one to retry: at once or after a sleep
RetryError ==
    /\ phase = "calling" /\ ~IsLastAttempt /\ ~aborted
    /\ \E kind \in DOMAIN config : config[kind]
    /\ \/ Call /\ UNCHANGED asleep
       \/ asleep' = TRUE /\ phase' = "pausing" /\ UNCHANGED <<retryNumber, late>>
    /\ dump' = "done"
    /\ UNCHANGED <<config, aborted, unread>>

\* the body is dumped, or breaks: Promise.all rejects
Dumped ==
    /\ dump = "running"
    /\ dump' = "done"
    /\ phase' \in IF phase = "pausing" THEN {"pausing", "threw"} ELSE {phase}
    /\ UNCHANGED <<config, retryNumber, aborted, asleep, unread, late>>

WakeUp ==
    /\ asleep
    /\ asleep' = FALSE
    /\ UNCHANGED <<config, retryNumber, phase, aborted, dump, unread, late>>

\* everything awaited between two attempts has resolved
Again ==
    /\ phase = "pausing" /\ dump = "done" /\ ~asleep
    /\ Call
    /\ UNCHANGED <<config, aborted, dump, asleep, unread>>

\* the caller aborts: a sleep rejects, and with it what awaits it
Abort ==
    /\ ~aborted
    /\ aborted' = TRUE
    /\ asleep' = FALSE
    /\ phase' = IF asleep /\ phase = "pausing" THEN "threw" ELSE phase
    /\ UNCHANGED <<config, retryNumber, dump, unread, late>>

Next ==
    \/ Return \/ RetryResponse \/ Throw \/ RetryError
    \/ Dumped \/ WakeUp \/ Again \/ Abort

Spec == Init /\ [][Next]_vars

-----------------------------------------------------------------------------
(* Properties *)

\* Every response but the one returned is dumped ("undici response body must
\* always be consumed or explicitly dumped"), whatever delays and aborts do.
BodiesConsumed == unread = IF phase = "returned" THEN 1 ELSE 0

\* Requests are at most maxRetries + 1, and once the caller has aborted at most
\* one more is tried, which the aborted signal refuses.
AbortEndsRetries == retryNumber <= MaxRetries + 1 /\ late <= 1
\* The inductive invariant: an attempt that begins after the abort is the only one and
\* gets no response, and a pause is followed by an attempt that is still allowed.
IInv ==
    /\ retryNumber \in Nat /\ late \in 0..1
    /\ phase \in {"calling", "pausing", "returned", "threw"}
    /\ BodiesConsumed /\ AbortEndsRetries
    /\ late = 1 => aborted /\ phase \in {"calling", "threw"}
    /\ phase = "pausing" => ~IsLastAttempt
=============================================================================
