-------------------------- MODULE PrismaTransaction --------------------------
(***************************************************************************)
(* prisma-utils: prismaTransaction runs a transaction (prisma.$transaction *)
(* and the database are external) and runs it again when it failed for a   *)
(* reason that a retry may cure, with a longer timeout after one that      *)
(* timed out.  The delays between the tries are left out.                  *)
(***************************************************************************)
EXTENDS Naturals

CONSTANTS
    RetriesAllowed,   \* options.retriesAllowed
    Timeouts,         \* the options.timeout that callers choose
    MaxTimeout        \* options.maxTimeout

VARIABLES
    initial,    \* options.timeout
    cockroach,  \* options.dbDriver = 'CockroachDb'
    timeout,    \* optionsWithDefaults.timeout
    retries,    \* the tries that failed
    expired,    \* those that timed out
    result,     \* what prismaTransaction returns
    applied,    \* how often the transaction was committed
    lost        \* commits whose answer was lost with the connection

vars == <<initial, cockroach, timeout, retries, expired, result, applied, lost>>

TypeOK ==
    /\ initial \in Timeouts /\ timeout \in Nat
    /\ cockroach \in BOOLEAN
    /\ {retries, expired, lost, applied} \subseteq 0..(RetriesAllowed + 1)
    /\ result \in {"none", "value", "error"}

Init ==
    /\ initial \in Timeouts /\ timeout = initial
    /\ cockroach \in BOOLEAN
    /\ retries = 0 /\ expired = 0
    /\ result = "none"
    /\ applied = 0 /\ lost = 0

\* How a try ends: with a value, which may be falsy; rolled back by a conflict, by
\* CockroachDB's own restart error, by the timeout or by another error; or with
\* the connection lost (P1017), before the commit or after it.
Endings == {"value", "falsy", "conflict", "restart", "closed", "cut", "cutLate", "other"}
Committed(ending) == ending \in {"value", "falsy", "cutLate"}

\* fault: a falsy value is taken for a failure
RetryAllowedFalsy(ending) ==
    ending \in {"falsy", "conflict", "closed", "cut", "cutLate"} \/ (ending = "restart" /\ cockroach)

\* `if (result.result) break', then isRetryAllowed: a falsy value has no error
RetryAllowed(ending) ==
    ending \in {"conflict", "closed", "cut", "cutLate"} \/ (ending = "restart" /\ cockroach)

Longer(t) == IF t * 2 < MaxTimeout THEN t * 2 ELSE MaxTimeout

Try ==
    /\ result = "none"
    /\ \E ending \in Endings :
          /\ applied' = IF Committed(ending) THEN applied + 1 ELSE applied
          /\ lost' = IF ending = "cutLate" THEN lost + 1 ELSE lost
          /\ IF RetryAllowed(ending)
             THEN /\ timeout' = IF ending = "closed" THEN Longer(timeout) ELSE timeout
                  /\ expired' = IF ending = "closed" THEN expired + 1 ELSE expired
                  /\ retries' = retries + 1
                  /\ result' = IF retries' <= RetriesAllowed THEN "none" ELSE "error"
             ELSE /\ result' = IF ending \in {"value", "falsy"} THEN "value" ELSE "error"
                  /\ UNCHANGED <<timeout, expired, retries>>
    /\ UNCHANGED <<initial, cockroach>>

Next == Try

Spec == Init /\ [][Next]_vars

-----------------------------------------------------------------------------
(* Properties *)

\* A transaction whose value is returned, falsy or not, was committed and not run
\* again; one that is reported as failed was not committed.  Only a connection
\* that is lost behind a commit makes a difference: the retry commits once more.
AppliedOnce == applied = lost + (IF result = "value" THEN 1 ELSE 0)

\* the powers of two
Power[n \in 0..(RetriesAllowed + 1)] == IF n = 0 THEN 1 ELSE 2 * Power[n - 1]

\* README: the timeout is doubled after each try that timed out, up to maxTimeout,
\* and after no other one, when it begins below that.
TimeoutDoubles ==
    initial <= MaxTimeout =>
        LET doubled == initial * Power[expired]
        IN  timeout = IF doubled < MaxTimeout THEN doubled ELSE MaxTimeout

-----------------------------------------------------------------------------
(* The inductive invariant *)

\* A try is made as long as no more than RetriesAllowed failed
IInv ==
    /\ initial \in Nat /\ timeout \in Nat
    /\ {retries, expired, applied, lost} \subseteq Nat
    /\ expired <= retries /\ retries <= RetriesAllowed + 1
    /\ result = "none" => retries <= RetriesAllowed
    /\ AppliedOnce /\ TimeoutDoubles
=============================================================================
