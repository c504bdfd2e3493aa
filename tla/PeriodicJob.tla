----------------------------- MODULE PeriodicJob -----------------------------
(***************************************************************************)
(* AbstractPeriodicJob in single consumer mode: every node registers the   *)
(* same jobId, and a Redis mutex (redis-semaphore, external) decides which *)
(* of them runs processInternal.  An executor is one registration of the   *)
(* job (createTask draws one executorId per registration, and that id is   *)
(* the identifier of the mutex).                                           *)
(*                                                                         *)
(* A Redis command is sent, executed and answered in separate steps, so    *)
(* timers, disposal, other nodes and the clock interleave with every       *)
(* await.  Time is a Tick that ages the key, the refresh timers and the    *)
(* answers that are outstanding.                                           *)
(***************************************************************************)
EXTENDS Naturals

CONSTANTS
    Executors,        \* the registrations of the job, over all nodes
    NoOwner,          \* the key does not exist
    LockTimeout,      \* singleConsumerMode.lockTimeout
    AfterSuccess,     \* lockTimeoutAfterSuccess ?? intervalInMs ?? DEFAULT_LOCK_TIMEOUT
    RefreshInterval,  \* redis-semaphore refreshes the key this often
    MaxDelay,         \* longest delay of an answer, or of a due refresh
    MaxRedisErrors    \* bound: Redis commands that fail with an error

ASSUME ConstantsAssumption ==
    /\ NoOwner \notin Executors
    /\ LockTimeout \in Nat \ {0}
    /\ AfterSuccess \in Nat \ {0}
    /\ RefreshInterval \in Nat \ {0}
    /\ MaxDelay \in Nat
    /\ MaxRedisErrors \in Nat

VARIABLES
    owner,     \* identifier stored under the lock key, or NoOwner
    ttl,       \* time left before Redis expires the key
    reg,       \* what the scheduler knows of the executor's job
    pc,        \* where process() of the executor is
    reply,     \* answer to the Redis command process() awaits
    replyAge,  \* how long the executed command has waited for its answer
    mutex,     \* this.singleConsumerLock
    timer,     \* time to the next refresh of that mutex, or Off
    refresh,   \* that mutex's refresh command
    lateness,  \* how long the due or sent refresh is outstanding
    leftover,  \* refreshes of an earlier mutex nobody references any more
    release,   \* dispose() awaits the release of the mutex
    errors     \* Redis errors so far

redisVars   == <<owner, ttl>>
processVars == <<pc, reply, replyAge>>
mutexVars   == <<mutex, timer, refresh, lateness, leftover>>
vars == <<redisVars, reg, processVars, mutexVars, release, errors>>

Off == RefreshInterval + 1

Alive(e)    == pc[e] # "crashed"
Disposed(e) == reg[e] = "disposed"

TypeOK ==
    /\ owner \in Executors \cup {NoOwner}
    /\ ttl \in Nat
    /\ reg \in [Executors -> {"new", "first", "scheduled", "disposed"}]
    /\ pc \in [Executors -> {"idle", "acquire", "reacquire", "run", "shorten", "crashed"}]
    /\ reply \in [Executors -> {"none", "ok", "fail", "error"}]
    /\ replyAge \in [Executors -> 0 .. MaxDelay]
    /\ mutex \in [Executors -> {"none", "acquired", "lost"}]
    /\ timer \in [Executors -> 0 .. Off]
    /\ refresh \in [Executors -> {"none", "sent", "ok", "fail"}]
    /\ lateness \in [Executors -> 0 .. MaxDelay]
    /\ leftover \in [Executors -> {"none", "once", "timer"}]
    /\ release \in [Executors -> BOOLEAN]
    /\ errors \in 0 .. MaxRedisErrors

Init ==
    /\ owner = NoOwner
    /\ ttl = 0
    /\ reg = [e \in Executors |-> "new"]
    /\ pc = [e \in Executors |-> "idle"]
    /\ reply = [e \in Executors |-> "none"]
    /\ replyAge = [e \in Executors |-> 0]
    /\ mutex = [e \in Executors |-> "none"]
    /\ timer = [e \in Executors |-> Off]
    /\ refresh = [e \in Executors |-> "none"]
    /\ lateness = [e \in Executors |-> 0]
    /\ leftover = [e \in Executors |-> "none"]
    /\ release = [e \in Executors |-> FALSE]
    /\ errors = 0

-----------------------------------------------------------------------------
(* Process control *)

\* process() moves to await point `next`, its command not yet executed
Await(e, next) ==
    /\ pc' = [pc EXCEPT ![e] = next]
    /\ reply' = [reply EXCEPT ![e] = "none"]
    /\ replyAge' = [replyAge EXCEPT ![e] = 0]

\* register(): the job enters the scheduler, which runs it when the timer fires
Register(e) ==
    /\ Alive(e) /\ reg[e] = "new"
    /\ reg' = [reg EXCEPT ![e] = "scheduled"]
    /\ UNCHANGED <<redisVars, processVars, mutexVars, release, errors>>

\* asyncRegister() with runImmediately: the first execution precedes the
\* scheduler's knowledge of the job
AsyncRegister(e) ==
    /\ Alive(e) /\ reg[e] = "new"
    /\ reg' = [reg EXCEPT ![e] = "first"]
    /\ Await(e, "acquire")
    /\ UNCHANGED <<redisVars, mutexVars, release, errors>>

AsyncRegistered(e) ==
    /\ reg[e] = "first" /\ pc[e] = "idle"
    /\ reg' = [reg EXCEPT ![e] = "scheduled"]
    /\ UNCHANGED <<redisVars, processVars, mutexVars, release, errors>>

\* the scheduler's timer; preventOverrun: never while process() is executing
Fire(e) ==
    /\ reg[e] = "scheduled" /\ pc[e] = "idle"
    /\ Await(e, "acquire")
    /\ UNCHANGED <<redisVars, reg, mutexVars, release, errors>>

\* faults: the new mutex is never refreshed, or refreshed once per lockTimeout
AbandonUnrefreshed(e, m, t) ==
    /\ mutex' = [mutex EXCEPT ![e] = m]
    /\ timer' = [timer EXCEPT ![e] = Off]
    /\ UNCHANGED <<refresh, lateness, leftover>>

\* this.singleConsumerLock is overwritten: what the earlier mutex still does
\* goes on without a reference to it
Abandon(e, m, t) ==
    /\ mutex' = [mutex EXCEPT ![e] = m]
    /\ timer' = [timer EXCEPT ![e] = t]
    /\ refresh' = [refresh EXCEPT ![e] = "none"]
    /\ lateness' = [lateness EXCEPT ![e] = 0]
    /\ leftover' = [leftover EXCEPT ![e] =
                        IF timer[e] # Off THEN "timer"
                        ELSE IF @ = "none" /\ refresh[e] = "sent" THEN "once" ELSE @]

\* fault: the refusal of the fresh mutex is never handled
AcquireReplyLost(e) ==
    /\ pc[e] = "acquire" /\ reply[e] = "ok"
    /\ Await(e, "run")
    /\ Abandon(e, "acquired", RefreshInterval)
    /\ UNCHANGED <<redisVars, reg, release, errors>>

\* the fresh mutex answered: run, or try again as the external owner
AcquireReply(e) ==
    /\ pc[e] = "acquire"
    /\ \/ /\ reply[e] = "ok"
          /\ Await(e, "run")
          /\ Abandon(e, "acquired", RefreshInterval)
       \/ /\ reply[e] = "fail"
          /\ Await(e, "reacquire")
          /\ UNCHANGED mutexVars
    /\ UNCHANGED <<redisVars, reg, release, errors>>

\* fault: the job runs although the mutex was refused
ReacquireAnyway(e) ==
    /\ pc[e] = "reacquire" /\ reply[e] \in {"ok", "fail"}
    /\ Await(e, "run")
    /\ Abandon(e, "acquired", RefreshInterval)
    /\ UNCHANGED <<redisVars, reg, release, errors>>

\* the externally acquired mutex answered: run, or skip this execution
ReacquireReply(e) ==
    /\ pc[e] = "reacquire"
    /\ \/ /\ reply[e] = "ok"
          /\ Await(e, "run")
          /\ Abandon(e, "acquired", RefreshInterval)
       \/ /\ reply[e] = "fail"
          /\ Await(e, "idle")
          /\ Abandon(e, "none", Off)
    /\ UNCHANGED <<redisVars, reg, release, errors>>

\* fault: the lock is released after a run, while its refreshes go on
FinishReleasing(e) ==
    /\ pc[e] = "run"
    /\ Await(e, "idle")
    /\ release' = [release EXCEPT ![e] = TRUE]
    /\ UNCHANGED <<redisVars, reg, mutexVars, errors>>

\* processInternal settled; resolved or rejected, the finally block shortens
\* the lock
Finish(e) ==
    /\ pc[e] = "run"
    /\ Await(e, "shorten")
    /\ UNCHANGED <<redisVars, reg, mutexVars, release, errors>>

\* fault: no stopRefresh() after the update
ShortenReplyRefreshing(e) ==
    /\ pc[e] = "shorten" /\ reply[e] \in {"ok", "fail"}
    /\ Await(e, "idle")
    /\ UNCHANGED <<redisVars, reg, mutexVars, release, errors>>

\* updateMutex returned, whether or not the lock was still ours: stopRefresh()
ShortenReply(e) ==
    /\ pc[e] = "shorten" /\ reply[e] \in {"ok", "fail"}
    /\ Await(e, "idle")
    /\ timer' = [timer EXCEPT ![e] = Off]
    /\ lateness' = [lateness EXCEPT ![e] = IF refresh[e] = "none" THEN 0 ELSE @]
    /\ UNCHANGED <<redisVars, reg, mutex, refresh, leftover, release, errors>>

\* the awaited command rejected: process() rejects at that await, and nothing
\* after it runs
ErrorReply(e) ==
    /\ reply[e] = "error"
    /\ Await(e, "idle")
    /\ UNCHANGED <<redisVars, reg, mutexVars, release, errors>>

\* dispose(): stop the schedule, then release the mutex if there is one.
\* (stopById throws for a job the scheduler does not know, so a dispose()
\* before that reaches nothing.)
Dispose(e) ==
    /\ Alive(e) /\ reg[e] = "scheduled"
    /\ reg' = [reg EXCEPT ![e] = "disposed"]
    /\ timer' = [timer EXCEPT ![e] = Off]
    /\ lateness' = [lateness EXCEPT ![e] = IF refresh[e] = "none" THEN 0 ELSE @]
    /\ release' = [release EXCEPT ![e] = mutex[e] = "acquired"]
    /\ UNCHANGED <<redisVars, processVars, mutex, refresh, leftover, errors>>

-----------------------------------------------------------------------------
(* The mutex's refresh timer *)

\* setInterval callback: send a refresh, unless the last one is unanswered
RefreshDue(e) ==
    /\ Alive(e) /\ timer[e] = 0
    /\ timer' = [timer EXCEPT ![e] = RefreshInterval]
    /\ refresh' = [refresh EXCEPT ![e] = IF @ = "none" THEN "sent" ELSE @]
    /\ UNCHANGED <<redisVars, reg, processVars, mutex, lateness, leftover, release, errors>>

\* the refresh was answered; a refused one means the lock is lost
RefreshReply(e) ==
    /\ Alive(e) /\ refresh[e] \in {"ok", "fail"}
    /\ refresh' = [refresh EXCEPT ![e] = "none"]
    /\ lateness' = [lateness EXCEPT ![e] = 0]
    /\ IF refresh[e] = "fail" /\ mutex[e] = "acquired"
       THEN /\ mutex' = [mutex EXCEPT ![e] = "lost"]
            /\ timer' = [timer EXCEPT ![e] = Off]
       ELSE UNCHANGED <<mutex, timer>>
    /\ UNCHANGED <<redisVars, reg, processVars, leftover, release, errors>>

-----------------------------------------------------------------------------
(* Redis *)

\* SET key identifier PX LockTimeout NX
RedisSetNX(e) ==
    /\ pc[e] = "acquire" /\ reply[e] = "none"
    /\ IF owner = NoOwner
       THEN /\ owner' = e /\ ttl' = LockTimeout
            /\ reply' = [reply EXCEPT ![e] = "ok"]
       ELSE /\ reply' = [reply EXCEPT ![e] = "fail"]
            /\ UNCHANGED redisVars
    /\ UNCHANGED <<reg, pc, replyAge, mutexVars, release, errors>>

\* fault: the nodes share one identifier, so each extends the key of the others
ExtendShared(e, timeout) ==
    /\ ttl' = IF owner = NoOwner THEN ttl ELSE timeout
    /\ UNCHANGED owner

\* extend the key's life, only if it still holds the caller's identifier
Extend(e, timeout) ==
    /\ ttl' = IF owner = e THEN timeout ELSE ttl
    /\ UNCHANGED owner

\* the refresh script run for process(): reacquire with the full timeout, or
\* shorten to the timeout after success
RedisExtend(e) ==
    /\ reply[e] = "none"
    /\ \/ pc[e] = "reacquire" /\ Extend(e, LockTimeout)
       \/ pc[e] = "shorten" /\ Extend(e, AfterSuccess)
    /\ reply' = [reply EXCEPT ![e] = IF owner = e THEN "ok" ELSE "fail"]
    /\ UNCHANGED <<reg, pc, replyAge, mutexVars, release, errors>>

\* the refresh script run for the mutex's timer
RedisRefresh(e) ==
    /\ Alive(e) /\ refresh[e] = "sent"
    /\ Extend(e, LockTimeout)
    /\ refresh' = [refresh EXCEPT ![e] = IF owner = e THEN "ok" ELSE "fail"]
    /\ UNCHANGED <<reg, processVars, mutex, timer, lateness, leftover, release, errors>>

\* a refresh of a mutex nobody references; a timer dies when it is refused
RedisLeftover(e) ==
    /\ Alive(e) /\ leftover[e] # "none"
    /\ Extend(e, LockTimeout)
    /\ leftover' = [leftover EXCEPT ![e] =
                        IF @ = "timer" /\ owner = e THEN "timer" ELSE "none"]
    /\ UNCHANGED <<reg, processVars, mutex, timer, refresh, lateness, release, errors>>

\* the release script: delete the key only if it holds our identifier
RedisRelease(e) ==
    /\ Alive(e) /\ release[e]
    /\ owner' = IF owner = e THEN NoOwner ELSE owner
    /\ ttl' = IF owner = e THEN 0 ELSE ttl
    /\ release' = [release EXCEPT ![e] = FALSE]
    /\ UNCHANGED <<reg, processVars, mutexVars, errors>>

\* a command of process() fails before or after Redis executed it
RedisError(e) ==
    /\ pc[e] \in {"acquire", "reacquire", "shorten"} /\ reply[e] # "error"
    /\ errors < MaxRedisErrors
    /\ reply' = [reply EXCEPT ![e] = "error"]
    /\ replyAge' = [replyAge EXCEPT ![e] = 0]
    /\ errors' = errors + 1
    /\ UNCHANGED <<redisVars, reg, pc, mutexVars, release>>

-----------------------------------------------------------------------------
(* Environment *)

\* the node dies: its timers and its unanswered commands die with it
Crash(e) ==
    /\ Alive(e)
    /\ Await(e, "crashed")
    /\ mutex' = [mutex EXCEPT ![e] = "none"]
    /\ timer' = [timer EXCEPT ![e] = Off]
    /\ refresh' = [refresh EXCEPT ![e] = "none"]
    /\ lateness' = [lateness EXCEPT ![e] = 0]
    /\ leftover' = [leftover EXCEPT ![e] = "none"]
    /\ release' = [release EXCEPT ![e] = FALSE]
    /\ UNCHANGED <<redisVars, reg, errors>>

AnswerPending(e)  == reply[e] \in {"ok", "fail"}
RefreshPending(e) == timer[e] = 0 \/ refresh[e] # "none"

\* no answer and no due refresh is outstanding for longer than MaxDelay
Punctual ==
    \A e \in Executors :
        /\ AnswerPending(e) => replyAge[e] < MaxDelay
        /\ RefreshPending(e) => lateness[e] < MaxDelay

Tick ==
    /\ Punctual
    /\ ttl' = IF ttl > 0 THEN ttl - 1 ELSE 0
    /\ owner' = IF ttl > 1 THEN owner ELSE NoOwner
    /\ timer' = [e \in Executors |->
                    IF timer[e] \in 1 .. RefreshInterval THEN timer[e] - 1 ELSE timer[e]]
    /\ replyAge' = [e \in Executors |->
                    IF AnswerPending(e) THEN replyAge[e] + 1 ELSE replyAge[e]]
    /\ lateness' = [e \in Executors |->
                    IF RefreshPending(e) THEN lateness[e] + 1 ELSE lateness[e]]
    /\ UNCHANGED <<reg, pc, reply, mutex, refresh, leftover, release, errors>>

Answer(e) ==
    \/ AcquireReply(e) \/ ReacquireReply(e) \/ ShortenReply(e) \/ ErrorReply(e)

Redis(e) ==
    \/ RedisSetNX(e) \/ RedisExtend(e) \/ RedisRefresh(e)
    \/ RedisLeftover(e) \/ RedisRelease(e)

Step(e) ==
    \/ Register(e) \/ AsyncRegister(e) \/ AsyncRegistered(e)
    \/ Fire(e) \/ Finish(e) \/ Dispose(e) \/ Crash(e)
    \/ Answer(e)
    \/ RefreshDue(e) \/ RefreshReply(e)
    \/ Redis(e) \/ RedisError(e)

Next == Tick \/ \E e \in Executors : Step(e)

Spec == Init /\ [][Next]_vars

\* The clock advances, Redis answers, timers are served.  Nothing is assumed of
\* the job (it may hang), of disposal, of errors or of crashes.
Fairness ==
    /\ SF_vars(Tick)
    /\ \A e \in Executors :
        /\ WF_vars(RedisSetNX(e) \/ RedisExtend(e))
        /\ WF_vars(RedisRefresh(e))
        /\ WF_vars(RedisRelease(e))
        /\ WF_vars(Answer(e))
        /\ WF_vars(RefreshDue(e))
        /\ WF_vars(RefreshReply(e))
        /\ WF_vars(AsyncRegistered(e))
        /\ WF_vars(Fire(e))

FairSpec == Spec /\ Fairness

-----------------------------------------------------------------------------
(* Properties *)

\* Undisturbed: running, and nobody disposed the job meanwhile
Holding(e) == pc[e] = "run" /\ ~Disposed(e)

\* While processInternal runs, on a node whose answers and refreshes are at most
\* MaxDelay late, the lock key holds that executor's id: the TTL never runs out
\* between two refreshes, through reacquisitions, retries, refreshes of earlier
\* mutexes and Redis errors (process, tryAcquireExclusiveLock).
RunnerHoldsLock == \A e \in Executors : Holding(e) => owner = e

\* What RunnerHoldsLock rests on: how much of the TTL is left at every point of
\* the refresh cycle.
AnswerMargin(e) ==
    pc[e] \in {"acquire", "reacquire"} /\ reply[e] = "ok" /\ ~Disposed(e) =>
        owner = e /\ ttl + replyAge[e] >= LockTimeout

RefreshMargin(e) ==
    Holding(e) =>
        /\ owner = e
        /\ timer[e] # Off
        /\ refresh[e] # "fail"
        /\ refresh[e] = "none" =>
              /\ ttl + lateness[e] >= timer[e] + MaxDelay + 1
              /\ timer[e] > 0 => lateness[e] = 0
        /\ refresh[e] # "none" => timer[e] + lateness[e] >= RefreshInterval
        /\ refresh[e] = "sent" => ttl + lateness[e] >= MaxDelay + 1
        /\ refresh[e] = "ok" => ttl + lateness[e] >= LockTimeout

\* The margins at which the lock of an undisturbed run is kept alive: from the
\* acquisition's answer through every refresh (redis-semaphore's timer against
\* the key's TTL); and only a disposed executor's release is on its way.
LeaseMargins ==
    \A e \in Executors :
        AnswerMargin(e) /\ RefreshMargin(e) /\ (release[e] => Disposed(e))

\* The delays under which a refresh always arrives before the TTL runs out.
Punctuality ==
    /\ MaxDelay < RefreshInterval
    /\ RefreshInterval + 2 * MaxDelay < LockTimeout

\* Two executors run processInternal at once only if one of them was disposed
\* in the middle of its run (singleConsumerMode).
ExclusiveRun ==
    \A e, f \in Executors : Holding(e) /\ Holding(f) => e = f

\* No executor takes a lock that has not expired from another one; a key with
\* time left disappears only if its owner is being disposed (a late release or
\* a late refresh never touches the next owner's key).
NoTheft ==
    [][owner' # owner /\ owner # NoOwner => ttl <= 1 \/ Disposed(owner)]_vars

\* The mode keeps its promise (periodicJobTypes.ts:43, "run the job exclusively
\* in a single instance"): seen as a lease with an exclusive section, every step of the
\* nodes, of Redis and of the clock is one that LeasedLock allows, or none.
Lock == INSTANCE LeasedLock WITH
    Clients <- Executors, Nobody <- NoOwner, Full <- LockTimeout, Short <- AfterSuccess,
    holder <- owner, left <- ttl,
    inside <- {e \in Executors : Holding(e)},
    resigned <- {e \in Executors : Disposed(e)}

\* The single consumer mode implements an exclusive section under a lease
\* (AbstractPeriodicJob over redis-semaphore): nobody enters without the lease, and
\* it is not ended, shortened or expired under whoever is inside.
ImplementsLock == Lock!Spec

\* A crashed node's lock is eventually free, for good.
CrashFreesLock == <>[](\A e \in Executors : pc[e] = "crashed" => owner # e)

\* What a Redis error can leave behind: an error while shortening skips stopRefresh(),
\* and nobody stops that refresh timer when the job was disposed before (the timer of
\* an earlier mutex included).
LeftRefreshing(e) ==
    /\ errors > 0 /\ Disposed(e) /\ pc[e] = "idle"
    /\ timer[e] # Off \/ leftover[e] = "timer"

\* A disposed executor that has finished does not keep the lock for ever, unless an
\* error left it refreshing.
DisposalFreesLock ==
    <>[](\A e \in Executors :
            Disposed(e) /\ pc[e] = "idle" => owner # e \/ LeftRefreshing(e))

\* As long as an executor stays scheduled on a living node the job keeps running
\* somewhere, whatever crashed, expired or failed before; only a disposed executor that
\* an error left refreshing can keep it from running.
JobKeepsRunning ==
    <>[](\E e \in Executors : Alive(e) /\ reg[e] = "scheduled") =>
        \/ []<>(\E e \in Executors : pc[e] = "run")
        \/ <>[](\E e \in Executors : LeftRefreshing(e) /\ owner = e)
=============================================================================
