-------------------------- MODULE PeriodicJobProofs --------------------------
(* Machine-checked proofs about PeriodicJob, for every number of executors   *)
(* and every choice of timeouts.                                             *)
EXTENDS PeriodicJob, TLAPS

\* Every state of the job has its type (all variables of PeriodicJob).
THEOREM TypeCorrect == Spec => []TypeOK
<1> USE ConstantsAssumption DEF TypeOK, Off
<1>1. Init => TypeOK
  BY DEF Init
<1>2. TypeOK /\ [Next]_vars => TypeOK'
  <2> SUFFICES ASSUME TypeOK, [Next]_vars PROVE TypeOK'
    OBVIOUS
  <2> USE DEF redisVars, processVars, mutexVars
  <2>1. CASE Tick
    BY <2>1 DEF Tick, Punctual, AnswerPending, RefreshPending
  <2>2. ASSUME NEW e \in Executors, Step(e) PROVE TypeOK'
    <3> USE DEF Await
    <3>1. CASE Register(e) \/ AsyncRegister(e) \/ AsyncRegistered(e) \/ Fire(e) \/ Finish(e)
      BY <3>1 DEF Register, AsyncRegister, AsyncRegistered, Fire, Finish
    <3>2. CASE Dispose(e)
      BY <3>2 DEF Dispose
    <3>3. CASE Crash(e)
      BY <3>3 DEF Crash
    <3>4. CASE AcquireReply(e)
      BY SMTT(20), <3>4 DEF AcquireReply, Abandon
    <3>5. CASE ReacquireReply(e)
      BY SMTT(20), <3>5 DEF ReacquireReply, Abandon
    <3>6. CASE ShortenReply(e) \/ ErrorReply(e)
      BY <3>6 DEF ShortenReply, ErrorReply
    <3>7. CASE RefreshDue(e) \/ RefreshReply(e)
      BY <3>7 DEF RefreshDue, RefreshReply
    <3>8. CASE RedisSetNX(e) \/ RedisError(e)
      BY <3>8 DEF RedisSetNX, RedisError
    <3>9. CASE RedisRelease(e)
      BY <3>9 DEF RedisRelease
    <3>10. CASE RedisExtend(e) \/ RedisRefresh(e) \/ RedisLeftover(e)
      BY <3>10 DEF RedisExtend, RedisRefresh, RedisLeftover, Extend
    <3>11. QED
      BY <2>2, <3>1, <3>2, <3>3, <3>4, <3>5, <3>6, <3>7, <3>8, <3>9,
         <3>10
         DEF Step, Answer, Redis
  <2>3. CASE UNCHANGED vars
    BY <2>3 DEF vars
  <2>4. QED
    BY <2>1, <2>2, <2>3 DEF Next
<1>3. QED
  BY <1>1, <1>2, PTL DEF Spec

\* One step of executor f disturbs the margins of no executor e.  The definitions
\* of e's margins are split as they are in PeriodicJob.
LEMMA StepKeepsMargins ==
    ASSUME Punctuality, TypeOK, LeaseMargins,
           NEW f \in Executors, Step(f),
           NEW e \in Executors
    PROVE  AnswerMargin(e)' /\ RefreshMargin(e)' /\ (release[e] => Disposed(e))'
<1> USE ConstantsAssumption
    DEF Punctuality, TypeOK, Off, LeaseMargins, AnswerMargin, RefreshMargin,
        Holding, Disposed, redisVars, processVars, mutexVars
<1>1. CASE Register(f) \/ AsyncRegister(f) \/ AsyncRegistered(f) \/ Fire(f) \/ Finish(f)
  BY <1>1 DEF Register, AsyncRegister, AsyncRegistered, Fire, Finish, Await
<1>2. CASE Dispose(f)
  BY <1>2 DEF Dispose
<1>3. CASE Crash(f)
  BY <1>3 DEF Crash, Await
<1>4. CASE AcquireReply(f)
  BY <1>4 DEF AcquireReply, Abandon, Await
<1>5. CASE ReacquireReply(f)
  BY <1>5 DEF ReacquireReply, Abandon, Await
<1>6. CASE ShortenReply(f)
  BY <1>6 DEF ShortenReply, Await
<1>7. CASE ErrorReply(f)
  BY <1>7 DEF ErrorReply, Await
<1>8. CASE RefreshDue(f)
  BY <1>8 DEF RefreshDue
<1>9. CASE RefreshReply(f)
  <2>1. AnswerMargin(e)' /\ (release[e] => Disposed(e))'
    BY <1>9 DEF RefreshReply
  <2>2. CASE e # f
    BY <1>9, <2>2 DEF RefreshReply
  <2>3. CASE e = f /\ Holding(e)
    <3>1. refresh[e] = "ok" /\ owner = e /\ timer[e] \in 0 .. RefreshInterval
      BY <1>9, <2>3 DEF RefreshReply
    <3>2. ttl >= timer[e] + MaxDelay + 1
      BY <2>3, <3>1
    <3>3. QED
      BY <1>9, <2>1, <2>3, <3>1, <3>2 DEF RefreshReply
  <2>4. CASE e = f /\ ~Holding(e)
    BY <1>9, <2>1, <2>4 DEF RefreshReply
  <2>5. QED
    BY <2>2, <2>3, <2>4
<1>10. CASE RedisSetNX(f)
  BY <1>10 DEF RedisSetNX
<1>11. CASE RedisExtend(f)
  BY <1>11 DEF RedisExtend, Extend
<1>12. CASE RedisRefresh(f)
  BY <1>12 DEF RedisRefresh, Extend
<1>13. CASE RedisLeftover(f)
  <2>1. CASE e = f /\ owner = e
    <3>1. ttl' = LockTimeout /\ owner' = e
      BY <1>13, <2>1 DEF RedisLeftover, Extend
    <3>2. UNCHANGED <<reg, pc, reply, replyAge, mutex, timer, refresh, lateness, release>>
      BY <1>13 DEF RedisLeftover
    <3>3. AnswerMargin(e)'
      BY <2>1, <3>1, <3>2
    <3>4. RefreshMargin(e)'
      BY SMTT(20), <2>1, <3>1, <3>2
    <3>5. QED
      BY <3>2, <3>3, <3>4
  <2>2. CASE ~(e = f /\ owner = e)
    BY <1>13, <2>2 DEF RedisLeftover, Extend
  <2>3. QED
    BY <2>1, <2>2
<1>14. CASE RedisRelease(f)
  BY <1>14 DEF RedisRelease
<1>15. CASE RedisError(f)
  BY <1>15 DEF RedisError
<1>16. QED
  BY <1>1, <1>2, <1>3, <1>4, <1>5, <1>6, <1>7, <1>8, <1>9, <1>10, <1>11,
     <1>12, <1>13, <1>14, <1>15 DEF Step, Answer, Redis

\* A tick takes one unit of every margin, and Punctual leaves one to take.
LEMMA TickKeepsMargins ==
    ASSUME Punctuality, TypeOK, LeaseMargins, Tick,
           NEW e \in Executors
    PROVE  AnswerMargin(e)' /\ RefreshMargin(e)' /\ (release[e] => Disposed(e))'
<1> USE ConstantsAssumption
    DEF Punctuality, TypeOK, Off, LeaseMargins, Disposed,
        Tick, Punctual, AnswerPending, RefreshPending
<1>1. AnswerMargin(e)'
  BY DEF AnswerMargin
<1>2. RefreshMargin(e)'
  <2> SUFFICES ASSUME Holding(e)' PROVE RefreshMargin(e)'
    BY DEF RefreshMargin
  <2>1. Holding(e) /\ RefreshMargin(e)
    BY DEF Holding
  <2>2. ttl >= 2 /\ owner' = e /\ ttl' = ttl - 1
    BY <2>1 DEF RefreshMargin
  <2>3. CASE refresh[e] = "none" /\ timer[e] = 0
    BY <2>1, <2>2, <2>3 DEF RefreshMargin
  <2>4. CASE refresh[e] = "none" /\ timer[e] # 0
    BY <2>1, <2>2, <2>4 DEF RefreshMargin
  <2>5. CASE refresh[e] # "none"
    BY <2>1, <2>2, <2>5 DEF RefreshMargin
  <2>6. QED
    BY <2>3, <2>4, <2>5
<1>3. (release[e] => Disposed(e))'
  OBVIOUS
<1>4. QED
  BY <1>1, <1>2, <1>3

\* The lease arithmetic holds for ever, if answers and refreshes are punctual.
THEOREM MarginsHold ==
    ASSUME Punctuality
    PROVE  Spec => []LeaseMargins
<1>1. Init => LeaseMargins
  BY DEF Init, LeaseMargins, AnswerMargin, RefreshMargin, Holding
<1>2. TypeOK /\ LeaseMargins /\ [Next]_vars => LeaseMargins'
  <2> SUFFICES ASSUME TypeOK, LeaseMargins, [Next]_vars PROVE LeaseMargins'
    OBVIOUS
  <2>1. CASE Tick
    BY <2>1, Punctuality, TickKeepsMargins DEF LeaseMargins
  <2>2. ASSUME NEW f \in Executors, Step(f) PROVE LeaseMargins'
    BY <2>2, Punctuality, StepKeepsMargins DEF LeaseMargins
  <2>3. CASE UNCHANGED vars
    BY <2>3 DEF vars, redisVars, processVars, mutexVars, LeaseMargins,
                AnswerMargin, RefreshMargin, Holding, Disposed
  <2>4. QED
    BY <2>1, <2>2, <2>3 DEF Next
<1>3. QED
  BY <1>1, <1>2, TypeCorrect, PTL DEF Spec

\* With punctual answers and refreshes, a running executor that is not being
\* disposed owns the lock key (process, tryAcquireExclusiveLock).
THEOREM RunnersHoldTheLock ==
    ASSUME Punctuality
    PROVE  Spec => []RunnerHoldsLock
<1>1. LeaseMargins => RunnerHoldsLock
  BY DEF LeaseMargins, RefreshMargin, RunnerHoldsLock
<1>2. QED
  BY <1>1, MarginsHold, Punctuality, PTL

\* So two executors run the job at once only if one of them is being disposed
\* (singleConsumerMode).
THEOREM RunsAreExclusive ==
    ASSUME Punctuality
    PROVE  Spec => []ExclusiveRun
<1>1. RunnerHoldsLock => ExclusiveRun
  BY DEF RunnerHoldsLock, ExclusiveRun
<1>2. QED
  BY <1>1, RunnersHoldTheLock, Punctuality, PTL

\* Only a disposed executor has a release on its way (dispose).
LEMMA ReleasesAreDisposals == Spec => [](\A e \in Executors : release[e] => Disposed(e))
<1> DEFINE Inv == \A e \in Executors : release[e] => Disposed(e)
<1>1. Init => Inv
  BY DEF Init
<1>2. TypeOK /\ Inv /\ [Next]_vars => Inv'
  <2> SUFFICES ASSUME TypeOK, Inv, [Next]_vars PROVE Inv'
    OBVIOUS
  <2> USE DEF TypeOK, Disposed, redisVars, processVars, mutexVars, Await
  <2>1. CASE Tick
    BY <2>1 DEF Tick
  <2>2. ASSUME NEW f \in Executors, Step(f) PROVE Inv'
    <3>1. CASE Register(f) \/ AsyncRegister(f) \/ AsyncRegistered(f) \/ Fire(f)
               \/ Finish(f) \/ Dispose(f) \/ Crash(f)
      BY <3>1 DEF Register, AsyncRegister, AsyncRegistered, Fire, Finish, Dispose, Crash
    <3>2. CASE Answer(f)
      BY <3>2 DEF Answer, AcquireReply, ReacquireReply, ShortenReply, ErrorReply
    <3>3. CASE RefreshDue(f) \/ RefreshReply(f) \/ RedisError(f)
      BY <3>3 DEF RefreshDue, RefreshReply, RedisError
    <3>4. CASE Redis(f)
      BY <3>4 DEF Redis, RedisSetNX, RedisExtend, RedisRefresh, RedisLeftover, RedisRelease
    <3>5. QED
      BY <2>2, <3>1, <3>2, <3>3, <3>4 DEF Step
  <2>3. CASE UNCHANGED vars
    BY <2>3 DEF vars
  <2>4. QED
    BY <2>1, <2>2, <2>3 DEF Next
<1>3. QED
  BY <1>1, <1>2, TypeCorrect, PTL DEF Spec

\* However late anything is, a key with time left changes hands only by its
\* owner's disposal (acquire, refresh and release compare the identifier).
THEOREM LocksAreNotStolen == Spec => NoTheft
<1> DEFINE Inv == \A e \in Executors : release[e] => Disposed(e)
           Theft == owner' # owner /\ owner # NoOwner => ttl <= 1 \/ Disposed(owner)
<1>1. TypeOK /\ Inv /\ [Next]_vars => [Theft]_vars
  <2> SUFFICES ASSUME TypeOK, Inv, [Next]_vars, owner' # owner, owner # NoOwner
               PROVE  ttl <= 1 \/ Disposed(owner)
    OBVIOUS
  <2> USE DEF redisVars, processVars, mutexVars
  <2>1. CASE Tick
    BY <2>1 DEF Tick, TypeOK
  <2>2. ASSUME NEW f \in Executors, Step(f) PROVE ttl <= 1 \/ Disposed(owner)
    <3>1. CASE Redis(f)
      BY <3>1 DEF Redis, RedisSetNX, RedisExtend, RedisRefresh, RedisLeftover,
                  RedisRelease, Extend
    <3>2. CASE Answer(f)
      BY <3>2 DEF Answer, AcquireReply, ReacquireReply, ShortenReply, ErrorReply
    <3>3. QED
      BY <2>2, <3>1, <3>2 DEF Step, Register, AsyncRegister, AsyncRegistered, Fire,
         Finish, Dispose, Crash, RefreshDue, RefreshReply, RedisError
  <2>3. CASE UNCHANGED vars
    BY <2>3 DEF vars
  <2>4. QED
    BY <2>1, <2>2, <2>3 DEF Next
<1>2. QED
  BY <1>1, TypeCorrect, ReleasesAreDisposals, PTL DEF Spec, NoTheft

\* The key exists exactly as long as it has time left (redis-semaphore's scripts).
LEMMA KeysHaveTime == Spec => [](owner = NoOwner <=> ttl = 0)
<1> DEFINE Inv == owner = NoOwner <=> ttl = 0
<1> USE ConstantsAssumption DEF redisVars
<1>1. Init => Inv
  BY DEF Init
<1>2. TypeOK /\ Inv /\ [Next]_vars => Inv'
  <2> SUFFICES ASSUME TypeOK, Inv, [Next]_vars PROVE Inv'
    OBVIOUS
  <2>1. CASE Tick
    BY <2>1 DEF Tick, TypeOK
  <2>2. ASSUME NEW f \in Executors, Step(f) PROVE Inv'
    <3>1. CASE Redis(f)
      BY <3>1 DEF Redis, RedisSetNX, RedisExtend, RedisRefresh, RedisLeftover,
                  RedisRelease, Extend, TypeOK
    <3>2. CASE Answer(f)
      BY <3>2 DEF Answer, AcquireReply, ReacquireReply, ShortenReply, ErrorReply
    <3>3. QED
      BY <2>2, <3>1, <3>2 DEF Step, Register, AsyncRegister, AsyncRegistered, Fire,
         Finish, Dispose, Crash, RefreshDue, RefreshReply, RedisError
  <2>3. CASE UNCHANGED vars
    BY <2>3 DEF vars
  <2>4. QED
    BY <2>1, <2>2, <2>3 DEF Next
<1>3. QED
  BY <1>1, <1>2, TypeCorrect, PTL DEF Spec

\* The abstract state, named
Inside   == {e \in Executors : Holding(e)}
Resigned == {e \in Executors : Disposed(e)}

\* What one executor's step does to the abstract lock: nothing it may not do.
LEMMA StepMapsToLock ==
    ASSUME TypeOK, LeaseMargins, RunnerHoldsLock, RunnerHoldsLock',
           NEW f \in Executors, Step(f)
    PROVE  [Lock!Next]_(Lock!lockVars)
<1> USE DEF redisVars, processVars, mutexVars, Lock!lockVars
<1> DEFINE Same == UNCHANGED <<owner, ttl, Inside, Resigned>>
<1>1. ASSUME UNCHANGED <<owner, ttl, pc, reg>> PROVE Same
  BY <1>1 DEF Inside, Resigned, Holding, Disposed
<1>2. CASE Register(f) \/ AsyncRegistered(f)
  <2>1. UNCHANGED <<owner, ttl, pc>> /\ \A e \in Executors : Disposed(e)' = Disposed(e)
    BY <1>2 DEF Register, AsyncRegistered, TypeOK, Disposed
  <2>2. Inside' = Inside /\ Resigned' = Resigned
    BY <2>1 DEF Inside, Resigned, Holding
  <2>3. QED
    BY <2>1, <2>2 DEF Inside, Resigned
<1>3. CASE \/ AsyncRegister(f) \/ Fire(f) \/ Finish(f) \/ Crash(f)
           \/ ShortenReply(f) \/ ErrorReply(f)
  <2>1. /\ UNCHANGED <<owner, ttl>> /\ \A e \in Executors : Disposed(e)' = Disposed(e)
        /\ pc'[f] # "run" /\ \A e \in Executors \ {f} : pc'[e] = pc[e]
    BY <1>3 DEF AsyncRegister, Fire, Finish, Crash, ShortenReply, ErrorReply, Await,
                TypeOK, Disposed
  <2>2. Inside' = Inside \ {f} /\ Resigned' = Resigned
    BY <2>1 DEF Inside, Resigned, Holding
  <2>3. Lock!Leave(f)
    BY <2>1, <2>2 DEF Lock!Leave, Inside, Resigned
  <2>4. QED
    BY <2>3 DEF Lock!Next
<1>4. CASE AcquireReply(f) \/ ReacquireReply(f)
  <2>1. UNCHANGED <<owner, ttl, reg>> /\ Resigned' = Resigned /\ pc[f] # "run"
    BY <1>4 DEF AcquireReply, ReacquireReply, Resigned, Disposed
  <2>2. CASE pc'[f] = "run" /\ ~Disposed(f)
    <3>1. Inside' = Inside \cup {f}
      BY <1>4, <2>1, <2>2 DEF AcquireReply, ReacquireReply, Await, TypeOK,
         Inside, Holding, Disposed
    <3>2. owner = f
      BY <2>1, <2>2 DEF RunnerHoldsLock, Holding, Disposed
    <3>3. Lock!Enter(f)
      BY <2>1, <2>2, <3>1, <3>2 DEF Lock!Enter, Inside, Resigned, Disposed
    <3>4. QED
      BY <3>3 DEF Lock!Next
  <2>3. CASE ~(pc'[f] = "run" /\ ~Disposed(f))
    <3>1. Inside' = Inside
      BY <1>4, <2>1, <2>3 DEF AcquireReply, ReacquireReply, Await, TypeOK,
         Inside, Holding, Disposed
    <3>2. QED
      BY <2>1, <3>1 DEF Inside, Resigned
  <2>4. QED
    BY <2>2, <2>3
<1>5. CASE Dispose(f)
  <2>1. Inside' = Inside \ {f} /\ Resigned' = Resigned \cup {f} /\ UNCHANGED <<owner, ttl>>
    BY <1>5 DEF Dispose, TypeOK, Inside, Resigned, Holding, Disposed
  <2>2. Lock!Resign(f)
    BY <2>1 DEF Lock!Resign, Inside, Resigned
  <2>3. QED
    BY <2>2 DEF Lock!Next
<1>6. CASE RefreshDue(f) \/ RefreshReply(f) \/ RedisError(f)
  BY <1>1, <1>6 DEF RefreshDue, RefreshReply, RedisError, Inside, Resigned
<1>7. CASE RedisSetNX(f)
  <2>1. CASE owner = NoOwner
    <3>1. Lock!Take(f)
      BY <1>7, <2>1 DEF RedisSetNX, Lock!Take, Holding, Disposed
    <3>2. QED
      BY <3>1 DEF Lock!Next
  <2>2. CASE owner # NoOwner
    BY <1>1, <1>7, <2>2 DEF RedisSetNX, Inside, Resigned
  <2>3. QED
    BY <2>1, <2>2
<1>8. CASE RedisExtend(f) \/ RedisRefresh(f) \/ RedisLeftover(f)
  <2>1. UNCHANGED <<owner, pc, reg>> /\ Inside' = Inside /\ Resigned' = Resigned
    BY <1>8 DEF RedisExtend, RedisRefresh, RedisLeftover, Extend,
                Inside, Resigned, Holding, Disposed
  <2>2. CASE owner # f
    BY <1>8, <2>1, <2>2 DEF RedisExtend, RedisRefresh, RedisLeftover, Extend,
       Inside, Resigned
  <2>3. CASE owner = f
    <3>1. ttl' = LockTimeout \/ (ttl' = AfterSuccess /\ f \notin Inside)
      BY <1>8, <2>3 DEF RedisExtend, RedisRefresh, RedisLeftover, Extend, Inside, Holding
    <3>2. Lock!Renew(f) \/ Lock!Shorten(f)
      BY <2>1, <2>3, <3>1 DEF Lock!Renew, Lock!Shorten, Inside, Resigned
    <3>3. QED
      BY <3>2 DEF Lock!Next
  <2>4. QED
    BY <2>2, <2>3
<1>9. CASE RedisRelease(f)
  <2>1. f \in Resigned /\ Inside' = Inside /\ Resigned' = Resigned
    BY <1>9 DEF RedisRelease, LeaseMargins, Inside, Resigned, Holding, Disposed
  <2>2. CASE owner = f
    <3>1. Lock!Release(f)
      BY <1>9, <2>1, <2>2 DEF RedisRelease, Lock!Release, Inside, Resigned
    <3>2. QED
      BY <3>1 DEF Lock!Next
  <2>3. CASE owner # f
    BY <1>9, <2>1, <2>3 DEF RedisRelease, Inside, Resigned
  <2>4. QED
    BY <2>2, <2>3
<1>10. QED
  BY <1>2, <1>3, <1>4, <1>5, <1>6, <1>7, <1>8, <1>9 DEF Step, Answer, Redis

\* A tick ages the lease, and the lease outlives it while anybody is inside.
LEMMA TickMapsToLock ==
    ASSUME TypeOK, owner = NoOwner <=> ttl = 0,
           RunnerHoldsLock, RunnerHoldsLock', Tick
    PROVE  [Lock!Next]_(Lock!lockVars)
<1> USE ConstantsAssumption DEF TypeOK, Lock!lockVars
<1>1. Inside' = Inside /\ Resigned' = Resigned
  BY DEF Tick, Inside, Resigned, Holding, Disposed
<1>2. CASE ttl = 0
  BY <1>1, <1>2 DEF Tick, Inside, Resigned
<1>3. CASE ttl > 0
  <2>1. ttl' = ttl - 1
    BY <1>3 DEF Tick
  <2>2. \/ ttl > 1 /\ owner' = owner
        \/ ttl = 1 /\ Inside = {} /\ owner' = NoOwner
    <3>1. CASE ttl > 1
      BY <3>1 DEF Tick
    <3>2. CASE ttl = 1
      <4>1. owner' = NoOwner
        BY <3>2 DEF Tick
      <4>2. \A e \in Executors : ~Holding(e)'
        BY <4>1 DEF RunnerHoldsLock
      <4>3. Inside' = {}
        BY <4>2 DEF Inside
      <4>4. QED
        BY <1>1, <3>2, <4>1, <4>3
    <3>3. QED
      BY <1>3, <3>1, <3>2
  <2>3. Lock!Age
    BY <1>1, <1>3, <2>1, <2>2 DEF Lock!Age, Inside, Resigned
  <2>4. QED
    BY <2>3 DEF Lock!Next
<1>4. QED
  BY <1>2, <1>3

\* With punctual answers and refreshes the single consumer mode implements an
\* exclusive section under a lease: every step is one of LeasedLock's, or none.
THEOREM JobImplementsLock ==
    ASSUME Punctuality
    PROVE  Spec => ImplementsLock
<1>1. Init => Lock!Init
  BY DEF Init, Lock!Init, Holding, Disposed
<1>2. /\ TypeOK /\ LeaseMargins /\ RunnerHoldsLock /\ RunnerHoldsLock'
      /\ (owner = NoOwner <=> ttl = 0) /\ [Next]_vars
      => [Lock!Next]_(Lock!lockVars)
  <2>1. CASE UNCHANGED vars
    BY <2>1 DEF vars, redisVars, processVars, Lock!lockVars, Holding, Disposed
  <2>2. QED
    BY <2>1, StepMapsToLock, TickMapsToLock DEF Next
<1>3. QED
  BY <1>1, <1>2, TypeCorrect, MarginsHold, RunnersHoldTheLock, KeysHaveTime, Punctuality, PTL
     DEF Spec, ImplementsLock, Lock!Spec

\* What every implementation of the abstract lock has: whoever is inside holds it.
THEOREM LockIsExclusive == Lock!Spec => []Lock!InsideHolds
<1> DEFINE In == {e \in Executors : Holding(e)}
           Out == {e \in Executors : Disposed(e)}
           Inv == Lock!InsideHolds /\ In \cap Out = {}
<1>1. Lock!Init => Inv
  BY DEF Lock!Init, Lock!InsideHolds
<1>2. Inv /\ [Lock!Next]_(Lock!lockVars) => Inv'
  <2> SUFFICES ASSUME Inv, [Lock!Next]_(Lock!lockVars) PROVE Inv'
    OBVIOUS
  <2> USE DEF Lock!InsideHolds
  <2>1. CASE UNCHANGED Lock!lockVars
    BY <2>1 DEF Lock!lockVars
  <2>2. CASE Lock!Age
    BY <2>2 DEF Lock!Age
  <2>3. ASSUME NEW c \in Executors, Lock!Take(c) \/ Lock!Renew(c) \/ Lock!Shorten(c)
        PROVE  Inv'
    <3>1. In' = In /\ Out' = Out /\ (owner' = owner \/ owner = NoOwner)
      BY <2>3 DEF Lock!Take, Lock!Renew, Lock!Shorten
    <3>2. \A e \in In : owner' = e
      BY <2>3, <3>1, ConstantsAssumption DEF Lock!Take, Lock!Renew, Lock!Shorten
    <3>3. QED
      BY <3>1, <3>2
  <2>4. ASSUME NEW c \in Executors,
               Lock!Enter(c) \/ Lock!Leave(c) \/ Lock!Resign(c) \/ Lock!Release(c)
        PROVE  Inv'
    BY <2>4 DEF Lock!Enter, Lock!Leave, Lock!Resign, Lock!Release
  <2>5. QED
    BY <2>1, <2>2, <2>3, <2>4 DEF Lock!Next
<1>3. QED
  BY <1>1, <1>2, PTL DEF Lock!Spec
=============================================================================
