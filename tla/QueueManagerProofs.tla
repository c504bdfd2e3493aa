-------------------------- MODULE QueueManagerProofs --------------------------
(***************************************************************************)
(* For all queues, calls and enabled sets, of the manager with lazy start  *)
(* and of the one without: type correctness, no Queue object is leaked,    *)
(* and who is refused.                                                     *)
(***************************************************************************)
EXTENDS MCQueueManager, TLAPS

ManagerInv ==
    /\ queues \subseteq Queues
    /\ closing \subseteq Queues
    /\ open \in [Queues -> Nat]
    /\ NoLeakedQueue
    /\ ForgetsWhatItCloses

\* Building happens only in an empty registry that nobody is closing.
LEMMA EnterBuilds ==
    ASSUME ManagerInv, NEW c \in Calls, NEW enabled \in SUBSET Queues, Enter(c, enabled),
           UNCHANGED closing
    PROVE  ManagerInv'
<1>1. CASE UNCHANGED <<queues, open>>
  BY <1>1 DEF ManagerInv, NoLeakedQueue, ForgetsWhatItCloses
<1>2. CASE queues = {} /\ BuildQueues(enabled)
  <2>1. closing = {} /\ \A q \in Queues : open[q] = 0
    BY <1>2 DEF ManagerInv, NoLeakedQueue, ForgetsWhatItCloses
  <2>2. queues' = enabled /\ closing' = {}
    BY <1>2, <2>1 DEF BuildQueues
  <2>3. open' = [q \in Queues |-> IF q \in enabled THEN 1 ELSE 0]
    BY <1>2, <2>1 DEF BuildQueues
  <2> QED
    BY <2>2, <2>3 DEF ManagerInv, NoLeakedQueue, ForgetsWhatItCloses
<1> QED
  BY <1>1, <1>2 DEF Enter

\* A closing is of exactly the queues in the registry, so what is decremented is
\* what is forgotten.
LEMMA DisposedForgets == ManagerInv /\ Disposed => ManagerInv'
<1> SUFFICES ASSUME ManagerInv, Disposed PROVE ManagerInv'
  OBVIOUS
<1>1. closing = queues
  BY DEF ManagerInv, ForgetsWhatItCloses, Disposed
<1>2. \A q \in Queues : open[q] = IF q \in closing THEN 1 ELSE 0
  BY <1>1 DEF ManagerInv, NoLeakedQueue
<1>3. open' = [q \in Queues |-> 0]
  BY <1>2 DEF Disposed
<1> QED
  BY <1>3 DEF ManagerInv, NoLeakedQueue, ForgetsWhatItCloses, Disposed

\* Every step of the manager keeps its books.
LEMMA ManagerStep == ManagerInv /\ [Next]_vars => ManagerInv'
<1> SUFFICES ASSUME ManagerInv, [Next]_vars PROVE ManagerInv'
  OBVIOUS
<1>1. ASSUME NEW c \in Calls, CallStart(c) PROVE ManagerInv'
  <2>1. PICK enabled \in Starts : Enter(c, enabled)
    BY <1>1 DEF CallStart
  <2> QED
    BY <1>1, <2>1, EnterBuilds, ManagerAssumption DEF CallStart
<1>2. ASSUME NEW c \in Calls, CallOperation(c) PROVE ManagerInv'
  <2>1. PICK q \in Queues : UNCHANGED <<queues, open>> \/ Enter(c, {q})
    BY <1>2 DEF CallOperation
  <2>2. CASE UNCHANGED <<queues, open>>
    BY <1>2, <2>2 DEF CallOperation, ManagerInv, NoLeakedQueue, ForgetsWhatItCloses
  <2>3. CASE Enter(c, {q})
    BY <1>2, <2>3, EnterBuilds DEF CallOperation
  <2> QED
    BY <2>1, <2>2, <2>3
<1>3. CASE Dispose
  BY <1>3 DEF Dispose, ManagerInv, NoLeakedQueue, ForgetsWhatItCloses
<1>4. CASE Disposed
  BY <1>4, DisposedForgets
<1>5. CASE UNCHANGED <<queues, open, closing>>
  BY <1>5 DEF ManagerInv, NoLeakedQueue, ForgetsWhatItCloses
<1> QED
  BY <1>1, <1>2, <1>3, <1>4, <1>5 DEF Next, StartSettles, Resume, Again, vars

\* The inductive invariant: it holds at first and every step keeps it.
THEOREM ManagerInvariant == Spec => []ManagerInv
<1>1. Init => ManagerInv
  BY DEF Init, ManagerInv, NoLeakedQueue, ForgetsWhatItCloses
<1>2. ManagerInv /\ [Next]_vars => ManagerInv'
  BY ManagerStep
<1> QED
  BY <1>1, <1>2, PTL DEF Spec

\* What a call does with the registry and the promise keeps the types.
LEMMA EnterTypes ==
    ASSUME TypeOK, NEW c \in Calls, NEW enabled \in SUBSET Queues, Enter(c, enabled)
    PROVE  /\ queues' \subseteq Queues
           /\ open' \in [Queues -> Nat]
           /\ promise' \in {"none", "pending", "rejected"}
           /\ pc' \in [Calls -> {"idle", "starting", "started", "ended"}]
           /\ answer' \in [Calls -> {"none", "ok", "notStarted", "startFailed", "notInstantiated"}]
  BY DEF TypeOK, Enter, BuildQueues, Goto, Ended

\* So does what is not a call; a close is of a queue that is open.
LEMMA OtherTypes ==
    ASSUME TypeOK, ManagerInv,
           StartSettles \/ Dispose \/ Disposed \/ \E c \in Calls : Resume(c) \/ Again(c)
    PROVE  TypeOK'
<1>1. CASE Disposed
  <2>1. \A q \in closing : open[q] = 1
    BY <1>1 DEF Disposed, ManagerInv, NoLeakedQueue, ForgetsWhatItCloses
  <2>2. QED
    BY <1>1, <2>1 DEF Disposed, TypeOK
<1>2. CASE Dispose \/ StartSettles
  BY <1>2 DEF Dispose, StartSettles, TypeOK
<1>3. ASSUME NEW c \in Calls, Resume(c) \/ Again(c) PROVE TypeOK'
  BY <1>3 DEF Resume, Again, Ended, TypeOK
<1>4. QED
  BY <1>1, <1>2, <1>3

\* Every step keeps the types.
LEMMA TypesStep == TypeOK /\ ManagerInv /\ [Next]_vars => TypeOK'
<1> SUFFICES ASSUME TypeOK, ManagerInv, [Next]_vars PROVE TypeOK'
  OBVIOUS
<1>1. ASSUME NEW c \in Calls, CallStart(c) PROVE TypeOK'
  <2>1. PICK enabled \in Starts : Enter(c, enabled)
    BY <1>1 DEF CallStart
  <2> QED
    BY <1>1, <2>1, EnterTypes, ManagerAssumption DEF CallStart, TypeOK
<1>2. ASSUME NEW c \in Calls, CallOperation(c) PROVE TypeOK'
  <2>1. PICK q \in Queues :
            /\ call' = [call EXCEPT ![c] = q]
            /\ \/ Ended(c, "notStarted") /\ UNCHANGED <<queues, open, promise>>
               \/ Enter(c, {q})
    BY <1>2 DEF CallOperation
  <2>2. CASE Enter(c, {q})
    BY <1>2, <2>1, <2>2, EnterTypes DEF CallOperation, TypeOK
  <2>3. CASE Ended(c, "notStarted") /\ UNCHANGED <<queues, open, promise>>
    BY <1>2, <2>1, <2>3 DEF CallOperation, TypeOK, Ended
  <2> QED
    BY <2>1, <2>2, <2>3
<1>3. CASE StartSettles \/ Dispose \/ Disposed \/ \E c \in Calls : Resume(c) \/ Again(c)
  BY <1>3, OtherTypes
<1>4. CASE UNCHANGED vars
  BY <1>4 DEF vars, TypeOK
<1> QED
  BY <1>1, <1>2, <1>3, <1>4 DEF Next

\* The manager's, the registry's and the calls' variables keep their types: no queue
\* is closed more often than it was built (QueueRegistry.dispose).
THEOREM ManagerTypes == Spec => []TypeOK
<1>1. Init => TypeOK
  BY DEF Init, TypeOK, Start
<1>2. TypeOK /\ ManagerInv /\ [Next]_vars => TypeOK'
  BY TypesStep
<1> QED
  BY <1>1, <1>2, ManagerInvariant, PTL DEF Spec

\* Every Queue object that is not closed is in the registry, once, and dispose()
\* forgets exactly the queues it closed.
THEOREM NoQueueIsLeaked == Spec => [](NoLeakedQueue /\ ForgetsWhatItCloses)
<1>1. ManagerInv => NoLeakedQueue /\ ForgetsWhatItCloses
  BY DEF ManagerInv
<1> QED
  BY <1>1, ManagerInvariant, PTL
-----------------------------------------------------------------------------

\* The configuration without lazy start: every start is of all queues.
ExplicitStarts == Starts = {Queues} /\ LazyInitEnabled = FALSE

AllOrNone == queues \in {{}, Queues}

\* Without lazy start the registry holds every queue or none.
LEMMA ExplicitBuildsAll == ExplicitStarts /\ AllOrNone /\ [Next]_vars => AllOrNone'
<1> SUFFICES ASSUME ExplicitStarts, AllOrNone, [Next]_vars PROVE AllOrNone'
  OBVIOUS
<1>1. ASSUME NEW c \in Calls, CallStart(c) PROVE AllOrNone'
  <2>1. Enter(c, Queues)
    BY <1>1 DEF CallStart, ExplicitStarts
  <2> QED
    BY <2>1 DEF Enter, BuildQueues, AllOrNone
<1>2. ASSUME NEW c \in Calls, CallOperation(c) PROVE AllOrNone'
  <2>1. UNCHANGED queues
    BY <1>2 DEF CallOperation, Enter, ExplicitStarts
  <2> QED
    BY <2>1 DEF AllOrNone
<1>3. CASE Disposed
  BY <1>3 DEF Disposed, AllOrNone
<1>4. CASE UNCHANGED queues
  BY <1>4 DEF AllOrNone
<1> QED
  BY <1>1, <1>2, <1>3, <1>4 DEF Next, StartSettles, Dispose, Resume, Again, vars

\* Only a call that resumes is told that its queue is missing, so with every start of
\* all queues the registry is empty then: the manager was disposed on the call's way.
LEMMA RefusalMeansEmpty ==
    ExplicitStarts /\ AllOrNone /\ TypeOK /\ [Next]_vars => RefusesWhenEmpty
<1> SUFFICES ASSUME ExplicitStarts, AllOrNone, TypeOK, [Next]_vars,
                    NEW d \in Calls, answer[d] # "notInstantiated", answer'[d] = "notInstantiated"
             PROVE  queues = {}
  BY DEF RefusesWhenEmpty
<1>1. ASSUME NEW c \in Calls, Resume(c) PROVE queues = {}
  <2>1. call[c] \notin queues \cup {Start}
    BY <1>1 DEF Resume, Ended, TypeOK
  <2>2. call[c] \in Queues \cup {Start}
    BY DEF TypeOK
  <2> QED
    BY <2>1, <2>2 DEF AllOrNone
<1>2. ASSUME NEW c \in Calls, NEW enabled, Enter(c, enabled) PROVE FALSE
  BY <1>2 DEF Enter, Goto, Ended, TypeOK
<1>3. ASSUME NEW c \in Calls, CallOperation(c) PROVE FALSE
  BY <1>3, <1>2 DEF CallOperation, Ended, TypeOK
<1>4. ASSUME NEW c \in Calls, CallStart(c) PROVE FALSE
  BY <1>4, <1>2 DEF CallStart
<1>5. ASSUME NEW c \in Calls, Again(c) PROVE FALSE
  BY <1>5 DEF Again, TypeOK
<1>6. CASE StartSettles
  BY <1>6 DEF StartSettles, TypeOK
<1>7. CASE UNCHANGED answer
  BY <1>7
<1> QED
  BY <1>1, <1>3, <1>4, <1>5, <1>6, <1>7 DEF Next, Dispose, Disposed, vars

\* With the starts of all queues that a manager without lazy start is given, an
\* operation whose start succeeded is refused only when a dispose() emptied the registry
\* on its way (schedule, getQueue).
THEOREM RefusalsNeedDisposal ==
    ASSUME ExplicitStarts PROVE Spec => [][RefusesWhenEmpty]_vars
<1>1. Init => AllOrNone
  BY DEF Init, AllOrNone
<1>2. AllOrNone /\ [Next]_vars => AllOrNone'
  BY ExplicitBuildsAll
<1>3. AllOrNone /\ TypeOK /\ [Next]_vars => [RefusesWhenEmpty]_vars
  BY RefusalMeansEmpty
<1> QED
  BY <1>1, <1>2, <1>3, ManagerTypes, PTL DEF Spec
-----------------------------------------------------------------------------
(* Both configurations, as the runs check them *)

\* start() of the manager without lazy start, of all queues
StartAll(c) ==
    /\ pc[c] = "idle" /\ call' = [call EXCEPT ![c] = Start]
    /\ Enter(c, Queues) /\ UNCHANGED closing

\* An operation of the manager without lazy start, which starts nothing
OperateStarted(c) ==
    /\ pc[c] = "idle" /\ UNCHANGED <<queues, open, promise, closing>>
    /\ \E q \in Queues :
          /\ call' = [call EXCEPT ![c] = q]
          /\ Ended(c, "notStarted") \/ Goto(c, "started")

\* The steps of that manager: but for these two they are those of the other one.
LEMMA ExplicitSteps ==
    ASSUME Explicit!Next
    PROVE  \/ \E c \in Calls : StartAll(c) \/ OperateStarted(c)
           \/ StartSettles \/ Dispose \/ Disposed \/ \E c \in Calls : Resume(c) \/ Again(c)
<1>1. ASSUME NEW c \in Calls, Explicit!CallStart(c) PROVE StartAll(c)
  <2>1. Explicit!Enter(c, Queues)
    BY <1>1 DEF Explicit!CallStart
  <2>2. Enter(c, Queues)
    BY <2>1 DEF Explicit!Enter, Enter, Explicit!BuildQueues, BuildQueues, Explicit!Goto, Goto,
       Explicit!Ended, Ended
  <2>3. QED
    BY <1>1, <2>2 DEF Explicit!CallStart, StartAll, Explicit!Start, Start
<1>2. ASSUME NEW c \in Calls, Explicit!CallOperation(c) PROVE OperateStarted(c)
  <2>1. PICK q \in Queues :
           /\ call' = [call EXCEPT ![c] = q]
           /\ IF queues = {}
              THEN Explicit!Ended(c, "notStarted") /\ UNCHANGED <<queues, open, promise>>
              ELSE Explicit!Enter(c, {q})
    BY <1>2 DEF Explicit!CallOperation
  <2>2. QED
    BY <1>2, <2>1 DEF Explicit!CallOperation, OperateStarted, Explicit!Enter, Explicit!Ended, Ended,
       Explicit!Goto, Goto
<1>3. ASSUME Explicit!StartSettles \/ Explicit!Dispose \/ Explicit!Disposed PROVE StartSettles \/ Dispose \/ Disposed
  BY <1>3 DEF Explicit!StartSettles, StartSettles, Explicit!Dispose, Dispose, Explicit!Disposed, Disposed
<1>4. ASSUME NEW c \in Calls, Explicit!Resume(c) \/ Explicit!Again(c) PROVE Resume(c) \/ Again(c)
  BY <1>4 DEF Explicit!Resume, Resume, Explicit!Again, Again, Explicit!Ended, Ended, Explicit!Start, Start
<1>5. QED
  BY <1>1, <1>2, <1>3, <1>4 DEF Explicit!Next

\* What both managers keep, and that without lazy start the registry is never partly
\* filled
EitherInv == TypeOK /\ ManagerInv /\ (setup = "explicit" => AllOrNone)

\* A step of the manager without lazy start keeps all of it.
LEMMA ExplicitKeepsInv ==
    ASSUME TypeOK, ManagerInv, AllOrNone, Explicit!Next
    PROVE  TypeOK' /\ ManagerInv' /\ AllOrNone'
<1>1. ASSUME NEW c \in Calls, StartAll(c) PROVE TypeOK' /\ ManagerInv' /\ AllOrNone'
  <2>1. ManagerInv'
    BY <1>1, EnterBuilds DEF StartAll
  <2>2. TypeOK'
    BY <1>1, EnterTypes DEF StartAll, TypeOK
  <2>3. AllOrNone'
    BY <1>1 DEF StartAll, Enter, BuildQueues, AllOrNone
  <2>4. QED
    BY <2>1, <2>2, <2>3
<1>2. ASSUME NEW c \in Calls, OperateStarted(c) PROVE TypeOK' /\ ManagerInv' /\ AllOrNone'
  BY <1>2 DEF OperateStarted, Ended, Goto, TypeOK, ManagerInv, NoLeakedQueue, ForgetsWhatItCloses, AllOrNone
<1>3. ASSUME StartSettles \/ Dispose \/ Disposed \/ \E c \in Calls : Resume(c) \/ Again(c)
      PROVE  TypeOK' /\ ManagerInv' /\ AllOrNone'
  <2>1. ManagerInv'
    <3>1. CASE Disposed
      BY <3>1, DisposedForgets
    <3>2. CASE Dispose
      BY <3>2 DEF Dispose, ManagerInv, NoLeakedQueue, ForgetsWhatItCloses
    <3>3. CASE UNCHANGED <<queues, open, closing>>
      BY <3>3 DEF ManagerInv, NoLeakedQueue, ForgetsWhatItCloses
    <3>4. QED
      BY <1>3, <3>1, <3>2, <3>3 DEF StartSettles, Resume, Again
  <2>2. AllOrNone'
    BY <1>3 DEF StartSettles, Dispose, Disposed, Resume, Again, AllOrNone
  <2>3. QED
    BY <1>3, <2>1, <2>2, OtherTypes
<1>4. QED
  BY <1>1, <1>2, <1>3, ExplicitSteps

\* And so do the steps of the other one, which may fill it partly.
THEOREM EitherInvariant == MCSpec => []EitherInv
<1>1. MCInit => EitherInv
  BY DEF MCInit, Init, EitherInv, TypeOK, ManagerInv, NoLeakedQueue, ForgetsWhatItCloses, AllOrNone, Start
<1>2. EitherInv /\ [MCNext]_<<setup, vars>> => EitherInv'
  <2>1. ASSUME EitherInv, setup = "explicit", Explicit!Next, UNCHANGED setup PROVE EitherInv'
    BY <2>1, ExplicitKeepsInv DEF EitherInv
  <2>2. ASSUME EitherInv, setup = "lazy", Next, UNCHANGED setup PROVE EitherInv'
    BY <2>2, ManagerStep, TypesStep DEF EitherInv
  <2>3. ASSUME EitherInv, UNCHANGED <<setup, vars>> PROVE EitherInv'
    BY <2>3 DEF EitherInv, vars, TypeOK, ManagerInv, NoLeakedQueue, ForgetsWhatItCloses, AllOrNone
  <2>4. QED
    BY <2>1, <2>2, <2>3 DEF MCNext
<1>3. QED
  BY <1>1, <1>2, PTL DEF MCSpec

\* Without lazy start, an operation whose start succeeded finds its queue unless the
\* manager was disposed on its way, for any queues and calls.
THEOREM OperationsFindTheirQueue == MCSpec => ExplicitFindsQueue
<1>1. EitherInv /\ [MCNext]_<<setup, vars>> => [setup = "explicit" => RefusesWhenEmpty]_vars
  <2> SUFFICES ASSUME EitherInv, MCNext, setup = "explicit",
                      NEW d \in Calls, answer[d] # "notInstantiated", answer'[d] = "notInstantiated"
               PROVE  queues = {}
    BY DEF RefusesWhenEmpty
  <2>1. Explicit!Next /\ TypeOK /\ AllOrNone
    BY DEF MCNext, EitherInv
  <2>2. ASSUME NEW c \in Calls, Resume(c) PROVE queues = {}
    <3>1. call[c] \notin queues \cup {Start}
      BY <2>1, <2>2 DEF Resume, Ended, TypeOK
    <3>2. QED
      BY <2>1, <3>1 DEF AllOrNone, TypeOK
  <2>3. ASSUME NEW c \in Calls, StartAll(c) \/ OperateStarted(c) PROVE FALSE
    BY <2>1, <2>3 DEF StartAll, OperateStarted, Enter, Goto, Ended, TypeOK
  <2>4. ASSUME (\E c \in Calls : Again(c)) \/ StartSettles \/ Dispose \/ Disposed PROVE FALSE
    BY <2>1, <2>4 DEF Again, StartSettles, Dispose, Disposed, TypeOK
  <2>5. QED
    BY <2>1, <2>2, <2>3, <2>4, ExplicitSteps
<1>2. QED
  BY <1>1, EitherInvariant, PTL DEF MCSpec, ExplicitFindsQueue
=============================================================================
