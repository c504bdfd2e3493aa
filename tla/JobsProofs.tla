------------------------------ MODULE JobsProofs ------------------------------
(***************************************************************************)
(* What happens to a job, for any number of jobs, workers, executions,     *)
(* waits, attempts, stalls and retries: the overflow bound of the barrier, *)
(* the hooks of a job's execution, the spy's waits and the listeners of a  *)
(* processor in test mode.                                                 *)
(***************************************************************************)
EXTENDS MCJobs, FiniteSetTheorems, SequenceTheorems, TLAPS


-----------------------------------------------------------------------------
(* The barrier *)

\* All children that could ever be due at once
AllChildren == Slots \X (1 .. Fanout)

LEMMA ChildrenAreFinite ==
    /\ Cardinality(Slots) \in Nat
    /\ IsFiniteSet(AllChildren)
    /\ Cardinality(AllChildren) = Cardinality(Slots) * Fanout
<1>1. IsFiniteSet(1 .. Fanout) /\ Cardinality(1 .. Fanout) = Fanout
  BY BarrierAssumption, FS_Interval
<1>2. QED
  BY <1>1, BarrierAssumption, FS_Product, FS_CardinalityType DEF AllChildren

\* What is due or promised is part of it, so it is finite and no larger.
LEMMA PotentialIsBounded ==
    ASSUME TypeOK
    PROVE  /\ IsFiniteSet(Potential)
           /\ Cardinality(Potential) \in Nat
           /\ Cardinality(Potential) <= Cardinality(Slots) * Fanout
<1>1. Potential \in SUBSET AllChildren
  BY DEF TypeOK, Potential, AllChildren
<1>2. QED
  BY <1>1, ChildrenAreFinite, FS_Subset, FS_CardinalityType

\* The executions, the count and the children due keep their types.
THEOREM BarrierTypes == Spec => []TypeOK
<1>1. Init => TypeOK
  BY DEF Init, TypeOK
<1>2. TypeOK /\ [Next]_vars => TypeOK'
  <2> SUFFICES ASSUME TypeOK, [Next]_vars PROVE TypeOK'
    OBVIOUS
  <2> USE DEF TypeOK
  <2>1. CASE ChildEnds
    BY <2>1 DEF ChildEnds
  <2>2. ASSUME NEW s \in Slots,
               Take(s) \/ Count(s) \/ Pass(s) \/ Delay(s) \/ Schedule(s) \/ End(s)
        PROVE  TypeOK'
    BY <2>2 DEF Take, Count, Pass, Delay, Schedule, End, Goto, Children
  <2>3. CASE UNCHANGED vars
    BY <2>3 DEF vars
  <2>4. QED
    BY <2>1, <2>2, <2>3 DEF Next
<1>3. QED
  BY <1>1, <1>2, PTL DEF Spec

\* A step that neither counts nor enlarges the potential keeps the reservation.
LEMMA SmallerPotential ==
    ASSUME TypeOK, TypeOK', Reserved, count' <= count, Potential' \subseteq Potential
    PROVE  count' + Cardinality(Potential') <=
               MaxJobs - 1 + Cardinality(Slots) * Fanout
<1>1. Cardinality(Potential') <= Cardinality(Potential)
  BY PotentialIsBounded, FS_Subset
<1>2. IsFiniteSet(Potential') /\ Cardinality(Potential') \in Nat
  <2>1. Potential' \in SUBSET Potential
    OBVIOUS
  <2>2. QED
    BY <2>1, PotentialIsBounded, FS_Subset, FS_CardinalityType
<1>3. QED
  BY <1>1, <1>2, PotentialIsBounded, ChildrenAreFinite, BarrierAssumption
     DEF Reserved, TypeOK

\* Every count that was answered "below" keeps its room: only a new count can
\* add to the potential, and it starts from a queue below the limit.
LEMMA ReservationIsKept ==
    ASSUME TypeOK, TypeOK', Reserved, [Next]_vars
    PROVE  Reserved'
<1> DEFINE Room == count + Cardinality(Potential) <=
                       MaxJobs - 1 + Cardinality(Slots) * Fanout
           Tidy == \A child \in due : pc[child[1]] = "process"
<1> USE DEF TypeOK, Goto, Children
<1>1. Tidy
  BY DEF Reserved
<1>2. CASE ChildEnds
  <2>1. count' <= count /\ Potential' \subseteq Potential
    BY <1>2 DEF ChildEnds, Potential
  <2>2. Tidy'
    BY <1>1, <1>2 DEF ChildEnds
  <2>3. QED
    BY <2>1, <2>2, SmallerPotential DEF Reserved
<1>3. ASSUME NEW s \in Slots, Take(s) \/ Pass(s) \/ Delay(s) \/ End(s)
      PROVE  Reserved'
  <2>1. count' <= count /\ Potential' \subseteq Potential
    BY <1>3 DEF Take, Pass, Delay, End, Potential
  <2>2. Tidy'
    BY <1>1, <1>3 DEF Take, Pass, Delay, End
  <2>3. QED
    BY <2>1, <2>2, SmallerPotential DEF Reserved
<1>4. ASSUME NEW s \in Slots, Count(s)
      PROVE  Reserved'
  <2>1. Tidy'
    BY <1>1, <1>4 DEF Count
  <2>2. CASE count < MaxJobs
    <3>1. count' <= MaxJobs - 1 /\ count' \in Nat
      BY <1>4, <2>2, BarrierAssumption DEF Count
    <3>2. Cardinality(Potential') \in Nat
          /\ Cardinality(Potential') <= Cardinality(Slots) * Fanout
      <4>1. Potential' \in SUBSET AllChildren
        BY DEF Potential, AllChildren
      <4>2. QED
        BY <4>1, ChildrenAreFinite, FS_Subset, FS_CardinalityType
    <3>3. Room'
      BY <3>1, <3>2, ChildrenAreFinite, BarrierAssumption
    <3>4. QED
      BY <2>1, <3>3 DEF Reserved
  <2>3. CASE ~(count < MaxJobs)
    <3>1. count' <= count /\ Potential' \subseteq Potential
      BY <1>4, <2>3 DEF Count, Potential
    <3>2. QED
      BY <2>1, <3>1, SmallerPotential DEF Reserved
  <2>4. QED
    BY <2>2, <2>3
<1>5. ASSUME NEW s \in Slots, Schedule(s)
      PROVE  Reserved'
  <2>1. Tidy'
    BY <1>1, <1>5 DEF Schedule
  <2>2. PICK child \in due \cap Children(s) : due' = due \ {child}
    BY <1>5 DEF Schedule
  <2>3. Potential' = Potential \ {child} /\ child \in Potential
    <3>1. pc[s] = "process" /\ child[1] = s /\ pc' = pc
      BY <1>5, <2>2 DEF Schedule
    <3>2. child \notin {t \in Slots : pc[t] = "below"} \X (1 .. Fanout)
      BY <2>2, <3>1
    <3>3. QED
      BY <2>2, <3>1, <3>2 DEF Potential
  <2>4. Cardinality(Potential') = Cardinality(Potential) - 1 /\ count' = count + 1
    BY <1>5, <2>3, PotentialIsBounded, FS_RemoveElement DEF Schedule
  <2>5. Room'
    BY <2>4, PotentialIsBounded, ChildrenAreFinite, BarrierAssumption DEF Reserved
  <2>6. QED
    BY <2>1, <2>5 DEF Reserved
<1>6. CASE UNCHANGED vars
  BY <1>6 DEF vars, Reserved, Potential
<1>7. QED
  BY <1>2, <1>3, <1>4, <1>5, <1>6 DEF Next

\* Every job that passed the barrier, or was told it may, has its room reserved.
THEOREM RoomIsReserved == Spec => []Reserved
<1>1. Init => Reserved
  <2> SUFFICES ASSUME Init PROVE Reserved
    OBVIOUS
  <2>1. Potential = {} /\ count = 0 /\ due = {}
    BY DEF Init, Potential
  <2>2. QED
    BY <2>1, FS_EmptySet, ChildrenAreFinite, BarrierAssumption DEF Reserved
<1>2. TypeOK /\ TypeOK' /\ Reserved /\ [Next]_vars => Reserved'
  BY ReservationIsKept
<1>3. QED
  BY <1>1, <1>2, BarrierTypes, PTL DEF Spec

\* The counted queue overflows its limit by less than what the concurrent
\* executions can schedule (the optimistic check of the barrier).
THEOREM OverflowIsBounded == Spec => []BoundedOverflow
<1>1. TypeOK /\ Reserved => BoundedOverflow
  BY PotentialIsBounded, ChildrenAreFinite, BarrierAssumption
     DEF Reserved, BoundedOverflow, TypeOK
<1>2. QED
  BY <1>1, BarrierTypes, RoomIsReserved, PTL

-----------------------------------------------------------------------------
(* The execution of a job *)

\* A job that waits for its first attempt satisfies the invariant.
LEMMA ExecutionBegins == Execution!Init => Execution!IInv
BY JobsAssumption
   DEF Execution!Init, Execution!IInv, Execution!TypeOK, Execution!LockedIsActive,
       Execution!TriesAreLeft, Execution!OutcomesMatch, Execution!EventsMatch,
       Execution!HooksTellState, Execution!EndsAreTold, Execution!PurgedWhenDone,
       Execution!Over, Execution!Calls, Execution!IsLast, Execution!NoEvent,
       Execution!Rounds, Execution!Events

\* What a worker tells is an event of the round the job is in.
LEMMA EventTypes ==
    ASSUME Execution!TypeOK, NEW attempts \in Nat,
           NEW kind \in {"completed", "rejected", "unrecoverable", "stalled"}
    PROVE  /\ Execution!Event(kind, attempts) \in Execution!Events
           /\ Execution!Event(kind, attempts).kind = kind
           /\ Execution!Event(kind, attempts).made = attempts
           /\ Execution!Event(kind, attempts).round = retried
           /\ retried \in Execution!Rounds
BY DEF Execution!TypeOK, Execution!Event, Execution!Events, Execution!Rounds

\* No event is one of them.
LEMMA NoEventIsOne == Execution!NoEvent \in Execution!Events
BY JobsAssumption DEF Execution!NoEvent, Execution!Events, Execution!Rounds

\* A round that has not ended is told by nobody.
LEMMA OpenRoundsAreUntold ==
    ASSUME Execution!IInv, NEW r \in Execution!Rounds, outcome[r] = "none"
    PROVE  told[r] = "none" /\ \A w \in Workers : Execution!Calls(event[w]) => event[w].round # r
BY DEF Execution!IInv, Execution!TypeOK, Execution!HooksTellState, Execution!EventsMatch

\* The job ends or is delayed, and the worker's event says how: the event is the only one
\* of the round that is ending.
LEMMA EventsOfEndsKeepInv ==
    ASSUME Execution!IInv, ~ Execution!Over,
           NEW w \in Workers, event[w] = Execution!NoEvent,
           NEW next \in {"completed", "failed", "delayed"},
           NEW kind \in {"completed", "rejected", "unrecoverable", "stalled"},
           Execution!Moved(next),
           event' = [event EXCEPT ![w] = Execution!Event(kind, made')],
           made' = made + 1 \/ (made' = made /\ kind = "stalled"),
           stalls' \in 0 .. (MaxStalled + 1), next = "delayed" => stalls' = stalls,
           next = "delayed" => kind = "rejected" /\ made' < Attempts,
           next = "completed" <=> kind = "completed",
           kind = "rejected" /\ next = "failed" => made' >= Attempts,
           worker' \in [Workers -> {"idle", "barrier", "process",
                                    "resolved", "rejected", "unrecoverable", "delayed"}],
           UNCHANGED <<retried, died, data, hook, told>>
    PROVE  Execution!IInv'
<1> DEFINE e == Execution!Event(kind, made')
<1> USE JobsAssumption
<1>1. /\ Execution!TypeOK /\ made' \in Nat /\ made' <= Attempts + retried
      /\ made' \in 0 .. (Attempts + Retries + 1)
  BY DEF Execution!IInv, Execution!TypeOK, Execution!TriesAreLeft, Execution!Rounds
<1>2. /\ e \in Execution!Events /\ e.kind = kind /\ e.made = made' /\ e.round = retried
      /\ retried \in Execution!Rounds
  BY <1>1, EventTypes
<1> HIDE DEF e
<1>3. /\ outcome[retried] = "none" /\ told[retried] = "none"
      /\ \A v \in Workers : Execution!Calls(event[v]) => event[v].round # retried
  BY <1>2, OpenRoundsAreUntold DEF Execution!IInv, Execution!OutcomesMatch
<1>4. /\ state' = next /\ lock' = NoWorker
      /\ outcome' = IF next \in {"completed", "failed"}
                    THEN [outcome EXCEPT ![retried] = next] ELSE outcome
      /\ event' = [event EXCEPT ![w] = e]
  BY DEF Execution!Moved, e
<1>5. Execution!TypeOK'
  BY <1>1, <1>2, <1>4 DEF Execution!TypeOK
<1>6. Execution!LockedIsActive' /\ Execution!TriesAreLeft'
  <2>1. stalls <= MaxStalled
    BY DEF Execution!IInv, Execution!TriesAreLeft
  <2>2. state' \in {"completed", "failed"} \/ (made' < Attempts + retried /\ stalls' <= MaxStalled)
    BY <2>1, <1>1, <1>4 DEF Execution!TypeOK, Execution!Rounds
  <2>3. QED
    BY <2>2, <1>1, <1>4 DEF Execution!LockedIsActive, Execution!TriesAreLeft, Execution!Over
<1>7. Execution!OutcomesMatch'
  <2>1. retried' = retried /\ \A r \in Execution!Rounds : r > retried => r # retried
    BY <1>1 DEF Execution!TypeOK, Execution!Rounds
  <2>2. \A r \in Execution!Rounds : r > retried => outcome'[r] = "none"
    BY <2>1, <1>1, <1>4 DEF Execution!OutcomesMatch, Execution!IInv, Execution!TypeOK
  <2>3. outcome'[retried] = IF state' \in {"completed", "failed"} THEN state' ELSE "none"
    BY <1>1, <1>2, <1>3, <1>4 DEF Execution!TypeOK
  <2>4. QED
    BY <2>1, <2>2, <2>3 DEF Execution!OutcomesMatch, Execution!Over
<1>8. Execution!Calls(e) => /\ outcome'[retried] = next /\ next # "delayed"
                            /\ next = IF kind = "completed" THEN "completed" ELSE "failed"
  BY <1>1, <1>2, <1>4 DEF Execution!Calls, Execution!IsLast, Execution!TypeOK
<1>9. \A r \in Execution!Rounds : r # retried => outcome'[r] = outcome[r]
  BY <1>1, <1>4 DEF Execution!TypeOK
<1>10. /\ event'[w] = e
       /\ \A v \in Workers : v # w => event'[v] = event[v]
  BY <1>1, <1>4 DEF Execution!TypeOK
<1>11. \A v \in Workers : event[v].round \in Execution!Rounds
  BY <1>1 DEF Execution!TypeOK, Execution!Events
<1>12. Execution!EventsMatch'
  <2>1. ASSUME NEW v \in Workers, Execution!Calls(event'[v])
        PROVE  /\ outcome'[event'[v].round] =
                     IF event'[v].kind = "completed" THEN "completed" ELSE "failed"
               /\ told'[event'[v].round] = "none"
    <3>1. CASE v = w
      BY <3>1, <2>1, <1>2, <1>3, <1>8, <1>10
    <3>2. CASE v # w
      BY <3>2, <2>1, <1>3, <1>9, <1>10, <1>11 DEF Execution!IInv, Execution!EventsMatch
    <3>3. QED
      BY <3>1, <3>2
  <2>2. ASSUME NEW v \in Workers, NEW u \in Workers, v # u,
               Execution!Calls(event'[v]), Execution!Calls(event'[u])
        PROVE  event'[v].round # event'[u].round
    <3>1. CASE v = w
      BY <3>1, <2>2, <1>2, <1>3, <1>10
    <3>2. CASE u = w
      BY <3>2, <2>2, <1>2, <1>3, <1>10
    <3>3. CASE v # w /\ u # w
      BY <3>3, <2>2, <1>10 DEF Execution!IInv, Execution!EventsMatch
    <3>4. QED
      BY <3>1, <3>2, <3>3
  <2>3. ASSUME NEW v \in Workers, hook'[v] \in {"onSuccess", "purge"}
        PROVE  \E r \in Execution!Rounds : outcome'[r] = "completed"
    <3>1. PICK r \in Execution!Rounds : outcome[r] = "completed"
      BY <2>3 DEF Execution!IInv, Execution!EventsMatch
    <3>2. QED
      BY <3>1, <1>3, <1>9
  <2>4. QED
    BY <2>1, <2>2, <2>3 DEF Execution!EventsMatch, Execution!Calls, Execution!IsLast
<1>13. Execution!HooksTellState'
  BY <1>3, <1>9 DEF Execution!IInv, Execution!HooksTellState
<1>14. Execution!EndsAreTold'
  <2>1. ASSUME NEW r \in Execution!Rounds, outcome'[r] # "none", told'[r] = "none", died' = 0
        PROVE  \/ \E v \in Workers : Execution!Calls(event'[v]) /\ event'[v].round = r
               \/ outcome'[r] = "failed" /\ r > 0 /\ made' > Attempts
    <3>1. CASE r = retried
      <4>1. next \in {"completed", "failed"} /\ outcome'[r] = next
        BY <3>1, <2>1, <1>1, <1>3, <1>4 DEF Execution!TypeOK
      <4>2. CASE Execution!Calls(e)
        BY <4>2, <3>1, <1>2, <1>10
      <4>3. CASE ~ Execution!Calls(e)
        <5>1. kind = "rejected" /\ made' # Attempts
          BY <4>3, <1>2 DEF Execution!Calls, Execution!IsLast
        <5>2. made' > Attempts /\ retried > 0
          BY <5>1, <4>1, <1>1 DEF Execution!TypeOK, Execution!Rounds
        <5>3. QED
          BY <5>1, <5>2, <4>1, <3>1
      <4>4. QED
        BY <4>2, <4>3
    <3>2. CASE r # retried
      <4>1. \/ \E v \in Workers : Execution!Calls(event[v]) /\ event[v].round = r
            \/ outcome[r] = "failed" /\ r > 0 /\ made > Attempts
        BY <3>2, <2>1, <1>9, <1>1 DEF Execution!IInv, Execution!EndsAreTold, Execution!TypeOK
      <4>2. CASE outcome[r] = "failed" /\ r > 0 /\ made > Attempts
        BY <4>2, <3>2, <1>1, <1>9 DEF Execution!TypeOK
      <4>3. ASSUME NEW v \in Workers, Execution!Calls(event[v]), event[v].round = r
            PROVE  event'[v] = event[v]
        BY <4>3, <1>10 DEF Execution!Calls, Execution!IsLast, Execution!NoEvent
      <4>4. QED
        BY <4>1, <4>2, <4>3
    <3>3. QED
      BY <3>1, <3>2
  <2>2. QED
    BY <2>1, <1>1 DEF Execution!EndsAreTold, Execution!TypeOK, Execution!Calls, Execution!IsLast
<1>15. Execution!PurgedWhenDone'
  BY <1>3, <1>9 DEF Execution!IInv, Execution!PurgedWhenDone
<1>16. QED
  BY <1>5, <1>6, <1>7, <1>12, <1>13, <1>14, <1>15 DEF Execution!IInv

\* Heard events: the hook tells how the event's round ended, and nobody else does.
LEMMA HearingKeepsInv ==
    ASSUME Execution!IInv, NEW w \in Workers,
           Execution!HearCompleted(w) \/ Execution!HearFailed(w)
    PROVE  Execution!IInv'
<1> DEFINE e == event[w]
           name == IF e.kind = "completed" THEN "onSuccess" ELSE "onFailed"
<1>1. /\ UNCHANGED <<state, lock, made, stalls, retried, died, data, worker, outcome>>
      /\ event' = [event EXCEPT ![w] = Execution!NoEvent]
      /\ IF Execution!Calls(e) THEN Execution!Call(w, name, e.round)
         ELSE hook' = hook /\ told' = told
  BY DEF Execution!HearCompleted, Execution!HearFailed, Execution!Calls, Execution!IsLast,
         Execution!countVars
<1>2. /\ Execution!TypeOK /\ e \in Execution!Events /\ e.round \in Execution!Rounds
      /\ Execution!Calls(e) => /\ told[e.round] = "none"
                               /\ outcome[e.round] =
                                     IF e.kind = "completed" THEN "completed" ELSE "failed"
  BY DEF Execution!IInv, Execution!TypeOK, Execution!Events, Execution!EventsMatch
<1> HIDE DEF e
<1>3. /\ \A v \in Workers : v # w => event'[v] = event[v]
      /\ event'[w] = Execution!NoEvent /\ ~ Execution!Calls(event'[w])
  BY <1>1, <1>2 DEF Execution!TypeOK, Execution!Calls, Execution!IsLast, Execution!NoEvent
<1>4. CASE Execution!Calls(e)
  <2>1. /\ hook' = [hook EXCEPT ![w] = name]
        /\ told' = [told EXCEPT ![e.round] = name]
    BY <1>1, <1>2, <1>4 DEF Execution!Call, Execution!TypeOK
  <2>2. Execution!TypeOK'
    BY <1>1, <1>2, <2>1, NoEventIsOne DEF Execution!TypeOK
  <2>3. Execution!LockedIsActive' /\ Execution!TriesAreLeft' /\ Execution!OutcomesMatch'
    BY <1>1, <1>2
       DEF Execution!IInv, Execution!LockedIsActive, Execution!TriesAreLeft, Execution!TypeOK,
           Execution!OutcomesMatch, Execution!Over
  <2>4. \A v \in Workers : v # w /\ Execution!Calls(event'[v]) =>
            event[v].round # e.round /\ told'[event[v].round] = "none"
    <3>1. ASSUME NEW v \in Workers, v # w, Execution!Calls(event'[v])
          PROVE  event[v].round # e.round /\ told'[event[v].round] = "none"
      <4>1. Execution!Calls(event[v]) /\ event[v].round \in Execution!Rounds
        BY <3>1, <1>2, <1>3 DEF Execution!TypeOK, Execution!Events
      <4>2. event[v].round # e.round /\ told[event[v].round] = "none"
        BY <3>1, <4>1, <1>4 DEF Execution!IInv, Execution!EventsMatch, e
      <4>3. QED
        BY <4>1, <4>2, <2>1, <1>2 DEF Execution!TypeOK
    <3>2. QED
      BY <3>1
  <2>5. Execution!EventsMatch'
    <3>1. \A v \in Workers : Execution!Calls(event'[v]) =>
              /\ outcome'[event'[v].round] =
                    IF event'[v].kind = "completed" THEN "completed" ELSE "failed"
              /\ told'[event'[v].round] = "none"
      BY <1>1, <1>3, <2>4 DEF Execution!IInv, Execution!EventsMatch
    <3>2. \A v, u \in Workers :
              Execution!Calls(event'[v]) /\ Execution!Calls(event'[u])
              /\ event'[v].round = event'[u].round => v = u
      BY <1>3 DEF Execution!IInv, Execution!EventsMatch
    <3>3. \A v \in Workers : hook'[v] \in {"onSuccess", "purge"} =>
              \E r \in Execution!Rounds : outcome'[r] = "completed"
      BY <1>1, <1>2, <1>4, <2>1 DEF Execution!IInv, Execution!EventsMatch, Execution!TypeOK
    <3>4. QED
      BY <3>1, <3>2, <3>3 DEF Execution!EventsMatch, Execution!Calls, Execution!IsLast
  <2>6. Execution!HooksTellState'
    BY <1>1, <1>2, <1>4, <2>1 DEF Execution!IInv, Execution!HooksTellState, Execution!TypeOK
  <2>7. Execution!EndsAreTold'
    <3>1. ASSUME NEW r \in Execution!Rounds, outcome'[r] # "none", told'[r] = "none"
          PROVE  \/ \E v \in Workers : Execution!Calls(event'[v]) /\ event'[v].round = r
                 \/ died' > 0
                 \/ outcome'[r] = "failed" /\ r > 0 /\ made' > Attempts
      <4>1. r # e.round /\ told[r] = "none"
        BY <3>1, <1>2, <2>1 DEF Execution!TypeOK
      <4>2. \A v \in Workers : Execution!Calls(event[v]) /\ event[v].round = r =>
                event'[v] = event[v]
        BY <4>1, <1>3 DEF e
      <4>3. \/ \E v \in Workers : Execution!Calls(event[v]) /\ event[v].round = r
            \/ died > 0
            \/ outcome[r] = "failed" /\ r > 0 /\ made > Attempts
        BY <3>1, <4>1, <1>1 DEF Execution!IInv, Execution!EndsAreTold
      <4>4. QED
        BY <4>2, <4>3, <1>1
    <3>2. QED
      BY <3>1 DEF Execution!EndsAreTold, Execution!Calls, Execution!IsLast
  <2>8. Execution!PurgedWhenDone'
    BY <1>1 DEF Execution!IInv, Execution!PurgedWhenDone
  <2>9. QED
    BY <2>2, <2>3, <2>5, <2>6, <2>7, <2>8 DEF Execution!IInv
<1>5. CASE ~ Execution!Calls(e)
  <2>1. hook' = hook /\ told' = told
    BY <1>1, <1>5
  <2>2. Execution!TypeOK'
    BY <1>1, <1>2, <2>1, NoEventIsOne DEF Execution!TypeOK
  <2>3. \A v \in Workers : Execution!Calls(event'[v]) <=> Execution!Calls(event[v])
    BY <1>3, <1>5 DEF e
  <2>4. \A v \in Workers : Execution!Calls(event'[v]) => event'[v] = event[v]
    BY <1>3
  <2>5. Execution!LockedIsActive' /\ Execution!TriesAreLeft' /\ Execution!OutcomesMatch'
    BY <1>1, <1>2
       DEF Execution!IInv, Execution!LockedIsActive, Execution!TriesAreLeft, Execution!TypeOK,
           Execution!OutcomesMatch, Execution!Over
  <2>6. Execution!EventsMatch'
    <3>1. \A v \in Workers : Execution!Calls(event'[v]) =>
              /\ outcome'[event'[v].round] =
                    IF event'[v].kind = "completed" THEN "completed" ELSE "failed"
              /\ told'[event'[v].round] = "none"
      BY <1>1, <2>1, <2>3, <2>4 DEF Execution!IInv, Execution!EventsMatch
    <3>2. \A v, u \in Workers :
              Execution!Calls(event'[v]) /\ Execution!Calls(event'[u])
              /\ event'[v].round = event'[u].round => v = u
      BY <2>3, <2>4 DEF Execution!IInv, Execution!EventsMatch
    <3>3. \A v \in Workers : hook'[v] \in {"onSuccess", "purge"} =>
              \E r \in Execution!Rounds : outcome'[r] = "completed"
      BY <1>1, <2>1 DEF Execution!IInv, Execution!EventsMatch
    <3>4. QED
      BY <3>1, <3>2, <3>3 DEF Execution!EventsMatch, Execution!Calls, Execution!IsLast
  <2>7. Execution!HooksTellState' /\ Execution!PurgedWhenDone'
    BY <1>1, <2>1 DEF Execution!IInv, Execution!HooksTellState, Execution!PurgedWhenDone
  <2>8. Execution!EndsAreTold'
    <3>1. ASSUME NEW r \in Execution!Rounds, outcome'[r] # "none", told'[r] = "none"
          PROVE  \/ \E v \in Workers : Execution!Calls(event'[v]) /\ event'[v].round = r
                 \/ died' > 0
                 \/ outcome'[r] = "failed" /\ r > 0 /\ made' > Attempts
      <4>1. \/ \E v \in Workers : Execution!Calls(event[v]) /\ event[v].round = r
            \/ died > 0
            \/ outcome[r] = "failed" /\ r > 0 /\ made > Attempts
        BY <3>1, <1>1, <2>1 DEF Execution!IInv, Execution!EndsAreTold
      <4>2. QED
        BY <4>1, <2>3, <2>4, <1>1
    <3>2. QED
      BY <3>1 DEF Execution!EndsAreTold, Execution!Calls, Execution!IsLast
  <2>9. QED
    BY <2>2, <2>5, <2>6, <2>7, <2>8 DEF Execution!IInv
<1>6. QED
  BY <1>4, <1>5

\* Every step of a worker, of BullMQ or of an operator keeps the invariant: only the
\* holder of the lock ends an attempt, and its event is the only one of the round.
LEMMA ExecutionKeepsInv ==
    ASSUME Execution!IInv, Execution!Next \/ UNCHANGED executionVars
    PROVE  Execution!IInv'
<1> USE JobsAssumption
<1> USE DEF Execution!TypeOK, Execution!Goto, Execution!countVars
<1>1. CASE Execution!Retry
  <2>1. /\ retried' = retried + 1 /\ retried' \in Execution!Rounds
        /\ Execution!Over /\ state' = "waiting" /\ lock' = lock /\ stalls' = 0
        /\ UNCHANGED <<made, died, data, worker, event, hook, outcome, told>>
    BY <1>1 DEF Execution!Retry, Execution!Over, Execution!IInv, Execution!Rounds
  <2>2. Execution!TypeOK' /\ Execution!LockedIsActive' /\ Execution!TriesAreLeft'
    BY <2>1 DEF Execution!IInv, Execution!LockedIsActive, Execution!TriesAreLeft, Execution!Over
  <2>3. Execution!OutcomesMatch'
    BY <2>1 DEF Execution!IInv, Execution!OutcomesMatch, Execution!Over, Execution!Rounds
  <2>4. QED
    BY <2>1, <2>2, <2>3
       DEF Execution!IInv, Execution!EventsMatch, Execution!HooksTellState, Execution!EndsAreTold,
           Execution!PurgedWhenDone, Execution!Calls, Execution!IsLast
<1>2. ASSUME UNCHANGED <<made, stalls, retried, died, event, hook, outcome, told>>,
             state' = state \/ (~ Execution!Over /\ state' \in {"waiting", "active", "delayed"}),
             lock' \in Workers \cup {NoWorker},
             lock' # NoWorker => state' = "active" /\ event[lock'] = Execution!NoEvent,
             data' = data,
             worker' \in [Workers -> {"idle", "barrier", "process",
                                      "resolved", "rejected", "unrecoverable", "delayed"}]
      PROVE  Execution!IInv'
  <2>1. Execution!TypeOK' /\ Execution!LockedIsActive'
    BY <1>2 DEF Execution!IInv, Execution!LockedIsActive, Execution!Over
  <2>2. Execution!TriesAreLeft' /\ Execution!OutcomesMatch'
    BY <1>2 DEF Execution!IInv, Execution!TriesAreLeft, Execution!OutcomesMatch, Execution!Over
  <2>3. QED
    BY <1>2, <2>1, <2>2
       DEF Execution!IInv, Execution!EventsMatch, Execution!HooksTellState, Execution!EndsAreTold,
           Execution!PurgedWhenDone, Execution!Calls, Execution!IsLast
<1>3. CASE Execution!Promote
  BY <1>3, <1>2 DEF Execution!Promote, Execution!IInv, Execution!LockedIsActive, Execution!Over
<1>4. ASSUME NEW w \in Workers, Execution!Barrier(w) \/ Execution!Process(w) \/ Execution!Dropped(w)
      PROVE  Execution!IInv'
  BY <1>4, <1>2
     DEF Execution!Barrier, Execution!Process, Execution!Dropped, Execution!IInv,
         Execution!LockedIsActive, Execution!Over
<1>5. ASSUME NEW w \in Workers, Execution!Take(w)
      PROVE  Execution!IInv'
  BY <1>5, <1>2
     DEF Execution!Take, Execution!Parsed, Execution!Quiet, Execution!IInv, Execution!Over
<1>6. ASSUME NEW w \in Workers, Execution!HookSettles(w)
      PROVE  Execution!IInv'
  <2>1. /\ UNCHANGED <<state, lock, made, stalls, retried, died, data, worker, event, outcome, told>>
        /\ hook' = [hook EXCEPT ![w] = IF @ = "onSuccess" THEN "purge" ELSE "none"]
    BY <1>6 DEF Execution!HookSettles
  <2>2. \A v \in Workers : hook'[v] \in {"onSuccess", "purge"} =>
            hook[v] \in {"onSuccess", "purge"}
    BY <2>1 DEF Execution!IInv
  <2>3. Execution!TypeOK'
    BY <2>1 DEF Execution!IInv
  <2>4. QED
    BY <2>1, <2>2, <2>3
       DEF Execution!IInv, Execution!LockedIsActive, Execution!TriesAreLeft,
           Execution!OutcomesMatch, Execution!EventsMatch, Execution!HooksTellState,
           Execution!EndsAreTold, Execution!PurgedWhenDone, Execution!Calls, Execution!IsLast,
           Execution!Over
<1>7. ASSUME NEW w \in Workers, Execution!PurgeJobData(w)
      PROVE  Execution!IInv'
  <2>1. /\ UNCHANGED <<state, lock, made, stalls, retried, died, worker, event, outcome, told>>
        /\ hook[w] = "purge" /\ hook' = [hook EXCEPT ![w] = "none"] /\ data' = "purged"
    BY <1>7 DEF Execution!PurgeJobData
  <2>2. \E r \in Execution!Rounds : outcome[r] = "completed"
    BY <2>1 DEF Execution!IInv, Execution!EventsMatch
  <2>3. Execution!TypeOK' /\ Execution!PurgedWhenDone'
    BY <2>1, <2>2 DEF Execution!IInv, Execution!PurgedWhenDone
  <2>4. QED
    BY <2>1, <2>2, <2>3
       DEF Execution!IInv, Execution!LockedIsActive, Execution!TriesAreLeft,
           Execution!OutcomesMatch, Execution!EventsMatch, Execution!HooksTellState,
           Execution!EndsAreTold, Execution!Calls, Execution!IsLast, Execution!Over
<1>8. ASSUME NEW w \in Workers, Execution!HearCompleted(w) \/ Execution!HearFailed(w)
      PROVE  Execution!IInv'
  BY <1>8, HearingKeepsInv
<1>9. ASSUME NEW w \in Workers, Execution!Complete(w)
      PROVE  Execution!IInv'
  BY <1>9, EventsOfEndsKeepInv
     DEF Execution!Complete, Execution!IInv, Execution!LockedIsActive, Execution!Over
<1>10. ASSUME NEW w \in Workers, Execution!Fail(w)
       PROVE  Execution!IInv'
  <2> DEFINE next == IF worker[w] = "unrecoverable" \/ made' >= Attempts THEN "failed" ELSE "delayed"
  <2>1. /\ event[w] = Execution!NoEvent /\ ~ Execution!Over
        /\ worker[w] \in {"rejected", "unrecoverable"} /\ made' = made + 1
        /\ Execution!Moved(next)
        /\ event' = [event EXCEPT ![w] = Execution!Event(worker[w], made')]
        /\ UNCHANGED <<stalls, retried, died, data, hook, told>>
    BY <1>10 DEF Execution!Fail, Execution!IInv, Execution!LockedIsActive, Execution!Over
  <2>2. /\ next \in {"completed", "failed", "delayed"} /\ next # "completed"
        /\ next = "delayed" => worker[w] = "rejected" /\ made' < Attempts
        /\ worker[w] = "rejected" /\ next = "failed" => made' >= Attempts
    BY <2>1 DEF Execution!IInv
  <2>3. /\ stalls' \in 0 .. (MaxStalled + 1)
        /\ worker' \in [Workers -> {"idle", "barrier", "process",
                                    "resolved", "rejected", "unrecoverable", "delayed"}]
    BY <1>10, <2>1 DEF Execution!Fail, Execution!IInv
  <2> HIDE DEF next
  <2>4. QED
    BY <2>1, <2>2, <2>3, EventsOfEndsKeepInv
<1>11. ASSUME NEW w \in Workers, Execution!Stall(w)
       PROVE  Execution!IInv'
  <2>1. ~ Execution!Over /\ stalls <= MaxStalled
    BY <1>11 DEF Execution!Stall, Execution!IInv, Execution!TriesAreLeft, Execution!Over
  <2>2. CASE event' = event
    <3>1. /\ UNCHANGED <<made, retried, died, data, worker, event, hook, outcome, told>>
          /\ state' = "waiting" /\ lock' = NoWorker
          /\ stalls' = stalls + 1 /\ stalls < MaxStalled
      BY <1>11, <2>2
         DEF Execution!Stall, Execution!Moved, Execution!Event, Execution!NoEvent,
             Execution!Quiet, Execution!IInv
    <3>2. Execution!TypeOK' /\ Execution!LockedIsActive' /\ Execution!TriesAreLeft'
          /\ Execution!OutcomesMatch'
      BY <2>1, <3>1
         DEF Execution!IInv, Execution!LockedIsActive, Execution!TriesAreLeft,
             Execution!OutcomesMatch, Execution!Over
    <3>3. QED
      BY <3>1, <3>2
         DEF Execution!IInv, Execution!EventsMatch, Execution!HooksTellState,
             Execution!EndsAreTold, Execution!PurgedWhenDone, Execution!Calls, Execution!IsLast
  <2>3. CASE event' # event
    <3>1. /\ UNCHANGED <<made, retried, died, data, worker, hook, told>>
          /\ stalls' = stalls + 1 /\ event[w] = Execution!NoEvent
          /\ Execution!Moved("failed")
          /\ event' = [event EXCEPT ![w] = Execution!Event("stalled", made)]
      BY <1>11, <2>3 DEF Execution!Stall, Execution!Quiet
    <3>2. stalls' \in 0 .. (MaxStalled + 1) /\ made' = made
      BY <2>1, <3>1 DEF Execution!IInv
    <3>3. worker' \in [Workers -> {"idle", "barrier", "process",
                                   "resolved", "rejected", "unrecoverable", "delayed"}]
      BY <3>1 DEF Execution!IInv
    <3>4. event' = [event EXCEPT ![w] = Execution!Event("stalled", made')]
      BY <3>1, <3>2
    <3>5. QED
      BY <2>1, <3>1, <3>2, <3>3, <3>4, EventsOfEndsKeepInv
  <2>4. QED
    BY <2>2, <2>3
<1>12. ASSUME NEW w \in Workers, Execution!Die(w)
       PROVE  Execution!IInv'
  <2>1. /\ UNCHANGED <<state, lock, made, stalls, retried, data, outcome, told>>
        /\ died' = died + 1 /\ died' \in 0 .. Deaths /\ died' # 0
        /\ event' = [event EXCEPT ![w] = Execution!NoEvent]
        /\ hook' = [hook EXCEPT ![w] = "none"]
        /\ worker' = [worker EXCEPT ![w] = "idle"]
    BY <1>12 DEF Execution!Die, Execution!IInv
  <2>2. /\ \A v \in Workers : event'[v] = event[v] \/ event'[v] = Execution!NoEvent
        /\ \A v \in Workers : hook'[v] = hook[v] \/ hook'[v] = "none"
        /\ event' \in [Workers -> Execution!Events]
    BY <2>1 DEF Execution!IInv, Execution!Events, Execution!NoEvent, Execution!Rounds
  <2>3. Execution!TypeOK' /\ Execution!LockedIsActive' /\ Execution!TriesAreLeft'
        /\ Execution!OutcomesMatch'
    BY <2>1, <2>2
       DEF Execution!IInv, Execution!LockedIsActive, Execution!TriesAreLeft,
           Execution!OutcomesMatch, Execution!Over
  <2>4. \A v \in Workers : Execution!Calls(event'[v]) =>
            event'[v] = event[v] /\ Execution!Calls(event[v])
    BY <2>2 DEF Execution!Calls, Execution!IsLast, Execution!NoEvent
  <2>5. Execution!EventsMatch'
    <3>1. \A v \in Workers : Execution!Calls(event'[v]) =>
              /\ outcome'[event'[v].round] =
                    IF event'[v].kind = "completed" THEN "completed" ELSE "failed"
              /\ told'[event'[v].round] = "none"
      BY <2>1, <2>4 DEF Execution!IInv, Execution!EventsMatch
    <3>2. \A v, u \in Workers :
              Execution!Calls(event'[v]) /\ Execution!Calls(event'[u])
              /\ event'[v].round = event'[u].round => v = u
      BY <2>4 DEF Execution!IInv, Execution!EventsMatch
    <3>3. \A v \in Workers : hook'[v] \in {"onSuccess", "purge"} =>
              \E r \in Execution!Rounds : outcome'[r] = "completed"
      BY <2>1, <2>2 DEF Execution!IInv, Execution!EventsMatch
    <3>4. QED
      BY <3>1, <3>2, <3>3 DEF Execution!EventsMatch, Execution!Calls, Execution!IsLast
  <2>6. Execution!HooksTellState' /\ Execution!EndsAreTold' /\ Execution!PurgedWhenDone'
    BY <2>1
       DEF Execution!IInv, Execution!HooksTellState, Execution!EndsAreTold,
           Execution!PurgedWhenDone
  <2>7. QED
    BY <2>3, <2>5, <2>6 DEF Execution!IInv
<1>13. CASE UNCHANGED executionVars
  BY <1>13
     DEF executionVars, Execution!IInv, Execution!LockedIsActive, Execution!TriesAreLeft,
         Execution!OutcomesMatch, Execution!EventsMatch, Execution!HooksTellState,
         Execution!EndsAreTold, Execution!PurgedWhenDone, Execution!Over, Execution!Calls,
         Execution!IsLast
<1>14. QED
  BY <1>1, <1>3, <1>4, <1>5, <1>6, <1>7, <1>8, <1>9, <1>10, <1>11, <1>12, <1>13
     DEF Execution!Next

-----------------------------------------------------------------------------
(* Lists and their splices *)

\* The order of the naturals
Less == {pair \in Nat \X Nat : pair[1] < pair[2]}

\* A set of naturals that is not empty has a least element.
LEMMA LessIsWellFounded == IsWellFoundedOn(Less, Nat)
BY NatLessThanWellFounded, Zenon DEF Less, OpToRel

\* The least element, which the invariants of counts rest on
LEMMA LeastNatural ==
    ASSUME NEW T \in SUBSET Nat, T # {}
    PROVE  \E n \in T : \A k \in T : n <= k
<1>1. PICK n \in T : \A k \in T : <<k, n>> \notin Less
  BY LessIsWellFounded, WFMin, Zenon
<1>2. ASSUME NEW k \in T PROVE n <= k
  <2>1. ~ (k < n)
    BY <1>1 DEF Less
  <2>2. QED
    BY <2>1
<1>3. QED
  BY <1>1, <1>2

\* A set of naturals with zero that holds the successors of its members has them all.
LEMMA NaturalInduction ==
    ASSUME NEW T, 0 \in T, \A n \in Nat : n \in T => n + 1 \in T
    PROVE  \A n \in Nat : n \in T
<1> DEFINE Left == {n \in Nat : n \notin T}
<1>1. SUFFICES ASSUME Left # {} PROVE FALSE
  OBVIOUS
<1>2. Left \in SUBSET Nat
  OBVIOUS
<1> HIDE DEF Left
<1>3. PICK n \in Left : \A k \in Left : n <= k
  BY <1>1, <1>2, LeastNatural
<1>4. n # 0 /\ n - 1 \in Nat /\ ~ (n <= n - 1) /\ (n - 1) + 1 = n
  BY <1>3 DEF Left
<1>5. QED
  BY <1>3, <1>4 DEF Left

\* The indexes before one
Before(indexes, i) == {k \in indexes : k < i}

\* They are finitely many, and the next index makes one more.
LEMMA BeforeIsCounted ==
    ASSUME NEW m \in Nat, NEW indexes \in SUBSET (1 .. m), NEW i \in Nat
    PROVE  /\ IsFiniteSet(Before(indexes, i))
           /\ Cardinality(Before(indexes, i)) \in Nat
           /\ Cardinality(Before(indexes, i + 1)) =
                 Cardinality(Before(indexes, i)) + (IF i \in indexes THEN 1 ELSE 0)
<1>1. IsFiniteSet(1 .. m)
  BY FS_Interval
<1>2. IsFiniteSet(Before(indexes, i)) /\ Cardinality(Before(indexes, i)) \in Nat
  <2>1. Before(indexes, i) \in SUBSET (1 .. m)
    BY DEF Before
  <2>2. QED
    BY <2>1, <1>1, FS_Subset, FS_CardinalityType
<1>3. CASE i \in indexes
  <2>1. (\A k \in indexes : k < i + 1 <=> k < i \/ k = i) /\ ~ (i < i)
    OBVIOUS
  <2>2. Before(indexes, i + 1) = Before(indexes, i) \cup {i} /\ i \notin Before(indexes, i)
    BY <2>1, <1>3, Zenon DEF Before
  <2>3. QED
    BY <2>2, <1>2, <1>3, FS_AddElement
<1>4. CASE i \notin indexes
  <2>1. \A k \in indexes : k < i + 1 <=> k < i
    BY <1>4
  <2>2. Before(indexes, i + 1) = Before(indexes, i)
    BY <2>1, Zenon DEF Before
  <2>3. QED
    BY <2>2, <1>2, <1>4
<1>5. QED
  BY <1>2, <1>3, <1>4

\* The lists after the splices of the indexes up to each one up to n
Spliced(list, indexes, n, f) ==
    f = [i \in 0 .. n |->
            IF i = 0 THEN list
            ELSE IF i \in indexes THEN Spy!SpliceOne(f[i - 1], i) ELSE f[i - 1]]

\* The loop's function exists, which makes its definition one.
LEMMA SpliceIsDefined ==
    ASSUME NEW list \in Seq(Waiters), NEW indexes
    PROVE  \E f : /\ Spliced(list, indexes, Len(list), f)
                  /\ Spy!Splice(list, indexes) = f[Len(list)]
<1> DEFINE Defined == {n \in Nat : \E f : Spliced(list, indexes, n, f)}
<1>1. 0 \in Defined
  <2>1. Spliced(list, indexes, 0, [i \in 0 .. 0 |-> list])
    BY DEF Spliced
  <2>2. QED
    BY <2>1
<1>2. ASSUME NEW n \in Nat, n \in Defined PROVE n + 1 \in Defined
  <2>1. PICK f : Spliced(list, indexes, n, f)
    BY <1>2
  <2> DEFINE next == IF n + 1 \in indexes THEN Spy!SpliceOne(f[n], n + 1) ELSE f[n]
             g == [i \in 0 .. (n + 1) |-> IF i = n + 1 THEN next ELSE f[i]]
  <2>2. \A i \in 0 .. (n + 1) :
           g[i] = IF i = 0 THEN list
                  ELSE IF i \in indexes THEN Spy!SpliceOne(g[i - 1], i) ELSE g[i - 1]
    <3> TAKE i \in 0 .. (n + 1)
    <3>1. CASE i = n + 1
      BY <3>1
    <3>2. CASE i # n + 1
      BY <2>1, <3>2 DEF Spliced
    <3>3. QED
      BY <3>1, <3>2
  <2>3. Spliced(list, indexes, n + 1, g)
    BY <2>2 DEF Spliced
  <2>4. QED
    BY <2>3
<1>3. Len(list) \in Nat
  OBVIOUS
<1>4. \E f : Spliced(list, indexes, Len(list), f)
  <2>1. Len(list) \in Defined
    <3> HIDE DEF Defined
    <3>1. QED
      BY <1>1, <1>2, <1>3, NaturalInduction
  <2>2. QED
    BY <2>1
<1> DEFINE after == CHOOSE after : after =
               [i \in 0 .. Len(list) |->
                   IF i = 0 THEN list
                   ELSE IF i \in indexes THEN Spy!SpliceOne(after[i - 1], i) ELSE after[i - 1]]
<1>5. Spliced(list, indexes, Len(list), after)
  BY <1>4 DEF Spliced
<1>6. Spy!Splice(list, indexes) = after[Len(list)]
  BY Zenon DEF Spy!Splice
<1>7. QED
  BY <1>5, <1>6

\* Removing from a list moves what comes after it one place to the front.
LEMMA RemovedAt ==
    ASSUME NEW S, NEW s \in Seq(S), NEW i \in 1 .. Len(s)
    PROVE  /\ Spy!RemoveAt(s, i) \in Seq(S)
           /\ Len(Spy!RemoveAt(s, i)) = Len(s) - 1
           /\ \A n \in 1 .. (Len(s) - 1) :
                 Spy!RemoveAt(s, i)[n] = IF n < i THEN s[n] ELSE s[n + 1]
<1>1. Spy!RemoveAt(s, i) = SubSeq(s, 1, i - 1) \o SubSeq(s, i + 1, Len(s))
  BY DEF Spy!RemoveAt
<1> DEFINE front == SubSeq(s, 1, i - 1)
           back == SubSeq(s, i + 1, Len(s))
<1>2. /\ front \in Seq(S) /\ Len(front) = i - 1
      /\ \A n \in 1 .. (i - 1) : front[n] = s[n]
  OBVIOUS
<1>3. /\ back \in Seq(S) /\ Len(back) = Len(s) - i
      /\ \A n \in 1 .. (Len(s) - i) : back[n] = s[n + i]
  OBVIOUS
<1> HIDE DEF front, back
<1>4. front \o back \in Seq(S) /\ Len(front \o back) = Len(s) - 1
  BY <1>2, <1>3
<1>5. ASSUME NEW n \in 1 .. (Len(s) - 1)
      PROVE  (front \o back)[n] = IF n < i THEN s[n] ELSE s[n + 1]
  <2>1. CASE n < i
    BY <2>1, <1>2, <1>3
  <2>2. CASE ~ (n < i)
    <3>1. n - (i - 1) \in 1 .. (Len(s) - i) /\ (n - (i - 1)) + i = n + 1
      BY <2>2
    <3>2. (front \o back)[n] = back[n - (i - 1)]
      BY <2>2, <1>2, <1>3
    <3>3. QED
      BY <2>2, <3>1, <3>2, <1>3
  <2>3. QED
    BY <2>1, <2>2
<1>6. QED
  BY <1>1, <1>4, <1>5 DEF front, back

\* The indexes of the list that the splices remove, where each one is shifted by those
\* before it
Gone(indexes, i) == {k + Cardinality(Before(indexes, k)) : k \in Before(indexes, i)}

\* The list that is left has the elements at the kept indexes, in their order.
Leaves(left, list, kept) ==
    /\ left \in Seq(Waiters)
    /\ \E at \in [DOMAIN left -> kept] :
          /\ \A m, n \in DOMAIN left : m < n => at[m] < at[n]
          /\ \A n \in DOMAIN left : left[n] = list[at[n]]
          /\ \A i \in kept : \E n \in DOMAIN left : at[n] = i

\* The indexes that the splices leave
Kept(list, indexes) == DOMAIN list \ Gone(indexes, Len(list) + 1)

\* The list has the kept elements in their order; what is at i or after it was by the shift
\* further back, and the list ends that much earlier.
SplicedBefore(i, shift, left, list, kept) ==
    /\ left \in Seq(Waiters)
    /\ \E at \in [DOMAIN left -> kept] :
          /\ \A m, n \in DOMAIN left : m < n => at[m] < at[n]
          /\ \A n \in DOMAIN left : left[n] = list[at[n]]
          /\ \A k \in kept : \E n \in DOMAIN left : at[n] = k
          /\ \A n \in DOMAIN left : n >= i => at[n] = n + shift
    /\ \A n \in Nat : n >= i => (n <= Len(left) <=> n + shift <= Len(list))

\* After the splices of the indexes before i, the shift is the number of these.
SplicedSoFar(left, list, indexes, i) ==
    SplicedBefore(i, Cardinality(Before(indexes, i)), left, list, DOMAIN list \ Gone(indexes, i))

\* A splice removes the element that its index has moved to, if there is one.
LEMMA OneMoreSplice ==
    ASSUME NEW list \in Seq(Waiters), NEW indexes \in SUBSET (DOMAIN list),
           NEW i \in DOMAIN list, NEW left, SplicedSoFar(left, list, indexes, i)
    PROVE  SplicedSoFar(IF i \in indexes THEN Spy!SpliceOne(left, i) ELSE left,
                        list, indexes, i + 1)
<1> DEFINE d == Cardinality(Before(indexes, i))
           kept == DOMAIN list \ Gone(indexes, i)
           keptNow == DOMAIN list \ Gone(indexes, i + 1)
<1>1. /\ Len(list) \in Nat /\ DOMAIN list = 1 .. Len(list)
      /\ left \in Seq(Waiters) /\ Len(left) \in Nat /\ DOMAIN left = 1 .. Len(left)
  BY DEF SplicedSoFar, SplicedBefore
<1>2. /\ d \in Nat
      /\ Cardinality(Before(indexes, i + 1)) = d + (IF i \in indexes THEN 1 ELSE 0)
  <2>1. indexes \in SUBSET (1 .. Len(list)) /\ i \in Nat
    BY <1>1
  <2>2. QED
    BY <2>1, <1>1, BeforeIsCounted
<1>3. PICK at \in [DOMAIN left -> kept] :
         /\ \A m, n \in DOMAIN left : m < n => at[m] < at[n]
         /\ \A n \in DOMAIN left : left[n] = list[at[n]]
         /\ \A k \in kept : \E n \in DOMAIN left : at[n] = k
         /\ \A n \in DOMAIN left : n >= i => at[n] = n + d
  BY DEF SplicedSoFar, SplicedBefore
<1>4. \A n \in Nat : n >= i => (n <= Len(left) <=> n + d <= Len(list))
  BY DEF SplicedSoFar, SplicedBefore
<1>5. Gone(indexes, i + 1) = Gone(indexes, i) \cup (IF i \in indexes THEN {i + d} ELSE {})
  <2>1. \A k \in indexes : k < i + 1 <=> k < i \/ k = i
    BY <1>1
  <2>2. Before(indexes, i + 1) = Before(indexes, i) \cup (IF i \in indexes THEN {i} ELSE {})
    BY <2>1, Zenon DEF Before
  <2>3. QED
    BY <2>2, Zenon DEF Gone
<1>6. CASE i \notin indexes
  <2>1. Cardinality(Before(indexes, i + 1)) = d
    BY <1>2, <1>6
  <2>2. keptNow = kept
    BY <1>5, <1>6
  <2> HIDE DEF d, kept, keptNow
  <2>3. SplicedBefore(i + 1, d, left, list, kept)
    <3>1. \A n \in DOMAIN left : n >= i + 1 => n >= i
      BY <1>1
    <3>2. \A n \in Nat : n >= i + 1 => n >= i
      BY <1>1
    <3>3. QED
      BY <3>1, <3>2, <1>1, <1>3, <1>4 DEF SplicedBefore
  <2>4. QED
    BY <2>1, <2>2, <2>3, <1>6 DEF SplicedSoFar, keptNow
<1>7. CASE i \in indexes /\ i > Len(left)
  <2>1. Spy!SpliceOne(left, i) = left
    BY <1>7, <1>1 DEF Spy!SpliceOne
  <2>2. i + d > Len(list)
    BY <1>1, <1>2, <1>4, <1>7
  <2>3. keptNow = kept
    BY <2>2, <1>1, <1>2, <1>5, <1>7
  <2>4. Cardinality(Before(indexes, i + 1)) = d + 1
    BY <1>2, <1>7
  <2> HIDE DEF d, kept, keptNow
  <2>5. SplicedBefore(i + 1, d + 1, left, list, kept)
    <3>1. \A n \in DOMAIN left : ~ (n >= i + 1)
      BY <1>1, <1>7
    <3>2. \A n \in Nat : n >= i + 1 => (n <= Len(left) <=> n + (d + 1) <= Len(list))
      BY <2>2, <1>1, <1>2, <1>7
    <3>3. QED
      BY <3>1, <3>2, <1>1, <1>3 DEF SplicedBefore
  <2>6. QED
    BY <2>1, <2>3, <2>4, <2>5, <1>7 DEF SplicedSoFar, keptNow
<1>8. CASE i \in indexes /\ i <= Len(left)
  <2> DEFINE rest == Spy!RemoveAt(left, i)
             From(n) == IF n < i THEN n ELSE n + 1
  <2>1. i \in 1 .. Len(left)
    BY <1>1, <1>8
  <2>2. /\ rest \in Seq(Waiters) /\ Len(rest) = Len(left) - 1
        /\ \A n \in 1 .. (Len(left) - 1) : rest[n] = IF n < i THEN left[n] ELSE left[n + 1]
    BY <2>1, <1>1, RemovedAt
  <2>3. Spy!SpliceOne(left, i) = rest
    BY <1>8 DEF Spy!SpliceOne
  <2> HIDE DEF rest
  <2>4. DOMAIN rest = 1 .. (Len(left) - 1)
    BY <2>2
  <2>5. at[i] = i + d
    BY <2>1, <1>1, <1>3
  <2>6. \A n \in DOMAIN rest : From(n) \in DOMAIN left /\ From(n) # i /\ rest[n] = left[From(n)]
    BY <2>1, <2>2, <2>4, <1>1
  <2>7. \A m, n \in DOMAIN rest : m < n => From(m) < From(n)
    BY <2>1, <2>4
  <2>8. \A k \in DOMAIN left : k # i => \E n \in DOMAIN rest : From(n) = k
    <3>1. ASSUME NEW k \in DOMAIN left, k < i PROVE k \in DOMAIN rest /\ From(k) = k
      BY <3>1, <2>1, <2>4, <1>1
    <3>2. ASSUME NEW k \in DOMAIN left, k > i PROVE k - 1 \in DOMAIN rest /\ From(k - 1) = k
      BY <3>2, <2>1, <2>4, <1>1
    <3> HIDE DEF From
    <3>3. QED
      BY <3>1, <3>2, <2>1, <1>1
  <2>9. \A m, n \in DOMAIN left : at[m] = at[n] => m = n
    BY <1>1, <1>3
  <2> DEFINE moved == [n \in DOMAIN rest |-> at[From(n)]]
  <2>10. keptNow = kept \ {at[i]}
    BY <2>5, <1>5, <1>8
  <2> HIDE DEF d, kept, keptNow
  <2>11. \A n \in DOMAIN rest : n >= i + 1 => moved[n] = n + (d + 1)
    <3> SUFFICES ASSUME NEW n \in DOMAIN rest, n >= i + 1 PROVE moved[n] = n + (d + 1)
      OBVIOUS
    <3>1. From(n) = n + 1 /\ n + 1 >= i
      BY <2>4, <2>1
    <3>2. n + 1 \in DOMAIN left
      BY <2>6, <3>1
    <3>3. moved[n] = (n + 1) + d
      BY <3>1, <3>2, <1>3
    <3>4. QED
      BY <3>3, <2>4, <1>2
  <2> HIDE DEF From
  <2>12. moved \in [DOMAIN rest -> keptNow]
    BY <2>1, <2>6, <2>9, <2>10, <1>1, <1>3
  <2>13. \A m, n \in DOMAIN rest : m < n => moved[m] < moved[n]
    BY <2>6, <2>7, <1>3
  <2>14. \A n \in DOMAIN rest : rest[n] = list[moved[n]]
    BY <2>6, <1>3
  <2>15. \A k \in keptNow : \E n \in DOMAIN rest : moved[n] = k
    <3> SUFFICES ASSUME NEW k \in keptNow PROVE \E n \in DOMAIN rest : moved[n] = k
      OBVIOUS
    <3>1. PICK n \in DOMAIN left : at[n] = k
      BY <2>10, <1>3
    <3>2. PICK m \in DOMAIN rest : From(m) = n
      BY <3>1, <2>8, <2>10
    <3>3. QED
      BY <3>1, <3>2
  <2>16. \A n \in Nat : n >= i + 1 => (n <= Len(rest) <=> n + (d + 1) <= Len(list))
    <3> SUFFICES ASSUME NEW n \in Nat, n >= i + 1
                 PROVE  n <= Len(rest) <=> n + (d + 1) <= Len(list)
      OBVIOUS
    <3>1. n + 1 <= Len(left) <=> (n + 1) + d <= Len(list)
      BY <1>1, <1>4
    <3>2. QED
      BY <3>1, <2>2, <1>1, <1>2
  <2> HIDE DEF moved
  <2>17. SplicedBefore(i + 1, d + 1, rest, list, keptNow)
    BY <2>2, <2>11, <2>12, <2>13, <2>14, <2>15, <2>16 DEF SplicedBefore
  <2>18. Cardinality(Before(indexes, i + 1)) = d + 1
    BY <1>2, <1>8
  <2>19. QED
    BY <2>3, <2>17, <2>18, <1>8 DEF SplicedSoFar, keptNow
<1>9. QED
  BY <1>1, <1>6, <1>7, <1>8

\* Splicing one index after the other leaves exactly the kept elements, in their order.
LEMMA SpliceKeepsTheRest ==
    ASSUME NEW list \in Seq(Waiters), NEW indexes \in SUBSET (DOMAIN list)
    PROVE  Leaves(Spy!Splice(list, indexes), list, Kept(list, indexes))
<1>1. Len(list) \in Nat /\ DOMAIN list = 1 .. Len(list)
  OBVIOUS
<1>2. PICK f : /\ Spliced(list, indexes, Len(list), f)
               /\ Spy!Splice(list, indexes) = f[Len(list)]
  BY SpliceIsDefined
<1> DEFINE Known == {n \in Nat : n <= Len(list) => SplicedSoFar(f[n], list, indexes, n + 1)}
<1>3. 0 \in Known
  <2>1. f[0] = list
    BY <1>1, <1>2 DEF Spliced
  <2>2. \A k \in indexes : ~ (k < 0 + 1)
    BY <1>1
  <2>3. Before(indexes, 0 + 1) = {} /\ Cardinality(Before(indexes, 0 + 1)) = 0
    BY <2>2, FS_EmptySet DEF Before
  <2>4. Gone(indexes, 0 + 1) = {}
    BY <2>3 DEF Gone
  <2> DEFINE id == [n \in DOMAIN list |-> n]
  <2>5. /\ id \in [DOMAIN list -> DOMAIN list \ Gone(indexes, 0 + 1)]
        /\ \A n \in DOMAIN list : id[n] = n
    BY <2>4
  <2> HIDE DEF id
  <2>6. SplicedSoFar(list, list, indexes, 0 + 1)
    BY <2>3, <2>5, <1>1 DEF SplicedSoFar, SplicedBefore
  <2>7. QED
    BY <2>1, <2>6
<1>4. ASSUME NEW n \in Nat, n \in Known PROVE n + 1 \in Known
  <2>1. SUFFICES ASSUME n + 1 <= Len(list) PROVE SplicedSoFar(f[n + 1], list, indexes, (n + 1) + 1)
    OBVIOUS
  <2>2. /\ n + 1 \in 0 .. Len(list) /\ n + 1 \in DOMAIN list /\ n + 1 # 0 /\ (n + 1) - 1 = n
    BY <2>1, <1>1
  <2>3. f[n + 1] = IF n + 1 \in indexes THEN Spy!SpliceOne(f[n], n + 1) ELSE f[n]
    BY <1>2, <2>2 DEF Spliced
  <2>4. SplicedSoFar(f[n], list, indexes, n + 1)
    BY <1>4, <2>1, <1>1
  <2>5. QED
    BY <2>2, <2>3, <2>4, OneMoreSplice
<1>5. SplicedSoFar(f[Len(list)], list, indexes, Len(list) + 1)
  <2> HIDE DEF Known
  <2>1. Len(list) \in Known
    BY <1>1, <1>3, <1>4, NaturalInduction
  <2>2. QED
    BY <2>1, <1>1 DEF Known
<1>6. Leaves(f[Len(list)], list, Kept(list, indexes))
  <2> DEFINE left == f[Len(list)]
             kept == Kept(list, indexes)
             shift == Cardinality(Before(indexes, Len(list) + 1))
  <2>1. SplicedBefore(Len(list) + 1, shift, left, list, kept)
    BY <1>5 DEF SplicedSoFar, Kept
  <2> HIDE DEF left, kept, shift
  <2>2. Leaves(left, list, kept)
    BY <2>1 DEF SplicedBefore, Leaves
  <2>3. QED
    BY <2>2 DEF left, kept
<1>7. QED
  BY <1>6, <1>2

-----------------------------------------------------------------------------
(* The spy *)

\* A new spy satisfies its invariant.
LEMMA SpyBegins == Spy!Init => Spy!IInv
BY DEF Spy!Init, Spy!IInv, Spy!TypeOK, Spy!ListedOnce, Spy!ListedIsUnanswered, Spy!Listed,
       Spy!Range, Spy!Requests

\* A wait looks at what is recorded before it is listed, and it is listed once.
LEMMA WaitKeepsInv ==
    ASSUME Spy!IInv, NEW w \in Waiters, Spy!Wait(w)
    PROVE  Spy!IInv'
<1> USE JobsAssumption DEF Spy!IInv
<1>1. PICK r \in Spy!Requests :
         LET found == {j \in r.jobs : results[Spy!Key(j, r.state)] = r.state}
         IN  /\ awaited' = [awaited EXCEPT ![w] = r]
             /\ IF found = {}
                THEN /\ answer' = [answer EXCEPT ![w] = "pending"]
                     /\ promises' = Append(promises, w)
                ELSE /\ \E j \in found : answer' = [answer EXCEPT ![w] = j]
                     /\ UNCHANGED promises
  BY DEF Spy!Wait
<1> DEFINE found == {j \in r.jobs : results[Spy!Key(j, r.state)] = r.state}
<1>2. /\ results' = results /\ awaited[w] = Spy!NoRequest /\ ~ Spy!Listed(w)
      /\ r \in [jobs : SUBSET Jobs, state : Spy!States] /\ r # Spy!NoRequest
  BY DEF Spy!Wait, Spy!ListedOnce, Spy!Requests, Spy!NoRequest, Spy!States
<1>3. CASE found = {}
  <2>1. /\ awaited' = [awaited EXCEPT ![w] = r] /\ answer' = [answer EXCEPT ![w] = "pending"]
        /\ promises' = Append(promises, w)
    BY <1>1, <1>3
  <2>2. /\ promises' \in Seq(Waiters) /\ Len(promises') = Len(promises) + 1
        /\ \A i \in 1 .. Len(promises) : promises'[i] = promises[i]
        /\ promises'[Len(promises) + 1] = w
    BY <2>1 DEF Spy!TypeOK
  <2>3. Spy!TypeOK'
    BY <1>2, <2>1, <2>2 DEF Spy!TypeOK
  <2>4. \A v \in Waiters : Spy!Listed(v)' <=> Spy!Listed(v) \/ v = w
    BY SMTT(20), <2>2 DEF Spy!Listed, Spy!Range, Spy!TypeOK
  <2>5. Spy!ListedOnce'
    <3>1. \A i, k \in DOMAIN promises' : promises'[i] = promises'[k] => i = k
      BY SMTT(20), <1>2, <2>2 DEF Spy!ListedOnce, Spy!Listed, Spy!Range, Spy!TypeOK
    <3>2. \A v \in Waiters : Spy!Listed(v)' => awaited'[v] # Spy!NoRequest
      BY <1>2, <2>1, <2>4 DEF Spy!ListedOnce, Spy!TypeOK
    <3>3. QED
      BY <3>1, <3>2 DEF Spy!ListedOnce, Spy!NoRequest
  <2>6. Spy!ListedIsUnanswered'
    <3>1. ASSUME NEW v \in Waiters, Spy!Listed(v)', answer'[v] = "pending"
          PROVE  ~ Spy!Recorded(v)'
      <4>1. CASE v = w
        BY <4>1, <1>2, <1>3, <2>1 DEF Spy!Recorded, Spy!Matches, Spy!TypeOK, Spy!Key
      <4>2. CASE v # w
        BY <4>2, <3>1, <1>2, <2>1, <2>4
           DEF Spy!ListedIsUnanswered, Spy!Recorded, Spy!Matches, Spy!TypeOK, Spy!Key
      <4>3. QED
        BY <4>1, <4>2
    <3>2. QED
      BY <3>1 DEF Spy!ListedIsUnanswered
  <2>7. QED
    BY <2>3, <2>5, <2>6
<1>4. CASE found # {}
  <2>1. PICK j \in found : answer' = [answer EXCEPT ![w] = j]
    BY <1>1, <1>4
  <2>2. awaited' = [awaited EXCEPT ![w] = r] /\ promises' = promises /\ j \in Jobs
    BY <1>1, <1>2, <1>4, <2>1
  <2>3. Spy!TypeOK'
    BY <1>2, <2>1, <2>2 DEF Spy!TypeOK
  <2>4. \A v \in Waiters : Spy!Listed(v)' <=> Spy!Listed(v)
    BY <2>2 DEF Spy!Listed, Spy!Range
  <2>5. Spy!ListedOnce'
    BY <1>2, <2>2, <2>4 DEF Spy!ListedOnce, Spy!TypeOK, Spy!NoRequest
  <2>6. Spy!ListedIsUnanswered'
    BY SMTT(20), <1>2, <2>1, <2>2, <2>4
       DEF Spy!ListedIsUnanswered, Spy!Recorded, Spy!Matches, Spy!TypeOK, Spy!Key
  <2>7. QED
    BY <2>3, <2>5, <2>6
<1>5. QED
  BY <1>3, <1>4

\* The listed waits that addJob(j, s) answers
Matching(j, s) == {i \in DOMAIN promises : Spy!Matches(promises[i], j, s)}

\* What addJob leaves in the list
LEMMA AddJobSplices ==
    ASSUME Spy!IInv, NEW j \in Jobs, NEW s \in Spy!States, Spy!AddJob(j, s)
    PROVE  Leaves(promises', promises, Kept(promises, Matching(j, s)))
<1>1. promises' = Spy!Splice(promises, Matching(j, s))
  BY DEF Spy!AddJob, Spy!Unlist, Matching
<1>2. promises \in Seq(Waiters) /\ Matching(j, s) \in SUBSET (DOMAIN promises)
  BY DEF Spy!IInv, Spy!TypeOK, Matching
<1>3. QED
  BY <1>1, <1>2, SpliceKeepsTheRest

\* addJob answers every listed wait for what it records, whatever the splices remove.
LEMMA AddJobKeepsInv ==
    ASSUME Spy!IInv, NEW j \in Jobs, NEW s \in Spy!States, Spy!AddJob(j, s)
    PROVE  Spy!IInv'
<1> DEFINE matching == Matching(j, s)
           kept == Kept(promises, matching)
<1>0. PICK at \in [DOMAIN promises' -> kept] :
         /\ \A m, n \in DOMAIN promises' : m < n => at[m] < at[n]
         /\ \A n \in DOMAIN promises' : promises'[n] = promises[at[n]]
  BY AddJobSplices DEF Leaves
<1>1. /\ promises' \in Seq(Waiters)
      /\ \A n \in DOMAIN promises' : at[n] \in DOMAIN promises /\ promises'[n] = promises[at[n]]
  BY <1>0, AddJobSplices DEF Leaves, Kept
<1>2. /\ results' = [results EXCEPT ![Spy!Key(j, s)] = s] /\ awaited' = awaited
      /\ answer' = [w \in Waiters |->
                       IF answer[w] = "pending" /\ \E i \in matching : promises[i] = w
                       THEN j ELSE answer[w]]
  BY DEF Spy!AddJob, Matching
<1>3. \A w \in Waiters : Spy!Listed(w)' => Spy!Listed(w)
  BY <1>1 DEF Spy!Listed, Spy!Range
<1>4. Spy!TypeOK'
  BY <1>1, <1>2 DEF Spy!IInv, Spy!TypeOK, Spy!Keys
<1>5. Spy!ListedOnce'
  <2>1. ASSUME NEW m \in DOMAIN promises', NEW n \in DOMAIN promises', promises'[m] = promises'[n]
        PROVE  m = n
    <3>1. at[m] = at[n]
      BY <2>1, <1>1 DEF Spy!IInv, Spy!ListedOnce
    <3>2. ~ (m < n) /\ ~ (n < m)
      BY <3>1, <1>0, <1>1 DEF Spy!IInv, Spy!TypeOK
    <3>3. QED
      BY <3>2, <1>1
  <2>2. QED
    BY <2>1, <1>2, <1>3 DEF Spy!IInv, Spy!ListedOnce, Spy!NoRequest
<1>6. Spy!ListedIsUnanswered'
  <2>1. ASSUME NEW w \in Waiters, Spy!Listed(w)', answer'[w] = "pending", Spy!Recorded(w)'
        PROVE  FALSE
    <3>1. Spy!Listed(w) /\ answer[w] = "pending" /\ ~ Spy!Recorded(w)
      <4>1. Spy!Listed(w)
        BY <2>1, <1>3
      <4>2. answer[w] = "pending"
        BY <2>1, <1>2, JobsAssumption
      <4>3. QED
        BY <4>1, <4>2 DEF Spy!IInv, Spy!ListedIsUnanswered
    <3>2. PICK k \in Jobs, t \in Spy!States : Spy!Matches(w, k, t) /\ results'[Spy!Key(k, t)] = t
      BY <2>1, <1>2 DEF Spy!Recorded, Spy!Matches, Spy!Key
    <3>3. Spy!Key(k, t) = Spy!Key(j, s) /\ t = s
      BY <1>2, <3>1, <3>2 DEF Spy!Recorded, Spy!IInv, Spy!TypeOK, Spy!Keys
    <3>4. k = j
      BY <3>3 DEF Spy!Key
    <3>5. PICK i \in DOMAIN promises : promises[i] = w
      BY <3>1 DEF Spy!Listed, Spy!Range
    <3>6. answer'[w] = j
      BY <1>2, <3>1, <3>2, <3>3, <3>4, <3>5 DEF Matching
    <3>7. QED
      BY <3>6, <2>1, JobsAssumption
  <2>2. QED
    BY <2>1 DEF Spy!ListedIsUnanswered
<1>7. QED
  BY <1>4, <1>5, <1>6 DEF Spy!IInv

\* So the waits, the recorded jobs and clear() keep the invariant of the spy.
LEMMA SpyKeepsInv ==
    ASSUME Spy!IInv, Spy!Next \/ UNCHANGED spyVars
    PROVE  Spy!IInv'
<1>1. CASE Spy!Clear
  <2>1. promises' = <<>> /\ awaited' = awaited
    BY <1>1 DEF Spy!Clear
  <2>2. Spy!TypeOK'
    BY <1>1 DEF Spy!Clear, Spy!IInv, Spy!TypeOK
  <2>3. \A w : ~ Spy!Listed(w)'
    BY <2>1 DEF Spy!Listed, Spy!Range
  <2>4. QED
    BY <2>1, <2>2, <2>3 DEF Spy!IInv, Spy!ListedOnce, Spy!ListedIsUnanswered
<1>2. CASE UNCHANGED spyVars
  <2>1. results' = results /\ promises' = promises /\ awaited' = awaited /\ answer' = answer
    BY <1>2 DEF spyVars
  <2>2. Spy!TypeOK' /\ Spy!ListedOnce'
    BY <2>1 DEF Spy!IInv, Spy!TypeOK, Spy!ListedOnce, Spy!Listed, Spy!Range
  <2>3. \A w : (Spy!Listed(w)' <=> Spy!Listed(w)) /\ (Spy!Recorded(w)' <=> Spy!Recorded(w))
    BY <2>1 DEF Spy!Listed, Spy!Range, Spy!Recorded, Spy!Matches
  <2>4. QED
    BY <2>1, <2>2, <2>3 DEF Spy!IInv, Spy!ListedIsUnanswered
<1>3. QED
  BY <1>1, <1>2, WaitKeepsInv, AddJobKeepsInv DEF Spy!Next

\* A wait that leaves the list unanswered was at an index that a splice was shifted to,
\* by another one before it.
LEMMA OnlySplicesLose ==
    ASSUME Spy!IInv, Spy!Next, NEW w \in Waiters,
           answer[w] = "pending", Spy!Listed(w), ~ Spy!Listed(w)', answer'[w] = "pending"
    PROVE  \E j \in Jobs, s \in Spy!States :
              /\ Spy!AddJob(j, s) /\ ~ Spy!Matches(w, j, s)
              /\ \E u, v \in Waiters :
                    u # v /\ \A x \in {u, v} : Spy!Listed(x) /\ Spy!Matches(x, j, s)
<1>1. ~ Spy!Clear
  BY DEF Spy!Clear, Spy!Listed, Spy!IInv, Spy!TypeOK
<1>2. ASSUME NEW x \in Waiters PROVE ~ Spy!Wait(x)
  <2>1. SUFFICES ASSUME Spy!Wait(x) PROVE Spy!Listed(w)'
    OBVIOUS
  <2>2. promises' = promises \/ promises' = Append(promises, x)
    BY <2>1 DEF Spy!Wait
  <2>3. QED
    BY <2>2 DEF Spy!Listed, Spy!Range, Spy!IInv, Spy!TypeOK
<1>3. PICK j \in Jobs, s \in Spy!States : Spy!AddJob(j, s)
  BY <1>1, <1>2 DEF Spy!Next
<1> DEFINE matching == Matching(j, s)
           kept == Kept(promises, matching)
<1>4. PICK q \in DOMAIN promises : promises[q] = w
  BY DEF Spy!Listed, Spy!Range
<1>5. ~ Spy!Matches(w, j, s)
  BY <1>3, <1>4, JobsAssumption DEF Spy!AddJob
<1>6. q \notin kept
  <2>1. \A i \in kept : \E n \in DOMAIN promises' : promises'[n] = promises[i]
    BY <1>3, AddJobSplices DEF Leaves
  <2>2. QED
    BY <2>1, <1>4 DEF Spy!Listed, Spy!Range
<1>7. PICK i \in matching : q = i + Cardinality(Before(matching, i))
  BY <1>6 DEF Kept, Gone, Before
<1>8. Before(matching, i) # {}
  <2>1. SUFFICES ASSUME Before(matching, i) = {} PROVE FALSE
    OBVIOUS
  <2>2. Cardinality(Before(matching, i)) = 0
    BY <2>1, FS_EmptySet
  <2>3. q = i
    BY <2>2, <1>7 DEF Matching, Spy!IInv, Spy!TypeOK
  <2>4. QED
    BY <2>3, <1>4, <1>5 DEF Matching
<1>9. PICK k \in matching : k < i
  BY <1>8 DEF Before
<1>10. promises[i] # promises[k]
  BY <1>9 DEF Matching, Spy!IInv, Spy!ListedOnce, Spy!TypeOK
<1>11. /\ promises[i] \in Waiters /\ promises[k] \in Waiters
       /\ \A x \in {promises[i], promises[k]} : Spy!Listed(x) /\ Spy!Matches(x, j, s)
  BY DEF Matching, Spy!Listed, Spy!Range, Spy!IInv, Spy!TypeOK
<1>12. QED
  BY <1>3, <1>5, <1>10, <1>11

-----------------------------------------------------------------------------
(* The listeners in test mode *)

\* What the listeners of a worker in test mode rest on
Listening ==
    /\ ref \in [Processors -> Slots \cup {NoWorker}]
    /\ promise \in [Processors -> {"none", "registered", "connecting", "rejected"}]
    /\ listens \in [Slots -> BOOLEAN]
    /\ TestMode!StartedListens

\* Whatever is called while a worker connects, start() ends with its listeners.
LEMMA ListeningIsKept ==
    ASSUME Listening, TestMode!TestNext \/ UNCHANGED processorVars
    PROVE  Listening'
<1> USE JobsAssumption DEF Listening, TestMode!StartedListens
<1>1. ASSUME NEW p \in Processors, TestMode!Start(p)
      PROVE  Listening'
  BY <1>1 DEF TestMode!Start, TestMode!workerVars
<1>2. ASSUME NEW p \in Processors, TestMode!Connected(p)
      PROVE  Listening'
  <2>1. ref' = ref
    BY <1>2 DEF TestMode!Connected
  <2>2. CASE promise' = [promise EXCEPT ![p] = "none"]
             /\ listens' = [w \in Slots |-> listens[w] \/ ref[p] = w]
    BY <2>1, <2>2
  <2>3. CASE promise' = [promise EXCEPT ![p] = "rejected"] /\ listens' = listens
    BY <2>1, <2>3
  <2>4. QED
    BY <1>2, <2>2, <2>3 DEF TestMode!Connected
<1>3. ASSUME NEW p \in Processors, TestMode!Build(p)
      PROVE  Listening'
  BY <1>3 DEF TestMode!Build
<1>4. ASSUME NEW p, ref' = ref \/ ref' = [ref EXCEPT ![p] = NoWorker],
             promise' = promise, listens' = listens
      PROVE  Listening'
  BY <1>4
<1>5. ASSUME NEW p \in Processors, TestMode!Dispose(p) \/ TestMode!Closed(p)
      PROVE  Listening'
  BY <1>4, <1>5 DEF TestMode!Dispose, TestMode!Closed, TestMode!Drain, TestMode!Forget
<1>6. ASSUME NEW w \in Slots, TestMode!Fetch(w) \/ TestMode!JobEnds(w)
      PROVE  Listening'
  BY <1>6 DEF TestMode!Fetch, TestMode!JobEnds
<1>7. ASSUME NEW h \in Jobs, TestMode!HookSettles(h)
      PROVE  Listening'
  BY <1>4, <1>7 DEF TestMode!HookSettles, TestMode!Forget
<1>8. CASE UNCHANGED processorVars
  BY <1>8 DEF processorVars
<1>9. QED
  BY <1>1, <1>2, <1>3, <1>5, <1>6, <1>7, <1>8 DEF TestMode!TestNext, TestMode!Next

-----------------------------------------------------------------------------
(* All of them *)

\* The components have no state in common: their invariants hold side by side.
JobsInv ==
    /\ Execution!IInv
    /\ Spy!IInv
    /\ Listening

allVars == <<part, vars, executionVars, spyVars, processorVars>>

\* The invariant of the composed specification
THEOREM JobsInvariant == MCSpec => []JobsInv
<1>1. MCInit => JobsInv
  <2> SUFFICES ASSUME MCInit PROVE JobsInv
    OBVIOUS
  <2>2. Listening
    BY JobsAssumption DEF MCInit, TestMode!Init, Listening, TestMode!StartedListens
  <2>3. QED
    BY <2>2, ExecutionBegins, SpyBegins DEF MCInit, JobsInv
<1>2. JobsInv /\ [MCNext]_allVars => JobsInv'
  <2> SUFFICES ASSUME JobsInv, [MCNext]_allVars PROVE JobsInv'
    OBVIOUS
  <2>1. Execution!IInv'
    BY ExecutionKeepsInv DEF JobsInv, MCNext, allVars
  <2>2. Spy!IInv'
    BY SpyKeepsInv DEF JobsInv, MCNext, allVars
  <2>3. Listening'
    BY ListeningIsKept DEF JobsInv, MCNext, allVars
  <2>4. QED
    BY <2>1, <2>2, <2>3 DEF JobsInv
<1>3. QED
  BY <1>1, <1>2, PTL DEF MCSpec, allVars

\* A hook tells how its round of the job ended, each round is told at most once, an end
\* goes untold only for a reason of EndsAreTold and only the payload of a completed job is
\* purged: for any workers, attempts, stalls, retries and deaths, whenever the events are
\* heard.
THEOREM HooksAreCalled == MCSpec => []HooksTellState
<1>1. JobsInv => HooksTellState
  BY DEF JobsInv, HooksTellState, Execution!IInv
<1>2. QED
  BY <1>1, JobsInvariant, PTL

\* A listed wait is for something that was not recorded, for any jobs and waits.
THEOREM NoListedWaitIsMissed == MCSpec => []ListedIsUnanswered
<1>1. JobsInv => ListedIsUnanswered
  BY DEF JobsInv, ListedIsUnanswered, Spy!IInv
<1>2. QED
  BY <1>1, JobsInvariant, PTL

\* A worker that start() returned for listens to its events, in test mode as well.
THEOREM StartedWorkersListen == MCSpec => []StartedListens
<1>1. JobsInv => StartedListens
  BY DEF JobsInv, Listening, StartedListens
<1>2. QED
  BY <1>1, JobsInvariant, PTL

\* The list loses an unanswered wait only in addJob, when two other waits match.
THEOREM WaitsAreLostBySplices == MCSpec => LossNeedsTwoMatches
<1> DEFINE Step ==
        \A w \in Waiters :
            answer[w] = "pending" /\ Spy!Listed(w) /\ ~ Spy!Listed(w)' /\ answer'[w] = "pending" =>
                \E j \in Jobs, s \in Spy!States :
                    /\ Spy!AddJob(j, s) /\ ~ Spy!Matches(w, j, s)
                    /\ \E u, v \in Waiters :
                          u # v /\ \A x \in {u, v} : Spy!Listed(x) /\ Spy!Matches(x, j, s)
<1>1. JobsInv /\ [MCNext]_allVars => [Step]_(Spy!vars)
  <2> SUFFICES ASSUME JobsInv, [MCNext]_allVars PROVE Step \/ UNCHANGED Spy!vars
    OBVIOUS
  <2>1. CASE Spy!Next
    BY <2>1, OnlySplicesLose DEF JobsInv
  <2>2. CASE UNCHANGED spyVars
    BY <2>2 DEF spyVars, Spy!vars
  <2>3. QED
    BY <2>1, <2>2 DEF MCNext, allVars
<1>2. QED
  BY <1>1, JobsInvariant, PTL DEF MCSpec, LossNeedsTwoMatches, Spy!LossNeedsTwoMatches, allVars
=============================================================================
