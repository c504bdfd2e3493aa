---------------------- MODULE ProcessorLifecycleProofs ----------------------
(***************************************************************************)
(* Registration, draining and exclusiveness of the processors of a queue,  *)
(* for any number of processors, workers and hooks, outside test mode      *)
(* (which closes its workers by force).                                    *)
(***************************************************************************)
EXTENDS ProcessorLifecycle, TLAPS

\* The variables keep their types through every start, disposal, job and hook.
THEOREM LifecycleTypes == Spec => []TypeOK
<1>1. Init => TypeOK
  <2> SUFFICES ASSUME Init PROVE TypeOK
    OBVIOUS
  <2>1. jobs \in [Workers -> 0 .. Concurrency]
    BY LifecycleAssumption DEF Init
  <2>2. drains \in [Processors -> SUBSET (SUBSET Hooks)]
    BY DEF Init
  <2>3. QED
    BY <2>1, <2>2 DEF Init, TypeOK
<1>2. TypeOK /\ [Next]_vars => TypeOK'
  <2> SUFFICES ASSUME TypeOK, [Next]_vars PROVE TypeOK'
    OBVIOUS
  <2> USE LifecycleAssumption DEF TypeOK, workerVars
  <2>a. ASSUME NEW p \in Processors, Drain(p)
        PROVE  /\ active' \in BOOLEAN
               /\ ref' \in [Processors -> Workers \cup {NoWorker}]
               /\ drains' \in [Processors -> SUBSET (SUBSET Hooks)]
    <3>1. {Running(p)} \in SUBSET (SUBSET Hooks)
      BY DEF Running
    <3>2. drains[p] \cup {Running(p)} \in SUBSET (SUBSET Hooks)
      BY <3>1
    <3>3. CASE Running(p) = {}
      BY <2>a, <3>3 DEF Drain, Forget
    <3>4. CASE Running(p) # {}
      <4>1. UNCHANGED <<ref, active>>
            /\ drains' = [drains EXCEPT ![p] = @ \cup {Running(p)}]
        BY <2>a, <3>4 DEF Drain
      <4>2. QED
        BY <3>2, <4>1
    <3>5. QED
      BY <3>3, <3>4
  <2>1. ASSUME NEW p \in Processors, Start(p) PROVE TypeOK'
    BY <2>1 DEF Start
  <2>2. ASSUME NEW p \in Processors, Build(p) PROVE TypeOK'
    BY <2>2 DEF Build
  <2>3. ASSUME NEW p \in Processors, Dispose(p) PROVE TypeOK'
    BY <2>a, <2>3 DEF Dispose
  <2>4. ASSUME NEW p \in Processors, Closed(p) PROVE TypeOK'
    BY <2>a, <2>4 DEF Closed
  <2>5. ASSUME NEW w \in Workers, Fetch(w) \/ JobEnds(w) PROVE TypeOK'
    BY <2>5 DEF Fetch, JobEnds
  <2>6. ASSUME NEW h \in Hooks, HookSettles(h) PROVE TypeOK'
    <3> DEFINE p == builder[hook[h]]
               left == {s \ {h} : s \in drains[p]}
    <3>1. p \in Processors /\ left \ {{}} \in SUBSET (SUBSET Hooks)
      BY <2>6 DEF HookSettles
    <3>2. drains' = [drains EXCEPT ![p] = left \ {{}}]
      BY <2>6 DEF HookSettles
    <3>3. drains' \in [Processors -> SUBSET (SUBSET Hooks)]
      BY <3>1, <3>2
    <3>4. active' \in BOOLEAN /\ ref' \in [Processors -> Workers \cup {NoWorker}]
      BY <2>6, <3>1 DEF HookSettles, Forget
    <3>5. QED
      BY <2>6, <3>3, <3>4 DEF HookSettles
  <2>7. CASE UNCHANGED vars
    BY <2>7 DEF vars
  <2>8. QED
    BY <2>1, <2>2, <2>3, <2>4, <2>5, <2>6, <2>7 DEF Next
<1>3. QED
  BY <1>1, <1>2, PTL DEF Spec

Inv == RegistrationOwned /\ NoOrphan /\ DrainsAwaitAll /\ RefsMatch

\* Starting: the id is claimed by a processor that had no claim, and only if
\* nobody had one; the worker is built for the one that claims.
LEMMA StartKeepsInv ==
    ASSUME IsTest = FALSE, TypeOK, Inv,
           NEW p \in Processors, Start(p) \/ Build(p)
    PROVE  Inv'
<1> USE LifecycleAssumption DEF TypeOK, Inv
<1>1. CASE Start(p)
  <2> USE <1>1 DEF Start, workerVars
  <2>1. RegistrationOwned'
    BY DEF RegistrationOwned, Claims
  <2>2. NoOrphan'
    BY DEF NoOrphan, Busy
  <2>3. DrainsAwaitAll'
    BY DEF DrainsAwaitAll, Running
  <2>4. RefsMatch'
    BY DEF RefsMatch
  <2>5. QED
    BY <2>1, <2>2, <2>3, <2>4
<1>2. CASE Build(p)
  <2>1. PICK w \in Workers :
          /\ worker[w] = "closed" /\ ~Busy(w) /\ \A q \in Processors : ref[q] # w
          /\ ref' = [ref EXCEPT ![p] = w]
          /\ builder' = [builder EXCEPT ![w] = p]
          /\ worker' = [worker EXCEPT ![w] = "open"]
    BY <1>2 DEF Build
  <2>2. /\ promise[p] = "registered" /\ ref[p] = NoWorker
        /\ promise' = [promise EXCEPT ![p] = "none"]
        /\ UNCHANGED <<active, jobs, hook, drains>>
    BY <1>2 DEF Build, RefsMatch
  <2>3. RegistrationOwned'
    BY <2>1, <2>2 DEF RegistrationOwned, Claims
  <2>4. NoOrphan'
    BY <2>1, <2>2 DEF NoOrphan, Busy
  <2>5. DrainsAwaitAll'
    <3>1. \A q \in Processors : Running(q)' = Running(q)
      BY <2>1, <2>2 DEF Running, Busy
    <3>2. QED
      BY <2>1, <2>2, <3>1 DEF DrainsAwaitAll
  <2>6. RefsMatch'
    BY <2>1, <2>2 DEF RefsMatch
  <2>7. QED
    BY <2>3, <2>4, <2>5, <2>6
<1>3. QED
  BY <1>1, <1>2

\* Closing: a worker is closed when its jobs have ended, and forgotten at once
\* only if none of its hooks is running.
LEMMA DisposeKeepsInv ==
    ASSUME IsTest = FALSE, TypeOK, Inv,
           NEW p \in Processors, Dispose(p) \/ Closed(p)
    PROVE  Inv'
<1> USE LifecycleAssumption DEF TypeOK, Inv
<1>1. CASE Dispose(p) /\ ref[p] = NoWorker
  BY <1>1 DEF Dispose, RegistrationOwned, Claims, NoOrphan, Busy, DrainsAwaitAll,
              Running, RefsMatch
<1>2. CASE Dispose(p) /\ ref[p] # NoWorker /\ worker[ref[p]] = "closed"
  <2>1. Running(p) # {} /\ drains[p] = {Running(p)}
    BY <1>2 DEF DrainsAwaitAll
  <2>2. UNCHANGED <<active, ref, promise, builder, worker, jobs, hook, drains>>
    <3>1. UNCHANGED <<promise, builder, worker, jobs, hook>> /\ Drain(p)
      BY <1>2 DEF Dispose
    <3>2. UNCHANGED <<ref, active>> /\ drains' = [drains EXCEPT ![p] = @ \cup {Running(p)}]
      BY <2>1, <3>1 DEF Drain
    <3>3. drains[p] \cup {Running(p)} = drains[p]
      BY <2>1
    <3>4. QED
      BY <3>1, <3>2, <3>3
  <2>3. QED
    BY <2>2 DEF RegistrationOwned, Claims, NoOrphan, Busy, DrainsAwaitAll,
                Running, RefsMatch
<1>3. CASE Dispose(p) /\ ref[p] # NoWorker /\ worker[ref[p]] # "closed"
  <2>1. /\ worker' = [worker EXCEPT ![ref[p]] = "closing"]
        /\ UNCHANGED <<active, ref, promise, builder, jobs, hook, drains>>
    BY <1>3 DEF Dispose
  <2>2. RegistrationOwned' /\ RefsMatch'
    BY <2>1 DEF RegistrationOwned, Claims, RefsMatch
  <2>3. NoOrphan'
    BY <1>3, <2>1 DEF NoOrphan, Busy
  <2>4. DrainsAwaitAll'
    BY <1>3, <2>1 DEF DrainsAwaitAll, Running
  <2>5. QED
    BY <2>2, <2>3, <2>4
<1>4. CASE Closed(p)
  <2> DEFINE w == ref[p]
  <2>1. /\ w \in Workers /\ worker[w] = "closing" /\ jobs[w] = 0
        /\ worker' = [worker EXCEPT ![w] = "closed"]
        /\ Drain(p)
        /\ UNCHANGED <<promise, builder, jobs, hook>>
    BY <1>4 DEF Closed
  <2>2. builder[w] = p /\ drains[p] = {}
    BY <2>1 DEF RefsMatch, DrainsAwaitAll
  <2>3. \A q \in Processors : Running(q)' = Running(q)
    BY <2>1 DEF Running
  <2>4. CASE Running(p) = {}
    <3>1. /\ ref' = [ref EXCEPT ![p] = NoWorker] /\ active' = FALSE
          /\ UNCHANGED drains
      BY <2>1, <2>4 DEF Drain, Forget
    <3>2. \A h \in Hooks : hook[h] # w
      BY <2>1, <2>2, <2>4 DEF Running
    <3>3. RegistrationOwned'
      BY <2>1, <3>1 DEF RegistrationOwned, Claims, RefsMatch
    <3>4. NoOrphan'
      BY <2>1, <2>2, <3>1, <3>2 DEF NoOrphan, Busy
    <3>5. DrainsAwaitAll'
      <4>1. ASSUME NEW q \in Processors, q # p, ref[q] # NoWorker
            PROVE  ref'[q] = ref[q] /\ ref[q] # w
        BY <2>1, <2>2, <3>1, <4>1 DEF RefsMatch
      <4>2. QED
        BY <2>1, <2>2, <2>3, <3>1, <4>1 DEF DrainsAwaitAll
    <3>6. RefsMatch'
      BY <2>1, <3>1 DEF RefsMatch
    <3>7. QED
      BY <3>3, <3>4, <3>5, <3>6
  <2>5. CASE Running(p) # {}
    <3>1. /\ drains' = [drains EXCEPT ![p] = {Running(p)}]
          /\ UNCHANGED <<ref, active>>
      BY <2>1, <2>2, <2>5 DEF Drain
    <3>2. RegistrationOwned' /\ RefsMatch'
      BY <2>1, <3>1 DEF RegistrationOwned, Claims, RefsMatch
    <3>3. NoOrphan'
      BY <2>1, <3>1 DEF NoOrphan, Busy
    <3>4. DrainsAwaitAll'
      <4>1. ASSUME NEW q \in Processors, q # p, ref[q] # NoWorker
            PROVE  ref[q] # w
        BY <2>1, <2>2, <4>1 DEF RefsMatch
      <4>2. QED
        BY <2>1, <2>3, <2>5, <3>1, <4>1 DEF DrainsAwaitAll
    <3>5. QED
      BY <3>2, <3>3, <3>4
  <2>6. QED
    BY <2>4, <2>5
<1>5. QED
  BY <1>1, <1>2, <1>3, <1>4

\* Working: jobs are only fetched by referenced workers, so their hooks belong to
\* one too; a drain ends with the last hook it awaits.
LEMMA WorkKeepsInv ==
    ASSUME IsTest = FALSE, TypeOK, Inv,
           \/ \E w \in Workers : Fetch(w) \/ JobEnds(w)
           \/ \E h \in Hooks : HookSettles(h)
    PROVE  Inv'
<1> USE LifecycleAssumption DEF TypeOK, Inv
<1>1. ASSUME NEW w \in Workers, Fetch(w) \/ JobEnds(w)
      PROVE  Inv'
  <2>1. UNCHANGED <<active, ref, promise, builder, worker, drains>>
    BY <1>1 DEF Fetch, JobEnds
  <2>2. (jobs[w] > 0 \/ worker[w] = "open") /\ ref[builder[w]] = w
    BY <1>1 DEF Fetch, JobEnds, NoOrphan, Busy
  <2>3. worker[w] # "closed"
    BY <2>2 DEF DrainsAwaitAll
  <2>4. \A v \in Workers : v # w => jobs'[v] = jobs[v]
    BY <1>1 DEF Fetch, JobEnds
  <2>5. \A h \in Hooks : hook'[h] = hook[h] \/ (hook[h] = NoWorker /\ hook'[h] = w)
    BY <1>1 DEF Fetch, JobEnds
  <2>6. RegistrationOwned' /\ RefsMatch'
    BY <2>1 DEF RegistrationOwned, Claims, RefsMatch
  <2>7. NoOrphan'
    <3>1. ASSUME NEW v \in Workers, v # w, Busy(v)' PROVE Busy(v)
      BY <2>4, <2>5, <3>1 DEF Busy
    <3>2. QED
      BY <2>1, <2>2, <3>1 DEF NoOrphan
  <2>8. DrainsAwaitAll'
    <3>1. ASSUME NEW q \in Processors, ref[q] # NoWorker, worker[ref[q]] = "closed"
          PROVE  Running(q)' = Running(q) /\ jobs'[ref[q]] = jobs[ref[q]]
      <4>1. q # builder[w] /\ ref[q] # w
        BY <2>2, <2>3, <3>1
      <4>2. Running(q)' = Running(q)
        BY <2>1, <2>5, <4>1 DEF Running
      <4>3. QED
        BY <2>4, <3>1, <4>1, <4>2
    <3>2. QED
      BY <2>1, <3>1 DEF DrainsAwaitAll
  <2>9. QED
    BY <2>6, <2>7, <2>8
<1>2. ASSUME NEW h \in Hooks, HookSettles(h)
      PROVE  Inv'
  <2>a. PICK w \in Workers, p \in Processors : w = hook[h] /\ p = builder[w]
    BY <1>2 DEF HookSettles
  <2> DEFINE left == {s \ {h} : s \in drains[p]}
  <2>1. /\ w \in Workers /\ p \in Processors
        /\ hook' = [hook EXCEPT ![h] = NoWorker]
        /\ drains' = [drains EXCEPT ![p] = left \ {{}}]
        /\ IF {} \in left THEN Forget(p) ELSE UNCHANGED <<ref, active>>
        /\ UNCHANGED <<promise, builder, worker, jobs>>
    BY <1>2, <2>a DEF HookSettles
  <2>2. ref[p] = w
    BY <2>a, <2>1 DEF NoOrphan, Busy
  <2>3. /\ h \in Running(p)
        /\ Running(p)' = Running(p) \ {h}
        /\ \A q \in Processors : q # p => Running(q)' = Running(q)
    <3>1. h \in Running(p)
      BY <2>a, <2>1 DEF Running
    <3>2. Running(p)' = Running(p) \ {h}
      BY <2>a, <2>1 DEF Running
    <3>3. ASSUME NEW q \in Processors, q # p PROVE Running(q)' = Running(q)
      BY <2>a, <2>1, <3>3 DEF Running
    <3>4. QED
      BY <3>1, <3>2, <3>3
  <2>4. CASE worker[w] = "closed" /\ Running(p) = {h}
    <3>1. jobs[w] = 0 /\ drains[p] = {Running(p)}
      <4>1. ref[p] \in Workers /\ ref[p] # NoWorker /\ worker[ref[p]] = "closed"
        BY <2>1, <2>2, <2>4
      <4>2. QED
        BY <2>1, <2>2, <4>1 DEF DrainsAwaitAll
    <3>2. left = {{}}
      BY <2>4, <3>1
    <3>3. /\ ref' = [ref EXCEPT ![p] = NoWorker] /\ active' = FALSE
          /\ drains' = [drains EXCEPT ![p] = {}]
      BY <2>1, <3>2 DEF Forget
    <3>4. \A g \in Hooks : hook'[g] # w
      BY <2>a, <2>1, <2>4 DEF Running
    <3>5. RegistrationOwned'
      BY <2>1, <2>2, <3>3 DEF RegistrationOwned, Claims, RefsMatch
    <3>6. NoOrphan'
      BY <2>1, <2>2, <2>4, <3>1, <3>3, <3>4 DEF NoOrphan, Busy
    <3>7. DrainsAwaitAll'
      BY <2>1, <2>3, <3>3 DEF DrainsAwaitAll
    <3>8. RefsMatch'
      BY <2>1, <3>3 DEF RefsMatch
    <3>9. QED
      BY <3>5, <3>6, <3>7, <3>8
  <2>5. CASE ~(worker[w] = "closed" /\ Running(p) = {h})
    <3>1. {} \notin left /\ UNCHANGED <<ref, active>>
      <4>1. CASE worker[w] = "closed"
        <5>1. drains[p] = {Running(p)} /\ Running(p) # {h} /\ h \in Running(p)
          BY <2>1, <2>2, <2>3, <2>5, <4>1 DEF DrainsAwaitAll
        <5>2. {} \notin left
          BY <5>1
        <5>3. QED
          BY <2>1, <5>2
      <4>2. CASE worker[w] # "closed"
        <5>1. drains[p] = {}
          BY <2>1, <2>2, <4>2 DEF DrainsAwaitAll
        <5>2. QED
          BY <2>1, <5>1
      <4>3. QED
        BY <4>1, <4>2
    <3>2. RegistrationOwned' /\ RefsMatch'
      BY <2>1, <3>1 DEF RegistrationOwned, Claims, RefsMatch
    <3>3. NoOrphan'
      BY <2>1, <3>1 DEF NoOrphan, Busy
    <3>4. DrainsAwaitAll'
      <4>1. drains'[p] = {s \ {h} : s \in drains[p]}
        BY <2>1, <3>1
      <4>2. CASE worker[w] = "closed"
        <5>1. drains[p] = {Running(p)} /\ jobs[w] = 0 /\ Running(p)' # {}
          BY <2>1, <2>2, <2>3, <2>5, <4>2 DEF DrainsAwaitAll
        <5>2. drains'[p] = {Running(p)'}
          BY <2>3, <4>1, <5>1
        <5>3. \A q \in Processors : q # p => drains'[q] = drains[q]
          BY <2>1
        <5>4. UNCHANGED <<ref, worker, jobs>>
          BY <2>1, <3>1
        <5>5. QED
          BY <2>2, <2>3, <5>1, <5>2, <5>3, <5>4 DEF DrainsAwaitAll
      <4>3. CASE worker[w] # "closed"
        <5>1. drains'[p] = {}
          BY <2>1, <2>2, <4>1, <4>3 DEF DrainsAwaitAll
        <5>2. QED
          BY <2>1, <2>2, <2>3, <3>1, <4>3, <5>1 DEF DrainsAwaitAll
      <4>4. QED
        BY <4>2, <4>3
    <3>5. QED
      BY <3>2, <3>3, <3>4
  <2>6. QED
    BY <2>4, <2>5
<1>3. QED
  BY <1>1, <1>2

\* The four parts of the invariant hold together for ever.
THEOREM LifecycleInvariant ==
    ASSUME IsTest = FALSE
    PROVE  Spec => []Inv
<1>1. Init => Inv
  BY LifecycleAssumption
     DEF Init, Inv, RegistrationOwned, Claims, NoOrphan, Busy, DrainsAwaitAll, RefsMatch
<1>2. TypeOK /\ Inv /\ [Next]_vars => Inv'
  <2> SUFFICES ASSUME TypeOK, Inv, [Next]_vars PROVE Inv'
    OBVIOUS
  <2>1. ASSUME NEW p \in Processors, Start(p) \/ Build(p) PROVE Inv'
    BY <2>1, IsTest = FALSE, StartKeepsInv
  <2>2. ASSUME NEW p \in Processors, Dispose(p) \/ Closed(p) PROVE Inv'
    BY <2>2, IsTest = FALSE, DisposeKeepsInv
  <2>3. CASE \/ \E w \in Workers : Fetch(w) \/ JobEnds(w)
             \/ \E h \in Hooks : HookSettles(h)
    BY <2>3, IsTest = FALSE, WorkKeepsInv
  <2>4. CASE UNCHANGED vars
    BY <2>4 DEF vars, Inv, RegistrationOwned, Claims, NoOrphan, Busy, DrainsAwaitAll,
                Running, RefsMatch
  <2>5. QED
    BY <2>1, <2>2, <2>3, <2>4 DEF Next
<1>3. QED
  BY <1>1, <1>2, LifecycleTypes, PTL DEF Spec

\* The queue id is registered exactly while one processor claims it.
THEOREM RegistrationIsOwned ==
    ASSUME IsTest = FALSE
    PROVE  Spec => []RegistrationOwned
<1>1. Inv => RegistrationOwned
  BY DEF Inv
<1>2. QED
  BY <1>1, LifecycleInvariant, IsTest = FALSE, PTL

\* Two workers of the process are never alive on the queue together: not while
\* one drains, nor through refused starts and overlapping disposals.
THEOREM WorkersAreExclusive ==
    ASSUME IsTest = FALSE
    PROVE  Spec => []OneWorkerPerQueue
<1>1. TypeOK /\ Inv => OneWorkerPerQueue
  <2> SUFFICES ASSUME TypeOK, Inv,
                      NEW v \in Workers, NEW w \in Workers,
                      worker[v] # "closed" \/ Busy(v), worker[w] # "closed" \/ Busy(w)
               PROVE  v = w
    BY DEF OneWorkerPerQueue
  <2>1. ref[builder[v]] = v /\ ref[builder[w]] = w
    BY DEF Inv, NoOrphan
  <2>2. Claims(builder[v]) /\ Claims(builder[w])
    BY <2>1, LifecycleAssumption DEF Claims
  <2>3. builder[v] = builder[w]
    BY <2>2 DEF Inv, RegistrationOwned, TypeOK
  <2>4. QED
    BY <2>1, <2>3
<1>2. QED
  BY <1>1, LifecycleTypes, LifecycleInvariant, IsTest = FALSE, PTL

\* dispose() forgets a worker only when its jobs have ended and all of their
\* hooks have settled (runningPromises).
THEOREM DisposalsDrain ==
    ASSUME IsTest = FALSE
    PROVE  Spec => DisposeDrains
<1> DEFINE Drained(p, w) == ref[p] = w /\ ref'[p] # w => worker'[w] = "closed" /\ ~Busy(w)'
           Step == \A p \in Processors, w \in Workers : Drained(p, w)
<1>1. TypeOK /\ TypeOK' /\ Inv /\ Inv' /\ [Next]_vars => [Step]_vars
  <2> SUFFICES ASSUME TypeOK, TypeOK', Inv, Inv', [Next]_vars,
                      NEW p \in Processors, NEW w \in Workers, ref[p] = w, ref'[p] # w
               PROVE  worker'[w] = "closed" /\ ~Busy(w)'
    OBVIOUS
  <2>1. ref[p] # NoWorker /\ builder[w] = p
    BY LifecycleAssumption DEF Inv, RefsMatch
  <2>2. builder'[w] = p
    <3>1. ASSUME NEW q \in Processors, Build(q)
          PROVE  builder'[w] = p
      BY <2>1, <3>1 DEF Build, TypeOK
    <3>2. ASSUME NEW q \in Processors,
                 Start(q) \/ Dispose(q) \/ Closed(q)
          PROVE  builder'[w] = p
      BY <2>1, <3>2 DEF Start, Dispose, Closed, workerVars
    <3>3. CASE \/ \E v \in Workers : Fetch(v) \/ JobEnds(v)
               \/ \E h \in Hooks : HookSettles(h)
      BY <2>1, <3>3 DEF Fetch, JobEnds, HookSettles
    <3>4. CASE UNCHANGED vars
      BY <2>1, <3>4 DEF vars
    <3>5. QED
      BY <3>1, <3>2, <3>3, <3>4 DEF Next
  <2>3. QED
    BY <2>2 DEF Inv, NoOrphan
<1>2. QED
  BY <1>1, LifecycleTypes, LifecycleInvariant, IsTest = FALSE, PTL DEF Spec, DisposeDrains
=============================================================================
