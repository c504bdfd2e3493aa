----------------------------- MODULE DataProofs -----------------------------
(***************************************************************************)
(* For any deploys, migrations, polls, pages, retries, processors, metrics *)
(* and checks: the inductive invariants of the parts that MCData puts side *)
(* by side, and what the runs check of them. And for any options, headers, *)
(* environments, topics, queues and updates: what the algorithms of        *)
(* Delays, AwsConfig and BulkUpdate make of them.                          *)
(***************************************************************************)
EXTENDS MCData, FiniteSetTheorems, SequenceTheorems, NaturalsInduction, WellFoundedInduction, TLAPS

-----------------------------------------------------------------------------
(* The baseline of the migrations *)

\* Each variable keeps its type.
THEOREM BaselineTypes == Spec => []TypeOK
<1> USE BaselineAssumption DEF All
<1>1. Init => TypeOK
  BY DEF Init, TypeOK
<1>2. TypeOK /\ [Next]_vars => TypeOK'
  <2> SUFFICES ASSUME TypeOK, [Next]_vars PROVE TypeOK'
    OBVIOUS
  <2> USE DEF TypeOK, Goto
  <2>1. CASE AddMigration
    BY <2>1 DEF AddMigration
  <2>2. ASSUME NEW d \in Deploys, ReadEntries(d) PROVE TypeOK'
    BY <2>2 DEF ReadEntries
  <2>3. ASSUME NEW d \in Deploys, Probe(d) PROVE TypeOK'
    BY <2>3 DEF Probe
  <2>4. ASSUME NEW d \in Deploys, FetchRecorded(d) PROVE TypeOK'
    BY <2>4 DEF FetchRecorded, Recorded
  <2>5. ASSUME NEW d \in Deploys, Insert(d) PROVE TypeOK'
    BY <2>5 DEF Insert, Missing
  <2>6. ASSUME NEW d \in Deploys, Baselined(d) PROVE TypeOK'
    BY <2>6 DEF Baselined
  <2>7. ASSUME NEW d \in Deploys, Migrate(d) PROVE TypeOK'
    <3>1. Pending(d) \subseteq 1 .. Migrations
      BY DEF Pending
    <3>2. CASE Pending(d) \cap built = {}
      <4>1. built' \subseteq 1 .. Migrations
        BY <2>7, <3>1, <3>2 DEF Migrate
      <4>2. rows' \in [1 .. Migrations -> Nat]
        <5>1. rows' = [m \in 1 .. Migrations |-> IF m \in Pending(d) THEN 1 ELSE rows[m]]
          BY <2>7, <3>2 DEF Migrate
        <5>2. \A m \in 1 .. Migrations : rows[m] \in Nat
          OBVIOUS
        <5> QED
          BY <5>1, <5>2
      <4> QED
        BY <2>7, <3>2, <4>1, <4>2 DEF Migrate
    <3>3. CASE Pending(d) \cap built # {}
      BY <2>7, <3>3 DEF Migrate
    <3> QED
      BY <3>2, <3>3
  <2>8. ASSUME NEW d \in Deploys, Abort(d) PROVE TypeOK'
    BY <2>8 DEF Abort
  <2>9. CASE UNCHANGED vars
    BY <2>9 DEF vars
  <2> QED
    BY <2>1, <2>2, <2>3, <2>4, <2>5, <2>6, <2>7, <2>8, <2>9 DEF Next
<1> QED
  BY <1>1, <1>2, PTL DEF Spec

-----------------------------------------------------------------------------
(* Migrate never meets a table that exists *)

\* A table is there because its migration is recorded or because it is legacy.
TablesExplained ==
    /\ Existing => Legacy \subseteq built
    /\ built \subseteq Recorded \cup (IF Existing THEN Legacy ELSE {})

\* What a deploy knows when it reaches migrate: either it recorded all that it
\* would run, or the database holds nothing but recorded migrations.
Prepared ==
    \A d \in Deploys :
        /\ pc[d] = "insert" => recorded[d] \subseteq Recorded
        /\ pc[d] = "migrate" => entries[d] \subseteq Recorded \/ built \subseteq Recorded

BaselineInv == TypeOK /\ TablesExplained /\ Prepared /\ NeverCollides

\* Rows are never deleted, and tables appear only with their rows.
LEMMA RowsStay ==
    ASSUME TypeOK, TypeOK', [Next]_vars
    PROVE  /\ Recorded \subseteq Recorded'
           /\ built \subseteq built'
           /\ built' \subseteq built \cup Recorded'
<1> USE DEF TypeOK, Recorded, All
<1>1. ASSUME NEW d \in Deploys, Insert(d)
      PROVE  Recorded \subseteq Recorded' /\ built' = built
  BY <1>1 DEF Insert, Missing
<1>2. ASSUME NEW d \in Deploys, Migrate(d)
      PROVE  /\ Recorded \subseteq Recorded' /\ built \subseteq built'
             /\ built' \subseteq built \cup Recorded'
  <2>1. CASE Pending(d) \cap built = {}
    <3>1. /\ built' = built \cup Pending(d)
          /\ \A m \in All : rows'[m] = IF m \in Pending(d) THEN 1 ELSE rows[m]
      BY <1>2, <2>1 DEF Migrate
    <3>2. Pending(d) \subseteq All
      BY DEF Pending
    <3> QED
      BY <3>1, <3>2
  <2>2. CASE Pending(d) \cap built # {}
    BY <1>2, <2>2 DEF Migrate
  <2> QED
    BY <2>1, <2>2
<1>3. CASE UNCHANGED <<rows, built>>
  BY <1>3
<1> QED
  BY <1>1, <1>2, <1>3 DEF Next, vars, AddMigration, ReadEntries, Probe, FetchRecorded,
     Baselined, Abort

\* The inductive invariant behind NeverCollides.
THEOREM BaselineInvariant == Spec => []BaselineInv
<1>1. Init => BaselineInv
  BY BaselineAssumption DEF Init, BaselineInv, TypeOK, TablesExplained, Prepared,
     NeverCollides, Recorded, All
<1>2. ASSUME BaselineInv, TypeOK', [Next]_vars PROVE BaselineInv'
  <2>0. /\ Recorded \subseteq Recorded' /\ built \subseteq built'
        /\ built' \subseteq built \cup Recorded'
    BY <1>2, RowsStay DEF BaselineInv
  <2>1. TablesExplained'
    BY <1>2, <2>0 DEF BaselineInv, TablesExplained
  <2>2. ASSUME NEW d \in Deploys, pc'[d] = "insert" PROVE recorded'[d] \subseteq Recorded'
    <3> USE DEF BaselineInv, Prepared, TypeOK, Goto
    <3>1. CASE FetchRecorded(d)
      BY <1>2, <2>0, <2>2, <3>1 DEF FetchRecorded
    <3>2. CASE Insert(d)
      BY <1>2, <2>0, <2>2, <3>2 DEF Insert, Missing, Recorded, All
    <3>3. CASE pc[d] = "insert" /\ recorded'[d] = recorded[d]
      BY <1>2, <2>0, <3>3
    <3> QED
      BY <1>2, <2>2, <3>1, <3>2, <3>3 DEF Next, vars, AddMigration, ReadEntries, Probe,
         FetchRecorded, Insert, Baselined, Migrate, Abort
  <2>3. ASSUME NEW d \in Deploys, pc'[d] = "migrate"
        PROVE  entries'[d] \subseteq Recorded' \/ built' \subseteq Recorded'
    <3> USE DEF BaselineInv, TypeOK, Goto
    <3>1. CASE Probe(d)
      <4>1. entries'[d] = {} \/ built \cap Legacy = {}
        BY <1>2, <2>3, <3>1 DEF Probe
      <4>2. built \cap Legacy = {} => built \subseteq Recorded
        BY <1>2 DEF TablesExplained
      <4> QED
        BY <2>0, <4>1, <4>2
    <3>2. CASE Baselined(d)
      <4>1. entries'[d] \subseteq recorded[d]
        BY <3>2 DEF Baselined, Missing
      <4> QED
        BY <1>2, <2>0, <3>2, <4>1 DEF Prepared, Baselined
    <3>3. CASE pc[d] = "migrate" /\ entries'[d] = entries[d]
      BY <1>2, <2>0, <3>3 DEF Prepared
    <3> QED
      BY <1>2, <2>3, <3>1, <3>2, <3>3 DEF Next, vars, AddMigration, ReadEntries, Probe,
         FetchRecorded, Insert, Baselined, Migrate, Abort
  <2>4. ASSUME NEW d \in Deploys PROVE pc'[d] # "collided"
    <3> USE DEF BaselineInv, TypeOK, Goto, NeverCollides
    <3>1. CASE Migrate(d)
      <4>1. entries[d] \subseteq Recorded \/ built \subseteq Recorded
        BY <1>2, <3>1 DEF Prepared, Migrate
      <4>2. Pending(d) \cap built = {}
        BY <4>1 DEF Pending
      <4> QED
        BY <1>2, <3>1, <4>2 DEF Migrate
    <3>2. CASE ~Migrate(d)
      BY <1>2, <3>2 DEF Next, vars, AddMigration, ReadEntries, Probe,
         FetchRecorded, Insert, Baselined, Migrate, Abort
    <3> QED
      BY <3>1, <3>2
  <2> QED
    BY <1>2, <2>1, <2>2, <2>3, <2>4 DEF BaselineInv, Prepared, NeverCollides
<1> QED
  BY <1>1, <1>2, BaselineTypes, PTL DEF Spec

\* drizzle-kit migrate never fails on a table that exists, however many deploys
\* overlap, die and are repeated, and whatever is added to the folder.
THEOREM MigrateNeverCollides == Spec => []NeverCollides
<1>1. BaselineInv => NeverCollides
  BY DEF BaselineInv
<1> QED
  BY <1>1, BaselineInvariant, PTL

-----------------------------------------------------------------------------
(* Rows of one migration *)

\* The deploys that will insert m without knowing of the rows it has by then.
Unaware(m) == {d \in Deploys : pc[d] = "insert" /\ m \notin recorded[d]}

\* Every row of a migration cost one deploy its unawareness.
RowsAccounted == \A m \in All : rows[m] + Cardinality(Unaware(m)) <= Cardinality(Deploys)

\* Sets of deploys are counted by natural numbers, larger ones by larger numbers.
LEMMA DeploysCount ==
    ASSUME NEW S \in SUBSET Deploys, NEW T \in SUBSET S
    PROVE  /\ Cardinality(S) \in Nat /\ Cardinality(T) \in Nat
           /\ Cardinality(T) <= Cardinality(S)
           /\ S # T => Cardinality(T) + 1 <= Cardinality(S)
<1>1. IsFiniteSet(S) /\ IsFiniteSet(T)
  BY BaselineAssumption, FS_Subset
<1>2. Cardinality(S) \in Nat /\ Cardinality(T) \in Nat /\ Cardinality(T) <= Cardinality(S)
  BY <1>1, FS_CardinalityType, FS_Subset
<1>3. ASSUME S # T PROVE Cardinality(T) + 1 <= Cardinality(S)
  <2>1. Cardinality(T) # Cardinality(S)
    BY <1>1, <1>3, FS_Subset
  <2> QED
    BY <1>2, <2>1
<1> QED
  BY <1>2, <1>3

\* A step in which the unaware deploys of m only get fewer, and m gets a row only
\* for one of them.
LEMMA AccountKept ==
    ASSUME TypeOK, TypeOK', NEW m \in All,
           rows[m] + Cardinality(Unaware(m)) <= Cardinality(Deploys),
           Unaware(m)' \subseteq Unaware(m),
           \/ rows'[m] = rows[m]
           \/ rows'[m] = rows[m] + 1 /\ Unaware(m)' # Unaware(m)
    PROVE  rows'[m] + Cardinality(Unaware(m)') <= Cardinality(Deploys)
<1>1. Unaware(m) \in SUBSET Deploys /\ Unaware(m)' \in SUBSET Unaware(m)
  BY DEF Unaware
<1>2. rows[m] \in Nat /\ rows'[m] \in Nat
  BY DEF TypeOK
<1>3. /\ Cardinality(Unaware(m)) \in Nat /\ Cardinality(Unaware(m)') \in Nat
      /\ Cardinality(Unaware(m)') <= Cardinality(Unaware(m))
      /\ Unaware(m) # Unaware(m)' => Cardinality(Unaware(m)') + 1 <= Cardinality(Unaware(m))
  BY <1>1, DeploysCount
<1>4. Cardinality(Deploys) \in Nat
  BY DeploysCount
<1> QED
  BY <1>2, <1>3, <1>4

\* However deploys overlap, die and are repeated, a migration is recorded at most
\* once per deploy: once, when they do not overlap.
THEOREM RowsAreBounded == Spec => []RowsPerDeploy
<1>1. Init => RowsAccounted
  <2> SUFFICES ASSUME Init, NEW m \in All
               PROVE  rows[m] + Cardinality(Unaware(m)) <= Cardinality(Deploys)
    BY DEF RowsAccounted
  <2>1. rows[m] = 0
    BY DEF Init
  <2>2. Unaware(m) \in SUBSET Deploys
    BY DEF Unaware
  <2>3. /\ Cardinality(Unaware(m)) \in Nat /\ Cardinality(Deploys) \in Nat
        /\ Cardinality(Unaware(m)) <= Cardinality(Deploys)
    BY <2>2, DeploysCount
  <2> QED
    BY <2>1, <2>3
<1>2. ASSUME TypeOK, TypeOK', RowsAccounted, [Next]_vars PROVE RowsAccounted'
  <2> SUFFICES ASSUME NEW m \in All
               PROVE  rows'[m] + Cardinality(Unaware(m)') <= Cardinality(Deploys)
    BY DEF RowsAccounted
  <2>0. rows[m] + Cardinality(Unaware(m)) <= Cardinality(Deploys)
    BY <1>2 DEF RowsAccounted
  <2>1. ASSUME NEW d \in Deploys, Insert(d)
        PROVE  rows'[m] + Cardinality(Unaware(m)') <= Cardinality(Deploys)
    <3>1. PICK n \in entries[d] \ recorded[d] :
             /\ rows' = [rows EXCEPT ![n] = @ + 1]
             /\ recorded' = [recorded EXCEPT ![d] = @ \cup {n}]
      BY <2>1 DEF Insert, Missing
    <3>2. Unaware(m)' \subseteq Unaware(m)
      BY <1>2, <2>1, <3>1 DEF Insert, Unaware, TypeOK
    <3>3. n = m => rows'[m] = rows[m] + 1 /\ d \in Unaware(m) /\ d \notin Unaware(m)'
      BY <1>2, <2>1, <3>1 DEF Insert, Unaware, TypeOK
    <3>4. n # m => rows'[m] = rows[m]
      BY <1>2, <3>1 DEF TypeOK
    <3> QED
      BY <1>2, <2>0, <3>2, <3>3, <3>4, AccountKept
  <2>2. ASSUME NEW d \in Deploys, FetchRecorded(d)
        PROVE  rows'[m] + Cardinality(Unaware(m)') <= Cardinality(Deploys)
    <3>1. CASE rows[m] = 0
      <4>1. Unaware(m)' \in SUBSET Deploys /\ rows'[m] = 0
        BY <2>2, <3>1 DEF Unaware, FetchRecorded
      <4>2. /\ Cardinality(Unaware(m)') \in Nat /\ Cardinality(Deploys) \in Nat
            /\ Cardinality(Unaware(m)') <= Cardinality(Deploys)
        BY <4>1, DeploysCount
      <4> QED
        BY <4>1, <4>2
    <3>2. CASE rows[m] # 0
      <4>1. m \in Recorded
        BY <1>2, <3>2 DEF Recorded, TypeOK
      <4>2. Unaware(m)' \subseteq Unaware(m) /\ rows'[m] = rows[m]
        BY <1>2, <2>2, <4>1 DEF FetchRecorded, Unaware, Goto, TypeOK
      <4> QED
        BY <1>2, <2>0, <4>2, AccountKept
    <3> QED
      BY <3>1, <3>2
  <2>3. ASSUME NEW d \in Deploys, Migrate(d)
        PROVE  rows'[m] + Cardinality(Unaware(m)') <= Cardinality(Deploys)
    <3>1. Unaware(m)' \subseteq Unaware(m) /\ d \notin Unaware(m)'
      BY <1>2, <2>3 DEF Migrate, Goto, Unaware, TypeOK
    <3>2. CASE rows'[m] = rows[m]
      BY <1>2, <2>0, <3>1, <3>2, AccountKept
    <3>3. CASE rows'[m] # rows[m]
      <4>1. rows'[m] = 1
        BY <2>3, <3>3 DEF Migrate
      <4>2. Unaware(m)' \in SUBSET Deploys /\ Deploys # Unaware(m)'
        BY <3>1 DEF Unaware
      <4>3. Deploys \in SUBSET Deploys
        OBVIOUS
      <4>4. /\ Cardinality(Unaware(m)') \in Nat /\ Cardinality(Deploys) \in Nat
            /\ Cardinality(Unaware(m)') + 1 <= Cardinality(Deploys)
        BY <4>2, <4>3, DeploysCount
      <4> QED
        BY <4>1, <4>4
    <3> QED
      BY <3>2, <3>3
  <2>4. CASE AddMigration \/ UNCHANGED vars
    <3>1. Unaware(m)' = Unaware(m) /\ rows'[m] = rows[m]
      BY <2>4 DEF AddMigration, vars, Unaware
    <3> QED
      BY <1>2, <2>0, <3>1, AccountKept
  <2>5. ASSUME NEW d \in Deploys, ReadEntries(d) \/ Probe(d) \/ Baselined(d) \/ Abort(d)
        PROVE  rows'[m] + Cardinality(Unaware(m)') <= Cardinality(Deploys)
    <3>1. Unaware(m)' \subseteq Unaware(m) /\ rows'[m] = rows[m]
      BY <1>2, <2>5 DEF ReadEntries, Probe, Baselined, Abort, Goto, Unaware, TypeOK
    <3> QED
      BY <1>2, <2>0, <3>1, AccountKept
  <2> QED
    BY <1>2, <2>1, <2>2, <2>3, <2>4, <2>5 DEF Next
<1>3. TypeOK /\ RowsAccounted => RowsPerDeploy
  <2> SUFFICES ASSUME TypeOK, RowsAccounted, NEW m \in All
               PROVE  rows[m] <= Cardinality(Deploys)
    BY DEF RowsPerDeploy
  <2>1. Unaware(m) \in SUBSET Deploys /\ Deploys \in SUBSET Deploys
    BY DEF Unaware
  <2>2. Cardinality(Unaware(m)) \in Nat /\ Cardinality(Deploys) \in Nat /\ rows[m] \in Nat
    BY <2>1, DeploysCount DEF TypeOK
  <2>3. rows[m] + Cardinality(Unaware(m)) <= Cardinality(Deploys)
    BY DEF RowsAccounted
  <2> QED
    BY <2>2, <2>3
<1> QED
  BY <1>1, <1>2, <1>3, BaselineTypes, PTL DEF Spec

-----------------------------------------------------------------------------
(* Polls and races *)

\* delay() waits for its timer or for its abort listener
Waiting == step = "waiting" /\ waited = "pending"

\* A poll's invariant, with what a delay leaves behind spelled out by cases.
LEMMA DelayCases ==
    Poll!DelayCleansUp <=> \/ Waiting /\ timer = TRUE /\ listener = TRUE
                           \/ ~Waiting /\ timer = FALSE /\ listener = FALSE
  BY Zenon DEF Poll!DelayCleansUp, Waiting

\* Polling starts in its invariant and every step keeps it.
LEMMA PollInit == ASSUME Poll!Init PROVE Poll!IInv
<1>1. Poll!DelayCleansUp
  BY DelayCases DEF Poll!Init, Waiting
<1>2. QED
  BY <1>1, DataAssumption DEF Poll!Init, Poll!IInv, Poll!HooksTellOutcome

\* Every step of the loop, of a delay or of the signal keeps it: what a delay leaves
\* behind is looked at by cases.
LEMMA PollStep == ASSUME Poll!IInv, Poll!Next \/ UNCHANGED pollVars PROVE Poll!IInv'
<1>1. Poll!DelayCleansUp'
  <2> DEFINE D == \/ Waiting /\ timer = TRUE /\ listener = TRUE
                  \/ ~Waiting /\ timer = FALSE /\ listener = FALSE
  <2>1. D
    BY DelayCases DEF Poll!IInv
  <2>2. D'
    <3> USE <2>1 DEF Waiting
    <3>1. CASE Poll!Poll
      BY <3>1 DEF Poll!Poll, Poll!FailWith
    <3>2. CASE Poll!PollThrows
      BY <3>2 DEF Poll!PollThrows
    <3>3. CASE Poll!PollCompletes
      BY <3>3 DEF Poll!PollCompletes
    <3>4. CASE Poll!PollGoesOn /\ attempt < MaxAttempts
      BY <3>4 DEF Poll!PollGoesOn, Poll!Delay
    <3>5. CASE Poll!PollGoesOn /\ ~(attempt < MaxAttempts)
      BY <3>5 DEF Poll!PollGoesOn, Poll!FailWith
    <3>6. CASE Poll!TimerFires
      BY <3>6 DEF Poll!TimerFires
    <3>7. CASE Poll!Abort
      BY <3>7 DEF Poll!Abort
    <3>8. CASE Poll!Waited
      BY <3>8 DEF Poll!Waited, Poll!FailWith
    <3>9. CASE UNCHANGED pollVars
      BY <3>9 DEF pollVars
    <3>10. QED
      BY <3>1, <3>2, <3>3, <3>4, <3>5, <3>6, <3>7, <3>8, <3>9 DEF Poll!Next
  <2>3. (Poll!DelayCleansUp <=> D)'
    <3>1. Poll!DelayCleansUp <=> D
      BY DelayCases
    <3>2. QED
      BY Zenon DEF Poll!DelayCleansUp, Waiting
  <2>4. QED
    BY <2>2, <2>3
<1>2. QED
  <2> USE DataAssumption DEF Poll!IInv, Poll!HooksTellOutcome
  <2>1. CASE Poll!Poll
    BY <1>1, <2>1 DEF Poll!Poll, Poll!FailWith
  <2>2. CASE Poll!PollThrows
    BY <1>1, <2>2 DEF Poll!PollThrows
  <2>3. CASE Poll!PollCompletes
    BY <1>1, <2>3 DEF Poll!PollCompletes
  <2>4. CASE Poll!PollGoesOn /\ attempt < MaxAttempts
    BY <1>1, <2>4 DEF Poll!PollGoesOn, Poll!Delay
  <2>5. CASE Poll!PollGoesOn /\ ~(attempt < MaxAttempts)
    BY <1>1, <2>5 DEF Poll!PollGoesOn, Poll!FailWith
  <2>6. CASE Poll!TimerFires
    BY <1>1, <2>6 DEF Poll!TimerFires
  <2>7. CASE Poll!Abort
    BY <1>1, <2>7 DEF Poll!Abort
  <2>8. CASE Poll!Waited
    BY <1>1, <2>8 DEF Poll!Waited, Poll!FailWith
  <2>9. CASE UNCHANGED pollVars
    BY <1>1, <2>9 DEF pollVars
  <2>10. QED
    BY <2>1, <2>2, <2>3, <2>4, <2>5, <2>6, <2>7, <2>8, <2>9 DEF Poll!Next

\* A race starts in its invariant and every step keeps it.
LEMMA RaceInit == ASSUME Race!Init PROVE Race!IInv
  BY DEF Race!Init, Race!IInv, Race!TypeOK, Race!RaceCleansUp

\* Whoever wins, the timer and the listener of the loser go.
LEMMA RaceStep == ASSUME Race!IInv, Race!Next \/ UNCHANGED raceVars PROVE Race!IInv'
<1> USE DEF Race!IInv, Race!TypeOK, Race!RaceCleansUp
<1>1. CASE Race!TimerFires
  BY <1>1 DEF Race!TimerFires, Race!Settle
<1>2. CASE Race!Abort
  BY <1>2 DEF Race!Abort, Race!Settle
<1>3. CASE Race!PromiseDone
  BY <1>3 DEF Race!PromiseDone
<1>4. CASE Race!Delivered
  BY <1>4 DEF Race!Delivered, Race!Settle
<1>5. CASE UNCHANGED raceVars
  BY <1>5 DEF raceVars
<1>6. QED
  BY <1>1, <1>2, <1>3, <1>4, <1>5 DEF Race!Next

-----------------------------------------------------------------------------
(* The bull board *)

\* The board starts with the queues of one generation.
LEMMA BoardInit == ASSUME Failing!Init PROVE Failing!IInv /\ Failing!OpenInv
  BY DEF Failing!Init, Failing!IInv, Failing!OpenInv, Failing!ShowsOpenQueues

\* The queues that are shown are closed after others are shown.
LEMMA BoardStep ==
    ASSUME Failing!IInv, Failing!Next \/ Reliable!Next \/ UNCHANGED boardVars PROVE Failing!IInv'
<1> USE DEF Failing!IInv, Failing!ShowsOpenQueues, boardVars
<1>1. CASE Failing!Next
  BY <1>1 DEF Failing!Next, Failing!Fire, Failing!Replace, Failing!DiscoveryFails, Failing!Replaced,
     Failing!Close, Failing!Closed
<1>2. CASE Reliable!Next
  BY <1>2 DEF Reliable!Next, Reliable!Fire, Reliable!Replace, Reliable!DiscoveryFails,
     Reliable!Replaced, Reliable!Close, Reliable!Closed
<1>3. QED
  BY <1>1, <1>2

\* When closes do not fail, what is open is shown or about to be.
LEMMA ReliableStep ==
    ASSUME Failing!OpenInv, Reliable!Next \/ UNCHANGED boardVars PROVE Failing!OpenInv'
  BY DEF Failing!OpenInv, boardVars, Reliable!Next, Reliable!Fire, Reliable!Replace,
     Reliable!DiscoveryFails, Reliable!Replaced, Reliable!Close, Reliable!Closed

\* So that the open queues are of two generations at most.
LEMMA TwoAreOpen == ASSUME Failing!OpenInv PROVE Failing!TwoGenerations
<1>1. PICK a, b : open \subseteq {a, b}
  BY DEF Failing!OpenInv
<1>2. IsFiniteSet({a, b}) /\ Cardinality({a, b}) <= 2
  <2>1. IsFiniteSet({b}) /\ Cardinality({b}) = 1
    BY FS_Singleton
  <2>2. IsFiniteSet({b} \cup {a}) /\ Cardinality({b} \cup {a}) <= 2
    BY <2>1, FS_AddElement
  <2>3. {b} \cup {a} = {a, b}
    OBVIOUS
  <2>4. QED
    BY <2>2, <2>3
<1>3. Cardinality(open) <= Cardinality({a, b}) /\ Cardinality(open) \in Nat /\ Cardinality({a, b}) \in Nat
  BY <1>1, <1>2, FS_Subset, FS_CardinalityType
<1>4. Cardinality(open) <= 2
  BY <1>2, <1>3
<1>5. Failing!Cardinality(open) = Cardinality(open)
  BY DEF Failing!Cardinality, Cardinality
<1>6. QED
  BY <1>4, <1>5 DEF Failing!TwoGenerations

-----------------------------------------------------------------------------
(* Transactions and their timeouts *)

\* Induction over the naturals: a set with 0 and with the successor of each member has
\* no least number outside.
LEMMA NaturalInduction ==
    ASSUME NEW S, 0 \in S, \A n \in Nat : n \in S => n + 1 \in S
    PROVE  Nat \subseteq S
<1>1. SUFFICES ASSUME ~(Nat \subseteq S) PROVE FALSE
  OBVIOUS
<1> DEFINE Left == {n \in Nat : n \notin S}
<1>2. \E n \in Left : \A m \in Left : ~(m < n)
  <2>1. IsWellFoundedOn(OpToRel(<, Nat), Nat)
    BY NatLessThanWellFounded
  <2>2. Left \subseteq Nat /\ Left # {}
    BY <1>1
  <2>3. \E n \in Left : \A m \in Left : <<m, n>> \notin OpToRel(<, Nat)
    BY <2>1, <2>2, WFMin
  <2>4. QED
    BY <2>2, <2>3, Zenon DEF OpToRel
<1>3. PICK n \in Left : \A m \in Left : ~(m < n)
  BY <1>2
<1>4. n # 0 /\ n - 1 \in Nat /\ n - 1 < n /\ (n - 1) + 1 = n
  BY <1>3
<1>5. QED
  BY <1>3, <1>4

\* The function that Power is defined by, up to n
PowerTo(n, f) == f = [i \in 0..n |-> IF i = 0 THEN 1 ELSE 2 * f[i - 1]]

\* The function that satisfies the recursion up to the last retry exists, by induction
\* over how far it goes, so that it is the one that is meant.
LEMMA PowerIsDefined == PowerTo(RetriesAllowed + 1, Transaction!Power)
<1> DEFINE Defined == {n \in Nat : \E f : PowerTo(n, f)}
<1>1. 0 \in Defined
  <2>1. PowerTo(0, [i \in 0..0 |-> 1])
    BY DEF PowerTo
  <2>2. QED
    BY <2>1
<1>2. ASSUME NEW n \in Nat, n \in Defined PROVE n + 1 \in Defined
  <2>1. PICK f : PowerTo(n, f)
    BY <1>2
  <2> DEFINE g == [i \in 0..(n + 1) |-> IF i = n + 1 THEN 2 * f[n] ELSE f[i]]
  <2>2. \A i \in 0..(n + 1) : g[i] = IF i = 0 THEN 1 ELSE 2 * g[i - 1]
    <3> TAKE i \in 0..(n + 1)
    <3>1. CASE i = n + 1
      BY <3>1
    <3>2. CASE i # n + 1
      BY <2>1, <3>2 DEF PowerTo
    <3>3. QED
      BY <3>1, <3>2
  <2>3. PowerTo(n + 1, g)
    BY <2>2 DEF PowerTo
  <2>4. QED
    BY <2>3
<1>3. RetriesAllowed + 1 \in Defined
  <2>1. Nat \subseteq Defined
    BY <1>1, <1>2, NaturalInduction
  <2>2. RetriesAllowed + 1 \in Nat
    BY DataAssumption
  <2>3. QED
    BY <2>1, <2>2
<1> DEFINE f == CHOOSE f : f = [i \in 0..(RetriesAllowed + 1) |-> IF i = 0 THEN 1 ELSE 2 * f[i - 1]]
<1>4. PowerTo(RetriesAllowed + 1, f)
  BY <1>3 DEF PowerTo
<1>5. Transaction!Power = f
  BY Zenon DEF Transaction!Power
<1>6. QED
  BY <1>4, <1>5

\* The powers of two up to the last try.
LEMMA PowerDoubles ==
    /\ Transaction!Power[0] = 1
    /\ \A n \in 0..RetriesAllowed : Transaction!Power[n + 1] = 2 * Transaction!Power[n]
    /\ \A n \in 0..(RetriesAllowed + 1) : Transaction!Power[n] \in Nat
<1> DEFINE P == Transaction!Power
<1>1. \A i \in 0..(RetriesAllowed + 1) : P[i] = IF i = 0 THEN 1 ELSE 2 * P[i - 1]
  BY PowerIsDefined, Zenon DEF PowerTo
<1> HIDE DEF P
<1>2. P[0] = 1 /\ \A n \in 0..RetriesAllowed : P[n + 1] = 2 * P[n]
  BY <1>1, DataAssumption
<1> DEFINE Good == {n \in Nat : n <= RetriesAllowed + 1 => P[n] \in Nat}
<1>3. 0 \in Good
  BY <1>2
<1>4. ASSUME NEW n \in Nat, n \in Good PROVE n + 1 \in Good
  BY <1>2, <1>4, DataAssumption
<1>5. Nat \subseteq Good
  BY <1>3, <1>4, NaturalInduction
<1>6. QED
  BY <1>2, <1>5, DataAssumption DEF P

\* The first try runs with the timeout that was given.
LEMMA TransactionInit == ASSUME Transaction!Init PROVE Transaction!IInv
<1>1. initial \in Nat
  BY DataAssumption DEF Transaction!Init
<1>2. initial * Transaction!Power[expired] = initial
  BY <1>1, PowerDoubles DEF Transaction!Init
<1>3. Transaction!TimeoutDoubles
  BY <1>1, <1>2, DataAssumption DEF Transaction!Init, Transaction!TimeoutDoubles
<1>4. QED
  BY <1>1, <1>3, DataAssumption DEF Transaction!Init, Transaction!IInv, Transaction!AppliedOnce

\* A try that timed out doubles the timeout, up to maxTimeout; whatever committed is
\* accounted for.
LEMMA TransactionStep ==
    ASSUME Transaction!IInv, Transaction!Next \/ UNCHANGED prismaVars PROVE Transaction!IInv'
<1>1. CASE UNCHANGED prismaVars
  BY <1>1 DEF prismaVars, Transaction!IInv, Transaction!AppliedOnce, Transaction!TimeoutDoubles
<1>2. CASE Transaction!Next
  <2>1. PICK ending \in Transaction!Endings :
          /\ applied' = IF Transaction!Committed(ending) THEN applied + 1 ELSE applied
          /\ lost' = IF ending = "cutLate" THEN lost + 1 ELSE lost
          /\ IF Transaction!RetryAllowed(ending)
             THEN /\ timeout' = IF ending = "closed" THEN Transaction!Longer(timeout) ELSE timeout
                  /\ expired' = IF ending = "closed" THEN expired + 1 ELSE expired
                  /\ retries' = retries + 1
                  /\ result' = IF retries' <= RetriesAllowed THEN "none" ELSE "error"
             ELSE /\ result' = IF ending \in {"value", "falsy"} THEN "value" ELSE "error"
                  /\ UNCHANGED <<timeout, expired, retries>>
    BY <1>2 DEF Transaction!Next, Transaction!Try
  <2>2. result = "none" /\ UNCHANGED initial
    BY <1>2 DEF Transaction!Next, Transaction!Try
  <2> USE DataAssumption
  <2>3. /\ initial' \in Nat /\ timeout' \in Nat /\ {retries', expired', applied', lost'} \subseteq Nat
        /\ expired' <= retries' /\ retries' <= RetriesAllowed + 1
        /\ result' = "none" => retries' <= RetriesAllowed
    BY <2>1, <2>2 DEF Transaction!IInv, Transaction!Longer
  <2>4. Transaction!AppliedOnce'
    BY <2>1, <2>2 DEF Transaction!IInv, Transaction!AppliedOnce, Transaction!Committed,
       Transaction!RetryAllowed, Transaction!Endings
  <2>5. Transaction!TimeoutDoubles'
    <3>1. CASE expired' = expired
      <4>1. timeout' = timeout
        BY <3>1, <2>1 DEF Transaction!IInv
      <4>2. QED
        BY <3>1, <4>1, <2>2 DEF Transaction!IInv, Transaction!TimeoutDoubles
    <3>2. CASE expired' # expired
      <4>1. timeout' = Transaction!Longer(timeout) /\ expired' = expired + 1
        BY <3>2, <2>1
      <4>2. expired \in 0..RetriesAllowed
        BY <2>2 DEF Transaction!IInv
      <4> DEFINE doubled == initial * Transaction!Power[expired]
      <4>3. doubled \in Nat /\ initial' * Transaction!Power[expired'] = 2 * doubled
        BY <4>1, <4>2, <2>2, PowerDoubles DEF Transaction!IInv
      <4>4. initial <= MaxTimeout => timeout = IF doubled < MaxTimeout THEN doubled ELSE MaxTimeout
        BY DEF Transaction!IInv, Transaction!TimeoutDoubles
      <4> HIDE DEF doubled
      <4>5. initial' <= MaxTimeout => timeout' = IF 2 * doubled < MaxTimeout THEN 2 * doubled ELSE MaxTimeout
        BY <4>1, <4>3, <4>4, <2>2 DEF Transaction!Longer, Transaction!IInv
      <4>6. QED
        BY <4>3, <4>5 DEF Transaction!TimeoutDoubles
    <3>3. QED
      BY <3>1, <3>2
  <2>6. QED
    BY <2>3, <2>4, <2>5 DEF Transaction!IInv
<1>3. QED
  BY <1>1, <1>2

-----------------------------------------------------------------------------
(* Pages *)

\* A function on the numbers up to n is a sequence.
LEMMA IsSequence == ASSUME NEW T, NEW n \in Nat, NEW f \in [1..n -> T] PROVE f \in Seq(T)
  OBVIOUS

\* What the page of a query is.
LEMMA PageFacts ==
    ASSUME Pages!IInv, NEW page \in Pages!Query
    PROVE  /\ page \in Seq(1..MaxItem)
           /\ \A i \in DOMAIN page : page[i] \in items /\ page[i] > cursor
           /\ \A i, j \in DOMAIN page : i < j => page[i] < page[j]
           /\ Len(page) <= limit + 1
           /\ \A item \in items : item > cursor
                 => \/ \E i \in DOMAIN page : page[i] = item
                    \/ Len(page) = limit + 1 /\ \A i \in DOMAIN page : page[i] < item
           /\ limit \in Nat \ {0}
<1> DEFINE behind == {i \in items : i > cursor}
<1>1. limit \in Nat \ {0} /\ behind \subseteq 1..MaxItem
  BY DataAssumption DEF Pages!IInv, Pages!TypeOK
<1>2. PICK n \in 0..(limit + 1) : page \in [1..n -> behind]
  BY DEF Pages!Query, Pages!SeqOf
<1>3. Len(page) = n /\ DOMAIN page = 1..n
  BY <1>1, <1>2
<1>4. page \in Seq(1..MaxItem)
  <2>1. page \in [1..n -> 1..MaxItem] /\ n \in Nat
    BY <1>1, <1>2
  <2>2. QED
    BY <2>1, IsSequence
<1>5. /\ \A i, j \in DOMAIN page : i < j => page[i] < page[j]
      /\ \A item \in behind :
            \/ item \in Pages!Range(page)
            \/ Len(page) = limit + 1 /\ \A i \in DOMAIN page : page[i] < item
  BY DEF Pages!Query
<1>6. \A item : item \in Pages!Range(page) => \E i \in DOMAIN page : page[i] = item
  BY DEF Pages!Range
<1>7. QED
  BY <1>1, <1>2, <1>3, <1>4, <1>5, <1>6

\* The first page is still to come.
LEMMA PagesInit == ASSUME Pages!Init PROVE Pages!IInv
<1>1. Pages!TypeOK
  BY DataAssumption DEF Pages!Init, Pages!TypeOK
<1>2. Pages!CollectsAll
  BY <1>1 DEF Pages!Init, Pages!TypeOK, Pages!CollectsAll
<1>3. QED
  BY <1>1, <1>2 DEF Pages!Init, Pages!IInv

\* A page goes on after the cursor, with what was collected before it: what lasts is in
\* one of them or after the new cursor.
LEMMA PagesStep == ASSUME Pages!IInv, Pages!Next \/ UNCHANGED pageVars PROVE Pages!IInv'
<1>1. CASE UNCHANGED pageVars
  BY <1>1 DEF pageVars, Pages!IInv, Pages!TypeOK, Pages!CollectsAll, Pages!Range
<1>2. ASSUME NEW i \in 1..MaxItem, Pages!AddItem(i) \/ Pages!RemoveItem(i) PROVE Pages!IInv'
  BY <1>2 DEF Pages!AddItem, Pages!RemoveItem, Pages!IInv, Pages!TypeOK, Pages!CollectsAll, Pages!Range
<1>3. CASE Pages!FetchPage
  <2>1. PICK page \in Pages!Query :
          /\ collected' = collected \o Pages!Data(page)
          /\ cursor' = Pages!Meta(page).cursor
          /\ hasMore' = Pages!Meta(page).hasMore
    BY <1>3 DEF Pages!FetchPage
  <2>2. hasMore = TRUE /\ UNCHANGED <<limit, items, lasting>>
    BY <1>3 DEF Pages!FetchPage, Pages!IInv, Pages!TypeOK
  <2> DEFINE count == Pages!Count(page)
  <2> DEFINE data == Pages!Data(page)
  <2>3. page \in Seq(1..MaxItem)
    BY PageFacts
  <2>4. DOMAIN page = 1..Len(page)
    BY <2>3, LenProperties
  <2>5. Len(page) \in Nat
    BY <2>3, LenProperties
  <2>6. Len(page) <= limit + 1 /\ limit \in Nat \ {0}
    BY PageFacts
  <2>7. \A i \in 1..Len(page) : page[i] \in 1..MaxItem
    BY <2>3, ElementOfSeq
  <2>8. \A i \in 1..Len(page) : page[i] > cursor
    BY <2>4, PageFacts
  <2>9. \A i \in 1..Len(page) : page[i] \in 1..MaxItem /\ page[i] > cursor
    BY <2>7, <2>8
  <2>10. \A i, j \in 1..Len(page) : i < j => page[i] < page[j]
    BY <2>4, PageFacts
  <2>11. \A item \in items : item > cursor
             => \/ \E i \in 1..Len(page) : page[i] = item
                \/ Len(page) = limit + 1 /\ \A i \in 1..Len(page) : page[i] < item
    BY <2>4, PageFacts
  <2>12. /\ count \in 0..Len(page)
         /\ Len(page) > limit => count = limit
         /\ Len(page) <= limit => count = Len(page)
         /\ Len(page) # 0 => count \in 1..Len(page)
    <3>1. count = IF Len(page) < limit THEN Len(page) ELSE limit
      BY DEF Pages!Count
    <3>2. QED
      BY <3>1, <2>5, <2>6
  <2>13. data \in Seq(1..MaxItem) /\ Len(data) = count /\ \A i \in 1..count : data[i] = page[i]
    <3>1. data = SubSeq(page, 1, count)
      BY DEF Pages!Data
    <3> HIDE DEF count, data
    <3>2. 1 \in Int /\ count \in Nat /\ \A i \in 1..count : page[i] \in 1..MaxItem
      BY <2>12, <2>5, <2>9
    <3>3. QED
      BY <3>1, <3>2, <2>3, <2>5, <2>12, SubSeqProperties
  <2>14. page = <<>> <=> Len(page) = 0
    BY <2>3, EmptySeq
  <2>15. /\ Len(page) = 0 => cursor' = 0
         /\ Len(page) # 0 => cursor' = page[count]
         /\ hasMore' \in BOOLEAN
         /\ hasMore' <=> Len(page) > limit
    <3>1. /\ Pages!Meta(page).cursor = IF page = <<>> THEN 0 ELSE page[count]
          /\ Pages!Meta(page).hasMore = (Len(page) > limit)
      BY DEF Pages!Meta
    <3>2. hasMore' = (Len(page) > limit)
      BY <2>1, <3>1
    <3>3. hasMore' \in BOOLEAN
      BY <3>2
    <3>5. Len(page) > limit => hasMore'
      BY <3>2
    <3>6. hasMore' => Len(page) > limit
      BY <3>2, Zenon
    <3>4. QED
      BY <2>1, <2>14, <3>1, <3>3, <3>5, <3>6
  <2>16. /\ collected \in Seq(1..MaxItem) /\ collected' = collected \o data
         /\ Len(collected) \in Nat /\ DOMAIN collected = 1..Len(collected)
    BY <2>1, <2>2 DEF Pages!IInv, Pages!TypeOK
  <2>17. cursor \in 0..MaxItem /\ items \subseteq 1..MaxItem /\ lasting \subseteq items
    BY DEF Pages!IInv, Pages!TypeOK
  <2>18. \A k \in 1..Len(collected) : collected[k] \in 1..MaxItem
    BY <2>16, ElementOfSeq
  <2>19. \A k \in 1..Len(collected) : collected[k] <= cursor
    BY <2>2, <2>16 DEF Pages!IInv
  <2>20. \A k \in 1..Len(collected) : collected[k] \in 1..MaxItem /\ collected[k] <= cursor
    BY <2>18, <2>19
  <2>21. \A i, j \in 1..Len(collected) : i < j => collected[i] < collected[j]
    BY <2>16 DEF Pages!IInv, Pages!CollectsAll
  <2> HIDE DEF count, data
  <2> DEFINE m == Len(collected)
  <2>22. /\ collected' \in Seq(1..MaxItem) /\ Len(collected') = m + count
         /\ DOMAIN collected' = 1..(m + count)
         /\ \A k \in 1..m : collected'[k] = collected[k]
         /\ \A k \in (m + 1)..(m + count) : collected'[k] = data[k - m]
    <3>1. /\ collected' \in Seq(1..MaxItem) /\ Len(collected') = m + Len(data)
          /\ \A k \in 1..(m + Len(data)) : collected'[k] = IF k <= m THEN collected[k] ELSE data[k - m]
      BY <2>13, <2>16, ConcatProperties
    <3>2. DOMAIN collected' = 1..(m + count)
      BY <3>1, <2>13, LenProperties
    <3> HIDE DEF m
    <3>3. m \in Nat /\ count \in Nat
      BY <2>12, <2>16 DEF m
    <3>4. QED
      BY <3>1, <3>2, <3>3, <2>13
  <2>23. m \in Nat /\ count \in Nat
    BY <2>12, <2>16
  <2> HIDE DEF m
  <2>24. \A k \in 1..(m + count) : k \in 1..m \/ (k \in (m + 1)..(m + count) /\ k - m \in 1..count)
    BY <2>23
  <2>25. \A k \in 1..m : collected'[k] \in 1..MaxItem /\ collected'[k] <= cursor
    BY <2>20, <2>22 DEF m
  <2>26. \A k \in (m + 1)..(m + count) : k - m \in 1..Len(page) /\ collected'[k] = page[k - m]
    BY <2>12, <2>13, <2>22, <2>23, <2>5
  <2>27. Pages!TypeOK'
    <3>1. cursor' \in 0..MaxItem
      BY <2>9, <2>12, <2>15, DataAssumption
    <3>2. hasMore' \in BOOLEAN
      BY <2>15
    <3>3. QED
      BY <2>2, <2>22, <3>1, <3>2 DEF Pages!IInv, Pages!TypeOK
  <2>28. \A i, j \in 1..(m + count) : i < j => collected'[i] < collected'[j]
    <3> SUFFICES ASSUME NEW i \in 1..(m + count), NEW j \in 1..(m + count), i < j
                 PROVE  collected'[i] < collected'[j]
      OBVIOUS
    <3>1. CASE j \in 1..m
      <4>1. i \in 1..m
        BY <3>1, <2>23
      <4>2. QED
        BY <3>1, <4>1, <2>21, <2>22 DEF m
    <3>2. CASE j \in (m + 1)..(m + count) /\ i \in 1..m
      <4>1. collected'[i] <= cursor /\ collected'[i] \in Int
        BY <3>2, <2>25
      <4>2. collected'[j] > cursor /\ collected'[j] \in Int
        BY <3>2, <2>9, <2>26
      <4>3. QED
        BY <4>1, <4>2, <2>17
    <3>3. CASE j \in (m + 1)..(m + count) /\ i \in (m + 1)..(m + count)
      <4>1. i - m < j - m
        BY <3>3, <2>23
      <4>2. QED
        BY <3>3, <4>1, <2>10, <2>26
    <3>4. QED
      BY <3>1, <3>2, <3>3, <2>24
  <2>29. hasMore' => \A k \in 1..(m + count) : collected'[k] <= cursor'
    <3> SUFFICES ASSUME hasMore', NEW k \in 1..(m + count) PROVE collected'[k] <= cursor'
      OBVIOUS
    <3>1. count \in 1..Len(page) /\ cursor' = page[count]
      BY <2>5, <2>6, <2>12, <2>15
    <3>2. cursor' > cursor /\ cursor' \in Int /\ cursor \in Int
      BY <3>1, <2>9, <2>17
    <3>3. CASE k \in 1..m
      <4>1. collected'[k] \in Int /\ collected'[k] <= cursor
        BY <3>3, <2>25
      <4>2. QED
        BY <4>1, <3>2
    <3>4. CASE k \in (m + 1)..(m + count)
      <4>1. collected'[k] = page[k - m] /\ k - m \in 1..Len(page) /\ page[k - m] \in Int
        BY <3>4, <2>9, <2>26
      <4>2. k - m = count \/ k - m < count
        BY <3>4, <2>23
      <4>3. CASE k - m = count
        BY <4>1, <4>3, <3>1
      <4>4. CASE k - m < count
        <5>1. page[k - m] < page[count]
          BY <4>1, <4>4, <3>1, <2>10
        <5>2. QED
          BY <5>1, <4>1, <3>1, <3>2
      <4>5. QED
        BY <4>2, <4>3, <4>4
    <3>5. QED
      BY <3>3, <3>4, <2>24
  <2>30. \A i \in lasting : (hasMore' /\ i > cursor') \/ \E k \in 1..(m + count) : collected'[k] = i
    <3> SUFFICES ASSUME NEW i \in lasting
                 PROVE  (hasMore' /\ i > cursor') \/ \E k \in 1..(m + count) : collected'[k] = i
      OBVIOUS
    <3>1. i \in items /\ i \in 1..MaxItem
      BY <2>17
    <3>2. CASE \E k \in 1..m : collected[k] = i
      <4>1. PICK k \in 1..m : collected[k] = i
        BY <3>2
      <4>2. k \in 1..(m + count) /\ collected'[k] = i
        BY <4>1, <2>22, <2>23
      <4>3. QED
        BY <4>2
    <3>3. CASE i > cursor /\ \E k \in 1..count : page[k] = i
      <4>1. PICK k \in 1..count : page[k] = i
        BY <3>3
      <4>2. m + k \in 1..(m + count) /\ m + k \in (m + 1)..(m + count) /\ (m + k) - m = k
        BY <4>1, <2>23
      <4>3. QED
        BY <4>1, <4>2, <2>26
    <3>4. CASE i > cursor /\ ~\E k \in 1..count : page[k] = i
      <4>1. CASE \E k \in 1..Len(page) : page[k] = i
        <5>1. PICK k \in 1..Len(page) : page[k] = i
          BY <4>1
        <5>2. k > count /\ Len(page) > limit
          BY <5>1, <3>4, <2>5, <2>6, <2>12
        <5>3. count \in 1..Len(page) /\ cursor' = page[count] /\ hasMore'
          BY <5>2, <2>5, <2>6, <2>12, <2>15
        <5>4. page[count] < page[k]
          BY <5>1, <5>2, <5>3, <2>10
        <5>5. page[k] \in Int /\ page[count] \in Int
          BY <5>1, <5>3, <2>9
        <5>6. QED
          BY <5>1, <5>3, <5>4, <5>5
      <4>2. CASE Len(page) = limit + 1 /\ \A k \in 1..Len(page) : page[k] < i
        <5>1. count \in 1..Len(page) /\ cursor' = page[count] /\ hasMore'
          BY <4>2, <2>5, <2>6, <2>12, <2>15
        <5>2. page[count] \in Int /\ page[count] < i
          BY <4>2, <5>1, <2>9
        <5>3. QED
          BY <5>1, <5>2, <3>1
      <4>3. QED
        BY <3>1, <3>4, <4>1, <4>2, <2>11
    <3>5. (\E k \in 1..m : collected[k] = i) \/ i > cursor
      <4>1. i \in Pages!Range(collected) \/ i > cursor
        BY DEF Pages!IInv, Pages!CollectsAll
      <4>2. QED
        BY <4>1, <2>16 DEF Pages!Range, m
    <3>6. QED
      BY <3>2, <3>3, <3>4, <3>5
  <2>31. Pages!CollectsAll'
    <3>1. lasting' \subseteq Pages!Range(collected') \cup {i \in 1..MaxItem : hasMore' /\ i > cursor'}
      BY <2>2, <2>17, <2>22, <2>30 DEF Pages!Range
    <3>2. QED
      BY <3>1, <2>22, <2>28 DEF Pages!CollectsAll, Pages!Range
  <2>32. QED
    BY <2>22, <2>27, <2>29, <2>31 DEF Pages!IInv
<1>4. QED
  BY <1>1, <1>2, <1>3 DEF Pages!Next

-----------------------------------------------------------------------------
(* The deprecated processor *)

\* dispose() goes on from a worker or from the hooks: what that leaves alone, and where
\* the disposal of the processor is then.
LEMMA GoOnFacts ==
    ASSUME NEW p \in Processors, NEW cs \in SUBSET Disposals, NEW hooks \in BOOLEAN,
           Deprecated!TypeOK, Deprecated!GoOn(p, cs, hooks)
    PROVE  /\ stage' \in [Disposals -> {"idle", "worker", "hooks", "queue"}]
           /\ queue' \in [Processors -> {"none", "open", "closing", "closed"}]
           /\ \A c \in Disposals : c \notin cs => stage'[c] = stage[c]
           /\ \A c \in cs : stage'[c] = IF hooks THEN "hooks" ELSE "queue"
           /\ \A q \in Processors : q # p => queue'[q] = queue[q]
           /\ queue'[p] = IF cs # {} /\ ~hooks /\ queue[p] = "open" THEN "closing" ELSE queue[p]
  BY DEF Deprecated!GoOn, Deprecated!TypeOK

\* The deprecated processor starts in its invariant.
LEMMA DeprecatedInit == ASSUME Deprecated!Init PROVE Deprecated!IInv
  BY DataAssumption DEF Deprecated!Init, Deprecated!IInv, Deprecated!TypeOK,
     Deprecated!Orderly, Deprecated!OneWorks, Deprecated!Claims, Deprecated!Starting, Deprecated!Of,
     Deprecated!RestsClosed, Deprecated!DisposesInOrder

\* Every step of the processors keeps the types.
LEMMA DeprecatedTypes ==
    ASSUME Deprecated!TypeOK, Deprecated!Next PROVE Deprecated!TypeOK'
<1> USE DEF Deprecated!TypeOK
<1>1. ASSUME NEW p \in Processors, Deprecated!Start(p) PROVE Deprecated!TypeOK'
  BY <1>1 DEF Deprecated!Start, Deprecated!Register, Deprecated!calls
<1>2. ASSUME NEW p \in Processors, Deprecated!Schedule(p) PROVE Deprecated!TypeOK'
  <2>1. UNCHANGED <<started, queue, worker, listens, job, hook, Deprecated!calls, failed, orphans>>
    BY <1>2 DEF Deprecated!Schedule
  <2>2. /\ refused' \in BOOLEAN /\ active' \in BOOLEAN
        /\ starting' \in [Processors -> {"none", "registering", "connecting", "joining", "refused", "failed"}]
    BY <1>2 DEF Deprecated!Schedule, Deprecated!Register, Deprecated!Add
  <2>3. waiting' \in [Processors -> BOOLEAN]
    BY <1>2 DEF Deprecated!Schedule
  <2>4. QED
    BY <2>1, <2>2, <2>3 DEF Deprecated!calls
<1>3. ASSUME NEW p \in Processors, Deprecated!BuildQueue(p) PROVE Deprecated!TypeOK'
  BY <1>3 DEF Deprecated!BuildQueue, Deprecated!calls
<1>4. ASSUME NEW p \in Processors, Deprecated!Begin(p)
      PROVE  /\ starting' \in [Processors -> {"none", "registering", "connecting", "joining", "refused", "failed"}]
             /\ started' \in [Processors -> BOOLEAN] /\ listens' \in [Processors -> BOOLEAN]
             /\ waiting' \in [Processors -> BOOLEAN] /\ refused' \in BOOLEAN
  BY <1>4 DEF Deprecated!Begin, Deprecated!Add
<1>5. ASSUME NEW p \in Processors, Deprecated!BuildWorker(p) PROVE Deprecated!TypeOK'
  <2>1. CASE TestMode
    BY <1>5, <2>1 DEF Deprecated!BuildWorker, Deprecated!calls
  <2>2. CASE ~TestMode
    <3>1. Deprecated!Begin(p)
      BY <1>5, <2>2 DEF Deprecated!BuildWorker
    <3>2. QED
      BY <1>5, <3>1, <1>4 DEF Deprecated!BuildWorker, Deprecated!calls
  <2>3. QED
    BY <2>1, <2>2
<1>6. ASSUME NEW p \in Processors, Deprecated!Joined(p) PROVE Deprecated!TypeOK'
  BY <1>6, <1>4 DEF Deprecated!Joined, Deprecated!calls
<1>7. ASSUME NEW p \in Processors, Deprecated!StartFails(p) PROVE Deprecated!TypeOK'
  BY <1>7 DEF Deprecated!StartFails, Deprecated!calls
<1>8. ASSUME NEW p \in Processors, Deprecated!Fetch(p) PROVE Deprecated!TypeOK'
  BY <1>8 DEF Deprecated!Fetch, Deprecated!calls
<1>9. ASSUME NEW p \in Processors, Deprecated!JobEnds(p) PROVE Deprecated!TypeOK'
  BY <1>9 DEF Deprecated!JobEnds, Deprecated!calls
<1>10. ASSUME NEW p \in Processors, Deprecated!WorkerClosed(p) PROVE Deprecated!TypeOK'
  <2>1. Deprecated!GoOn(p, {c \in Deprecated!Of(p) : stage[c] = "worker"}, hook[p]) /\ hook[p] \in BOOLEAN
        /\ {c \in Deprecated!Of(p) : stage[c] = "worker"} \in SUBSET Disposals
    BY <1>10 DEF Deprecated!WorkerClosed, Deprecated!Of
  <2>2. /\ stage' \in [Disposals -> {"idle", "worker", "hooks", "queue"}]
        /\ queue' \in [Processors -> {"none", "open", "closing", "closed"}]
    BY <2>1, GoOnFacts
  <2>3. QED
    BY <1>10, <2>2 DEF Deprecated!WorkerClosed
<1>11. ASSUME NEW p \in Processors, Deprecated!HookSettles(p) PROVE Deprecated!TypeOK'
  <2>1. Deprecated!GoOn(p, {c \in Deprecated!Of(p) : stage[c] = "hooks"}, FALSE)
        /\ {c \in Deprecated!Of(p) : stage[c] = "hooks"} \in SUBSET Disposals
    BY <1>11 DEF Deprecated!HookSettles, Deprecated!Of
  <2>2. /\ stage' \in [Disposals -> {"idle", "worker", "hooks", "queue"}]
        /\ queue' \in [Processors -> {"none", "open", "closing", "closed"}]
    BY <2>1, GoOnFacts
  <2>3. QED
    BY <1>11, <2>2 DEF Deprecated!HookSettles
<1>12. ASSUME NEW p \in Processors, NEW c \in Disposals, Deprecated!Dispose(c, p) PROVE Deprecated!TypeOK'
  <2>1. target' \in [Disposals -> Processors \cup {NoProcessor}] /\ overlapped' \in BOOLEAN
    BY <1>12 DEF Deprecated!Dispose
  <2>2. CASE worker[p] = "closed"
    <3>1. Deprecated!GoOn(p, {c}, hook[p]) /\ hook[p] \in BOOLEAN
      BY <1>12, <2>2 DEF Deprecated!Dispose
    <3>2. /\ stage' \in [Disposals -> {"idle", "worker", "hooks", "queue"}]
          /\ queue' \in [Processors -> {"none", "open", "closing", "closed"}]
      BY <3>1, GoOnFacts
    <3>3. QED
      BY <1>12, <2>1, <2>2, <3>2 DEF Deprecated!Dispose
  <2>3. CASE worker[p] # "closed"
    BY <1>12, <2>1, <2>3 DEF Deprecated!Dispose
  <2>4. QED
    BY <2>2, <2>3
<1>13. ASSUME NEW c \in Disposals, Deprecated!QueueClosed(c) PROVE Deprecated!TypeOK'
  <2>1. /\ UNCHANGED <<starting, worker, listens, job, hook, waiting, refused, overlapped, orphans>>
        /\ active' = FALSE
        /\ started' = [started EXCEPT ![target[c]] = FALSE]
        /\ stage' = [stage EXCEPT ![c] = "idle"]
        /\ target' = [target EXCEPT ![c] = NoProcessor]
    BY <1>13 DEF Deprecated!QueueClosed, Deprecated!Forget
  <2>2. failed' \in BOOLEAN
    BY <1>13 DEF Deprecated!QueueClosed
  <2>3. queue' \in [Processors -> {"none", "open", "closing", "closed"}]
    <3>1. \/ queue' = queue
          \/ queue' = [queue EXCEPT ![target[c]] = "open"]
          \/ queue' = [queue EXCEPT ![target[c]] = "closed"]
      BY <1>13 DEF Deprecated!QueueClosed
    <3>2. QED
      BY <3>1
  <2>4. /\ started' \in [Processors -> BOOLEAN]
        /\ stage' \in [Disposals -> {"idle", "worker", "hooks", "queue"}]
        /\ target' \in [Disposals -> Processors \cup {NoProcessor}]
    BY <2>1
  <2>5. QED
    BY <2>1, <2>2, <2>3, <2>4
<1>14. ASSUME NEW c \in Disposals, Deprecated!WorkerCloseFails(c) PROVE Deprecated!TypeOK'
  BY <1>14 DEF Deprecated!WorkerCloseFails, Deprecated!Forget
<1>15. QED
  BY <1>1, <1>2, <1>3, <1>5, <1>6, <1>7, <1>8, <1>9, <1>10, <1>11, <1>12, <1>13, <1>14 DEF Deprecated!Next

\* What a disposal disposes and what a processor starts, at any time
Booked ==
    /\ \A c \in Disposals : stage[c] = "idle" <=> target[c] = NoProcessor
    /\ \A p \in Processors : started[p] => starting[p] = "none"

\* Every step keeps these books, and disposals that overlapped have overlapped.
LEMMA DeprecatedBooks ==
    ASSUME Deprecated!IInv, Deprecated!Next
    PROVE  Booked' /\ (~overlapped' => ~overlapped)
<1> USE DataAssumption DEF Deprecated!IInv, Deprecated!TypeOK, Booked
<1>1. ASSUME NEW p \in Processors, Deprecated!Start(p)
      PROVE  Booked' /\ (~overlapped' => ~overlapped)
  BY <1>1 DEF Deprecated!Start, Deprecated!Register, Deprecated!calls
<1>2. ASSUME NEW p \in Processors, Deprecated!Schedule(p)
      PROVE  Booked' /\ (~overlapped' => ~overlapped)
  BY <1>2 DEF Deprecated!Schedule, Deprecated!Register, Deprecated!Add, Deprecated!calls
<1>3. ASSUME NEW p \in Processors, Deprecated!BuildQueue(p)
      PROVE  Booked' /\ (~overlapped' => ~overlapped)
  BY <1>3 DEF Deprecated!BuildQueue, Deprecated!calls
<1>4. ASSUME NEW p \in Processors, Deprecated!BuildWorker(p)
      PROVE  Booked' /\ (~overlapped' => ~overlapped)
  BY <1>4 DEF Deprecated!BuildWorker, Deprecated!Begin, Deprecated!Add, Deprecated!calls
<1>5. ASSUME NEW p \in Processors, Deprecated!Joined(p)
      PROVE  Booked' /\ (~overlapped' => ~overlapped)
  BY <1>5 DEF Deprecated!Joined, Deprecated!Begin, Deprecated!Add, Deprecated!calls
<1>6. ASSUME NEW p \in Processors, Deprecated!StartFails(p)
      PROVE  Booked' /\ (~overlapped' => ~overlapped)
  BY <1>6 DEF Deprecated!StartFails, Deprecated!calls, Deprecated!Starting
<1>7. ASSUME NEW p \in Processors, Deprecated!Fetch(p)
      PROVE  Booked' /\ (~overlapped' => ~overlapped)
  BY <1>7 DEF Deprecated!Fetch, Deprecated!calls
<1>8. ASSUME NEW p \in Processors, Deprecated!JobEnds(p)
      PROVE  Booked' /\ (~overlapped' => ~overlapped)
  BY <1>8 DEF Deprecated!JobEnds, Deprecated!calls
<1>9. ASSUME NEW p \in Processors, Deprecated!WorkerClosed(p)
      PROVE  Booked' /\ (~overlapped' => ~overlapped)
  BY <1>9 DEF Deprecated!WorkerClosed, Deprecated!GoOn, Deprecated!Of
<1>10. ASSUME NEW p \in Processors, Deprecated!HookSettles(p)
      PROVE  Booked' /\ (~overlapped' => ~overlapped)
  BY <1>10 DEF Deprecated!HookSettles, Deprecated!GoOn, Deprecated!Of
<1>11. ASSUME NEW c \in Disposals, NEW p \in Processors, Deprecated!Dispose(c, p)
      PROVE  Booked' /\ (~overlapped' => ~overlapped)
  BY <1>11 DEF Deprecated!Dispose, Deprecated!GoOn, Deprecated!Of
<1>12. ASSUME NEW c \in Disposals, Deprecated!QueueClosed(c)
      PROVE  Booked' /\ (~overlapped' => ~overlapped)
  BY <1>12 DEF Deprecated!QueueClosed, Deprecated!Forget
<1>13. ASSUME NEW c \in Disposals, Deprecated!WorkerCloseFails(c)
      PROVE  Booked' /\ (~overlapped' => ~overlapped)
  BY <1>13 DEF Deprecated!WorkerCloseFails, Deprecated!Forget
<1>14. QED
  BY <1>1, <1>2, <1>3, <1>4, <1>5, <1>6, <1>7, <1>8, <1>9, <1>10, <1>11, <1>12, <1>13 DEF Deprecated!Next

\* As long as no disposals overlap, every step keeps the order.
LEMMA DeprecatedKeepsOrder ==
    ASSUME Deprecated!IInv, Deprecated!TypeOK', ~overlapped', ~overlapped, Deprecated!Next
    PROVE  Deprecated!Orderly'
<1> USE DataAssumption DEF Deprecated!IInv, Deprecated!TypeOK, Deprecated!Orderly, Deprecated!OneWorks,
       Deprecated!Claims, Deprecated!Starting, Deprecated!Of
<1>1. ASSUME NEW p \in Processors, Deprecated!Start(p) PROVE Deprecated!Orderly'
  <2>1. Deprecated!OneWorks'
    BY <1>1 DEF Deprecated!Start, Deprecated!Register, Deprecated!calls, Deprecated!RestsClosed,
        Deprecated!DisposesInOrder
  <2>2. (\A d, e \in Disposals : target[d] = target[e] /\ target[d] # NoProcessor => d = e)'
    BY <1>1 DEF Deprecated!Start, Deprecated!Register, Deprecated!calls
  <2>3. (\A q \in Processors : Deprecated!RestsClosed(q))'
    BY <1>1 DEF Deprecated!Start, Deprecated!Register, Deprecated!calls, Deprecated!RestsClosed,
        Deprecated!DisposesInOrder
  <2>4. (\A d \in Disposals : Deprecated!DisposesInOrder(d))'
    BY <1>1 DEF Deprecated!Start, Deprecated!Register, Deprecated!calls, Deprecated!RestsClosed,
        Deprecated!DisposesInOrder
  <2>5. QED
    BY <2>1, <2>2, <2>3, <2>4
<1>2. ASSUME NEW p \in Processors, Deprecated!Schedule(p) PROVE Deprecated!Orderly'
  <2>1. Deprecated!OneWorks'
    BY <1>2 DEF Deprecated!Schedule, Deprecated!Register, Deprecated!Add, Deprecated!calls,
        Deprecated!RestsClosed, Deprecated!DisposesInOrder
  <2>2. (\A d, e \in Disposals : target[d] = target[e] /\ target[d] # NoProcessor => d = e)'
    BY <1>2 DEF Deprecated!Schedule, Deprecated!Register, Deprecated!Add, Deprecated!calls
  <2>3. (\A q \in Processors : Deprecated!RestsClosed(q))'
    BY <1>2 DEF Deprecated!Schedule, Deprecated!Register, Deprecated!Add, Deprecated!calls,
        Deprecated!RestsClosed, Deprecated!DisposesInOrder
  <2>4. (\A d \in Disposals : Deprecated!DisposesInOrder(d))'
    BY <1>2 DEF Deprecated!Schedule, Deprecated!Register, Deprecated!Add, Deprecated!calls,
        Deprecated!RestsClosed, Deprecated!DisposesInOrder
  <2>5. QED
    BY <2>1, <2>2, <2>3, <2>4
<1>3. ASSUME NEW p \in Processors, Deprecated!BuildQueue(p) PROVE Deprecated!Orderly'
  <2>1. Deprecated!OneWorks'
    BY <1>3 DEF Deprecated!BuildQueue, Deprecated!calls, Deprecated!RestsClosed, Deprecated!DisposesInOrder
  <2>2. (\A d, e \in Disposals : target[d] = target[e] /\ target[d] # NoProcessor => d = e)'
    BY <1>3 DEF Deprecated!BuildQueue, Deprecated!calls
  <2>3. (\A q \in Processors : Deprecated!RestsClosed(q))'
    BY <1>3 DEF Deprecated!BuildQueue, Deprecated!calls, Deprecated!RestsClosed, Deprecated!DisposesInOrder
  <2>4. (\A d \in Disposals : Deprecated!DisposesInOrder(d))'
    BY <1>3 DEF Deprecated!BuildQueue, Deprecated!calls, Deprecated!RestsClosed, Deprecated!DisposesInOrder
  <2>5. QED
    BY <2>1, <2>2, <2>3, <2>4
<1>4. ASSUME NEW p \in Processors, Deprecated!BuildWorker(p) PROVE Deprecated!Orderly'
  <2>1. Deprecated!OneWorks'
    BY <1>4 DEF Deprecated!BuildWorker, Deprecated!Begin, Deprecated!Add, Deprecated!calls,
        Deprecated!RestsClosed, Deprecated!DisposesInOrder
  <2>2. (\A d, e \in Disposals : target[d] = target[e] /\ target[d] # NoProcessor => d = e)'
    BY <1>4 DEF Deprecated!BuildWorker, Deprecated!Begin, Deprecated!Add, Deprecated!calls
  <2>3. (\A q \in Processors : Deprecated!RestsClosed(q))'
    BY <1>4 DEF Deprecated!BuildWorker, Deprecated!Begin, Deprecated!Add, Deprecated!calls,
        Deprecated!RestsClosed, Deprecated!DisposesInOrder
  <2>4. (\A d \in Disposals : Deprecated!DisposesInOrder(d))'
    BY <1>4 DEF Deprecated!BuildWorker, Deprecated!Begin, Deprecated!Add, Deprecated!calls,
        Deprecated!RestsClosed, Deprecated!DisposesInOrder
  <2>5. QED
    BY <2>1, <2>2, <2>3, <2>4
<1>5. ASSUME NEW p \in Processors, Deprecated!Joined(p) PROVE Deprecated!Orderly'
  <2>1. Deprecated!OneWorks'
    BY <1>5 DEF Deprecated!Joined, Deprecated!Begin, Deprecated!Add, Deprecated!calls,
        Deprecated!RestsClosed, Deprecated!DisposesInOrder
  <2>2. (\A d, e \in Disposals : target[d] = target[e] /\ target[d] # NoProcessor => d = e)'
    BY <1>5 DEF Deprecated!Joined, Deprecated!Begin, Deprecated!Add, Deprecated!calls
  <2>3. (\A q \in Processors : Deprecated!RestsClosed(q))'
    BY <1>5 DEF Deprecated!Joined, Deprecated!Begin, Deprecated!Add, Deprecated!calls,
        Deprecated!RestsClosed, Deprecated!DisposesInOrder
  <2>4. (\A d \in Disposals : Deprecated!DisposesInOrder(d))'
    BY <1>5 DEF Deprecated!Joined, Deprecated!Begin, Deprecated!Add, Deprecated!calls,
        Deprecated!RestsClosed, Deprecated!DisposesInOrder
  <2>5. QED
    BY <2>1, <2>2, <2>3, <2>4
<1>6. ASSUME NEW p \in Processors, Deprecated!StartFails(p) PROVE Deprecated!Orderly'
  <2>1. Deprecated!OneWorks'
    BY <1>6 DEF Deprecated!StartFails, Deprecated!calls, Deprecated!RestsClosed, Deprecated!DisposesInOrder
  <2>2. (\A d, e \in Disposals : target[d] = target[e] /\ target[d] # NoProcessor => d = e)'
    BY <1>6 DEF Deprecated!StartFails, Deprecated!calls
  <2>3. (\A q \in Processors : Deprecated!RestsClosed(q))'
    BY <1>6 DEF Deprecated!StartFails, Deprecated!calls, Deprecated!RestsClosed, Deprecated!DisposesInOrder
  <2>4. (\A d \in Disposals : Deprecated!DisposesInOrder(d))'
    BY <1>6 DEF Deprecated!StartFails, Deprecated!calls, Deprecated!RestsClosed, Deprecated!DisposesInOrder
  <2>5. QED
    BY <2>1, <2>2, <2>3, <2>4
<1>7. ASSUME NEW p \in Processors, Deprecated!Fetch(p) PROVE Deprecated!Orderly'
  <2>1. Deprecated!OneWorks'
    BY <1>7 DEF Deprecated!Fetch, Deprecated!calls, Deprecated!RestsClosed, Deprecated!DisposesInOrder
  <2>2. (\A d, e \in Disposals : target[d] = target[e] /\ target[d] # NoProcessor => d = e)'
    BY <1>7 DEF Deprecated!Fetch, Deprecated!calls
  <2>3. (\A q \in Processors : Deprecated!RestsClosed(q))'
    BY <1>7 DEF Deprecated!Fetch, Deprecated!calls, Deprecated!RestsClosed, Deprecated!DisposesInOrder
  <2>4. (\A d \in Disposals : Deprecated!DisposesInOrder(d))'
    BY <1>7 DEF Deprecated!Fetch, Deprecated!calls, Deprecated!RestsClosed, Deprecated!DisposesInOrder
  <2>5. QED
    BY <2>1, <2>2, <2>3, <2>4
<1>8. ASSUME NEW p \in Processors, Deprecated!JobEnds(p) PROVE Deprecated!Orderly'
  <2>1. Deprecated!OneWorks'
    BY <1>8 DEF Deprecated!JobEnds, Deprecated!calls, Deprecated!RestsClosed, Deprecated!DisposesInOrder
  <2>2. (\A d, e \in Disposals : target[d] = target[e] /\ target[d] # NoProcessor => d = e)'
    BY <1>8 DEF Deprecated!JobEnds, Deprecated!calls
  <2>3. (\A q \in Processors : Deprecated!RestsClosed(q))'
    BY <1>8 DEF Deprecated!JobEnds, Deprecated!calls, Deprecated!RestsClosed, Deprecated!DisposesInOrder
  <2>4. (\A d \in Disposals : Deprecated!DisposesInOrder(d))'
    BY <1>8 DEF Deprecated!JobEnds, Deprecated!calls, Deprecated!RestsClosed, Deprecated!DisposesInOrder
  <2>5. QED
    BY <2>1, <2>2, <2>3, <2>4
<1>9. ASSUME NEW p \in Processors, Deprecated!WorkerClosed(p) PROVE Deprecated!Orderly'
  <2>1. Deprecated!OneWorks'
    BY <1>9 DEF Deprecated!WorkerClosed, Deprecated!GoOn, Deprecated!RestsClosed, Deprecated!DisposesInOrder
  <2>2. (\A d, e \in Disposals : target[d] = target[e] /\ target[d] # NoProcessor => d = e)'
    BY <1>9 DEF Deprecated!WorkerClosed, Deprecated!GoOn
  <2>3. (\A q \in Processors : Deprecated!RestsClosed(q))'
    BY <1>9 DEF Deprecated!WorkerClosed, Deprecated!GoOn, Deprecated!RestsClosed, Deprecated!DisposesInOrder
  <2>4. (\A d \in Disposals : Deprecated!DisposesInOrder(d))'
    BY <1>9 DEF Deprecated!WorkerClosed, Deprecated!GoOn, Deprecated!RestsClosed, Deprecated!DisposesInOrder
  <2>5. QED
    BY <2>1, <2>2, <2>3, <2>4
<1>10. ASSUME NEW p \in Processors, Deprecated!HookSettles(p) PROVE Deprecated!Orderly'
  <2>1. Deprecated!OneWorks'
    BY <1>10 DEF Deprecated!HookSettles, Deprecated!GoOn, Deprecated!RestsClosed, Deprecated!DisposesInOrder
  <2>2. (\A d, e \in Disposals : target[d] = target[e] /\ target[d] # NoProcessor => d = e)'
    BY <1>10 DEF Deprecated!HookSettles, Deprecated!GoOn
  <2>3. (\A q \in Processors : Deprecated!RestsClosed(q))'
    BY <1>10 DEF Deprecated!HookSettles, Deprecated!GoOn, Deprecated!RestsClosed, Deprecated!DisposesInOrder
  <2>4. (\A d \in Disposals : Deprecated!DisposesInOrder(d))'
    BY <1>10 DEF Deprecated!HookSettles, Deprecated!GoOn, Deprecated!RestsClosed, Deprecated!DisposesInOrder
  <2>5. QED
    BY <2>1, <2>2, <2>3, <2>4
<1>11. ASSUME NEW c \in Disposals, NEW p \in Processors, Deprecated!Dispose(c, p) PROVE Deprecated!Orderly'
  <2>1. Deprecated!OneWorks'
    BY <1>11 DEF Deprecated!Dispose, Deprecated!GoOn, Deprecated!RestsClosed, Deprecated!DisposesInOrder
  <2>2. (\A d, e \in Disposals : target[d] = target[e] /\ target[d] # NoProcessor => d = e)'
    BY <1>11 DEF Deprecated!Dispose, Deprecated!GoOn
  <2>3. (\A q \in Processors : Deprecated!RestsClosed(q))'
    BY <1>11 DEF Deprecated!Dispose, Deprecated!GoOn, Deprecated!RestsClosed, Deprecated!DisposesInOrder
  <2>4. (\A d \in Disposals : Deprecated!DisposesInOrder(d))'
    BY <1>11 DEF Deprecated!Dispose, Deprecated!GoOn, Deprecated!RestsClosed, Deprecated!DisposesInOrder
  <2>5. QED
    BY <2>1, <2>2, <2>3, <2>4
<1>12. ASSUME NEW c \in Disposals, Deprecated!QueueClosed(c) PROVE Deprecated!Orderly'
  <2>1. Deprecated!OneWorks'
    BY <1>12 DEF Deprecated!QueueClosed, Deprecated!Forget, Deprecated!RestsClosed,
       Deprecated!DisposesInOrder
  <2>2. (\A d, e \in Disposals : target[d] = target[e] /\ target[d] # NoProcessor => d = e)'
    BY <1>12 DEF Deprecated!QueueClosed, Deprecated!Forget
  <2>3. (\A q \in Processors : Deprecated!RestsClosed(q))'
    BY <1>12 DEF Deprecated!QueueClosed, Deprecated!Forget, Deprecated!RestsClosed,
       Deprecated!DisposesInOrder
  <2>4. (\A d \in Disposals : Deprecated!DisposesInOrder(d))'
    BY <1>12 DEF Deprecated!QueueClosed, Deprecated!Forget, Deprecated!RestsClosed,
       Deprecated!DisposesInOrder
  <2>5. QED
    BY <2>1, <2>2, <2>3, <2>4
<1>13. ASSUME NEW c \in Disposals, Deprecated!WorkerCloseFails(c) PROVE Deprecated!Orderly'
  <2>1. Deprecated!OneWorks'
    BY <1>13 DEF Deprecated!WorkerCloseFails, Deprecated!Forget, Deprecated!RestsClosed,
       Deprecated!DisposesInOrder
  <2>2. (\A d, e \in Disposals : target[d] = target[e] /\ target[d] # NoProcessor => d = e)'
    BY <1>13 DEF Deprecated!WorkerCloseFails, Deprecated!Forget
  <2>3. (\A q \in Processors : Deprecated!RestsClosed(q))'
    BY <1>13 DEF Deprecated!WorkerCloseFails, Deprecated!Forget, Deprecated!RestsClosed,
       Deprecated!DisposesInOrder
  <2>4. (\A d \in Disposals : Deprecated!DisposesInOrder(d))'
    BY <1>13 DEF Deprecated!WorkerCloseFails, Deprecated!Forget, Deprecated!RestsClosed,
       Deprecated!DisposesInOrder
  <2>5. QED
    BY <2>1, <2>2, <2>3, <2>4
<1>14. QED
  BY <1>1, <1>2, <1>3, <1>4, <1>5, <1>6, <1>7, <1>8, <1>9, <1>10, <1>11, <1>12, <1>13 DEF Deprecated!Next

\* So every step of the processors keeps their invariant.
LEMMA DeprecatedStep ==
    ASSUME Deprecated!IInv, Deprecated!Next \/ UNCHANGED legacyVars
    PROVE  Deprecated!IInv'
<1>1. CASE Deprecated!Next
  <2>1. Deprecated!TypeOK'
    BY <1>1, DeprecatedTypes DEF Deprecated!IInv
  <2>2. Booked' /\ (~overlapped' => ~overlapped)
    BY <1>1, DeprecatedBooks
  <2>3. ~overlapped' => Deprecated!Orderly'
    BY <1>1, <2>1, <2>2, DeprecatedKeepsOrder
  <2>4. QED
    BY <2>1, <2>2, <2>3 DEF Deprecated!IInv, Booked
<1>2. CASE UNCHANGED legacyVars
  BY <1>2 DEF legacyVars, Deprecated!IInv, Deprecated!TypeOK, Deprecated!Orderly, Deprecated!OneWorks,
     Deprecated!Claims, Deprecated!Starting, Deprecated!Of, Deprecated!RestsClosed,
     Deprecated!DisposesInOrder
<1>3. QED
  BY <1>1, <1>2

-----------------------------------------------------------------------------
(* Metrics *)

\* No transaction has started.
LEMMA RunsInit == ASSUME Metric!Init PROVE Metric!RunsInv
  BY DEF Metric!Init, Metric!RunsInv, Metric!RunsAreMeasured, Metric!NoTransaction, Metric!None

\* What the manager knows of a key's runs
RunOf(k) ==
    /\ transaction[k].name = "none" => transaction[k] = [name |-> "none", at |-> 0]
    /\ runs[k] = 0 => transaction[k] = [name |-> "none", at |-> 0]
    /\ runs[k] = 2 => ~clean[k]
    /\ runs[k] = 1 /\ clean[k]
          => /\ transaction[k] = [name |-> run[k].name, at |-> run[k].at]
             /\ transaction[k].name # "none" /\ labels[k] = run[k].labels

\* The types of what the transaction manager keeps
RunTypes ==
    /\ transaction \in [Keys -> [name : TransactionNames \cup {"none"}, at : Int]]
    /\ run \in [Keys -> [name : TransactionNames \cup {"none"}, at : Int, labels : SUBSET Attributes]]
    /\ labels \in [Keys -> SUBSET Attributes] /\ clock \in Int
    /\ runs \in [Keys -> 0..2] /\ clean \in [Keys -> BOOLEAN]

\* No measurement
NothingOwed == [name |-> "none", status |-> "none", duration |-> 0, labels |-> {}]

\* The invariant of the runs, part by part
RunParts == RunTypes /\ (owed # NothingOwed => emitted = owed) /\ \A k \in Keys : RunOf(k)

\* The parts are the invariant that the runs check.
LEMMA RunCases == Metric!RunsInv <=> RunParts
  BY DEF Metric!RunsInv, Metric!RunsAreMeasured, Metric!NoTransaction, Metric!NoMeasurement, Metric!None,
     RunParts, RunOf, RunTypes, NothingOwed

\* After a step as well.
LEMMA RunCasesNext == (Metric!RunsInv <=> RunParts)'
<1>1. Metric!RunsInv <=> RunParts
  BY RunCases
<1>2. QED
  BY <1>1, PTL

\* Starts, attributes and stops of a key's transaction keep what the manager owes of it.
LEMMA RunsStep ==
    ASSUME Metric!RunsInv, Metric!TransactionNext \/ UNCHANGED Metric!transactionVars PROVE Metric!RunsInv'
<1>1. RunTypes /\ (owed # NothingOwed => emitted = owed) /\ \A k \in Keys : RunOf(k)
  BY RunCases DEF RunParts
<1>2. ASSUME NEW k \in Keys, NEW name \in TransactionNames, Metric!Start(k, name)
      PROVE  RunParts'
  <2> USE <1>2 DEF Metric!Start
  <2>1. RunTypes'
    BY <1>1 DEF RunTypes
  <2>2. ASSUME NEW q \in Keys PROVE RunOf(q)'
    <3>1. CASE q = k
      <4>1. /\ transaction'[k] = [name |-> name, at |-> clock]
            /\ run'[k] = [name |-> name, at |-> clock, labels |-> {}]
            /\ runs'[k] = runs[k] + 1 /\ runs[k] \in 0..2
            /\ (clean'[k] <=> runs[k] = 0 /\ labels[k] = {}) /\ labels'[k] = labels[k]
        BY <1>1 DEF RunTypes
      <4>2. name # "none"
        BY DataAssumption
      <4>3. QED
        <5>1. transaction'[q].name = name /\ transaction'[q].at = clock
              /\ run'[q].name = name /\ run'[q].at = clock /\ run'[q].labels = {}
          BY <3>1, <4>1
        <5>2. runs'[q] # 0 /\ (runs'[q] = 2 => ~clean'[q]) /\ (clean'[q] => labels'[q] = {})
          BY <3>1, <4>1
        <5>3. QED
          BY <3>1, <4>1, <4>2, <5>1, <5>2 DEF RunOf
    <3>2. CASE q # k
      <4>1. /\ transaction'[q] = transaction[q] /\ run'[q] = run[q] /\ runs'[q] = runs[q]
            /\ clean'[q] = clean[q] /\ labels'[q] = labels[q]
        BY <1>1, <3>2 DEF RunTypes
      <4>2. RunOf(q)
        BY <1>1
      <4>3. QED
        BY <4>1, <4>2 DEF RunOf
    <3>3. QED
      BY <3>1, <3>2
  <2>3. QED
    BY <1>1, <2>1, <2>2 DEF RunParts, NothingOwed
<1>3. ASSUME NEW k \in Keys, NEW a \in Attributes, Metric!AddCustomAttributes(k, a)
      PROVE  RunParts'
  <2> USE <1>3 DEF Metric!AddCustomAttributes, Metric!None
  <2>0. \A given \in SUBSET Attributes : Metric!Merge(given, a) \in SUBSET Attributes
    BY DEF Metric!Merge
  <2>1. RunTypes'
    BY <1>1, <2>0 DEF RunTypes
  <2>2. \A q \in Keys : RunOf(q)'
    BY <1>1, <2>0 DEF RunTypes, RunOf
  <2>3. QED
    BY <1>1, <2>1, <2>2 DEF RunParts, NothingOwed
<1>4. ASSUME NEW k \in Keys, NEW status \in {"success", "error"}, Metric!Stop(k, status)
      PROVE  RunParts'
  <2> USE <1>4 DEF Metric!Stop, Metric!Forget, Metric!None, Metric!NoTransaction
  <2>1. RunTypes'
    <3>1. UNCHANGED <<clock, run, clean>> /\ runs' \in [Keys -> 0..2]
      BY <1>1 DEF RunTypes
    <3>2. transaction' \in [Keys -> [name : TransactionNames \cup {"none"}, at : Int]]
      BY <1>1 DEF RunTypes
    <3>3. labels' \in [Keys -> SUBSET Attributes]
      BY <1>1 DEF RunTypes
    <3>4. QED
      BY <1>1, <3>1, <3>2, <3>3 DEF RunTypes
  <2>2. (owed # NothingOwed => emitted = owed)'
    BY <1>1 DEF RunTypes, RunOf, NothingOwed, Metric!NoMeasurement, Metric!Measurement
  <2>3. \A q \in Keys : RunOf(q)'
    BY <1>1 DEF RunTypes, RunOf
  <2>4. QED
    BY <2>1, <2>2, <2>3 DEF RunParts
<1>5. ASSUME Metric!Tick \/ UNCHANGED Metric!transactionVars PROVE RunParts'
  <2>1. UNCHANGED <<transaction, labels, run, runs, clean, emitted, owed>>
        /\ (clock' = clock + 1 \/ clock' = clock)
    BY <1>5 DEF Metric!Tick, Metric!transactionVars
  <2>2. RunTypes'
    BY <1>1, <2>1 DEF RunTypes
  <2>3. \A q \in Keys : RunOf(q)'
    BY <1>1, <2>1 DEF RunOf
  <2>4. QED
    BY <1>1, <2>1, <2>2, <2>3 DEF RunParts, NothingOwed
<1>6. RunParts'
  BY <1>2, <1>3, <1>4, <1>5 DEF Metric!TransactionNext
<1>7. QED
  BY <1>6, RunCasesNext

-----------------------------------------------------------------------------
\* The types of what a metric keeps
SeriesTypes ==
    /\ config \in Metric!Configs /\ made \subseteq Instances
    /\ cached \in [Instances -> SUBSET Dimensions]
    /\ DOMAIN series \subseteq Dimensions /\ series = [d \in DOMAIN series |-> series[d]]
    /\ added \in [Dimensions -> Nat]

\* An instance that was made declares the dimension
Declares(d) == \E i \in made : d \in config.declared[i]

\* What there is of a dimension
SeriesOf(d) ==
    /\ d \in DOMAIN series => series[d] = added[d]
    /\ d \notin DOMAIN series => added[d] = 0
    /\ Metric!Dimensional /\ ~config.lazy => (d \in DOMAIN series <=> Declares(d))
    /\ Metric!Dimensional /\ config.lazy /\ (\A i \in made : config.declared[i] # {})
          => (d \in DOMAIN series => Declares(d))

\* The metrics that an instance made
CachedOf(i) ==
    /\ config.lazy /\ config.declared[i] # {} => cached[i] \subseteq config.declared[i]
    /\ ~config.lazy /\ Metric!Dimensional /\ i \in made => cached[i] = config.declared[i]

\* The invariant of the series, part by part
SeriesParts == SeriesTypes /\ (\A d \in Dimensions : SeriesOf(d)) /\ (\A i \in Instances : CachedOf(i))

\* The parts are the invariant that the runs check.
LEMMA SeriesCases == Metric!SeriesInv <=> SeriesParts
<1>1. \A d : d \in UNION {config.declared[i] : i \in made} <=> Declares(d)
  BY DEF Declares
<1>2. ASSUME SeriesTypes
      PROVE  Metric!SeriesAreDeclared <=> \A d \in Dimensions : SeriesOf(d)
  <2> DEFINE Declared == UNION {config.declared[i] : i \in made}
  <2>1. Declared \subseteq Dimensions
    BY <1>2 DEF SeriesTypes, Metric!Configs
  <2>2. \A d : d \in Declared <=> Declares(d)
    BY <1>1
  <2> HIDE DEF Declared
  <2>3. Metric!SeriesAreDeclared <=>
            /\ \A d \in Dimensions : (IF d \in DOMAIN series THEN series[d] ELSE 0) = added[d]
            /\ Metric!Dimensional /\ ~config.lazy => DOMAIN series = Declared
            /\ Metric!Dimensional /\ config.lazy /\ (\A i \in made : config.declared[i] # {})
                  => DOMAIN series \subseteq Declared
            /\ \A d \in DOMAIN series : d \in Declared \/ config.lazy \/ ~Metric!Dimensional
    BY DEF Metric!SeriesAreDeclared, Declared
  <2>4. QED
    BY <1>2, <2>1, <2>2, <2>3 DEF SeriesTypes, SeriesOf
<1>3. QED
  BY <1>2 DEF Metric!SeriesInv, SeriesParts, SeriesTypes, CachedOf

\* After a step as well.
LEMMA SeriesCasesNext == (Metric!SeriesInv <=> SeriesParts)'
<1>1. Metric!SeriesInv <=> SeriesParts
  BY SeriesCases
<1>2. QED
  BY <1>1, PTL

\* Nothing is registered.
LEMMA SeriesInit == ASSUME Metric!Init PROVE Metric!SeriesInv
<1>1. DOMAIN series = {} /\ series = [d \in DOMAIN series |-> series[d]]
  BY DEF Metric!Init
<1>2. SeriesParts
  BY <1>1 DEF Metric!Init, SeriesParts, SeriesTypes, SeriesOf, CachedOf, Declares
<1>3. QED
  BY <1>2, SeriesCases

\* A measurement leaves a natural number.
LEMMA MeasuredType ==
    ASSUME SeriesTypes, NEW n \in Nat, NEW amount \in Amounts PROVE Metric!Measured(n, amount) \in Nat
  BY DataAssumption DEF SeriesTypes, Metric!Configs, Metric!Measured, Metric!Inc, Metric!SetTo,
     Metric!Observe

\* Registering dimensions adds series that have measured nothing.
LEMMA PresentFacts ==
    ASSUME NEW ds
    PROVE  /\ DOMAIN Metric!Present(ds) = DOMAIN series \cup ds
           /\ \A d \in DOMAIN series \cup ds :
                 Metric!Present(ds)[d] = IF d \in DOMAIN series THEN series[d] ELSE 0
           /\ Metric!Present(ds) = [d \in DOMAIN Metric!Present(ds) |-> Metric!Present(ds)[d]]
  BY DEF Metric!Present

\* A measurement is added to the series and to what was measured.
LEMMA RegisterFacts ==
    ASSUME SeriesTypes, NEW d \in Dimensions, NEW amount \in Amounts, SeriesOf(d),
           series' = [Metric!Present({d}) EXCEPT ![d] = Metric!Measured(@, amount)],
           added' = [added EXCEPT ![d] = Metric!Measured(@, amount)]
    PROVE  /\ DOMAIN series' = DOMAIN series \cup {d}
           /\ series' = [e \in DOMAIN series' |-> series'[e]]
           /\ series'[d] = added'[d] /\ added' \in [Dimensions -> Nat]
           /\ \A e \in DOMAIN series : e # d => series'[e] = series[e]
           /\ \A e \in Dimensions : e # d => added'[e] = added[e]
<1> DEFINE P == Metric!Present({d})
<1>1. P[d] = added[d] /\ added[d] \in Nat
  BY PresentFacts DEF SeriesTypes, SeriesOf
<1>2. Metric!Measured(added[d], amount) \in Nat
  BY <1>1, MeasuredType
<1>3. DOMAIN P = DOMAIN series \cup {d} /\ \A e \in DOMAIN series : P[e] = series[e]
  BY PresentFacts
<1> HIDE DEF P
<1>4. series' = [P EXCEPT ![d] = Metric!Measured(P[d], amount)]
  BY DEF P
<1>5. series' = [e \in DOMAIN P |-> IF e = d THEN Metric!Measured(added[d], amount) ELSE P[e]]
  BY <1>1, <1>4
<1>6. DOMAIN series' = DOMAIN series \cup {d} /\ series' = [e \in DOMAIN series' |-> series'[e]]
  BY <1>3, <1>5
<1>7. /\ series'[d] = Metric!Measured(added[d], amount)
      /\ \A e \in DOMAIN series : e # d => series'[e] = series[e]
  BY <1>3, <1>5
<1>8. /\ added'[d] = Metric!Measured(added[d], amount) /\ added' \in [Dimensions -> Nat]
      /\ \A e \in Dimensions : e # d => added'[e] = added[e]
  BY <1>2 DEF SeriesTypes
<1>9. QED
  BY <1>6, <1>7, <1>8

\* Constructors register what is declared, and measurements what the instance may measure.
LEMMA SeriesStep ==
    ASSUME Metric!SeriesInv, Metric!SeriesNext \/ UNCHANGED Metric!seriesVars PROVE Metric!SeriesInv'
<1>1. SeriesTypes /\ (\A d \in Dimensions : SeriesOf(d)) /\ (\A i \in Instances : CachedOf(i))
  BY SeriesCases DEF SeriesParts
<1>2. ASSUME NEW i \in Instances, Metric!ConstructLabeled(i) PROVE SeriesParts'
  <2>1. ~Metric!Dimensional /\ made' = made \cup {i} /\ UNCHANGED <<config, cached, added>>
    BY <1>2 DEF Metric!ConstructLabeled
  <2>2. series' = Metric!Present(config.declared[i]) \/ series' = series
    BY <1>2 DEF Metric!ConstructLabeled
  <2>3. config.declared[i] \subseteq Dimensions
    BY <1>1 DEF SeriesTypes, Metric!Configs
  <2>4. /\ DOMAIN series' \subseteq Dimensions /\ series' = [d \in DOMAIN series' |-> series'[d]]
        /\ \A d \in DOMAIN series' : series'[d] = IF d \in DOMAIN series THEN series[d] ELSE 0
        /\ DOMAIN series \subseteq DOMAIN series'
    <3>1. CASE series' = series
      BY <1>1, <3>1 DEF SeriesTypes
    <3>2. CASE series' = Metric!Present(config.declared[i])
      <4> DEFINE ds == config.declared[i]
      <4>1. /\ DOMAIN Metric!Present(ds) = DOMAIN series \cup ds
            /\ \A d \in DOMAIN series \cup ds :
                  Metric!Present(ds)[d] = IF d \in DOMAIN series THEN series[d] ELSE 0
            /\ Metric!Present(ds) = [d \in DOMAIN Metric!Present(ds) |-> Metric!Present(ds)[d]]
        BY PresentFacts
      <4>2. series' = Metric!Present(ds) /\ ds \subseteq Dimensions
        BY <3>2, <2>3
      <4> HIDE DEF ds
      <4>3. QED
        BY <1>1, <4>1, <4>2 DEF SeriesTypes
    <3>3. QED
      BY <2>2, <3>1, <3>2
  <2>5. SeriesTypes'
    BY <1>1, <2>1, <2>4 DEF SeriesTypes
  <2>8. \A d \in Dimensions : SeriesOf(d)'
    BY <1>1, <2>1, <2>4 DEF SeriesOf, Metric!Dimensional
  <2>6. \A j \in Instances : CachedOf(j)'
    BY <1>1, <2>1 DEF CachedOf, Metric!Dimensional
  <2>7. QED
    BY <2>5, <2>8, <2>6 DEF SeriesParts
<1>3. ASSUME NEW i \in Instances, Metric!ConstructDimensional(i) PROVE SeriesParts'
  <2>1. Metric!Dimensional /\ made' = made \cup {i} /\ UNCHANGED <<config, added>>
    BY <1>3 DEF Metric!ConstructDimensional
  <2>2. config.declared[i] \subseteq Dimensions
    BY <1>1 DEF SeriesTypes, Metric!Configs
  <2>3. \A d : Declares(d)' <=> Declares(d) \/ d \in config.declared[i]
    BY <2>1 DEF Declares
  <2>4. CASE config.lazy
    <3>1. UNCHANGED <<cached, series>>
      BY <1>3, <2>4 DEF Metric!ConstructDimensional
    <3>2. SeriesTypes' /\ \A j \in Instances : CachedOf(j)'
      BY <1>1, <2>1, <2>4, <3>1 DEF SeriesTypes, CachedOf, Metric!Dimensional
    <3>3. \A d \in Dimensions : SeriesOf(d)'
      BY <1>1, <2>1, <2>3, <2>4, <3>1 DEF SeriesOf, Metric!Dimensional
    <3>4. QED
      BY <3>2, <3>3 DEF SeriesParts
  <2>5. CASE ~config.lazy
    <3>1. cached' = [cached EXCEPT ![i] = config.declared[i]] /\ series' = Metric!Present(config.declared[i])
      BY <1>3, <2>5 DEF Metric!ConstructDimensional
    <3>6. /\ DOMAIN series' = DOMAIN series \cup config.declared[i]
          /\ \A d \in DOMAIN series' : series'[d] = IF d \in DOMAIN series THEN series[d] ELSE 0
          /\ series' = [d \in DOMAIN series' |-> series'[d]]
      <4> DEFINE ds == config.declared[i]
      <4>1. /\ DOMAIN Metric!Present(ds) = DOMAIN series \cup ds
            /\ \A d \in DOMAIN series \cup ds :
                  Metric!Present(ds)[d] = IF d \in DOMAIN series THEN series[d] ELSE 0
            /\ Metric!Present(ds) = [d \in DOMAIN Metric!Present(ds) |-> Metric!Present(ds)[d]]
        BY PresentFacts
      <4>2. series' = Metric!Present(ds)
        BY <3>1
      <4>3. QED
        BY <4>1, <4>2
    <3>2. SeriesTypes'
      BY <1>1, <2>1, <2>2, <3>1, <3>6 DEF SeriesTypes
    <3>3. \A d \in Dimensions : SeriesOf(d)'
      BY <1>1, <2>1, <2>3, <2>5, <3>6 DEF SeriesOf, Metric!Dimensional
    <3>4. \A j \in Instances : CachedOf(j)'
      BY <1>1, <2>1, <2>5, <3>1 DEF SeriesTypes, CachedOf, Metric!Dimensional
    <3>5. QED
      BY <3>2, <3>3, <3>4 DEF SeriesParts
  <2>6. QED
    BY <2>4, <2>5
<1>4. ASSUME NEW i \in Instances, NEW d \in Dimensions, NEW amount \in Amounts,
             Metric!RegisterLabeled(i, d, amount)
      PROVE  SeriesParts'
  <2>1. /\ ~Metric!Dimensional /\ UNCHANGED <<config, made, cached>>
        /\ series' = [Metric!Present({d}) EXCEPT ![d] = Metric!Measured(@, amount)]
        /\ added' = [added EXCEPT ![d] = Metric!Measured(@, amount)]
    BY <1>4 DEF Metric!RegisterLabeled
  <2>3. /\ DOMAIN series' = DOMAIN series \cup {d}
        /\ series' = [e \in DOMAIN series' |-> series'[e]]
        /\ series'[d] = added'[d] /\ added' \in [Dimensions -> Nat]
        /\ \A e \in DOMAIN series : e # d => series'[e] = series[e]
        /\ \A e \in Dimensions : e # d => added'[e] = added[e]
    BY <1>1, <2>1, RegisterFacts
  <2>4. SeriesTypes'
    BY <1>1, <2>1, <2>3 DEF SeriesTypes
  <2>5. \A e \in Dimensions : SeriesOf(e)'
    BY <1>1, <2>1, <2>3 DEF SeriesOf, Metric!Dimensional
  <2>6. \A j \in Instances : CachedOf(j)'
    BY <1>1, <2>1 DEF CachedOf, Metric!Dimensional
  <2>7. QED
    BY <2>4, <2>5, <2>6 DEF SeriesParts
<1>5. ASSUME NEW i \in Instances, NEW d \in Dimensions, NEW amount \in Amounts,
             Metric!RegisterDimensional(i, d, amount)
      PROVE  SeriesParts'
  <2>1. Metric!Dimensional /\ i \in made /\ UNCHANGED <<config, made>>
    BY <1>5 DEF Metric!RegisterDimensional
  <2>2. Metric!Registers(i, d) <=> d \in config.declared[i] \/ (config.lazy /\ config.declared[i] = {})
    BY <1>1, <2>1 DEF CachedOf, Metric!Registers
  <2>3. CASE Metric!Registers(i, d)
    <3>1. /\ cached' = [cached EXCEPT ![i] = @ \cup {d}]
          /\ series' = [Metric!Present({d}) EXCEPT ![d] = Metric!Measured(@, amount)]
          /\ added' = [added EXCEPT ![d] = Metric!Measured(@, amount)]
      BY <1>5, <2>2, <2>3 DEF Metric!RegisterDimensional
    <3>3. /\ DOMAIN series' = DOMAIN series \cup {d}
          /\ series' = [e \in DOMAIN series' |-> series'[e]]
          /\ series'[d] = added'[d] /\ added' \in [Dimensions -> Nat]
          /\ \A e \in DOMAIN series : e # d => series'[e] = series[e]
          /\ \A e \in Dimensions : e # d => added'[e] = added[e]
      BY <1>1, <3>1, RegisterFacts
    <3>4. SeriesTypes'
      BY <1>1, <2>1, <3>1, <3>3 DEF SeriesTypes
    <3>5. \A e : Declares(e)' <=> Declares(e)
      BY <2>1 DEF Declares
    <3>6. Declares(d) \/ (config.lazy /\ config.declared[i] = {})
      BY <2>1, <2>2, <2>3 DEF Declares
    <3>7. \A e \in Dimensions : SeriesOf(e)'
      BY <1>1, <2>1, <3>1, <3>3, <3>5, <3>6 DEF SeriesTypes, SeriesOf, Metric!Dimensional
    <3>8. \A j \in Instances : CachedOf(j)'
      BY <1>1, <2>1, <2>2, <2>3, <3>1 DEF SeriesTypes, CachedOf, Metric!Dimensional
    <3>9. QED
      BY <3>4, <3>7, <3>8 DEF SeriesParts
  <2>4. CASE ~Metric!Registers(i, d)
    <3>1. UNCHANGED <<cached, series>>
      BY <1>5, <2>4 DEF Metric!RegisterDimensional
    <3>2. added' = [added EXCEPT ![d] = added[d]]
      BY <1>5, <2>2, <2>4 DEF Metric!RegisterDimensional
    <3>3. added' = added
      BY <1>1, <3>2 DEF SeriesTypes
    <3>4. QED
      BY <1>1, <2>1, <3>1, <3>3 DEF SeriesParts, SeriesTypes, SeriesOf, CachedOf, Declares,
         Metric!Dimensional
  <2>5. QED
    BY <2>3, <2>4
<1>6. ASSUME UNCHANGED Metric!seriesVars PROVE SeriesParts'
  BY <1>1, <1>6 DEF Metric!seriesVars, SeriesParts, SeriesTypes, SeriesOf, CachedOf, Declares,
     Metric!Dimensional
<1>7. SeriesParts'
  BY <1>2, <1>3, <1>4, <1>5, <1>6 DEF Metric!SeriesNext
<1>8. QED
  BY <1>7, SeriesCasesNext

-----------------------------------------------------------------------------
(* Health checks *)

\* What the store keeps of a check
Entry == [id : Checks, successful : BOOLEAN, age : 0..(Ttl + 1)]

\* A store with entries of different checks
StoreTypes ==
    /\ store \in Seq(Entry) /\ Len(store) <= MaxHealthcheckNumber
    /\ \A i, j \in 1..Len(store) : store[i].id = store[j].id => i = j

\* which tell what the checks answered
StoreTells ==
    \A i \in 1..Len(store) :
        /\ store[i].age = age[store[i].id]
        /\ answer[store[i].id] = IF store[i].successful THEN "up" ELSE "down"

\* The store has an entry of the check
Stored(c) == \E i \in 1..Len(store) : store[i].id = c

\* The types of the job and of the history
JobTypes ==
    /\ checking \subseteq Checks /\ due \subseteq Checks
    /\ answer \in [Checks -> {"none", "up", "down"}]
    /\ age \in [Checks -> 0..(Ttl + 1)]

\* With room for all that answered, every answer that is not old is there
AllStored ==
    Cardinality(Checkup!Reporting) <= MaxHealthcheckNumber
        => \A c \in Checkup!Reporting : age[c] <= Ttl => Stored(c)

\* The invariant of the store, part by part
HealthParts == JobTypes /\ StoreTypes /\ StoreTells /\ AllStored

\* The parts are the invariant that the runs check.
LEMMA HealthCases == Checkup!IInv <=> HealthParts
<1>1. store \in Seq(Entry) => DOMAIN store = 1..Len(store)
  BY LenProperties
<1>2. store \in Seq(Entry) => \A c : Checkup!Position(c) # {} <=> Stored(c)
  BY <1>1 DEF Checkup!Position, Stored
<1>3. Checkup!Cardinality(Checkup!Reporting) = Cardinality(Checkup!Reporting)
  BY DEF Checkup!Cardinality, Cardinality
<1>4. QED
  BY <1>1, <1>2, <1>3 DEF Checkup!IInv, Checkup!TypeOK, HealthParts, JobTypes, StoreTypes, StoreTells,
     AllStored, Entry

\* After a step as well.
LEMMA HealthCasesNext == (Checkup!IInv <=> HealthParts)'
<1>1. Checkup!IInv <=> HealthParts
  BY HealthCases
<1>2. QED
  BY <1>1, PTL

\* The store is empty and nothing has answered.
LEMMA HealthInit == ASSUME Checkup!Init PROVE Checkup!IInv
<1>1. JobTypes
  BY DataAssumption DEF Checkup!Init, JobTypes
<1>2. store = <<>> /\ Len(store) = 0 /\ store \in Seq(Entry)
  BY EmptySeq DEF Checkup!Init
<1>3. StoreTypes /\ StoreTells
  BY <1>2, DataAssumption DEF StoreTypes, StoreTells
<1>4. Checkup!Reporting = {}
  BY DEF Checkup!Reporting, Checkup!Init
<1>5. QED
  BY <1>1, <1>3, <1>4, HealthCases DEF HealthParts, AllStored

\* When the store is full of other checks than c, more than fit have answered.
LEMMA NoRoom ==
    ASSUME HealthParts, NEW c \in Checks, ~Stored(c), Len(store) = MaxHealthcheckNumber,
           NEW T \in SUBSET Checks, Checkup!Reporting \subseteq T, c \in T
    PROVE  ~(Cardinality(T) <= MaxHealthcheckNumber)
<1> DEFINE n == MaxHealthcheckNumber
<1> DEFINE f == [i \in 0..n |-> IF i = 0 THEN c ELSE store[i].id]
<1>1. IsFiniteSet(T) /\ Cardinality(T) \in Nat
  BY DataAssumption, FS_Subset, FS_CardinalityType
<1>2. n \in Nat /\ Len(store) = n
  BY DataAssumption
<1>3. IsFiniteSet(0..n) /\ Cardinality(0..n) = n + 1
  BY <1>2, FS_Interval
<1>4. \A i \in 1..n : store[i].id \in T
  <2> SUFFICES ASSUME NEW i \in 1..n PROVE store[i].id \in T
    OBVIOUS
  <2>1. store[i].id \in Checks
    <3>1. store \in Seq(Entry) /\ i \in 1..Len(store)
      BY <1>2 DEF HealthParts, StoreTypes
    <3>2. store[i] \in Entry
      BY <3>1, ElementOfSeq
    <3>3. QED
      BY <3>2 DEF Entry
  <2>2. answer[store[i].id] # "none"
    BY <1>2 DEF HealthParts, StoreTells
  <2>3. QED
    BY <2>1, <2>2 DEF Checkup!Reporting
<1>5. f \in [0..n -> T]
  BY <1>2, <1>4
<1>6. \A x, y \in 0..n : f[x] = f[y] => x = y
  <2>1. \A x \in 1..n : f[x] = store[x].id /\ f[x] # c
    BY <1>2 DEF Stored
  <2>2. f[0] = c
    BY <1>2
  <2>3. \A x, y \in 1..n : f[x] = f[y] => x = y
    BY <1>2, <2>1 DEF HealthParts, StoreTypes
  <2> HIDE DEF f
  <2>4. QED
    BY <1>2, <2>1, <2>2, <2>3
<1> HIDE DEF f
<1>7. CASE Cardinality(T) <= n
  <2>1. Cardinality(T) < Cardinality(0..n)
    BY <1>1, <1>2, <1>3, <1>7
  <2>2. \E x, y \in 0..n : x # y /\ f[x] = f[y]
    BY <1>1, <1>3, <1>5, <2>1, FS_PigeonHole
  <2>3. QED
    BY <1>6, <2>2
<1>8. QED
  BY <1>7

\* What keeps the answers and their ages keeps the invariant of the store.
LEMMA HealthStep == ASSUME Checkup!IInv, Checkup!Next \/ UNCHANGED healthVars PROVE Checkup!IInv'
<1>1. JobTypes /\ StoreTypes /\ StoreTells /\ AllStored /\ HealthParts
  BY HealthCases DEF HealthParts
<1>2. ASSUME JobTypes', UNCHANGED <<store, answer, age>> PROVE HealthParts'
  BY <1>1, <1>2 DEF HealthParts, StoreTypes, StoreTells, AllStored, Stored, Checkup!Reporting
<1>3. ASSUME Checkup!Refresh PROVE HealthParts'
  <2>1. JobTypes'
    BY <1>1, <1>3 DEF Checkup!Refresh, JobTypes
  <2>2. QED
    BY <2>1, <1>2, <1>3 DEF Checkup!Refresh
<1>4. ASSUME NEW id \in Checks, Checkup!Execute(id) \/ Checkup!Rejected(id) PROVE HealthParts'
  <2>1. JobTypes'
    BY <1>1, <1>4 DEF Checkup!Execute, Checkup!Rejected, JobTypes
  <2>2. QED
    BY <2>1, <1>2, <1>4 DEF Checkup!Execute, Checkup!Rejected
<1>5. ASSUME UNCHANGED healthVars PROVE HealthParts'
  BY <1>1, <1>2, <1>5 DEF healthVars, JobTypes
<1>0. /\ store \in Seq(Entry) /\ Len(store) \in Nat /\ DOMAIN store = 1..Len(store)
      /\ \A i \in 1..Len(store) : store[i] \in Entry
  BY <1>1, LenProperties, ElementOfSeq DEF StoreTypes
<1> DEFINE n == Len(store)
<1>6. ASSUME Checkup!Tick PROVE HealthParts'
  <2>0. store' = [i \in 1..n |-> [store[i] EXCEPT !.age = Checkup!Older(@)]]
        /\ age' = [c \in Checks |-> Checkup!Older(age[c])] /\ UNCHANGED <<checking, due, answer>>
    BY <1>0, <1>6 DEF Checkup!Tick
  <2>1. \A k \in 0..(Ttl + 1) : Checkup!Older(k) \in 0..(Ttl + 1) /\ (Checkup!Older(k) <= Ttl => k <= Ttl)
    BY DataAssumption DEF Checkup!Older
  <2>2. JobTypes'
    BY <1>1, <2>0, <2>1 DEF JobTypes
  <2>3. /\ store' \in [1..n -> Entry]
        /\ \A i \in 1..n : /\ store'[i].id = store[i].id /\ store'[i].successful = store[i].successful
                           /\ store'[i].age = Checkup!Older(store[i].age)
    BY <1>0, <2>0, <2>1 DEF Entry
  <2>4. store' \in Seq(Entry) /\ Len(store') = n
    BY <2>3, <1>0
  <2>5. StoreTypes'
    BY <1>1, <2>3, <2>4 DEF StoreTypes
  <2>6. StoreTells'
    BY <1>0, <1>1, <2>0, <2>3, <2>4 DEF StoreTells, Entry
  <2>7. Checkup!Reporting' = Checkup!Reporting
    BY <2>0 DEF Checkup!Reporting
  <2>8. \A c : Stored(c)' <=> Stored(c)
    BY <2>3, <2>4 DEF Stored
  <2>9. \A c \in Checks : age'[c] <= Ttl => age[c] <= Ttl
    BY <1>1, <2>0, <2>1 DEF JobTypes
  <2>10. AllStored'
    BY <1>1, <2>7, <2>8, <2>9 DEF AllStored, Checkup!Reporting
  <2>11. QED
    BY <2>2, <2>5, <2>6, <2>10 DEF HealthParts
<1>7. ASSUME NEW id \in Checks, Checkup!Read(id) PROVE HealthParts'
  <2>1. PICK i \in 1..n : store[i].id = id /\ store[i].age > Ttl /\ store' = Checkup!RemoveAt(store, i)
    BY <1>0, <1>7 DEF Checkup!Read, Checkup!Position
  <2>2. UNCHANGED <<checking, due, answer, age>>
    BY <1>7 DEF Checkup!Read
  <2>3. /\ store' \in Seq(Entry) /\ Len(store') = n - 1
        /\ \A k \in 1..(n - 1) : store'[k] = IF k < i THEN store[k] ELSE store[k + 1]
    <3> DEFINE a == SubSeq(store, 1, i - 1)
    <3> DEFINE b == SubSeq(store, i + 1, n)
    <3>1. store' = a \o b
      BY <2>1 DEF Checkup!RemoveAt
    <3>2. 1 \in Int /\ i - 1 \in Int /\ i + 1 \in Int /\ n \in Int
      BY <1>0
    <3>3. (\A k \in 1..(i - 1) : store[k] \in Entry) /\ (\A k \in (i + 1)..n : store[k] \in Entry)
      BY <1>0
    <3>4. a \in Seq(Entry) /\ Len(a) = i - 1 /\ \A k \in 1..(i - 1) : a[k] = store[k]
      BY <1>0, <3>2, <3>3, SubSeqProperties
    <3>5. b \in Seq(Entry) /\ Len(b) = n - i /\ \A k \in 1..(n - i) : b[k] = store[k + i]
      <4>1. /\ b \in Seq(Entry) /\ Len(b) = IF i + 1 <= n THEN n - (i + 1) + 1 ELSE 0
            /\ \A k \in 1..(n - (i + 1) + 1) : b[k] = store[(i + 1) + k - 1]
        BY <3>2, <3>3, SubSeqProperties
      <4> HIDE DEF b, n
      <4>2. n \in Nat /\ i \in 1..n
        BY <1>0 DEF n
      <4>3. \A k \in 1..(n - i) : k \in 1..(n - (i + 1) + 1) /\ (i + 1) + k - 1 = k + i
        BY <4>2
      <4>4. QED
        BY <4>1, <4>2, <4>3
    <3> HIDE DEF a, b
    <3>6. a \in Seq(Entry) /\ b \in Seq(Entry)
      BY <3>4, <3>5
    <3>7. /\ store' \in Seq(Entry) /\ Len(store') = Len(a) + Len(b)
          /\ \A k \in 1..(Len(a) + Len(b)) : store'[k] = IF k <= Len(a) THEN a[k] ELSE b[k - Len(a)]
      BY <3>1, <3>6, ConcatProperties
    <3> HIDE DEF n
    <3>8. n \in Nat
      BY <1>0 DEF n
    <3>9. QED
      BY <3>4, <3>5, <3>7, <3>8
  <2>4. n \in Nat /\ \A k \in 1..(n - 1) : k \in 1..n /\ k + 1 \in 1..n
    BY <1>0
  <2> DEFINE from == [k \in 1..(n - 1) |-> IF k < i THEN k ELSE k + 1]
  <2>12. \A k \in 1..(n - 1) : from[k] \in 1..n /\ store'[k] = store[from[k]]
    BY <2>3, <2>4
  <2>13. \A k, l \in 1..(n - 1) : from[k] = from[l] => k = l
    BY <2>1, <2>4
  <2> HIDE DEF from
  <2>5. StoreTypes'
    <3>1. n \in Nat /\ n <= MaxHealthcheckNumber /\ \A k, l \in 1..n : store[k].id = store[l].id => k = l
      BY <1>1, <2>4 DEF StoreTypes
    <3>2. \A k, l \in 1..(n - 1) : store'[k].id = store'[l].id => k = l
      BY SMTT(20), <2>12, <2>13, <3>1
    <3>3. n - 1 <= MaxHealthcheckNumber
      BY <3>1, DataAssumption
    <3>4. QED
      BY <2>3, <3>2, <3>3 DEF StoreTypes
  <2>6. StoreTells'
    BY <1>1, <2>2, <2>3, <2>12 DEF StoreTells
  <2>7. \A c : Stored(c) => c = id \/ Stored(c)'
    <3> SUFFICES ASSUME NEW k \in 1..n, k # i PROVE \E l \in 1..(n - 1) : store'[l].id = store[k].id
      BY <2>1, <2>3 DEF Stored
    <3>1. CASE k < i
      <4>1. k \in 1..(n - 1)
        BY <2>1, <2>4, <3>1
      <4>2. store'[k] = store[k]
        BY <2>3, <3>1, <4>1
      <4>3. QED
        BY <4>1, <4>2
    <3>2. CASE k > i
      <4>1. k - 1 \in 1..(n - 1) /\ ~(k - 1 < i) /\ (k - 1) + 1 = k
        BY <2>1, <2>4, <3>2
      <4>2. store'[k - 1] = store[k]
        BY <2>3, <4>1
      <4>3. QED
        BY <4>1, <4>2
    <3>3. QED
      BY <3>1, <3>2
  <2>8. age[id] > Ttl /\ age[id] \in Int
    BY <1>1, <2>1 DEF StoreTells, JobTypes
  <2>9. AllStored'
    BY <1>1, <2>2, <2>7, <2>8, DataAssumption DEF AllStored, Checkup!Reporting
  <2>10. JobTypes'
    BY <1>1, <2>2 DEF JobTypes
  <2>11. QED
    BY <2>5, <2>6, <2>9, <2>10 DEF HealthParts
<1>8. ASSUME NEW id \in Checks, Checkup!Answered(id) PROVE HealthParts'
  <2>1. PICK successful \in BOOLEAN :
          /\ Checkup!Set(id, successful)
          /\ answer' = [answer EXCEPT ![id] = IF successful THEN "up" ELSE "down"]
    BY <1>8 DEF Checkup!Answered
  <2> DEFINE entry == [id |-> id, successful |-> successful, age |-> 0]
  <2>2. age' = [age EXCEPT ![id] = 0] /\ checking' = checking \ {id} /\ UNCHANGED due
    BY <1>8 DEF Checkup!Answered
  <2>3. JobTypes'
    BY <1>1, <2>1, <2>2, DataAssumption DEF JobTypes
  <2>4. /\ answer'[id] = IF successful THEN "up" ELSE "down"
        /\ age'[id] = 0
        /\ \A c \in Checks : c # id => answer'[c] = answer[c] /\ age'[c] = age[c]
    BY <1>1, <2>1, <2>2 DEF JobTypes
  <2>5. entry \in Entry
    BY <2>1, DataAssumption DEF Entry
  <2>6. Checkup!Reporting' = Checkup!Reporting \cup {id}
    BY <2>4 DEF Checkup!Reporting
  <2>7. Cardinality(Checkup!Reporting') <= MaxHealthcheckNumber
           => Cardinality(Checkup!Reporting) <= MaxHealthcheckNumber
    <3>1. IsFiniteSet(Checkup!Reporting') /\ Checkup!Reporting \in SUBSET Checkup!Reporting'
      <4>1. Checkup!Reporting' \in SUBSET Checks
        BY <2>6 DEF Checkup!Reporting
      <4>2. QED
        BY <4>1, <2>6, DataAssumption, FS_Subset
    <3>2. /\ Cardinality(Checkup!Reporting) <= Cardinality(Checkup!Reporting')
          /\ Cardinality(Checkup!Reporting) \in Nat /\ Cardinality(Checkup!Reporting') \in Nat
      BY <3>1, FS_Subset, FS_CardinalityType
    <3>3. QED
      BY <3>2, DataAssumption
  <2>8. Checkup!Position(id) # {} <=> Stored(id)
    BY <1>0 DEF Checkup!Position, Stored
  <2>9. \A i \in 1..n : store[i].id \in Checks
    BY <1>0 DEF Entry
  <2>10. CASE Stored(id)
    <3>1. store' = [i \in 1..n |-> IF store[i].id = id THEN entry ELSE store[i]]
      BY <1>0, <2>1, <2>8, <2>10 DEF Checkup!Set
    <3>2. /\ store' \in [1..n -> Entry]
          /\ \A i \in 1..n : store'[i] = IF store[i].id = id THEN entry ELSE store[i]
      BY <1>0, <2>5, <3>1
    <3>3. store' \in Seq(Entry) /\ Len(store') = n
      BY <3>2, <1>0
    <3>4. \A i \in 1..n : store'[i].id = store[i].id
      BY <3>2
    <3>5. StoreTypes'
      BY <1>1, <3>3, <3>4 DEF StoreTypes
    <3>6. StoreTells'
      BY <1>1, <2>1, <2>4, <2>9, <3>2, <3>3 DEF StoreTells
    <3>7. \A c : Stored(c)' <=> Stored(c)
      BY <3>3, <3>4 DEF Stored
    <3>8. AllStored'
      BY <1>1, <2>4, <2>6, <2>7, <2>10, <3>7 DEF AllStored, Checkup!Reporting
    <3>9. QED
      BY <2>3, <3>5, <3>6, <3>8 DEF HealthParts
  <2>11. CASE ~Stored(id)
    <3> DEFINE kept == IF n = MaxHealthcheckNumber THEN Tail(store) ELSE store
    <3> DEFINE shift == IF n = MaxHealthcheckNumber THEN 1 ELSE 0
    <3>1. store' = Append(kept, entry)
      BY <2>1, <2>8, <2>11 DEF Checkup!Set
    <3>2. /\ kept \in Seq(Entry) /\ Len(kept) = n - shift /\ shift \in {0, 1}
          /\ Len(kept) < MaxHealthcheckNumber
          /\ Len(kept) \in Nat /\ \A k \in 1..Len(kept) : k + shift \in 1..n /\ kept[k] = store[k + shift]
      <4>1. CASE n = MaxHealthcheckNumber
        <5>1. store # <<>>
          BY <4>1, DataAssumption
        <5>2. /\ Tail(store) \in Seq(Entry) /\ Len(Tail(store)) = n - 1
              /\ \A k \in 1..Len(Tail(store)) : Tail(store)[k] = store[k + 1]
          BY <1>0, <5>1, HeadTailProperties
        <5>3. QED
          BY <4>1, <5>2, <1>0, DataAssumption
      <4>2. CASE n # MaxHealthcheckNumber
        <5>1. kept = store /\ shift = 0
          BY <4>2
        <5>2. n \in Nat /\ Len(store) = n
          BY <1>0
        <5>3. n <= MaxHealthcheckNumber
          BY <1>1 DEF StoreTypes
        <5>4. store \in Seq(Entry)
          BY <1>0
        <5> HIDE DEF kept, shift, entry
        <5> HIDE DEF n
        <5>5. n < MaxHealthcheckNumber /\ \A k \in 1..n : k + 0 \in 1..n /\ k + 0 = k
          BY <4>2, <5>2, <5>3, DataAssumption
        <5>6. Len(kept) = n
          BY <5>1, <5>2
        <5>7. n - 0 = n /\ 0 \in {0, 1}
          BY <5>2
        <5>8. \A k \in 1..n : kept[k] = store[k + 0]
          BY <5>1, <5>5
        <5>9. QED
          BY ONLY <5>1, <5>2, <5>4, <5>5, <5>6, <5>7, <5>8
      <4>3. QED
        BY <4>1, <4>2
    <3> HIDE DEF kept, shift, entry
    <3> DEFINE m == Len(kept)
    <3>3. /\ store' \in Seq(Entry) /\ Len(store') = m + 1
          /\ \A k \in 1..m : store'[k] = kept[k]
          /\ store'[m + 1] = entry
      BY <2>5, <3>1, <3>2, AppendProperties
    <3> HIDE DEF m
    <3>4. /\ m \in Nat /\ m < MaxHealthcheckNumber
          /\ \A k \in 1..m : k + shift \in 1..n /\ store'[k] = store[k + shift]
      BY <3>2, <3>3 DEF m
    <3>5. entry.id = id /\ entry.successful = successful /\ entry.age = 0
      BY DEF entry
    <3>6. \A k \in 1..m : store'[k].id # id
      BY <2>11, <3>4 DEF Stored
    <3>7. \A k \in 1..(m + 1) : k \in 1..m \/ k = m + 1
      BY <3>4
    <3>8. \A i, j \in 1..(m + 1) : store'[i].id = store'[j].id => i = j
      <4>1. \A i, j \in 1..m : store'[i].id = store'[j].id => i = j
        <5>1. \A k, l \in 1..n : store[k].id = store[l].id => k = l
          BY <1>1 DEF StoreTypes
        <5>2. \A k, l \in 1..m : k + shift = l + shift => k = l
          BY <3>2, <3>4
        <5>3. QED
          BY <3>4, <5>1, <5>2
      <4>2. QED
        BY <4>1, <3>3, <3>5, <3>6, <3>7
    <3>9. StoreTypes'
      BY <3>3, <3>4, <3>8, DataAssumption DEF StoreTypes
    <3>10. StoreTells'
      <4>1. \A k \in 1..m : store'[k].age = age'[store'[k].id]
              /\ answer'[store'[k].id] = IF store'[k].successful THEN "up" ELSE "down"
        BY SMTT(20), <1>1, <2>4, <2>9, <3>4, <3>6 DEF StoreTells
      <4>2. QED
        BY <4>1, <2>4, <3>3, <3>5, <3>7 DEF StoreTells
    <3>11. AllStored'
      <4> SUFFICES ASSUME Cardinality(Checkup!Reporting') <= MaxHealthcheckNumber,
                          NEW c \in Checkup!Reporting', age'[c] <= Ttl
                   PROVE  Stored(c)'
        BY DEF AllStored
      <4>1. m + 1 \in 1..Len(store') /\ store'[m + 1].id = id
        BY <3>3, <3>4, <3>5
      <4>2. CASE c = id
        BY <4>1, <4>2 DEF Stored
      <4>3. CASE c # id
        <5>1. c \in Checkup!Reporting /\ age[c] <= Ttl
          BY <4>3, <2>4, <2>6 DEF Checkup!Reporting
        <5>2. Stored(c)
          BY <1>1, <2>7, <5>1 DEF AllStored
        <5>3. n # MaxHealthcheckNumber
          <6>1. Checkup!Reporting' \in SUBSET Checks /\ id \in Checkup!Reporting'
            BY <2>6 DEF Checkup!Reporting
          <6>2. QED
            BY <6>1, <1>1, <2>6, <2>11, NoRoom
        <5>4. shift = 0 /\ m = n
          BY <5>3, <3>2 DEF shift, m
        <5>5. PICK k \in 1..n : store[k].id = c
          BY <5>2 DEF Stored
        <5>6. k \in 1..m /\ k + shift = k
          BY <5>4, <5>5, <1>0
        <5>7. store'[k].id = c /\ k \in 1..Len(store')
          BY <3>3, <3>4, <5>4, <5>5, <5>6
        <5>8. QED
          BY <5>7 DEF Stored
      <4>4. QED
        BY <4>2, <4>3
    <3>12. QED
      BY <2>3, <3>9, <3>10, <3>11 DEF HealthParts
  <2>12. QED
    BY <2>10, <2>11
<1>9. HealthParts'
  BY <1>3, <1>4, <1>5, <1>6, <1>7, <1>8 DEF Checkup!Next
<1>10. QED
  BY <1>9, HealthCasesNext

\* What the store tells is what the checks answered.
LEMMA HealthHolds == ASSUME Checkup!IInv PROVE Checkup!HealthIsFresh
<1>1. JobTypes /\ StoreTypes /\ StoreTells /\ AllStored
  BY HealthCases DEF HealthParts
<1>2. DOMAIN store = 1..Len(store) /\ \A i \in 1..Len(store) : store[i] \in Entry
  BY <1>1, LenProperties, ElementOfSeq DEF StoreTypes
<1>3. Checkup!Cardinality({c \in Checks : answer[c] # "none"}) = Cardinality(Checkup!Reporting)
  BY DEF Checkup!Cardinality, Cardinality, Checkup!Reporting
<1> SUFFICES ASSUME NEW c \in Checks
             PROVE  /\ Checkup!GetHealthcheckResult(c) => answer[c] = "up" /\ age[c] <= Ttl
                    /\ Cardinality(Checkup!Reporting) <= MaxHealthcheckNumber /\ answer[c] = "up" /\ age[c] <= Ttl
                          => Checkup!GetHealthcheckResult(c)
  BY <1>3 DEF Checkup!HealthIsFresh
<1>4. Checkup!GetHealthcheckResult(c)
         <=> \E i \in 1..Len(store) : store[i].id = c /\ store[i].age <= Ttl /\ store[i].successful
  BY <1>2 DEF Checkup!GetHealthcheckResult, Checkup!Position
<1>5. Checkup!GetHealthcheckResult(c) => answer[c] = "up" /\ age[c] <= Ttl
  BY <1>1, <1>2, <1>4 DEF StoreTells, Entry
<1>6. ASSUME Cardinality(Checkup!Reporting) <= MaxHealthcheckNumber, answer[c] = "up", age[c] <= Ttl
      PROVE  Checkup!GetHealthcheckResult(c)
  <2>1. c \in Checkup!Reporting
    BY <1>6 DEF Checkup!Reporting
  <2>2. PICK i \in 1..Len(store) : store[i].id = c
    BY <1>1, <1>6, <2>1 DEF AllStored, Stored
  <2>3. store[i].age <= Ttl /\ store[i].successful
    BY <1>1, <1>2, <1>6, <2>2 DEF StoreTells, Entry
  <2>4. QED
    BY <1>4, <2>2, <2>3
<1>7. QED
  BY <1>5, <1>6

\* The elements of a sequence are of its type.
LEMMA InSequence == ASSUME NEW S, NEW s \in Seq(S) PROVE \A i \in DOMAIN s : s[i] \in S
  OBVIOUS

-----------------------------------------------------------------------------
(* Waits *)

\* The function that a power is defined by, up to n
PowersTo(base, n, f) == f = [i \in 0..n |-> IF i = 0 THEN 1 ELSE base * f[i - 1]]

\* It exists, so that a power is its last value.
LEMMA PowersAreDefined ==
    ASSUME NEW base, NEW n \in Nat
    PROVE  \E f : PowersTo(base, n, f) /\ Delays!Power(base, n) = f[n]
<1> DEFINE Defined == {k \in Nat : \E f : PowersTo(base, k, f)}
<1>1. 0 \in Defined
  <2>1. PowersTo(base, 0, [i \in 0..0 |-> 1])
    BY DEF PowersTo
  <2>2. QED
    BY <2>1
<1>2. ASSUME NEW k \in Nat, k \in Defined PROVE k + 1 \in Defined
  <2>1. PICK f : PowersTo(base, k, f)
    BY <1>2
  <2> DEFINE g == [i \in 0..(k + 1) |-> IF i = k + 1 THEN base * f[k] ELSE f[i]]
  <2>2. \A i \in 0..(k + 1) : g[i] = IF i = 0 THEN 1 ELSE base * g[i - 1]
    <3> TAKE i \in 0..(k + 1)
    <3>1. CASE i = k + 1
      BY <3>1
    <3>2. CASE i # k + 1
      BY <2>1, <3>2 DEF PowersTo
    <3>3. QED
      BY <3>1, <3>2
  <2>3. PowersTo(base, k + 1, g)
    BY <2>2 DEF PowersTo
  <2>4. QED
    BY <2>3
<1>3. \E f : PowersTo(base, n, f)
  BY <1>1, <1>2, NaturalInduction
<1> DEFINE f == CHOOSE f : f = [i \in 0..n |-> IF i = 0 THEN 1 ELSE base * f[i - 1]]
<1>4. PowersTo(base, n, f)
  BY <1>3 DEF PowersTo
<1>5. Delays!Power(base, n) = f[n]
  BY Zenon DEF Delays!Power
<1>6. QED
  BY <1>4, <1>5

\* A power is the one before times its base.
LEMMA PowerGrows ==
    ASSUME NEW base
    PROVE  /\ Delays!Power(base, 0) = 1
           /\ \A n \in Nat : Delays!Power(base, n + 1) = base * Delays!Power(base, n)
<1>1. Delays!Power(base, 0) = 1
  BY PowersAreDefined DEF PowersTo
<1>2. ASSUME NEW n \in Nat PROVE Delays!Power(base, n + 1) = base * Delays!Power(base, n)
  <2>1. PICK f : PowersTo(base, n, f) /\ Delays!Power(base, n) = f[n]
    BY PowersAreDefined
  <2>2. PICK g : PowersTo(base, n + 1, g) /\ Delays!Power(base, n + 1) = g[n + 1]
    BY PowersAreDefined
  <2> DEFINE Same == {i \in Nat : i <= n => f[i] = g[i]}
  <2>3. 0 \in Same
    BY <2>1, <2>2 DEF PowersTo
  <2>4. ASSUME NEW i \in Nat, i \in Same PROVE i + 1 \in Same
    BY <2>1, <2>2, <2>4 DEF PowersTo
  <2>5. f[n] = g[n]
    <3>1. Nat \subseteq Same
      BY <2>3, <2>4, NaturalInduction
    <3>2. QED
      BY <3>1
  <2>6. g[n + 1] = base * g[n]
    BY <2>2 DEF PowersTo
  <2>7. QED
    BY <2>1, <2>2, <2>5, <2>6
<1>3. QED
  BY <1>1, <1>2

\* Powers of naturals are naturals, and positive when their base is.
LEMMA PowerTypes ==
    ASSUME NEW base \in Nat, NEW n \in Nat
    PROVE  /\ Delays!Power(base, n) \in Nat
           /\ base > 0 => Delays!Power(base, n) > 0
<1> DEFINE Good == {k \in Nat : Delays!Power(base, k) \in Nat /\ (base > 0 => Delays!Power(base, k) > 0)}
<1>1. 0 \in Good
  BY PowerGrows
<1>2. ASSUME NEW k \in Nat, k \in Good PROVE k + 1 \in Good
  <2>1. \A p \in Nat : base * p \in Nat /\ (base > 0 /\ p > 0 => base * p > 0)
    OBVIOUS
  <2>2. QED
    BY <1>2, <2>1, PowerGrows
<1>3. QED
  BY <1>1, <1>2, NaturalInduction

\* Products grow with their factors.
LEMMA ProductsGrow ==
    ASSUME NEW a \in Int, NEW b \in Int, NEW c \in Nat, a <= b
    PROVE  a * c \in Int /\ b * c \in Int /\ a * c <= b * c
  OBVIOUS

\* A retry of a request waits as its options and its server ask.
LEMMA RetriesAlwaysWait ==
    ASSUME NEW headers \in Delays!Headers, NEW n \in Nat \ {0}, NEW options \in Delays!RetryOptions,
           NEW random \in Delays!Random
    PROVE  Delays!RetriesWait(headers, n, options, random)
<1> DEFINE setting == Delays!ResolveRetryConfig(options)
           fields == {"delay", "maxDelay", "maxJitter", "respectRetryAfter"}
<1>0. Steps \in Nat /\ Steps > 0 /\ random \in Nat /\ random <= Steps
  BY InputsAssumption DEF Delays!Random
<1>1. DOMAIN options = fields /\ DOMAIN Delays!DefaultRetryConfig = fields
  BY DEF Delays!RetryOptions, Delays!DefaultRetryConfig
<1>2. \A o \in fields : setting[o] = IF options[o] # <<>> THEN options[o][1] ELSE Delays!DefaultRetryConfig[o][1]
  BY <1>1 DEF Delays!ResolveRetryConfig
<1>3. /\ setting.delay \in Delays!Builder
      /\ setting.maxDelay \in Nat /\ setting.maxJitter \in Nat
      /\ setting.respectRetryAfter \in BOOLEAN
  <2>0. /\ setting.delay = IF options.delay # <<>> THEN options.delay[1] ELSE Delays!DefaultRetryConfig.delay[1]
        /\ setting.maxDelay = IF options.maxDelay # <<>> THEN options.maxDelay[1] ELSE Delays!DefaultRetryConfig.maxDelay[1]
        /\ setting.maxJitter = IF options.maxJitter # <<>> THEN options.maxJitter[1] ELSE Delays!DefaultRetryConfig.maxJitter[1]
        /\ setting.respectRetryAfter = IF options.respectRetryAfter # <<>> THEN options.respectRetryAfter[1]
                                      ELSE Delays!DefaultRetryConfig.respectRetryAfter[1]
    BY <1>2
  <2>1. ASSUME NEW T, NEW o \in Delays!Option(T), o # <<>> PROVE o[1] \in T
    BY <2>1 DEF Delays!Option
  <2>2. /\ Delays!DefaultRetryConfig.delay[1] \in Delays!Builder
        /\ Delays!DefaultRetryConfig.maxDelay[1] = 30000 /\ Delays!DefaultRetryConfig.maxJitter[1] = 100
        /\ Delays!DefaultRetryConfig.respectRetryAfter[1] \in BOOLEAN
    BY DEF Delays!DefaultRetryConfig, Delays!Builder
  <2>3. /\ options.delay \in Delays!Option(Delays!Builder)
        /\ options.maxDelay \in Delays!Option(Nat) /\ options.maxJitter \in Delays!Option(Nat)
        /\ options.respectRetryAfter \in Delays!Option(BOOLEAN)
    BY DEF Delays!RetryOptions
  <2>4. setting.delay \in Delays!Builder
    BY <2>0, <2>1, <2>2, <2>3
  <2>5. setting.maxDelay \in Nat /\ setting.maxJitter \in Nat
    BY <2>0, <2>1, <2>2, <2>3
  <2>6. setting.respectRetryAfter \in BOOLEAN
    <3>1. options.respectRetryAfter # <<>> => options.respectRetryAfter[1] \in BOOLEAN
      BY <2>1, <2>3
    <3>2. CASE options.respectRetryAfter # <<>>
      <4>1. setting.respectRetryAfter = options.respectRetryAfter[1]
        BY <2>0, <3>2
      <4>2. QED
        BY <3>1, <3>2, <4>1, Zenon
    <3>3. CASE options.respectRetryAfter = <<>>
      <4>1. setting.respectRetryAfter = Delays!DefaultRetryConfig.respectRetryAfter[1]
        BY <2>0, <3>3
      <4>2. QED
        <5> DEFINE r == setting.respectRetryAfter
                   d == Delays!DefaultRetryConfig.respectRetryAfter[1]
        <5>1. r = d /\ d \in BOOLEAN
          BY <2>2, <4>1
        <5> HIDE DEF r, d
        <5>2. r \in BOOLEAN
          BY <5>1, Zenon
        <5>3. QED
          BY <5>2 DEF r
    <3>4. QED
      BY <3>2, <3>3
  <2>7. QED
    BY <2>4, <2>5, <2>6
<1> DEFINE own == Delays!Delay(setting.delay, n)
<1>4. own \in Nat
  <2>1. CASE setting.delay.kind = "exponential"
    <3>1. setting.delay.base \in Nat /\ setting.delay.multiplier \in Nat
      BY <1>3, <2>1 DEF Delays!Builder
    <3>2. Delays!Power(setting.delay.multiplier, n - 1) \in Nat
      <4>1. n - 1 \in Nat
        OBVIOUS
      <4>2. QED
        BY <3>1, <4>1, PowerTypes
    <3>3. QED
      BY <2>1, <3>1, <3>2 DEF Delays!Delay, Delays!ExponentialDelay
  <2>2. CASE setting.delay.kind # "exponential"
    <3>1. setting.delay.base \in Nat /\ setting.delay.kind \in {"constant", "linear"}
      BY <1>3, <2>2 DEF Delays!Builder
    <3>2. QED
      BY <2>2, <3>1 DEF Delays!Delay, Delays!ConstantDelay, Delays!LinearDelay
  <2>3. QED
    BY <2>1, <2>2
<1> DEFINE asked == IF /\ setting.respectRetryAfter
                       /\ headers # <<>> /\ headers[1].form \in {"seconds", "date"} /\ headers[1].value >= 0
                    THEN headers[1].value * (IF headers[1].form = "date" THEN 1 ELSE 1000)
                    ELSE own
           wait == Delays!ComputeRetryDelay(headers, n, setting, random)
<1>5. asked \in Nat /\ wait = Delays!ApplyJitterAndCap(asked, setting, random)
  <2>1. CASE headers = <<>>
    BY <1>4, <2>1 DEF Delays!ComputeRetryDelay, Delays!ParseRetryAfterHeader
  <2>2. CASE headers # <<>>
    <3>1. headers[1].value \in Int /\ 1 \in DOMAIN headers
      <4>1. Len(headers) \in Nat /\ Len(headers) # 0 /\ DOMAIN headers = 1..Len(headers)
        BY <2>2, EmptySeq DEF Delays!Headers
      <4>2. \A i \in DOMAIN headers : headers[i] \in [form : STRING, value : Int]
        BY InSequence DEF Delays!Headers
      <4>3. QED
        BY <4>1, <4>2
    <3>2. Delays!Null = -1
      BY DEF Delays!Null
    <3> DEFINE h == headers[1]
               parsed == Delays!ParseRetryAfterHeader(headers)
    <3> HIDE DEF setting
    <3>3. CASE h.form = "seconds" /\ h.value >= 0
      <4>1. parsed = h.value * 1000 /\ h.value * 1000 \in Nat /\ parsed # Delays!Null
        BY <2>2, <3>1, <3>2, <3>3 DEF Delays!ParseRetryAfterHeader
      <4>2. QED
        BY <1>3, <1>4, <2>2, <3>3, <4>1 DEF Delays!ComputeRetryDelay
    <3>4. CASE h.form = "date" /\ h.value >= 0
      <4>1. parsed = h.value * 1 /\ h.value * 1 \in Nat /\ parsed # Delays!Null
        BY <2>2, <3>1, <3>2, <3>4 DEF Delays!ParseRetryAfterHeader
      <4>2. QED
        BY <1>3, <1>4, <2>2, <3>4, <4>1 DEF Delays!ComputeRetryDelay
    <3>5. CASE ~(h.form \in {"seconds", "date"} /\ h.value >= 0)
      <4>1. parsed = Delays!Null
        BY <2>2, <3>5 DEF Delays!ParseRetryAfterHeader
      <4>2. QED
        BY <1>4, <3>5, <4>1 DEF Delays!ComputeRetryDelay
    <3>6. QED
      BY <3>3, <3>4, <3>5
  <2>3. QED
    BY <2>1, <2>2
<1>6. \A o \in DOMAIN options : options[o] # <<>> => setting[o] = options[o][1]
  BY <1>1, <1>2
<1>7. /\ wait <= setting.maxDelay * Steps
      /\ wait >= Delays!Smaller(asked, setting.maxDelay) * Steps
      /\ wait <= (asked + setting.maxJitter) * Steps
  <2> DEFINE M == setting.maxDelay
             J == setting.maxJitter
  <2> HIDE DEF setting, asked, own
  <2>1. /\ M \in Nat /\ J \in Nat /\ asked \in Nat
        /\ wait = Delays!Smaller(asked * Steps + random * J, M * Steps)
    BY <1>3, <1>5 DEF Delays!ApplyJitterAndCap
  <2> HIDE DEF wait, M, J
  <2>2. /\ asked * Steps \in Nat /\ M * Steps \in Nat /\ random * J \in Nat
        /\ random * J <= Steps * J
        /\ (asked + J) * Steps = asked * Steps + Steps * J
    BY <1>0, <2>1, ProductsGrow
  <2>3. /\ asked <= M => asked * Steps <= M * Steps
        /\ M <= asked => M * Steps <= asked * Steps
    BY <1>0, <2>1, ProductsGrow
  <2>4. wait \in Int /\ wait <= M * Steps /\ wait <= asked * Steps + random * J
    BY <2>1, <2>2 DEF Delays!Smaller
  <2>5. wait <= (asked + J) * Steps
    BY <2>1, <2>2, <2>4, <1>0
  <2>6. wait >= Delays!Smaller(asked, M) * Steps
    <3>1. CASE asked <= M
      <4>1. Delays!Smaller(asked, M) = asked
        BY <2>1, <3>1 DEF Delays!Smaller
      <4>2. QED
        BY <2>1, <2>2, <2>3, <3>1, <4>1 DEF Delays!Smaller
    <3>2. CASE ~(asked <= M)
      <4>1. Delays!Smaller(asked, M) = M
        BY <2>1, <3>2 DEF Delays!Smaller
      <4>2. QED
        BY <2>1, <2>2, <2>3, <3>2, <4>1 DEF Delays!Smaller
    <3>3. QED
      BY <3>1, <3>2
  <2>7. QED
    BY <2>4, <2>5, <2>6 DEF M, J
<1>8. QED
  BY <1>6, <1>7 DEF Delays!RetriesWait

\* The tries of a transaction are further and further apart, up to the longest delay.
LEMMA TriesAlwaysWait ==
    ASSUME NEW tried \in Nat \ {0}, NEW base \in Nat, NEW longest \in Nat
    PROVE  Delays!TriesWait(tried, base, longest)
<1> DEFINE p == Delays!Power(2, tried - 1)
<1>1. tried - 1 \in Nat /\ (tried - 1) + 1 = tried /\ (tried + 1) - 1 = tried
  OBVIOUS
<1>2. p \in Nat
  BY <1>1, PowerTypes
<1>3. Delays!Power(2, (tried + 1) - 1) = 2 * p
  BY <1>1, PowerGrows
<1> HIDE DEF p
<1>4. p * base \in Nat /\ (2 * p) * base = 2 * (p * base)
  BY <1>2
<1>5. /\ Delays!CalculateRetryDelay(tried, base, longest) = Delays!Smaller(p * base, longest)
      /\ Delays!CalculateRetryDelay(tried + 1, base, longest) = Delays!Smaller(2 * (p * base), longest)
  BY <1>3, <1>4 DEF Delays!CalculateRetryDelay, p
<1>6. QED
  BY <1>4, <1>5 DEF Delays!TriesWait, Delays!Smaller, Delays!Larger

\* What a quotient is.
LEMMA Quotients ==
    ASSUME NEW a \in Int, NEW d \in Nat \ {0}
    PROVE  /\ a \div d \in Int
           /\ d * (a \div d) <= a /\ a < d * (a \div d) + d
  OBVIOUS

\* A quotient of what is not negative is not negative.
LEMMA NaturalQuotients == ASSUME NEW a \in Nat, NEW d \in Nat \ {0} PROVE a \div d \in Nat
  OBVIOUS

\* A bound on a product by a positive number bounds the other factor.
LEMMA Cancels ==
    ASSUME NEW d \in Nat \ {0}, NEW a \in Int, NEW b \in Int, d * a < d * b + d
    PROVE  a <= b
<1> SUFFICES ASSUME a >= b + 1 PROVE FALSE
  OBVIOUS
<1>1. d * a >= d * (b + 1)
  <2>1. b + 1 \in Int /\ b + 1 <= a /\ d \in Nat
    OBVIOUS
  <2>2. (b + 1) * d <= a * d
    BY <2>1, ProductsGrow
  <2>3. QED
    BY <2>2
<1>2. d * (b + 1) = d * b + d
  OBVIOUS
<1>3. QED
  BY <1>1, <1>2

\* A rounded fraction grows with the fraction.
LEMMA RoundingGrows ==
    ASSUME NEW n1 \in Nat, NEW n2 \in Nat, NEW d1 \in Nat \ {0}, NEW d2 \in Nat \ {0},
           n1 * d2 <= n2 * d1
    PROVE  Delays!Round(n1, d1) <= Delays!Round(n2, d2)
<1> DEFINE q1 == (2 * n1 + d1) \div (2 * d1)
           q2 == (2 * n2 + d2) \div (2 * d2)
<1>1. /\ 2 * d1 \in Nat \ {0} /\ 2 * d2 \in Nat \ {0}
      /\ 2 * n1 + d1 \in Int /\ 2 * n2 + d2 \in Int
  OBVIOUS
<1>2. /\ q1 \in Int /\ q2 \in Int
      /\ (2 * d1) * q1 <= 2 * n1 + d1
      /\ 2 * n2 + d2 < (2 * d2) * q2 + 2 * d2
  BY <1>1, Quotients
<1> HIDE DEF q1, q2
<1>3. /\ ((2 * d1) * q1) * d2 <= (2 * n1 + d1) * d2
      /\ (2 * n2 + d2) * d1 < ((2 * d2) * q2 + 2 * d2) * d1
  <2>1. (2 * d1) * q1 \in Int /\ (2 * d2) * q2 + 2 * d2 \in Int
    BY <1>2
  <2>2. ((2 * d1) * q1) * d2 <= (2 * n1 + d1) * d2
    BY <1>1, <1>2, <2>1, ProductsGrow
  <2>3. 2 * n2 + d2 + 1 <= (2 * d2) * q2 + 2 * d2
    BY <1>1, <1>2, <2>1
  <2>4. (2 * n2 + d2 + 1) * d1 <= ((2 * d2) * q2 + 2 * d2) * d1
    BY <1>1, <2>1, <2>3, ProductsGrow
  <2>5. (2 * n2 + d2 + 1) * d1 = (2 * n2 + d2) * d1 + d1
    OBVIOUS
  <2>6. QED
    BY <2>1, <2>2, <2>4, <2>5
<1> DEFINE D == 2 * d1 * d2
<1>4. /\ D \in Nat \ {0}
      /\ ((2 * d1) * q1) * d2 = D * q1
      /\ ((2 * d2) * q2 + 2 * d2) * d1 = D * q2 + D
      /\ (2 * n1 + d1) * d2 = 2 * (n1 * d2) + d1 * d2
      /\ (2 * n2 + d2) * d1 = 2 * (n2 * d1) + d1 * d2
  BY <1>2
<1> HIDE DEF D
<1>5. D * q1 < D * q2 + D
  <2>1. n1 * d2 \in Int /\ n2 * d1 \in Int /\ d1 * d2 \in Int /\ D * q1 \in Int /\ D * q2 \in Int
    BY <1>2, <1>4
  <2>2. QED
    BY <1>3, <1>4, <2>1
<1>6. q1 <= q2
  BY <1>2, <1>4, <1>5, Cancels
<1>7. QED
  BY <1>6 DEF Delays!Round, q1, q2

\* A delay b / d is off by half the jitter factor j / 10 at most, when rounded.
LEMMA JitterIsBounded ==
    ASSUME NEW b \in Nat, NEW d \in Nat \ {0}, NEW j \in 0..10, NEW random \in Delays!Random
    PROVE  LET rounded == Delays!Round(b * 20 * Steps + b * j * (2 * random - Steps), d * 20 * Steps)
           IN  /\ rounded \in Int
               /\ (b * (20 - j)) \div (20 * d) <= rounded
               /\ rounded <= (b * (20 + j)) \div (20 * d) + 1
<1> DEFINE x == b * 20 * Steps + b * j * (2 * random - Steps)
           D == d * 20 * Steps
           q == (2 * x + D) \div (2 * D)
           L == (b * (20 - j)) \div (20 * d)
           H == (b * (20 + j)) \div (20 * d)
<1>1. /\ Steps \in Nat \ {0} /\ 2 * random - Steps \in Int
      /\ 0 - Steps <= 2 * random - Steps /\ 2 * random - Steps <= Steps
  BY InputsAssumption DEF Delays!Random
<1> DEFINE e == 2 * random - Steps
           bj == b * j
<1>2. bj \in Nat /\ b * (20 - j) = 20 * b - bj /\ b * (20 + j) = 20 * b + bj /\ 20 * b - bj \in Nat
  OBVIOUS
<1> HIDE DEF e, bj
<1>3. e \in Int /\ 0 - Steps <= e /\ e <= Steps
  BY <1>1 DEF e
<1>4. /\ bj * e \in Int
      /\ 0 - bj * Steps <= bj * e /\ bj * e <= bj * Steps
  <2>1. (0 - Steps) * bj <= e * bj /\ e * bj <= Steps * bj
    BY <1>1, <1>2, <1>3, ProductsGrow
  <2>2. QED
    BY <1>1, <1>2, <1>3, <2>1
<1>5. x = 20 * (b * Steps) + bj * e /\ x \in Int
  <2>1. b * 20 * Steps = 20 * (b * Steps) /\ b * Steps \in Nat
    BY <1>1
  <2>2. QED
    BY <1>4, <2>1 DEF e, bj
<1>6. /\ (20 * b - bj) * Steps = 20 * (b * Steps) - bj * Steps
      /\ (20 * b + bj) * Steps = 20 * (b * Steps) + bj * Steps
      /\ b * Steps \in Nat /\ bj * Steps \in Nat
  BY <1>1, <1>2
<1>7. D \in Nat \ {0} /\ 2 * D \in Nat \ {0} /\ D = (20 * d) * Steps /\ 20 * d \in Nat \ {0}
  BY <1>1
<1> HIDE DEF x, D
<1>8. /\ q \in Int
      /\ (2 * D) * q <= 2 * x + D /\ 2 * x + D < (2 * D) * q + 2 * D
  <2>1. 2 * x + D \in Int
    BY <1>5, <1>7
  <2>2. QED
    BY <1>7, <2>1, Quotients
<1>9. /\ L \in Int /\ H \in Int
      /\ (20 * d) * L <= 20 * b - bj
      /\ 20 * b + bj < (20 * d) * H + 20 * d
  <2>1. 20 * b - bj \in Int /\ 20 * b + bj \in Int
    BY <1>2
  <2>2. QED
    BY <1>2, <1>7, <2>1, Quotients
<1> HIDE DEF q, L, H
<1>10. D * L <= x
  <2>1. ((20 * d) * L) * Steps <= (20 * b - bj) * Steps
    <3>1. (20 * d) * L \in Int /\ 20 * b - bj \in Int /\ Steps \in Nat
      BY <1>1, <1>2, <1>7, <1>9
    <3>2. QED
      BY <1>9, <3>1, ProductsGrow
  <2>2. ((20 * d) * L) * Steps = D * L
    BY <1>1, <1>7, <1>9
  <2>3. QED
    BY <1>4, <1>5, <1>6, <1>7, <1>9, <2>1, <2>2
<1>11. x < D * H + D
  <2>1. (20 * b + bj + 1) * Steps <= ((20 * d) * H + 20 * d) * Steps
    <3>1. (20 * d) * H + 20 * d \in Int /\ 20 * b + bj + 1 \in Int /\ Steps \in Nat
      BY <1>1, <1>2, <1>7, <1>9
    <3>2. 20 * b + bj + 1 <= (20 * d) * H + 20 * d
      BY <1>2, <1>9, <3>1
    <3>3. QED
      BY <3>1, <3>2, ProductsGrow
  <2>2. ((20 * d) * H + 20 * d) * Steps = D * H + D
    BY <1>1, <1>7, <1>9
  <2>3. (20 * b + bj + 1) * Steps = 20 * (b * Steps) + bj * Steps + Steps
    BY <1>1, <1>2
  <2>4. QED
    BY <1>1, <1>4, <1>5, <1>6, <1>7, <1>9, <2>1, <2>2, <2>3
<1>12. L <= q
  <2>1. D * L < D * q + D
    <3>1. D * L \in Int /\ D * q \in Int /\ (2 * D) * q = 2 * (D * q)
      BY <1>7, <1>8, <1>9
    <3>2. QED
      BY <1>5, <1>7, <1>8, <1>10, <3>1
  <2>2. QED
    BY <1>7, <1>8, <1>9, <2>1, Cancels
<1>13. q <= H + 1
  <2>1. D * q < D * (H + 1) + D
    <3>1. D * H \in Int /\ D * q \in Int /\ (2 * D) * q = 2 * (D * q) /\ D * (H + 1) = D * H + D
      BY <1>7, <1>8, <1>9
    <3>2. QED
      BY <1>5, <1>7, <1>8, <1>11, <3>1
  <2>2. H + 1 \in Int
    BY <1>9
  <2>3. QED
    BY <1>7, <1>8, <2>1, <2>2, Cancels
<1>14. QED
  BY <1>8, <1>12, <1>13 DEF Delays!Round, q, x, D, L, H

\* A poll waits for its exponential delay, off by the jitter and up to the longest one.
LEMMA PollsAlwaysWait ==
    ASSUME NEW setting \in Delays!PollConfig, NEW random \in Delays!Random, NEW other \in Delays!Random
    PROVE  Delays!PollsWait(setting, random, other)
<1> DEFINE J == Delays!JitterFactor(setting)
           Longest == setting.max
           d(i) == Delays!Power(setting.multiplier[2], i)
           u(i) == Delays!Power(setting.multiplier[1], i)
           b(i) == Delays!Smaller(setting.initial * u(i), Longest * d(i))
           Rounded(i, r) == Delays!Round(b(i) * 20 * Steps + b(i) * J * (2 * r - Steps), d(i) * 20 * Steps)
           Wait(i, r) == Delays!CalculateDelay(setting, i, r)
<1> SUFFICES ASSUME Delays!ValidateConfig(setting)
             PROVE  /\ \A i \in 0..(setting.attempts - 1) :
                          /\ Wait(i, random) \in 0..Longest
                          /\ (b(i) * (20 - J)) \div (20 * d(i)) <= Wait(i, random)
                          /\ Wait(i, random) <= (b(i) * (20 + J)) \div (20 * d(i)) + 1
                          /\ setting.multiplier[1] >= setting.multiplier[2] /\ J = 0
                                => Wait(i, random) <= Wait(i + 1, other)
                    /\ Len(Delays!Waits(setting, [i \in 1..setting.attempts |-> random])) = setting.attempts - 1
  BY Zenon DEF Delays!PollsWait
<1>1. /\ setting.initial \in Nat /\ Longest \in Nat
      /\ setting.multiplier[1] \in Nat \ {0} /\ setting.multiplier[2] \in Nat \ {0}
      /\ setting.attempts \in Nat \ {0}
  BY DEF Delays!PollConfig, Delays!ValidateConfig
<1>2. J \in 0..10
  BY DEF Delays!JitterFactor, Delays!ValidateConfig
<1>3. Steps \in Nat \ {0} /\ random \in Int /\ other \in Int
  BY InputsAssumption DEF Delays!Random
<1>4. \A i \in Nat : /\ d(i) \in Nat \ {0} /\ u(i) \in Nat \ {0}
                     /\ setting.initial * u(i) \in Nat /\ Longest * d(i) \in Nat
                     /\ b(i) \in Nat /\ b(i) <= setting.initial * u(i) /\ b(i) <= Longest * d(i)
  <2> TAKE i \in Nat
  <2>1. d(i) \in Nat \ {0} /\ u(i) \in Nat \ {0}
    <3>1. ASSUME NEW base \in Nat \ {0} PROVE Delays!Power(base, i) \in Nat \ {0}
      <4>1. base \in Nat /\ base > 0
        OBVIOUS
      <4>2. QED
        BY <4>1, PowerTypes
    <3>2. QED
      BY <1>1, <3>1
  <2> HIDE DEF d, u
  <2>2. setting.initial * u(i) \in Nat /\ Longest * d(i) \in Nat
    BY <1>1, <2>1
  <2>3. QED
    BY <2>1, <2>2 DEF Delays!Smaller
<1>5. \A i \in Nat : \A r : Wait(i, r) = Delays!Smaller(Longest, Delays!Larger(0, Rounded(i, r)))
  BY DEF Delays!CalculateDelay
<1>6. \A i \in Nat : d(i + 1) = setting.multiplier[2] * d(i) /\ u(i + 1) = setting.multiplier[1] * u(i)
  BY PowerGrows
<1>7. \A i \in Nat : b(i + 1) \in {setting.initial * u(i + 1), Longest * d(i + 1)}
  BY DEF Delays!Smaller
<1> HIDE DEF J, Longest, Wait, d, u, b
<1>8. ASSUME NEW i \in Nat, NEW r \in Delays!Random
      PROVE  /\ Rounded(i, r) \in Int
             /\ (b(i) * (20 - J)) \div (20 * d(i)) <= Rounded(i, r)
             /\ Rounded(i, r) <= (b(i) * (20 + J)) \div (20 * d(i)) + 1
  BY <1>2, <1>4, JitterIsBounded
<1>9. ASSUME NEW i \in Nat
      PROVE  /\ Wait(i, random) \in 0..Longest
             /\ (b(i) * (20 - J)) \div (20 * d(i)) <= Wait(i, random)
             /\ Wait(i, random) <= (b(i) * (20 + J)) \div (20 * d(i)) + 1
  <2> DEFINE low == (b(i) * (20 - J)) \div (20 * d(i))
             high == (b(i) * (20 + J)) \div (20 * d(i))
             bi == b(i)
             di == d(i)
  <2>1. bi \in Nat /\ di \in Nat \ {0} /\ bi <= Longest * di
    BY <1>4
  <2>2. /\ bi * (20 - J) \in Nat /\ bi * (20 + J) \in Nat /\ 20 * di \in Nat \ {0}
        /\ bi * (20 - J) <= 20 * bi /\ Longest * di \in Nat
    BY <1>1, <1>2, <2>1
  <2>3. low \in Nat /\ high \in Nat
    BY <2>2, NaturalQuotients
  <2>4. low <= Longest
    <3>1. (20 * di) * low <= bi * (20 - J)
      BY <2>2, Quotients
    <3>2. (20 * di) * low \in Int /\ 20 * (Longest * di) = (20 * di) * Longest /\ (20 * di) * Longest \in Int
      BY <1>1, <2>1, <2>2, <2>3
    <3>3. (20 * di) * low < (20 * di) * Longest + 20 * di
      BY <2>1, <2>2, <3>1, <3>2
    <3>4. QED
      BY <1>1, <2>2, <2>3, <3>3, Cancels
  <2> DEFINE rounded == Rounded(i, random)
  <2>5. rounded \in Int /\ low <= rounded /\ rounded <= high + 1
    BY <1>8
  <2>6. Wait(i, random) = Delays!Smaller(Longest, Delays!Larger(0, rounded))
    BY <1>5
  <2> HIDE DEF low, high, rounded
  <2>7. Wait(i, random) \in 0..Longest /\ low <= Wait(i, random) /\ Wait(i, random) <= high + 1
    BY <1>1, <2>3, <2>4, <2>5, <2>6 DEF Delays!Smaller, Delays!Larger
  <2>8. QED
    BY <2>7 DEF low, high
<1>10. ASSUME NEW i \in Nat, setting.multiplier[1] >= setting.multiplier[2], J = 0
       PROVE  Wait(i, random) <= Wait(i + 1, other)
  <2> DEFINE b1 == b(i)
             b2 == b(i + 1)
             d1 == d(i)
             d2 == d(i + 1)
             k == 20 * Steps
             m1 == setting.multiplier[1]
             m2 == setting.multiplier[2]
  <2>1. /\ i + 1 \in Nat /\ k \in Nat \ {0} /\ m1 \in Nat \ {0} /\ m2 \in Nat \ {0}
        /\ b1 \in Nat /\ b2 \in Nat /\ d1 \in Nat \ {0} /\ d2 \in Nat \ {0}
    BY <1>1, <1>3, <1>4
  <2>2. b1 * d2 <= b2 * d1
    <3> DEFINE a == setting.initial * u(i)
               c == Longest * d1
    <3>1. /\ a \in Nat /\ c \in Nat /\ b1 <= a /\ b1 <= c
          /\ u(i) \in Nat /\ setting.initial \in Nat /\ Longest \in Nat
      BY <1>1, <1>4
    <3>2. d2 = m2 * d1 /\ (b2 = a * m1 \/ b2 = c * m2)
      <4>1. \A x, y, z \in Nat : x * (y * z) = (x * z) * y
        OBVIOUS
      <4>2. /\ setting.initial * (m1 * u(i)) = a * m1
            /\ Longest * (m2 * d1) = c * m2
        BY <2>1, <3>1, <4>1
      <4>3. /\ d2 = m2 * d1 /\ u(i + 1) = m1 * u(i)
            /\ b2 \in {setting.initial * u(i + 1), Longest * d2}
        BY <1>6, <1>7
      <4>4. QED
        BY <4>2, <4>3
    <3> HIDE DEF a, c, b1, b2, d1, d2, m1, m2
    <3>3. b1 * d2 = (b1 * m2) * d1 /\ b1 * m2 \in Nat
      BY <2>1, <3>2
    <3>4. b1 * m2 <= b2
      <4>1. CASE b2 = a * m1
        <5>1. b1 * m2 <= a * m2
          BY <2>1, <3>1, ProductsGrow
        <5>2. m2 * a <= m1 * a
          BY <1>10, <2>1, <3>1, ProductsGrow DEF m1, m2
        <5>3. QED
          BY <2>1, <3>1, <4>1, <5>1, <5>2
      <4>2. CASE b2 = c * m2
        BY <2>1, <3>1, <4>2, ProductsGrow
      <4>3. QED
        BY <3>2, <4>1, <4>2
    <3>5. (b1 * m2) * d1 <= b2 * d1
      BY <2>1, <3>3, <3>4, ProductsGrow
    <3>6. QED
      BY <3>3, <3>5
  <2> HIDE DEF b1, b2, d1, d2, k
  <2>3. /\ b1 * k \in Nat /\ b2 * k \in Nat /\ d1 * k \in Nat \ {0} /\ d2 * k \in Nat \ {0}
        /\ (b1 * k) * (d2 * k) = (b1 * d2) * (k * k)
        /\ (b2 * k) * (d1 * k) = (b2 * d1) * (k * k)
        /\ b1 * d2 \in Int /\ b2 * d1 \in Int /\ k * k \in Nat
    BY <2>1
  <2>4. (b1 * k) * (d2 * k) <= (b2 * k) * (d1 * k)
    BY <2>2, <2>3, ProductsGrow
  <2>5. Delays!Round(b1 * k, d1 * k) <= Delays!Round(b2 * k, d2 * k)
    BY <2>3, <2>4, RoundingGrows
  <2>6. /\ Rounded(i, random) = Delays!Round(b1 * k, d1 * k)
        /\ Rounded(i + 1, other) = Delays!Round(b2 * k, d2 * k)
    <3>1. /\ b1 * 20 * Steps + b1 * 0 * (2 * random - Steps) = b1 * k
          /\ b2 * 20 * Steps + b2 * 0 * (2 * other - Steps) = b2 * k
          /\ d1 * 20 * Steps = d1 * k /\ d2 * 20 * Steps = d2 * k
      BY <1>3, <2>1 DEF k
    <3>2. QED
      BY <1>10, <3>1 DEF b1, b2, d1, d2
  <2> DEFINE before == Rounded(i, random)
             after == Rounded(i + 1, other)
  <2>7. before \in Int /\ after \in Int /\ before <= after
    BY <1>8, <2>1, <2>5, <2>6
  <2>8. /\ Wait(i, random) = Delays!Smaller(Longest, Delays!Larger(0, before))
        /\ Wait(i + 1, other) = Delays!Smaller(Longest, Delays!Larger(0, after))
    BY <1>5, <2>1
  <2> HIDE DEF before, after
  <2>9. QED
    BY <1>1, <2>7, <2>8 DEF Delays!Smaller, Delays!Larger
<1>11. Len(Delays!Waits(setting, [i \in 1..setting.attempts |-> random])) = setting.attempts - 1
  <2>1. setting.attempts - 1 \in Nat
    BY <1>1
  <2>2. QED
    BY <2>1 DEF Delays!Waits
<1>12. ASSUME NEW i \in 0..(setting.attempts - 1)
       PROVE  /\ Wait(i, random) \in 0..Longest
              /\ (b(i) * (20 - J)) \div (20 * d(i)) <= Wait(i, random)
              /\ Wait(i, random) <= (b(i) * (20 + J)) \div (20 * d(i)) + 1
              /\ setting.multiplier[1] >= setting.multiplier[2] /\ J = 0
                    => Wait(i, random) <= Wait(i + 1, other)
  <2>1. i \in Nat
    OBVIOUS
  <2>2. QED
    BY <1>9, <1>10, <2>1, Zenon
<1>13. QED
  BY <1>11, <1>12, Zenon

\* A set of naturals that is not empty has a least element.
LEMMA LeastExists ==
    ASSUME NEW T \in SUBSET Nat, T # {}
    PROVE  \E n \in T : \A m \in T : n <= m
<1> DEFINE Above == {n \in Nat : \A m \in T : m >= n}
<1>1. 0 \in Above
  OBVIOUS
<1>2. PICK top \in T : TRUE
  OBVIOUS
<1>3. top + 1 \notin Above
  BY <1>2
<1>4. PICK n \in Above : n + 1 \notin Above
  <2>1. ASSUME \A n \in Nat : n \in Above => n + 1 \in Above PROVE FALSE
    <3>1. Nat \subseteq Above
      BY <1>1, <2>1, NaturalInduction
    <3>2. QED
      BY <1>2, <1>3, <3>1
  <2>2. QED
    BY <2>1
<1>5. PICK m \in T : m < n + 1
  BY <1>4
<1>6. m = n
  BY <1>4, <1>5
<1>7. QED
  BY <1>4, <1>6

\* A wait for a predicate ends with its first answer that is not falsy, or its last one.
LEMMA WaitsAlwaysEnd ==
    ASSUME NEW answers \in Seq(Delays!Answers), NEW longest \in Nat, longest = 0 \/ Len(answers) >= longest + 2
    PROVE  Delays!WaitEnds(answers, longest)
<1> DEFINE Chained == {i \in DOMAIN answers : (longest = 0 \/ i <= longest + 1) /\ answers[i] # "falsy"}
           first == CHOOSE i \in Chained : \A j \in Chained : i <= j
           wait == Delays!WaitAndRetry(answers, longest)
           Extra == longest # 0 /\ wait.calls = longest + 2
           Goes == longest = 0 /\ \A i \in DOMAIN answers : answers[i] = "falsy"
<1>1. /\ Len(answers) \in Nat /\ DOMAIN answers = 1..Len(answers)
      /\ \A i \in DOMAIN answers : answers[i] \in {"truthy", "falsy", "throws", "rejects"}
  BY InSequence DEF Delays!Answers
<1>2. longest # 0 => 1..(longest + 1) \subseteq DOMAIN answers /\ longest + 2 \in DOMAIN answers
  BY <1>1
<1> SUFFICES /\ \A i \in 1..(wait.calls - 1) : answers[i] = "falsy"
             /\ longest # 0 => wait.calls <= longest + 2
             /\ wait.result = "resolved" /\ answers[wait.calls] = "falsy" =>
                   longest # 0 /\ wait.calls > longest
             /\ wait.result = "rejected" => answers[wait.calls] \in {"throws", "rejects"}
             /\ ~Extra => (wait.result = "pending" <=> Goes)
  BY Zenon DEF Delays!WaitEnds
<1>3. CASE Chained # {}
  <2>1. first \in Chained /\ \A j \in Chained : first <= j
    <3>1. \E i \in Chained : \A j \in Chained : i <= j
      <4>1. Chained \in SUBSET Nat
        BY <1>1
      <4> HIDE DEF Chained
      <4>2. QED
        BY <1>3, <4>1, LeastExists
    <3> HIDE DEF Chained
    <3>2. QED
      BY <3>1, Zenon
  <2>2. wait = [calls |-> first, result |-> IF answers[first] = "truthy" THEN "resolved" ELSE "rejected"]
    BY <1>3, Zenon DEF Delays!WaitAndRetry
  <2> HIDE DEF first, wait
  <2>3. ~Goes
    BY <1>3, <1>1
  <2>4. /\ wait.calls = first /\ wait.result # "pending"
        /\ wait.result = "rejected" => answers[first] # "truthy"
    BY <2>2
  <2>5. first \in 1..Len(answers) /\ answers[first] # "falsy" /\ (longest # 0 => first <= longest + 1)
    BY <1>1, <2>1
  <2>6. \A i \in 1..(first - 1) : answers[i] = "falsy"
    BY <1>1, <2>1, <2>5
  <2>7. QED
    BY <1>1, <2>3, <2>4, <2>5, <2>6
<1>4. CASE Chained = {} /\ longest = 0
  <2>1. wait = [calls |-> Len(answers), result |-> "pending"]
    BY <1>4, Zenon DEF Delays!WaitAndRetry
  <2>2. \A i \in DOMAIN answers : answers[i] = "falsy"
    BY <1>4
  <2> HIDE DEF wait
  <2>3. QED
    BY <1>1, <1>4, <2>1, <2>2
<1>5. CASE Chained = {} /\ longest # 0
  <2> DEFINE last == answers[longest + 2]
  <2>1. wait = [calls |-> longest + 2,
                result |-> CASE last = "throws" -> "pending" [] last = "rejects" -> "rejected" [] OTHER -> "resolved"]
    BY <1>5, Zenon DEF Delays!WaitAndRetry
  <2>2. \A i \in 1..(longest + 1) : answers[i] = "falsy"
    BY <1>1, <1>2, <1>5
  <2> HIDE DEF wait
  <2>3. /\ wait.calls = longest + 2
        /\ wait.result = "pending" <=> last = "throws"
        /\ wait.result = "rejected" => last = "rejects"
    BY <2>1
  <2>4. QED
    BY <1>2, <1>5, <2>2, <2>3
<1>6. QED
  BY <1>3, <1>4, <1>5

-----------------------------------------------------------------------------
(* Configurations *)

\* A configuration is no exception.
LEMMA ConfigIsNoThrow ==
    ASSUME NEW env \in Aws!Environment
    PROVE  Aws!GenerateAwsConfig(env) # Aws!Throws
<1>1. "type" \notin DOMAIN Aws!GenerateAwsConfig(env) /\ "type" \in DOMAIN Aws!Throws
  BY DEF Aws!GenerateAwsConfig, Aws!Throws
<1>2. QED
  BY <1>1

\* The two ways to read the environment agree, and its configuration is made once.
LEMMA ConfigsAlwaysAgree ==
    ASSUME NEW read \in Aws!Environment, NEW later \in Aws!Environment
    PROVE  Aws!ConfigsAgree(read, later)
<1> DEFINE setting == Aws!GenerateAwsConfig(read)
           call == Aws!GetAwsConfig(<<>>, read)
           next == Aws!GetAwsConfig(call.cached, later)
           envase == Aws!GetEnvaseAwsConfig(read)
<1>1. setting # Aws!Throws /\ setting.prefix = read.prefix
  BY ConfigIsNoThrow DEF Aws!GenerateAwsConfig
<1>2. read.region \in BOOLEAN
  BY DEF Aws!Environment
<1>3. envase = IF ~read.region \/ read.endpoint = "text" \/ read.prefix > 10 THEN Aws!Throws ELSE setting
  BY DEF Aws!GetEnvaseAwsConfig
<1>4. /\ ~read.region => call = [cached |-> <<>>, result |-> Aws!Throws]
      /\ read.region => call = [cached |-> <<setting>>,
                                result |-> IF read.prefix > 10 THEN Aws!Throws ELSE setting]
  BY <1>1 DEF Aws!GetAwsConfig
<1> HIDE DEF setting, envase, call
<1>5. CASE read.region
  <2>1. call.cached = <<setting>> /\ call.cached # <<>> /\ call.cached[1] = setting
    BY <1>4, <1>5
  <2>2. next.result = setting
    BY <2>1 DEF Aws!GetAwsConfig
  <2> HIDE DEF next
  <2>3. QED
    BY <1>1, <1>3, <1>4, <1>5, <2>2 DEF Aws!ConfigsAgree, call, setting, envase, next
<1>6. CASE ~read.region
  <2>1. call.result = Aws!Throws /\ call.cached = <<>>
    BY <1>4, <1>6
  <2>2. next = Aws!GetAwsConfig(<<>>, later)
    BY <2>1
  <2> HIDE DEF next
  <2>3. QED
    BY <1>3, <1>6, <2>1, <2>2 DEF Aws!ConfigsAgree, call, setting, envase, next
<1>7. QED
  BY <1>5, <1>6

\* Of unique items, the one of a name is found.
LEMMA FoundIsUnique ==
    ASSUME NEW T, NEW elements \in Seq(T), Aws!Unique(elements), NEW i \in DOMAIN elements
    PROVE  Aws!Find(elements, elements[i].name) = {elements[i]}
  BY DEF Aws!Find, Aws!Unique

\* What is found is one of the items, of the name that was asked for.
LEMMA FoundIsNamed ==
    ASSUME NEW T, NEW elements \in Seq(T), NEW name, Aws!Find(elements, name) # {}
    PROVE  LET item == CHOOSE x \in Aws!Find(elements, name) : TRUE
           IN  \E i \in DOMAIN elements : item = elements[i] /\ elements[i].name = name /\ item \in T
<1> DEFINE item == CHOOSE x \in Aws!Find(elements, name) : TRUE
<1>1. item \in Aws!Find(elements, name)
  OBVIOUS
<1> HIDE DEF item
<1>2. PICK i \in DOMAIN elements : item = elements[i] /\ elements[i].name = name
  BY <1>1 DEF Aws!Find
<1>3. item \in T
  BY <1>2, InSequence
<1>4. QED
  BY <1>2, <1>3 DEF item

\* A queue is located or created; and so is a topic.
LEMMA ResolvedQueue ==
    ASSUME NEW declared \in Aws!Queue, NEW setting, NEW params, NEW principal
    PROVE  LET resolved == Aws!ResolveQueue(declared, setting, params, principal)
           IN  /\ declared.external => resolved.creation = <<>> /\ resolved.locator # <<>>
               /\ ~declared.external => /\ resolved.locator = <<>> /\ resolved.creation # <<>>
                                     /\ resolved.creation[1].name = Aws!Resource(declared.name, params.awsConfig, <<>>)
                                     /\ resolved.creation[1].principal = principal
<1>1. declared.external \in BOOLEAN
  BY DEF Aws!Queue
<1>2. CASE declared.external
  BY <1>2 DEF Aws!ResolveQueue, Aws!Located
<1>3. CASE ~declared.external
  BY <1>3 DEF Aws!ResolveQueue, Aws!Created
<1>4. QED
  BY <1>1, <1>2, <1>3

\* The options for a command's queue, for its publishers and its consumers.
LEMMA CommandsAlwaysAgree ==
    ASSUME NEW queues \in Seq(Aws!Queue), NEW name, NEW setting, NEW params \in Aws!Resolution
    PROVE  Aws!CommandsAgree(queues, name, setting, params)
<1> DEFINE found == Aws!Find(queues, name)
           publisher == Aws!SqsPublisherOptions(queues, name, setting, params)
           consumer == Aws!SqsConsumerOptions(queues, name, setting, params)
<1>1. found = {} <=> \A i \in DOMAIN queues : queues[i].name # name
  BY DEF Aws!Find
<1>2. CASE found = {}
  <2>1. publisher = Aws!Throws /\ consumer = Aws!Throws
    BY <1>2 DEF Aws!SqsPublisherOptions, Aws!SqsConsumerOptions
  <2>2. QED
    BY <1>1, <1>2, <2>1 DEF Aws!CommandsAgree
<1>3. CASE found # {}
  <2> DEFINE declared == CHOOSE q \in found : TRUE
             principal == Aws!Principal(params.awsConfig)
             resolved == Aws!ResolveQueue(declared, setting, params, principal)
             common == Aws!CommonConsumerOptions(params, resolved.creation)
  <2>1. declared \in Aws!Queue
    BY <1>3, FoundIsNamed
  <2>2. /\ publisher = [type |-> "publisher", queue |-> resolved]
        /\ consumer = [type |-> "consumer", queue |-> resolved, common |-> common]
    BY <1>3, Zenon DEF Aws!SqsPublisherOptions, Aws!SqsConsumerOptions
  <2>3. publisher # Aws!Throws /\ consumer # Aws!Throws
    <3>1. publisher.type = "publisher" /\ consumer.type = "consumer" /\ Aws!Throws.type = "throws"
      BY <2>2 DEF Aws!Throws
    <3>2. QED
      BY <3>1
  <2>4. common.dlq # <<>> => resolved.creation # <<>> /\ ~params.isTest
    BY DEF Aws!CommonConsumerOptions
  <2>5. principal \notin {"", " "}
    BY DEF Aws!Principal
  <2>6. declared.external \in BOOLEAN
    BY <2>1 DEF Aws!Queue
  <2> HIDE DEF declared, resolved, common, principal, publisher, consumer
  <2>7. /\ resolved.creation # <<>> => resolved.locator = <<>>
        /\ resolved.creation # <<>> => resolved.creation[1].principal = principal
    BY <2>1, <2>6, ResolvedQueue DEF resolved
  <2>8. publisher.queue = resolved /\ consumer.queue = resolved /\ consumer.common = common
    BY <2>2
  <2>9. /\ ~(publisher = Aws!Throws) /\ ~(consumer = Aws!Throws)
        /\ ~(\A i \in DOMAIN queues : queues[i].name # name)
        /\ publisher.queue = consumer.queue
        /\ consumer.common.dlq # <<>> => consumer.queue.locator = <<>> /\ ~params.isTest
        /\ publisher.queue.creation # <<>> => publisher.queue.creation[1].principal \notin {"", " "}
    BY <1>1, <1>3, <2>3, <2>4, <2>5, <2>7, <2>8
  <2>10. QED
    BY <2>9, Zenon DEF Aws!CommandsAgree, publisher, consumer
<1>4. QED
  BY <1>2, <1>3

\* What a resolver of valid topics gives to the publishers of one, and to the consumers
\* of a queue of it.
LEMMA SnsOptions ==
    ASSUME NEW topics \in Seq(Aws!Topic), NEW setting, NEW params, Aws!SnsResolves(topics, setting),
           NEW i \in DOMAIN topics, NEW j \in DOMAIN topics[i].queues
    PROVE  LET topic == topics[i]
               declared == topic.queues[j]
               resolved == Aws!ResolveQueue(declared, setting, params, "")
           IN  /\ topic \in Aws!Topic /\ declared \in Aws!Queue
               /\ Aws!SnsPublisherOptions(topics, topic.name, setting, params)
                     = [type |-> "publisher", topic |-> Aws!ResolveTopic(topic, setting, params)]
               /\ Aws!SnsConsumerOptions(topics, topic.name, declared.name, setting, params)
                     = IF declared.external THEN Aws!Throws
                       ELSE [type |-> "consumer", topic |-> Aws!ResolveTopic(topic, setting, params),
                             queue |-> resolved,
                             publishers |-> Aws!Resource(topic.name, params.awsConfig, <<>>),
                             common |-> Aws!CommonConsumerOptions(params, resolved.creation)]
<1> DEFINE topic == topics[i]
           declared == topic.queues[j]
<1>1. topic \in Aws!Topic
  BY InSequence
<1>2. topic.queues \in Seq(Aws!Queue)
  BY <1>1 DEF Aws!Topic
<1>3. declared \in Aws!Queue
  BY <1>2, InSequence
<1>4. Aws!Find(topics, topic.name) = {topic}
  BY FoundIsUnique DEF Aws!SnsResolves
<1>5. Aws!Find(topic.queues, declared.name) = {declared}
  BY <1>2, FoundIsUnique DEF Aws!SnsResolves
<1>6. /\ \A x \in {topic} : x = topic
      /\ (CHOOSE t \in {topic} : TRUE) = topic
      /\ (CHOOSE q \in {declared} : TRUE) = declared
      /\ {topic} # {} /\ {declared} # {}
  OBVIOUS
<1> HIDE DEF topic, declared
<1>7. Aws!SnsPublisherOptions(topics, topic.name, setting, params)
         = [type |-> "publisher", topic |-> Aws!ResolveTopic(topic, setting, params)]
  BY <1>4, <1>6 DEF Aws!SnsPublisherOptions
<1>8. Aws!SnsConsumerOptions(topics, topic.name, declared.name, setting, params)
         = IF declared.external THEN Aws!Throws
           ELSE [type |-> "consumer", topic |-> Aws!ResolveTopic(topic, setting, params),
                 queue |-> Aws!ResolveQueue(declared, setting, params, ""),
                 publishers |-> Aws!Resource(topic.name, params.awsConfig, <<>>),
                 common |-> Aws!CommonConsumerOptions(params, Aws!ResolveQueue(declared, setting, params, "").creation)]
  BY <1>4, <1>5, <1>6, Zenon DEF Aws!SnsConsumerOptions
<1>9. QED
  BY <1>1, <1>3, <1>7, <1>8 DEF topic, declared

\* The dead letter queue of a queue that is created is four characters longer, and there
\* is none in tests.
LEMMA DeadLetters ==
    ASSUME NEW declared \in Aws!Queue, NEW setting, NEW params \in Aws!Resolution, NEW principal, ~declared.external
    PROVE  LET resolved == Aws!ResolveQueue(declared, setting, params, principal)
               dlq == Aws!CommonConsumerOptions(params, resolved.creation).dlq
           IN  /\ dlq = <<>> <=> params.isTest
               /\ dlq # <<>> => Aws!Length(dlq[1]) = Aws!Length(resolved.creation[1].name) + 4
               /\ Aws!Length(resolved.creation[1].name) \in Nat
               /\ Aws!Length(resolved.creation[1].name) <= params.awsConfig.prefix + 1 + declared.name.length
<1> DEFINE resolved == Aws!ResolveQueue(declared, setting, params, principal)
           dlq == Aws!CommonConsumerOptions(params, resolved.creation).dlq
           name == resolved.creation[1].name
<1>1. resolved.creation # <<>> /\ name = Aws!Resource(declared.name, params.awsConfig, <<>>)
  BY ResolvedQueue
<1>2. params.isTest \in BOOLEAN /\ params.awsConfig.prefix \in Nat /\ declared.name.length \in Nat
  BY DEF Aws!Resolution, Aws!Queue, Aws!Name
<1> HIDE DEF resolved, name
<1>3. dlq = IF params.isTest THEN <<>> ELSE <<[name EXCEPT !.suffix = Aws!Dlq]>>
  BY <1>1 DEF Aws!CommonConsumerOptions, name
<1>4. /\ name = [prefix |-> params.awsConfig.prefix, name |-> declared.name, suffix |-> <<>>]
      /\ [name EXCEPT !.suffix = Aws!Dlq] = [prefix |-> params.awsConfig.prefix, name |-> declared.name, suffix |-> Aws!Dlq]
  BY <1>1 DEF Aws!Resource
<1>5. Len(Aws!Dlq) = 4 /\ Len(<<>>) = 0
  BY DEF Aws!Dlq
<1>6. /\ Aws!Length(name) \in Nat /\ Aws!Length(name) <= params.awsConfig.prefix + 1 + declared.name.length
      /\ Aws!Length([name EXCEPT !.suffix = Aws!Dlq]) = Aws!Length(name) + 4
  <2> DEFINE dead == [name EXCEPT !.suffix = Aws!Dlq]
  <2>1. /\ name.prefix = params.awsConfig.prefix /\ name.name = declared.name /\ Len(name.suffix) = 0
        /\ dead.prefix = params.awsConfig.prefix /\ dead.name = declared.name /\ Len(dead.suffix) = 4
    BY <1>4, <1>5
  <2> HIDE DEF dead
  <2>2. /\ Aws!Length(name) \in Nat /\ Aws!Length(name) <= params.awsConfig.prefix + 1 + declared.name.length
        /\ Aws!Length(dead) = Aws!Length(name) + 4
    BY <1>2, <2>1 DEF Aws!Length
  <2>3. QED
    BY <2>2 DEF dead
<1>7. /\ dlq = <<>> <=> params.isTest
      /\ dlq # <<>> => dlq[1] = [name EXCEPT !.suffix = Aws!Dlq]
  BY <1>2, <1>3
<1>8. QED
  BY <1>6, <1>7 DEF resolved, name

\* No name is longer than AWS allows, but for the topics' one character.
LEMMA NamesAlwaysFit ==
    ASSUME NEW topics \in Seq(Aws!Topic), NEW setting \in Aws!Routing, NEW params \in Aws!Resolution
    PROVE  Aws!NamesFit(topics, setting, params)
<1> SUFFICES ASSUME setting.validate, Aws!SnsResolves(topics, setting), params.awsConfig.prefix <= 10,
                    NEW i \in DOMAIN topics
             PROVE  LET topic == Aws!Resource(topics[i].name, params.awsConfig, <<>>)
                        Longest == topics[i].name.length = 246 /\ topic.prefix = 10
                    IN  /\ Aws!Length(topic) <= 256 + (IF Longest THEN 1 ELSE 0)
                        /\ \A j \in DOMAIN topics[i].queues :
                              LET consumer == Aws!SnsConsumerOptions(topics, topics[i].name, topics[i].queues[j].name, setting, params)
                              IN  consumer # Aws!Throws /\ consumer.common.dlq # <<>> => Aws!Length(consumer.common.dlq[1]) <= 80
  BY Zenon DEF Aws!NamesFit
<1>1. topics[i] \in Aws!Topic
  BY InSequence
<1>2. topics[i].name.length \in Nat /\ params.awsConfig.prefix \in Nat
  BY <1>1 DEF Aws!Topic, Aws!Name, Aws!Resolution
<1>3. topics[i].name.length <= 246 /\ \A j \in DOMAIN topics[i].queues : topics[i].queues[j].name.length <= 64
  BY DEF Aws!SnsResolves, Aws!ValidTopics, Aws!ValidQueues
<1> DEFINE topic == Aws!Resource(topics[i].name, params.awsConfig, <<>>)
<1>4. /\ topic.prefix = params.awsConfig.prefix
      /\ Aws!Length(topic) = (IF params.awsConfig.prefix = 0 THEN 0 ELSE params.awsConfig.prefix + 1)
                             + topics[i].name.length + 0
  BY DEF Aws!Resource, Aws!Length
<1> HIDE DEF topic
<1>5. Aws!Length(topic) <= 256 + (IF topics[i].name.length = 246 /\ topic.prefix = 10 THEN 1 ELSE 0)
  BY <1>2, <1>3, <1>4
<1>6. ASSUME NEW j \in DOMAIN topics[i].queues,
             Aws!SnsConsumerOptions(topics, topics[i].name, topics[i].queues[j].name, setting, params) # Aws!Throws,
             Aws!SnsConsumerOptions(topics, topics[i].name, topics[i].queues[j].name, setting, params).common.dlq # <<>>
      PROVE  Aws!Length(Aws!SnsConsumerOptions(topics, topics[i].name, topics[i].queues[j].name, setting, params).common.dlq[1]) <= 80
  <2> DEFINE declared == topics[i].queues[j]
             consumer == Aws!SnsConsumerOptions(topics, topics[i].name, declared.name, setting, params)
             resolved == Aws!ResolveQueue(declared, setting, params, "")
             common == Aws!CommonConsumerOptions(params, resolved.creation)
  <2>1. declared \in Aws!Queue
    BY SnsOptions
  <2>2. ~declared.external /\ consumer.common = common
    <3>1. consumer = IF declared.external THEN Aws!Throws
                     ELSE [type |-> "consumer", topic |-> Aws!ResolveTopic(topics[i], setting, params),
                           queue |-> resolved,
                           publishers |-> Aws!Resource(topics[i].name, params.awsConfig, <<>>),
                           common |-> common]
      BY SnsOptions
    <3>2. consumer # Aws!Throws
      BY <1>6
    <3>3. declared.external \in BOOLEAN
      BY <2>1 DEF Aws!Queue
    <3> HIDE DEF consumer, common, declared
    <3>4. ~declared.external
      BY <3>1, <3>2, <3>3
    <3>5. QED
      BY <3>1, <3>4
  <2>3. /\ common.dlq # <<>> => Aws!Length(common.dlq[1]) = Aws!Length(resolved.creation[1].name) + 4
        /\ Aws!Length(resolved.creation[1].name) \in Nat
        /\ Aws!Length(resolved.creation[1].name) <= params.awsConfig.prefix + 1 + declared.name.length
    BY <2>1, <2>2, DeadLetters
  <2>4. declared.name.length \in Nat /\ declared.name.length <= 64
    BY <1>3, <2>1 DEF Aws!Queue, Aws!Name
  <2> HIDE DEF common, resolved, consumer, declared
  <2>5. common.dlq # <<>>
    BY <1>6, <2>2 DEF consumer, declared
  <2>6. Aws!Length(common.dlq[1]) <= 80
    BY <1>2, <2>3, <2>4, <2>5
  <2>7. QED
    BY <2>2, <2>6 DEF consumer, declared
<1>7. QED
  BY <1>5, <1>6, Zenon DEF topic

\* A topic is located or created.
LEMMA ResolvedTopic ==
    ASSUME NEW topic \in Aws!Topic, NEW setting, NEW params
    PROVE  LET resolved == Aws!ResolveTopic(topic, setting, params)
           IN  /\ (resolved.creation = <<>>) # (resolved.locator = <<>>)
               /\ resolved.locator # <<>> <=> topic.external
               /\ ~topic.external =>
                     resolved.creation[1].subscribers = Aws!SubscribePrefixes(topic, params.awsConfig)
<1>1. topic.external \in BOOLEAN
  BY DEF Aws!Topic
<1>2. CASE topic.external
  BY <1>2 DEF Aws!ResolveTopic, Aws!Located
<1>3. CASE ~topic.external
  BY <1>3 DEF Aws!ResolveTopic, Aws!Created
<1>4. QED
  BY <1>1, <1>2, <1>3

\* A queue of the project may subscribe to the project's topics when its name has a `-',
\* or when the topic lets any name of the project.
LEMMA SubscribersAreCovered ==
    ASSUME NEW topic \in Aws!Topic, NEW declared \in Aws!Queue, NEW awsConfig,
           ~topic.external, Aws!Conventional(declared.name)
    PROVE  (\E p \in Aws!SubscribePrefixes(topic, awsConfig) : Aws!Covers(p, Aws!Resource(declared.name, awsConfig, <<>>)))
              <=> declared.name.separator = "-" \/ [name |-> Project, end |-> "*"] \in topic.apps
<1> DEFINE Pattern(app) == [prefix |-> awsConfig.prefix, app |-> app.name,
                            separator |-> IF app.end = "*" THEN "" ELSE "-"]
           apps == {[name |-> Project, end |-> ""]} \cup topic.apps
           resource == Aws!Resource(declared.name, awsConfig, <<>>)
           every == [name |-> Project, end |-> "*"]
<1>1. Aws!SubscribePrefixes(topic, awsConfig) = {Pattern(app) : app \in apps}
  BY DEF Aws!SubscribePrefixes
<1>2. declared.name.app = Project /\ declared.name.separator \in {"-", "_"}
  BY DEF Aws!Conventional
<1>3. \A app \in apps : Aws!Covers(Pattern(app), resource)
                           <=> app.name = Project /\ (app.end = "*" \/ declared.name.separator = "-")
  <2> TAKE app \in apps
  <2> DEFINE p == Pattern(app)
  <2>1. /\ p.prefix = awsConfig.prefix /\ p.app = app.name
        /\ p.separator = IF app.end = "*" THEN "" ELSE "-"
        /\ resource.prefix = awsConfig.prefix /\ resource.name = declared.name
    BY DEF Aws!Resource
  <2> HIDE DEF p, resource
  <2>2. Aws!Covers(p, resource) <=> app.name = Project /\ (app.end = "*" \/ declared.name.separator = "-")
    BY <1>2, <2>1 DEF Aws!Covers
  <2>3. QED
    BY <2>2 DEF p
<1>4. \A app \in topic.apps : app.name = Project /\ app.end = "*" => app = every
  BY DEF Aws!Topic
<1>5. every.name = Project /\ every.end = "*"
  OBVIOUS
<1> DEFINE own == [name |-> Project, end |-> ""]
<1>6. own \in apps /\ own.name = Project /\ own.end # "*" /\ (every \in apps <=> every \in topic.apps)
  <2>1. own.end = "" /\ every.end = "*" /\ own.name = Project
    OBVIOUS
  <2>2. own # every
    BY <2>1
  <2>3. QED
    BY <2>1, <2>2
<1> HIDE DEF Pattern, every, resource, own
<1>7. (\E app \in apps : Aws!Covers(Pattern(app), resource))
         <=> declared.name.separator = "-" \/ every \in topic.apps
  <2>1. \A app \in apps : app.name = Project /\ app.end = "*" => app = every
    BY <1>4, <1>6 DEF own
  <2> HIDE DEF apps
  <2>2. QED
    BY <1>3, <1>5, <1>6, <2>1
<1>8. QED
  BY <1>1, <1>7, Zenon DEF resource, every

\* Publishers and consumers resolve a topic and its queues alike.
LEMMA OptionsAlwaysAgree ==
    ASSUME NEW topics \in Seq(Aws!Topic), NEW setting \in Aws!Routing, NEW params \in Aws!Resolution
    PROVE  Aws!OptionsAgree(topics, setting, params)
<1> SUFFICES ASSUME Aws!SnsResolves(topics, setting), NEW i \in DOMAIN topics, NEW j \in DOMAIN topics[i].queues
             PROVE  LET topic == topics[i]
                        declared == topic.queues[j]
                        publisher == Aws!SnsPublisherOptions(topics, topic.name, setting, params)
                        consumer == Aws!SnsConsumerOptions(topics, topic.name, declared.name, setting, params)
                        Pattern == publisher.topic.creation[1].subscribers
                    IN  /\ publisher # Aws!Throws
                        /\ consumer = Aws!Throws <=> declared.external
                        /\ consumer # Aws!Throws =>
                              /\ consumer.topic = publisher.topic
                              /\ (consumer.topic.creation = <<>>) # (consumer.topic.locator = <<>>)
                              /\ consumer.topic.locator # <<>> <=> topic.external
                              /\ consumer.queue.creation # <<>>
                              /\ consumer.common.dlq = <<>> <=> params.isTest
                              /\ consumer.common.dlq # <<>> => Aws!Length(consumer.common.dlq[1]) = Aws!Length(consumer.queue.creation[1].name) + 4
                              /\ ~topic.external /\ setting.validate =>
                                    ((\E p \in Pattern : Aws!Covers(p, consumer.queue.creation[1].name)) <=>
                                        \/ declared.name.separator = "-"
                                        \/ [name |-> Project, end |-> "*"] \in topic.apps)
  BY Zenon DEF Aws!OptionsAgree
<1> DEFINE topic == topics[i]
           declared == topic.queues[j]
           publisher == Aws!SnsPublisherOptions(topics, topic.name, setting, params)
           consumer == Aws!SnsConsumerOptions(topics, topic.name, declared.name, setting, params)
           resolved == Aws!ResolveQueue(declared, setting, params, "")
           top == Aws!ResolveTopic(topic, setting, params)
           common == Aws!CommonConsumerOptions(params, resolved.creation)
           publishers == Aws!Resource(topic.name, params.awsConfig, <<>>)
<1>1. /\ topic \in Aws!Topic /\ declared \in Aws!Queue
      /\ publisher = [type |-> "publisher", topic |-> top]
      /\ consumer = IF declared.external THEN Aws!Throws
                    ELSE [type |-> "consumer", topic |-> top, queue |-> resolved,
                          publishers |-> publishers, common |-> common]
  BY SnsOptions
<1>2. declared.external \in BOOLEAN /\ topic.external \in BOOLEAN
  BY <1>1 DEF Aws!Queue, Aws!Topic
<1> HIDE DEF topic, declared, publisher, consumer
<1>3. /\ (top.creation = <<>>) # (top.locator = <<>>)
      /\ top.locator # <<>> <=> topic.external
      /\ ~topic.external => top.creation[1].subscribers = Aws!SubscribePrefixes(topic, params.awsConfig)
  <2>1. topic \in Aws!Topic
    BY <1>1
  <2> HIDE DEF top
  <2>2. \A t \in Aws!Topic :
           t = topic =>
               /\ (top.creation = <<>>) # (top.locator = <<>>)
               /\ top.locator # <<>> <=> t.external
               /\ ~t.external => top.creation[1].subscribers = Aws!SubscribePrefixes(t, params.awsConfig)
    <3> TAKE t \in Aws!Topic
    <3> HAVE t = topic
    <3> DEFINE mine == Aws!ResolveTopic(t, setting, params)
    <3>1. /\ (mine.creation = <<>>) # (mine.locator = <<>>)
          /\ mine.locator # <<>> <=> t.external
          /\ ~t.external => mine.creation[1].subscribers = Aws!SubscribePrefixes(t, params.awsConfig)
      BY ResolvedTopic
    <3>2. mine = top
      BY DEF top
    <3> HIDE DEF mine
    <3>3. QED
      BY <3>1, <3>2
  <2>3. QED
    BY <2>1, <2>2
<1>4. ~declared.external =>
         /\ resolved.creation # <<>>
         /\ resolved.creation[1].name = Aws!Resource(declared.name, params.awsConfig, <<>>)
  <2>1. declared \in Aws!Queue
    BY <1>1
  <2> HIDE DEF resolved
  <2>2. \A q \in Aws!Queue :
           q = declared /\ ~q.external =>
               /\ resolved.creation # <<>>
               /\ resolved.creation[1].name = Aws!Resource(q.name, params.awsConfig, <<>>)
    <3> TAKE q \in Aws!Queue
    <3> HAVE q = declared /\ ~q.external
    <3> DEFINE mine == Aws!ResolveQueue(q, setting, params, "")
    <3>0. ~q.external
      OBVIOUS
    <3>1. mine.creation # <<>> /\ mine.creation[1].name = Aws!Resource(q.name, params.awsConfig, <<>>)
      BY <3>0 DEF Aws!ResolveQueue, Aws!Created
    <3>2. mine = resolved
      BY DEF resolved
    <3> HIDE DEF mine
    <3>3. QED
      BY <3>1, <3>2
  <2>3. QED
    BY <2>1, <2>2
<1>5. ~declared.external =>
         /\ common.dlq = <<>> <=> params.isTest
         /\ common.dlq # <<>> => Aws!Length(common.dlq[1]) = Aws!Length(resolved.creation[1].name) + 4
  BY <1>1, DeadLetters
<1>6. setting.validate /\ ~declared.external => Aws!Conventional(declared.name)
  BY <1>2 DEF Aws!SnsResolves, Aws!ValidTopics, Aws!ValidQueues, topic, declared
<1> HIDE DEF resolved, top, common, publishers
<1>7. publisher # Aws!Throws /\ publisher.topic = top
  <2>1. publisher.type = "publisher" /\ Aws!Throws.type = "throws"
    BY <1>1 DEF Aws!Throws
  <2>2. QED
    BY <1>1, <2>1
<1>8. ~declared.external =>
         /\ consumer # Aws!Throws
         /\ consumer.topic = top /\ consumer.queue = resolved /\ consumer.common = common
  <2> SUFFICES ASSUME ~declared.external
               PROVE  consumer # Aws!Throws /\ consumer.topic = top /\ consumer.queue = resolved /\ consumer.common = common
    OBVIOUS
  <2>1. consumer = [type |-> "consumer", topic |-> top, queue |-> resolved, publishers |-> publishers, common |-> common]
    BY <1>1
  <2>2. consumer.type = "consumer" /\ Aws!Throws.type = "throws"
    BY <2>1 DEF Aws!Throws
  <2>3. QED
    BY <2>1, <2>2
<1>9. consumer = Aws!Throws <=> declared.external
  BY <1>1, <1>2, <1>8
<1>10. ~declared.external /\ ~topic.external /\ setting.validate =>
          ((\E p \in top.creation[1].subscribers : Aws!Covers(p, resolved.creation[1].name)) <=>
              \/ declared.name.separator = "-"
              \/ [name |-> Project, end |-> "*"] \in topic.apps)
  <2> SUFFICES ASSUME ~declared.external, ~topic.external, setting.validate
               PROVE  (\E p \in top.creation[1].subscribers : Aws!Covers(p, resolved.creation[1].name)) <=>
                         \/ declared.name.separator = "-"
                         \/ [name |-> Project, end |-> "*"] \in topic.apps
    OBVIOUS
  <2>1. Aws!Conventional(declared.name)
    BY <1>6
  <2>2. /\ top.creation[1].subscribers = Aws!SubscribePrefixes(topic, params.awsConfig)
        /\ resolved.creation[1].name = Aws!Resource(declared.name, params.awsConfig, <<>>)
    BY <1>3, <1>4
  <2>3. QED
    BY <1>1, <2>1, <2>2, SubscribersAreCovered
<1>11. ~declared.external =>
          /\ consumer.topic = publisher.topic
          /\ (consumer.topic.creation = <<>>) # (consumer.topic.locator = <<>>)
          /\ consumer.topic.locator # <<>> <=> topic.external
          /\ consumer.queue.creation # <<>>
          /\ consumer.common.dlq = <<>> <=> params.isTest
          /\ consumer.common.dlq # <<>> => Aws!Length(consumer.common.dlq[1]) = Aws!Length(consumer.queue.creation[1].name) + 4
          /\ ~topic.external /\ setting.validate =>
                ((\E p \in publisher.topic.creation[1].subscribers : Aws!Covers(p, consumer.queue.creation[1].name)) <=>
                    \/ declared.name.separator = "-"
                    \/ [name |-> Project, end |-> "*"] \in topic.apps)
  BY <1>3, <1>4, <1>5, <1>7, <1>8, <1>10
<1>12. QED
  BY <1>7, <1>9, <1>11, Zenon DEF topic, declared, publisher, consumer

\* Whatever environment, topics, queues, requests, polls and tries are given.
LEMMA InputsHold == ASSUME InputsInit PROVE ConfigsHold
<1>1. CASE part = "environment"
  <2>1. PICK e \in Aws!Environment \X Aws!Environment : input = e
    BY <1>1, InputsAssumption DEF InputsInit, Parts
  <2>2. QED
    BY <1>1, <2>1, ConfigsAlwaysAgree DEF ConfigsHold
<1>2. CASE part = "topics"
  <2>1. PICK t \in Seq(Aws!Topic) \X Aws!Routing \X Aws!Resolution : input = t
    BY <1>2, InputsAssumption DEF InputsInit, Parts
  <2>2. QED
    BY <1>2, <2>1, NamesAlwaysFit, OptionsAlwaysAgree DEF ConfigsHold
<1>3. CASE part = "commands"
  <2>1. PICK c \in Seq(Aws!Queue) \X Aws!Name \X Aws!Routing \X Aws!Resolution : input = c
    BY <1>3, InputsAssumption DEF InputsInit, Parts
  <2>2. QED
    BY <1>3, <2>1, CommandsAlwaysAgree DEF ConfigsHold
<1>4. CASE part = "retries"
  <2>1. PICK r \in Delays!Headers \X (Nat \ {0}) \X Delays!RetryOptions \X Delays!Random : input = r
    BY <1>4, InputsAssumption DEF InputsInit, Parts
  <2>2. QED
    BY <1>4, <2>1, RetriesAlwaysWait DEF ConfigsHold
<1>5. CASE part = "polls"
  <2>1. PICK p \in Delays!PollConfig \X Delays!Random \X Delays!Random : input = p
    BY <1>5, InputsAssumption DEF InputsInit, Parts
  <2>2. QED
    BY <1>5, <2>1, PollsAlwaysWait DEF ConfigsHold
<1>6. CASE part = "tries"
  <2>1. PICK t \in (Nat \ {0}) \X Nat \X Nat : input = t
    BY <1>6, InputsAssumption DEF InputsInit, Parts
  <2>2. QED
    BY <1>6, <2>1, TriesAlwaysWait DEF ConfigsHold
<1>7. CASE part = "predicate"
  <2>1. PICK w \in Seq(Delays!Answers) \X Nat : input = w /\ (w[2] = 0 \/ Len(w[1]) >= w[2] + 2)
    BY <1>7, InputsAssumption DEF InputsInit, Parts
  <2>2. QED
    BY <1>7, <2>1, WaitsAlwaysEnd DEF ConfigsHold
<1>8. QED
  BY <1>1, <1>2, <1>3, <1>4, <1>5, <1>6, <1>7, Zenon DEF ConfigsHold

-----------------------------------------------------------------------------
(* Bulk updates *)

\* The entries are numbered, and their columns are few.
LEMMA UpdateFacts ==
    ASSUME NEW listed, NEW row, Bulk!IsUpdate(listed, row)
    PROVE  /\ Len(listed) \in Nat /\ DOMAIN listed = 1..Len(listed)
           /\ listed = <<>> <=> Len(listed) = 0
           /\ \A i \in DOMAIN listed :
                 \A r \in {listed[i].where, listed[i].data} :
                    r \in [DOMAIN r -> Int] /\ IsFiniteSet(DOMAIN r)
           /\ DOMAIN TypeByColumn \subseteq DOMAIN row /\ row \in [DOMAIN row -> Int]
<1>1. listed \in Seq({listed[i] : i \in DOMAIN listed})
  BY DEF Bulk!IsUpdate
<1>2. /\ Len(listed) \in Nat /\ DOMAIN listed = 1..Len(listed)
      /\ listed = <<>> <=> Len(listed) = 0
  BY <1>1, EmptySeq
<1>3. ASSUME NEW r, Bulk!IsRecord(r) PROVE r \in [DOMAIN r -> Int] /\ IsFiniteSet(DOMAIN r)
  BY <1>3, FS_Subset, InputsAssumption DEF Bulk!IsRecord
<1>4. QED
  BY <1>2, <1>3 DEF Bulk!IsUpdate, Bulk!IsRecord

\* An instance counts as any other module does.
LEMMA BulkCounts == \A S : Bulk!Cardinality(S) = Cardinality(S)
  BY DEF Bulk!Cardinality, Cardinality

\* A statement is made of entries that name the same columns, and of no others.
LEMMA SameIsWellFormed ==
    ASSUME NEW listed, NEW row, Bulk!IsUpdate(listed, row), listed # <<>>,
           NEW names, \A i \in DOMAIN listed :
                         /\ names[i] \subseteq DOMAIN listed[i].data
                         /\ \A c \in DOMAIN listed[i].data : listed[i].data[c] # Bulk!Undefined => c \in names[i]
    PROVE  LET where == DOMAIN listed[1].where
               data == names[1]
           IN  Bulk!WellFormed(listed, names)
                  <=> /\ where \cup data \subseteq DOMAIN TypeByColumn
                      /\ where # {} /\ data # {}
                      /\ Bulk!Same(listed, where, data, names)
                      /\ where \cap data = {}
<1> DEFINE where == DOMAIN listed[1].where
           data == names[1]
<1>1. 1 \in DOMAIN listed
  BY UpdateFacts
<1> HIDE DEF where, data
<1>2. ASSUME where \cup data \subseteq DOMAIN TypeByColumn, where # {}, data # {},
             Bulk!Same(listed, where, data, names), where \cap data = {}
      PROVE  Bulk!WellFormed(listed, names)
  <2>1. ASSUME NEW i \in DOMAIN listed
        PROVE  /\ DOMAIN listed[i].where = where
               /\ \A c \in where : listed[i].where[c] # Bulk!Undefined
               /\ names[i] = data
               /\ \A c \in data : listed[i].data[c] # Bulk!Undefined
    <3>1. /\ Cardinality(DOMAIN listed[i].where) = Cardinality(where)
          /\ \A c \in where : c \in DOMAIN listed[i].where /\ listed[i].where[c] # Bulk!Undefined
          /\ Cardinality(names[i]) = Cardinality(data)
          /\ \A c \in data : c \in DOMAIN listed[i].data /\ listed[i].data[c] # Bulk!Undefined
      BY <1>2, BulkCounts DEF Bulk!Same
    <3>2. IsFiniteSet(DOMAIN listed[i].where) /\ IsFiniteSet(DOMAIN listed[i].data)
      BY UpdateFacts
    <3>3. IsFiniteSet(names[i])
      BY <3>2, FS_Subset
    <3>4. where \subseteq DOMAIN listed[i].where /\ data \subseteq names[i]
      BY <3>1
    <3>5. DOMAIN listed[i].where = where /\ names[i] = data
      BY <3>1, <3>2, <3>3, <3>4, FS_Subset
    <3>6. QED
      BY <3>1, <3>5
  <2>2. where \in (SUBSET DOMAIN TypeByColumn) \ {{}} /\ data \in (SUBSET DOMAIN TypeByColumn) \ {{}}
    BY <1>2
  <2>3. QED
    BY <1>2, <2>1, <2>2 DEF Bulk!WellFormed
<1>3. ASSUME Bulk!WellFormed(listed, names)
      PROVE  /\ where \cup data \subseteq DOMAIN TypeByColumn
             /\ where # {} /\ data # {}
             /\ Bulk!Same(listed, where, data, names)
             /\ where \cap data = {}
  <2>1. PICK w \in (SUBSET DOMAIN TypeByColumn) \ {{}}, d \in (SUBSET DOMAIN TypeByColumn) \ {{}} :
           /\ w \cap d = {}
           /\ \A i \in DOMAIN listed :
                 /\ DOMAIN listed[i].where = w
                 /\ \A c \in w : listed[i].where[c] # Bulk!Undefined
                 /\ names[i] = d
                 /\ \A c \in d : listed[i].data[c] # Bulk!Undefined
    BY <1>3 DEF Bulk!WellFormed
  <2>2. where = w /\ data = d
    BY <1>1, <2>1 DEF where, data
  <2>3. Bulk!Same(listed, w, d, names)
    <3> SUFFICES ASSUME NEW i \in DOMAIN listed
                 PROVE  /\ Cardinality(DOMAIN listed[i].where) = Cardinality(w)
                        /\ \A c \in w : c \in DOMAIN listed[i].where /\ listed[i].where[c] # Bulk!Undefined
                        /\ Cardinality(names[i]) = Cardinality(d)
                        /\ \A c \in d : c \in DOMAIN listed[i].data /\ listed[i].data[c] # Bulk!Undefined
      BY BulkCounts DEF Bulk!Same
    <3>1. QED
      BY <2>1
  <2>4. w \cup d \subseteq DOMAIN TypeByColumn /\ w # {} /\ d # {} /\ w \cap d = {}
    BY <2>1
  <2>5. QED
    BY <2>2, <2>3, <2>4
<1>4. QED
  BY <1>2, <1>3 DEF where, data

\* The function that updates one by one are defined by
UpTo(row, listed, n, f) ==
    f = [i \in 0..n |-> IF i = 0 THEN row ELSE Bulk!UpdateBy(f[i - 1], listed[i])]

\* It exists, so that the row in the end is its last value.
LEMMA OneByOneIsDefined ==
    ASSUME NEW row, NEW listed, Len(listed) \in Nat
    PROVE  \E f : UpTo(row, listed, Len(listed), f) /\ Bulk!OneByOne(row, listed) = f[Len(listed)]
<1> DEFINE Defined == {n \in Nat : \E f : UpTo(row, listed, n, f)}
<1>1. 0 \in Defined
  <2>1. UpTo(row, listed, 0, [i \in 0..0 |-> row])
    BY DEF UpTo
  <2>2. QED
    BY <2>1
<1>2. ASSUME NEW n \in Nat, n \in Defined PROVE n + 1 \in Defined
  <2>1. PICK f : UpTo(row, listed, n, f)
    BY <1>2
  <2> DEFINE g == [i \in 0..(n + 1) |-> IF i = n + 1 THEN Bulk!UpdateBy(f[n], listed[n + 1]) ELSE f[i]]
  <2>2. \A i \in 0..(n + 1) : g[i] = IF i = 0 THEN row ELSE Bulk!UpdateBy(g[i - 1], listed[i])
    <3> TAKE i \in 0..(n + 1)
    <3>1. CASE i = n + 1
      BY <3>1
    <3>2. CASE i # n + 1
      BY <2>1, <3>2 DEF UpTo
    <3>3. QED
      BY <3>1, <3>2
  <2>3. UpTo(row, listed, n + 1, g)
    BY <2>2 DEF UpTo
  <2>4. QED
    BY <2>3
<1>3. \E f : UpTo(row, listed, Len(listed), f)
  BY <1>1, <1>2, NaturalInduction
<1> DEFINE f == CHOOSE f : f = [i \in 0..Len(listed) |->
                   IF i = 0 THEN row ELSE Bulk!UpdateBy(f[i - 1], listed[i])]
<1>4. UpTo(row, listed, Len(listed), f)
  BY <1>3 DEF UpTo
<1>5. Bulk!OneByOne(row, listed) = f[Len(listed)]
  BY Zenon DEF Bulk!OneByOne
<1>6. QED
  BY <1>4, <1>5

\* One entry updates a row once.
LEMMA OneUpdate ==
    ASSUME NEW row, NEW entry
    PROVE  Bulk!OneByOne(row, <<entry>>) = Bulk!UpdateBy(row, entry)
<1>1. Len(<<entry>>) = 1 /\ <<entry>>[1] = entry
  OBVIOUS
<1>2. PICK f : UpTo(row, <<entry>>, 1, f) /\ Bulk!OneByOne(row, <<entry>>) = f[1]
  BY <1>1, OneByOneIsDefined
<1>3. f[1] = Bulk!UpdateBy(f[0], <<entry>>[1]) /\ f[0] = row
  BY <1>2 DEF UpTo
<1>4. QED
  BY <1>1, <1>2, <1>3

\* Entries of which one at most matches a row, before and after its update, leave it as
\* that one makes it.
LEMMA OneMatches ==
    ASSUME NEW row, NEW listed, Len(listed) \in Nat, NEW k \in 0..Len(listed),
           NEW after, k > 0 => after = Bulk!UpdateBy(row, listed[k]),
           k = 0 => after = row,
           \A i \in 1..Len(listed) : i # k =>
              Bulk!UpdateBy(row, listed[i]) = row /\ Bulk!UpdateBy(after, listed[i]) = after
    PROVE  Bulk!OneByOne(row, listed) = after
<1>1. PICK f : UpTo(row, listed, Len(listed), f) /\ Bulk!OneByOne(row, listed) = f[Len(listed)]
  BY OneByOneIsDefined
<1> DEFINE Known == {n \in Nat : n <= Len(listed) => f[n] = IF n < k THEN row ELSE after}
<1>2. 0 \in Known
  <2>1. f[0] = row
    BY <1>1 DEF UpTo
  <2>2. QED
    BY <2>1
<1>3. ASSUME NEW n \in Nat, n \in Known PROVE n + 1 \in Known
  <2>1. CASE n + 1 <= Len(listed)
    <3>1. n + 1 \in 1..Len(listed) /\ n + 1 \in 0..Len(listed) /\ n + 1 # 0 /\ (n + 1) - 1 = n
      BY <2>1
    <3>2. f[n + 1] = Bulk!UpdateBy(f[n], listed[n + 1])
      BY <1>1, <3>1 DEF UpTo
    <3>3. f[n] = IF n < k THEN row ELSE after
      BY <1>3, <2>1
    <3>4. f[n + 1] = IF n + 1 < k THEN row ELSE after
      <4>1. CASE n + 1 = k
        BY <3>1, <3>2, <3>3, <4>1
      <4>2. CASE n + 1 # k
        BY <3>1, <3>2, <3>3, <4>2
      <4>3. QED
        BY <4>1, <4>2
    <3>5. QED
      BY <3>4
  <2>2. QED
    BY <2>1
<1>4. f[Len(listed)] = after
  <2>1. Nat \subseteq Known
    BY <1>2, <1>3, NaturalInduction
  <2>2. QED
    BY <2>1
<1>5. QED
  BY <1>1, <1>4

\* A statement whose values are the entries' does what they do.
LEMMA StatementApplies ==
    ASSUME NEW listed, NEW row, Bulk!IsUpdate(listed, row), listed # <<>>,
           NEW where, NEW data, NEW client,
           where \cup data \subseteq DOMAIN TypeByColumn, where \cap data = {},
           \A i \in DOMAIN listed :
              /\ DOMAIN listed[i].where = where
              /\ data \subseteq DOMAIN listed[i].data
              /\ \A c \in DOMAIN listed[i].data : listed[i].data[c] # Bulk!Undefined <=> c \in data
              /\ \A c \in where : Bulk!Render(client, listed[i].where[c], c) = listed[i].where[c]
              /\ \A c \in data : Bulk!Render(client, listed[i].data[c], c) = listed[i].data[c]
    PROVE  Bulk!Applies(row, listed, Bulk!Statement(listed, where, data, client))
<1> DEFINE statement == Bulk!Statement(listed, where, data, client)
           Value(i) == [where |-> listed[i].where, data |-> [c \in data |-> listed[i].data[c]]]
           Hit(i) == Bulk!Matches(row, listed[i].where)
           Hits == {i \in DOMAIN listed : Hit(i)}
           New(i) == [c \in DOMAIN row |-> IF c \in data THEN listed[i].data[c] ELSE row[c]]
<1>1. statement.data = data /\ statement.values = [i \in DOMAIN listed |-> Value(i)]
  <2>1. ASSUME NEW i \in DOMAIN listed
        PROVE  /\ [c \in where |-> Bulk!Render(client, listed[i].where[c], c)] = listed[i].where
               /\ [c \in data |-> Bulk!Render(client, listed[i].data[c], c)] = [c \in data |-> listed[i].data[c]]
    <3>1. listed[i].where = [c \in where |-> listed[i].where[c]]
      BY UpdateFacts
    <3>2. QED
      BY <3>1
  <2>2. QED
    BY <2>1 DEF Bulk!Statement
<1>2. ASSUME NEW i \in DOMAIN listed
      PROVE  Bulk!UpdateBy(row, listed[i]) = IF Hit(i) THEN New(i) ELSE row
  BY DEF Bulk!UpdateBy
<1>3. Bulk!Outcomes(row, statement) = IF Hits = {} THEN {row} ELSE {New(i) : i \in Hits}
  <2> DEFINE matching == {v \in {statement.values[i] : i \in DOMAIN statement.values} : Bulk!Matches(row, v.where)}
             Updated(v) == [c \in DOMAIN row |-> IF c \in statement.data THEN v.data[c] ELSE row[c]]
  <2>1. Bulk!Outcomes(row, statement) = IF matching = {} THEN {row} ELSE {Updated(v) : v \in matching}
    BY Zenon DEF Bulk!Outcomes
  <2>2. matching = {Value(i) : i \in Hits}
    BY <1>1
  <2>3. \A i \in Hits : Updated(Value(i)) = New(i)
    BY <1>1
  <2> HIDE DEF matching, Updated, Value, New, Hits
  <2>4. matching = {} <=> Hits = {}
    BY <2>2
  <2>5. {Updated(v) : v \in matching} = {New(i) : i \in Hits}
    BY <2>2, <2>3
  <2>6. QED
    BY <2>1, <2>4, <2>5
<1>4. \A i \in DOMAIN listed : i \in 1..Len(listed)
  BY UpdateFacts
<1>5. CASE \A i, j \in DOMAIN listed : listed[i].where = listed[j].where => i = j
  <2>1. \A i, j \in Hits : i = j
    <3> SUFFICES ASSUME NEW i \in Hits, NEW j \in Hits PROVE i = j
      OBVIOUS
    <3>1. \A c \in where : listed[i].where[c] = listed[j].where[c]
      BY DEF Bulk!Matches
    <3>2. /\ listed[i].where = [c \in where |-> listed[i].where[c]]
          /\ listed[j].where = [c \in where |-> listed[j].where[c]]
      BY UpdateFacts
    <3>3. listed[i].where = listed[j].where
      BY <3>1, <3>2
    <3>4. QED
      BY <1>5, <3>3
  <2>2. CASE Hits = {}
    <3>1. Bulk!OneByOne(row, listed) = row
      <4>1. Len(listed) \in Nat /\ 0 \in 0..Len(listed)
        BY UpdateFacts
      <4>2. \A i \in 1..Len(listed) : Bulk!UpdateBy(row, listed[i]) = row
        BY <1>2, <2>2, UpdateFacts
      <4>3. QED
        BY <4>1, <4>2, OneMatches
    <3>2. QED
      BY <1>3, <1>5, <2>2, <3>1 DEF Bulk!Applies
  <2>3. CASE Hits # {}
    <3>1. PICK k \in DOMAIN listed : Hits = {k}
      BY <2>1, <2>3
    <3>2. ASSUME NEW i \in DOMAIN listed, i # k
          PROVE  Bulk!UpdateBy(row, listed[i]) = row /\ Bulk!UpdateBy(New(k), listed[i]) = New(k)
      <4>1. ~Hit(i)
        BY <3>1, <3>2
      <4>2. \A c \in where : c \in DOMAIN row /\ New(k)[c] = row[c]
        BY UpdateFacts
      <4>3. ~Bulk!Matches(New(k), listed[i].where)
        BY <4>1, <4>2 DEF Bulk!Matches
      <4>4. QED
        BY <1>2, <4>1, <4>3 DEF Bulk!UpdateBy
    <3>3. Bulk!OneByOne(row, listed) = New(k)
      <4>1. Len(listed) \in Nat /\ k \in 0..Len(listed) /\ k > 0 /\ DOMAIN listed = 1..Len(listed)
        BY UpdateFacts
      <4>2. New(k) = Bulk!UpdateBy(row, listed[k])
        BY <1>2, <3>1
      <4> DEFINE after == New(k)
      <4>3. \A i \in 1..Len(listed) : i # k =>
               Bulk!UpdateBy(row, listed[i]) = row /\ Bulk!UpdateBy(after, listed[i]) = after
        BY <3>2, <4>1
      <4> HIDE DEF after
      <4>4. k > 0 => after = Bulk!UpdateBy(row, listed[k])
        BY <4>2 DEF after
      <4>5. Bulk!OneByOne(row, listed) = after
        BY <4>1, <4>3, <4>4, OneMatches
      <4>6. QED
        BY <4>5 DEF after
    <3>4. Bulk!Outcomes(row, statement) = {New(k)}
      BY <1>3, <3>1
    <3>5. QED
      BY <1>5, <3>3, <3>4 DEF Bulk!Applies
  <2>4. QED
    BY <2>2, <2>3
<1>6. CASE ~\A i, j \in DOMAIN listed : listed[i].where = listed[j].where => i = j
  <2>1. \A i \in Hits : New(i) = Bulk!OneByOne(row, <<listed[i]>>)
    BY <1>2, OneUpdate
  <2>2. Bulk!Outcomes(row, statement) \subseteq {row} \cup {Bulk!OneByOne(row, <<listed[i]>>) : i \in DOMAIN listed}
    <3> HIDE DEF New, Hit, statement
    <3>1. QED
      BY <1>3, <2>1
  <2>3. QED
    BY <1>6, <2>2 DEF Bulk!Applies
<1>7. QED
  BY <1>5, <1>6


\* Neither client is refused but for what cannot be one statement, or is too much for it.
LEMMA UpdatesAlwaysApply ==
    ASSUME NEW listed, NEW row, Bulk!IsUpdate(listed, row)
    PROVE  Bulk!BulkUpdatesApply(listed, row)
<1> DEFINE given == [i \in DOMAIN listed |-> {c \in DOMAIN listed[i].data : listed[i].data[c] # Bulk!Undefined}]
           named == [i \in DOMAIN listed |-> DOMAIN listed[i].data]
           prisma == Bulk!PrismaBulkUpdate(listed)
           drizzle == Bulk!DrizzleFullBulkUpdate(listed)
           where == DOMAIN listed[1].where
           TooMuch == \/ Len(listed) > EntriesLimit
                      \/ Len(listed) * Bulk!Cardinality(where \cup given[1]) > BindParametersLimit
           One(names) ==
               /\ where \cup names[1] \subseteq DOMAIN TypeByColumn
               /\ where # {} /\ names[1] # {}
               /\ Bulk!Same(listed, where, names[1], names)
               /\ where \cap names[1] = {}
<1>1. CASE listed = <<>>
  <2>1. prisma = Bulk!Refused /\ drizzle = Bulk!Refused
    BY <1>1 DEF Bulk!PrismaBulkUpdate, Bulk!DrizzleFullBulkUpdate
  <2>2. ~Bulk!WellFormed(listed, given) /\ ~Bulk!WellFormed(listed, named)
    BY <1>1 DEF Bulk!WellFormed
  <2> HIDE DEF given, named
  <2>3. QED
    BY <2>1, <2>2, Zenon DEF Bulk!BulkUpdatesApply, given, named
<1>2. CASE listed # <<>>
  <2>1. /\ 1 \in DOMAIN listed /\ Len(listed) \in Nat
        /\ \A i \in DOMAIN listed : IsFiniteSet(DOMAIN listed[i].where) /\ IsFiniteSet(DOMAIN listed[i].data)
    BY <1>2, UpdateFacts
  <2>2. /\ Bulk!WellFormed(listed, given) <=> One(given)
        /\ Bulk!WellFormed(listed, named) <=> One(named)
    <3>1. \A i \in DOMAIN listed :
             /\ given[i] \subseteq DOMAIN listed[i].data
             /\ \A c \in DOMAIN listed[i].data : listed[i].data[c] # Bulk!Undefined => c \in given[i]
      OBVIOUS
    <3>2. \A i \in DOMAIN listed :
             /\ named[i] \subseteq DOMAIN listed[i].data
             /\ \A c \in DOMAIN listed[i].data : listed[i].data[c] # Bulk!Undefined => c \in named[i]
      OBVIOUS
    <3> HIDE DEF given, named
    <3>3. Bulk!WellFormed(listed, given) <=> One(given)
      BY <1>2, <3>1, SameIsWellFormed
    <3>4. Bulk!WellFormed(listed, named) <=> One(named)
      BY <1>2, <3>2, SameIsWellFormed
    <3>5. QED
      BY <3>3, <3>4
  <2>3. prisma = IF ~One(given) \/ TooMuch THEN Bulk!Refused
                 ELSE Bulk!Statement(listed, where, given[1], "prisma")
    <3> DEFINE data == {c \in DOMAIN listed[1].data : listed[1].data[c] # Bulk!Undefined}
    <3>1. given[1] = data
      BY <2>1
    <3> DEFINE names == [i \in DOMAIN listed |-> Bulk!DefinedColumnNames(listed[i].data)]
    <3>2. names = given /\ Bulk!DefinedColumnNames(listed[1].data) = data
      BY DEF Bulk!DefinedColumnNames
    <3>3. prisma = IF \/ listed = <<>> \/ Len(listed) > EntriesLimit
                      \/ ~(where \cup data \subseteq DOMAIN TypeByColumn)
                      \/ where = {} \/ data = {}
                      \/ \E c \in where : listed[1].where[c] = Bulk!Undefined
                      \/ where \cap data # {}
                      \/ Len(listed) * (Bulk!Cardinality(where) + Bulk!Cardinality(data)) > BindParametersLimit
                      \/ ~Bulk!Same(listed, where, data, given)
                   THEN Bulk!Refused ELSE Bulk!Statement(listed, where, data, "prisma")
      <4> HIDE DEF given
      <4>1. QED
        BY <3>2, Zenon DEF Bulk!PrismaBulkUpdate
    <3>4. where \cap data = {} => Bulk!Cardinality(where \cup data) = Bulk!Cardinality(where) + Bulk!Cardinality(data)
      <4>1. IsFiniteSet(where) /\ IsFiniteSet(data)
        <5>1. IsFiniteSet(DOMAIN listed[1].data)
          BY <2>1
        <5>2. QED
          BY <2>1, <5>1, FS_Subset
      <4> HIDE DEF where, data
      <4>2. Cardinality(where) \in Nat /\ Cardinality(data) \in Nat
        BY <4>1, FS_CardinalityType
      <4>3. where \cap data = {} => Cardinality(where \cup data) = Cardinality(where) + Cardinality(data) - Cardinality({})
        BY <4>1, FS_Union
      <4>4. QED
        BY <4>2, <4>3, FS_EmptySet, BulkCounts
    <3>5. Bulk!Same(listed, where, data, given) => \A c \in where : listed[1].where[c] # Bulk!Undefined
      BY <2>1 DEF Bulk!Same
    <3> HIDE DEF data, given, where
    <3>6. QED
      BY <1>2, <3>1, <3>3, <3>4, <3>5
  <2>4. drizzle = IF ~One(named) THEN Bulk!Refused
                  ELSE Bulk!Statement(listed, where, named[1], "drizzle")
    <3>1. named[1] = DOMAIN listed[1].data
      BY <2>1
    <3> DEFINE data == DOMAIN listed[1].data
    <3> HIDE DEF where
    <3>2. drizzle = IF \/ listed = <<>>
                       \/ ~(where \cup data \subseteq DOMAIN TypeByColumn)
                       \/ where = {} \/ data = {}
                       \/ ~Bulk!Same(listed, where, data, named)
                       \/ where \cap data # {}
                    THEN Bulk!Refused ELSE Bulk!Statement(listed, where, data, "drizzle")
      BY Zenon DEF Bulk!DrizzleFullBulkUpdate, where
    <3> HIDE DEF data, named
    <3>3. QED
      BY <1>2, <3>1, <3>2 DEF data
  <2>5. ASSUME NEW data, NEW client PROVE Bulk!Statement(listed, where, data, client) # Bulk!Refused
    <3>1. Bulk!Statement(listed, where, data, client).type = "update" /\ Bulk!Refused.type = "refused"
      BY DEF Bulk!Statement, Bulk!Refused
    <3>2. QED
      BY <3>1
  <2>6. prisma = Bulk!Refused <=> ~Bulk!WellFormed(listed, given) \/ TooMuch
    <3> HIDE DEF prisma, One, TooMuch, given
    <3>1. QED
      BY <2>2, <2>3, <2>5
  <2>7. drizzle = Bulk!Refused <=> ~Bulk!WellFormed(listed, named)
    <3> HIDE DEF drizzle, One, named
    <3>1. QED
      BY <2>2, <2>4, <2>5
  <2>8. ASSUME NEW names, NEW client, Bulk!WellFormed(listed, names), One(names),
               \A i \in DOMAIN listed : \A c \in DOMAIN listed[i].data :
                  listed[i].data[c] # Bulk!Undefined => c \in names[i],
               \A i \in DOMAIN listed : \A r \in {listed[i].where, listed[i].data} :
                  \A c \in DOMAIN r : Bulk!Render(client, r[c], c) = r[c]
        PROVE  Bulk!Applies(row, listed, Bulk!Statement(listed, where, names[1], client))
    <3>1. PICK w \in (SUBSET DOMAIN TypeByColumn) \ {{}}, d \in (SUBSET DOMAIN TypeByColumn) \ {{}} :
             /\ w \cap d = {}
             /\ \A i \in DOMAIN listed :
                   /\ DOMAIN listed[i].where = w
                   /\ \A c \in w : listed[i].where[c] # Bulk!Undefined
                   /\ names[i] = d
                   /\ \A c \in d : listed[i].data[c] # Bulk!Undefined
      BY <2>8 DEF Bulk!WellFormed
    <3>2. w = where /\ d = names[1]
      BY <2>1, <3>1
    <3>3. \A i \in DOMAIN listed : d \subseteq DOMAIN listed[i].data
      BY <2>8, <3>2 DEF Bulk!Same
    <3>4. w \cup d \subseteq DOMAIN TypeByColumn
      BY <2>8, <3>2
    <3>5. \A i \in DOMAIN listed :
             /\ DOMAIN listed[i].where = w
             /\ d \subseteq DOMAIN listed[i].data
             /\ \A c \in DOMAIN listed[i].data : listed[i].data[c] # Bulk!Undefined <=> c \in d
             /\ \A c \in w : Bulk!Render(client, listed[i].where[c], c) = listed[i].where[c]
             /\ \A c \in d : Bulk!Render(client, listed[i].data[c], c) = listed[i].data[c]
      BY <2>8, <3>1, <3>3
    <3> HIDE DEF where
    <3>6. Bulk!Applies(row, listed, Bulk!Statement(listed, w, d, client))
      BY <1>2, <3>1, <3>4, <3>5, StatementApplies
    <3>7. QED
      BY <3>2, <3>6
  <2>9. ASSUME prisma # Bulk!Refused PROVE Bulk!Applies(row, listed, prisma)
    <3>1. Bulk!WellFormed(listed, given) /\ One(given)
      BY <2>2, <2>6, <2>9
    <3>2. prisma = Bulk!Statement(listed, where, given[1], "prisma")
      <4> HIDE DEF prisma, One, TooMuch, given
      <4>1. QED
        BY <2>3, <2>9
    <3>3. \A i \in DOMAIN listed : \A c \in DOMAIN listed[i].data :
             listed[i].data[c] # Bulk!Undefined => c \in given[i]
      OBVIOUS
    <3>4. \A v, c : Bulk!Render("prisma", v, c) = v
      BY DEF Bulk!Render, Bulk!RenderTypedValue
    <3> HIDE DEF prisma, One, given, where
    <3>5. QED
      BY <2>8, <3>1, <3>2, <3>3, <3>4 DEF where
  <2>10. ASSUME drizzle # Bulk!Refused, Bulk!Faithful(listed) PROVE Bulk!Applies(row, listed, drizzle)
    <3>1. Bulk!WellFormed(listed, named) /\ One(named)
      BY <2>2, <2>7, <2>10
    <3>2. drizzle = Bulk!Statement(listed, where, named[1], "drizzle")
      <4> HIDE DEF drizzle, One, named
      <4>1. QED
        BY <2>4, <2>10
    <3>3. \A i \in DOMAIN listed : \A c \in DOMAIN listed[i].data :
             listed[i].data[c] # Bulk!Undefined => c \in named[i]
      OBVIOUS
    <3>4. \A i \in DOMAIN listed : \A r \in {listed[i].where, listed[i].data} :
             \A c \in DOMAIN r : Bulk!Render("drizzle", r[c], c) = r[c]
      BY <2>10 DEF Bulk!Faithful, Bulk!Render, Bulk!ToSqlCastValue
    <3> HIDE DEF drizzle, One, named, where
    <3>5. QED
      BY <2>8, <3>1, <3>2, <3>3, <3>4 DEF where
  <2> HIDE DEF given, named, prisma, drizzle
  <2>11. QED
    BY <2>6, <2>7, <2>9, <2>10, Zenon DEF Bulk!BulkUpdatesApply, given, named, prisma, drizzle
<1>3. QED
  BY <1>1, <1>2

-----------------------------------------------------------------------------
(* The parts side by side *)

\* The invariants of the parts; the closes of the board are reliable in one of them
DataInv ==
    /\ Poll!IInv /\ Race!IInv
    /\ Failing!IInv /\ (part = "reliable" => Failing!OpenInv)
    /\ Pages!IInv /\ Transaction!IInv
    /\ Deprecated!IInv
    /\ Metric!RunsInv /\ Metric!SeriesInv
    /\ Checkup!IInv

\* Every part starts in its invariant, whichever part runs.
LEMMA DataInit == ASSUME MCInit PROVE DataInv
<1>1. /\ Poll!Init /\ Failing!Init /\ Pages!Init /\ Transaction!Init /\ Race!Init
      /\ Deprecated!Init /\ Metric!Init /\ Checkup!Init
  BY DEF MCInit, PartsInit
<1>2. QED
  BY <1>1, PollInit, RaceInit, BoardInit, PagesInit, TransactionInit, DeprecatedInit,
     RunsInit, SeriesInit, HealthInit DEF DataInv

\* A step of a metric is one of its transactions or of its series.
LEMMA MetricSteps ==
    /\ Metric!TransactionNext => UNCHANGED Metric!seriesVars
    /\ Metric!SeriesNext => UNCHANGED Metric!transactionVars
    /\ UNCHANGED metricVars => UNCHANGED Metric!transactionVars /\ UNCHANGED Metric!seriesVars
<1>1. ASSUME Metric!TransactionNext PROVE UNCHANGED Metric!seriesVars
  BY <1>1 DEF Metric!TransactionNext, Metric!Start, Metric!AddCustomAttributes, Metric!Stop, Metric!Tick
<1>2. ASSUME Metric!SeriesNext PROVE UNCHANGED Metric!transactionVars
  BY <1>2 DEF Metric!SeriesNext, Metric!ConstructLabeled, Metric!ConstructDimensional,
     Metric!RegisterLabeled, Metric!RegisterDimensional
<1>3. ASSUME UNCHANGED metricVars PROVE UNCHANGED Metric!transactionVars /\ UNCHANGED Metric!seriesVars
  BY <1>3 DEF metricVars, Metric!transactionVars, Metric!seriesVars
<1>4. QED
  BY <1>1, <1>2, <1>3

\* A step is one of each part, or leaves it alone.
LEMMA DataSteps ==
    ASSUME [MCNext]_allVars
    PROVE  /\ part' = part /\ input' = input
           /\ [Next]_vars
           /\ Poll!Next \/ UNCHANGED pollVars
           /\ Race!Next \/ UNCHANGED raceVars
           /\ Failing!Next \/ Reliable!Next \/ UNCHANGED boardVars
           /\ part = "reliable" => Reliable!Next \/ UNCHANGED boardVars
           /\ Pages!Next \/ UNCHANGED pageVars
           /\ Transaction!Next \/ UNCHANGED prismaVars
           /\ Deprecated!Next \/ UNCHANGED legacyVars
           /\ Metric!TransactionNext \/ Metric!SeriesNext \/ UNCHANGED metricVars
           /\ Checkup!Next \/ UNCHANGED healthVars
<1>1. CASE DataNext /\ UNCHANGED <<part, input>>
  BY <1>1 DEF DataNext, restVars, baselineVars
<1>2. CASE ServiceNext /\ UNCHANGED <<part, input>>
  BY <1>2 DEF ServiceNext, baselineVars
<1>3. CASE UNCHANGED allVars
  BY <1>3 DEF allVars, restVars, baselineVars
<1>4. QED
  BY <1>1, <1>2, <1>3 DEF MCNext

\* And it keeps the invariant of each.
LEMMA DataStep == ASSUME DataInv, [MCNext]_allVars PROVE DataInv'
<1>1. Poll!IInv' /\ Race!IInv'
  BY DataSteps, PollStep, RaceStep DEF DataInv
<1>2. Failing!IInv' /\ (part = "reliable" => Failing!OpenInv)'
  BY DataSteps, BoardStep, ReliableStep DEF DataInv
<1>3. Pages!IInv' /\ Transaction!IInv'
  BY DataSteps, PagesStep, TransactionStep DEF DataInv
<1>4. Deprecated!IInv' /\ Checkup!IInv'
  BY DataSteps, DeprecatedStep, HealthStep DEF DataInv
<1>5. Metric!RunsInv' /\ Metric!SeriesInv'
  BY DataSteps, MetricSteps, RunsStep, SeriesStep DEF DataInv
<1>6. QED
  BY <1>1, <1>2, <1>3, <1>4, <1>5 DEF DataInv

\* The inductive invariant of all the parts that MCData puts side by side.
THEOREM DataInvariant == MCSpec => []DataInv
<1>1. MCInit => DataInv
  BY DataInit
<1>2. DataInv /\ [MCNext]_allVars => DataInv'
  BY DataStep
<1>3. QED
  BY <1>1, <1>2, PTL DEF MCSpec

\* Among the other parts, the deploys behave as MigrationBaseline says, so that its
\* theorems are about them.
THEOREM BaselineRuns == MCSpec => Spec
<1>1. MCInit => Init
  BY DEF MCInit, PartsInit
<1>2. [MCNext]_allVars => [Next]_vars
  BY DataSteps
<1>3. QED
  BY <1>1, <1>2, PTL DEF MCSpec, Spec

\* The hooks of a poll tell how execute() ends, once; neither delay() nor a race of a
\* promise with its timeout leaves a timer or a listener behind, for any maxAttempts.
THEOREM DelaysAlwaysEndCleanly == MCSpec => []EndsCleanly
<1>1. DataInv => EndsCleanly
  BY DEF DataInv, EndsCleanly, Poll!IInv, Race!IInv
<1>2. QED
  BY <1>1, DataInvariant, PTL

\* The dashboard shows open queues, and no more than two generations of them are open
\* when closes succeed, however refreshes, discoveries and closes interleave.
THEOREM BoardShowsOpenQueues == MCSpec => []ShowsOpenQueues
<1>1. DataInv => ShowsOpenQueues
  BY TwoAreOpen DEF DataInv, ShowsOpenQueues, Failing!IInv
<1>2. QED
  BY <1>1, DataInvariant, PTL

\* Pages collect what lasts, once, whatever is added and removed in between; a
\* transaction is applied as its result says, and its timeout doubles up to its maximum.
THEOREM PagesAndRetriesApplyOnce == MCSpec => []OnceEach
<1>1. DataInv => OnceEach
  BY DEF DataInv, OnceEach, Pages!IInv, Transaction!IInv
<1>2. QED
  BY <1>1, DataInvariant, PTL

\* One deprecated processor of a queue id works, with open connections, for any number
\* of processors, in test mode and otherwise, as long as disposals do not overlap.
THEOREM AtMostOneProcessorWorks == MCSpec => []OneProcessorWorks
<1>1. DataInv => OneProcessorWorks
  BY DEF DataInv, OneProcessorWorks, Deprecated!IInv, Deprecated!Orderly, Deprecated!OneProcessorWorks
<1>2. QED
  BY <1>1, DataInvariant, PTL

\* Metrics report what was measured and declared, and a dependency is reported as
\* available only after its check said so, for any keys, dimensions, checks and sizes.
THEOREM ReportsAreTrue == MCSpec => []ObservationsAreTrue
<1>1. DataInv => ObservationsAreTrue
  BY HealthHolds DEF DataInv, ObservationsAreTrue, Metric!RunsInv, Metric!SeriesInv
<1>2. QED
  BY <1>1, DataInvariant, PTL

\* An algorithm is given what its types allow.
THEOREM InputsAreTyped == MCSpec => []InputsInit
<1>1. MCInit => InputsInit
  BY DEF MCInit
<1>2. InputsInit /\ [MCNext]_allVars => InputsInit'
  BY DataSteps DEF InputsInit
<1>3. QED
  BY <1>1, <1>2, PTL DEF MCSpec

\* Whatever columns, entries and row are given, a bulk update of drizzle or of prisma is
\* refused or does what its entries would do one by one.
THEOREM BulkUpdatesAlwaysApply == MCSpec => []BulkUpdatesApply
<1>1. InputsInit => BulkUpdatesApply
  <2>1. ASSUME InputsInit, part = "bulk" PROVE Bulk!IsUpdate(input[1], input[2])
    BY <2>1, InputsAssumption DEF InputsInit, Parts
  <2>2. QED
    BY <2>1, UpdatesAlwaysApply DEF BulkUpdatesApply
<1>2. QED
  BY <1>1, InputsAreTyped, PTL

\* Publishers and consumers resolve the same resources whatever is configured, and every
\* delay is as long as it was configured, for any numbers.  Names fit, a configuration
\* that was accepted stays the same and a wait ends, each outside of the case it leaves
\* open: the longest topic name and prefix, a refused prefix, a call too many.
THEOREM ConfigsAlwaysHold == MCSpec => []ConfigsHold
<1>1. InputsInit => ConfigsHold
  BY InputsHold
<1>2. QED
  BY <1>1, InputsAreTyped, PTL
=============================================================================
