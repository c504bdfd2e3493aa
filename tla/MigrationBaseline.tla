--------------------------- MODULE MigrationBaseline ---------------------------
(***************************************************************************)
(* markMigrationsApplied of drizzle-utils, run by every deploy before      *)
(* `drizzle-kit migrate` (external): it records the migrations of the      *)
(* folder as applied on a database whose schema another ORM built.         *)
(* Deploys may overlap and may die between two statements; migrations are  *)
(* added to the repository meanwhile.                                      *)
(***************************************************************************)
EXTENDS Naturals, FiniteSets

CONSTANTS
    Deploys,     \* deploys of one environment that may overlap
    Migrations,  \* bound: migrations ever added, in their order 1, 2, ...
    Legacy,      \* the migrations that describe tables of the legacy schema
    Existing,    \* the database was built by the earlier ORM
    HasProbe     \* legacySchemaProbeTable is given

ASSUME BaselineAssumption ==
    /\ IsFiniteSet(Deploys)
    /\ Migrations \in Nat
    /\ Legacy \subseteq 1 .. Migrations
    /\ Existing \in BOOLEAN /\ HasProbe \in BOOLEAN

All == 1 .. Migrations

VARIABLES
    latest,   \* the repository's newest migration
    built,    \* migrations whose tables are in the database
    rows,     \* rows of __drizzle_migrations with each name
    pc,       \* where each deploy is
    entries,  \* the migrations it read from its folder
    recorded, \* recordedNames, and what was inserted since
    adopted   \* the newest migration when the first baseline was complete, or 0

vars == <<latest, built, rows, pc, entries, recorded, adopted>>

TypeOK ==
    /\ latest \in 0 .. Migrations
    /\ built \subseteq All
    /\ rows \in [All -> Nat]
    /\ pc \in [Deploys -> {"idle", "probe", "fetch", "insert", "migrate", "collided"}]
    /\ entries \in [Deploys -> SUBSET All]
    /\ recorded \in [Deploys -> SUBSET All]
    /\ adopted \in 0 .. Migrations

Init ==
    /\ latest = 0
    /\ built = IF Existing THEN Legacy ELSE {}
    /\ rows = [m \in All |-> 0]
    /\ pc = [d \in Deploys |-> "idle"]
    /\ entries = [d \in Deploys |-> {}]
    /\ recorded = [d \in Deploys |-> {}]
    /\ adopted = 0

Goto(d, next) == pc' = [pc EXCEPT ![d] = next]

Recorded == {m \in All : rows[m] > 0}

\* a developer adds a migration to the repository
AddMigration ==
    /\ latest < Migrations
    /\ latest' = latest + 1
    /\ UNCHANGED <<built, rows, pc, entries, recorded, adopted>>

\* readMigrationsWithDialect
ReadEntries(d) ==
    /\ pc[d] = "idle"
    /\ entries' = [entries EXCEPT ![d] = 1 .. latest]
    /\ Goto(d, "probe")
    /\ UNCHANGED <<latest, built, rows, recorded, adopted>>

\* tableExists(legacySchemaProbeTable): nothing to baseline in a fresh database,
\* nor without migrations
Probe(d) ==
    /\ pc[d] = "probe"
    /\ Goto(d, IF (HasProbe /\ built \cap Legacy = {}) \/ entries[d] = {}
               THEN "migrate" ELSE "fetch")
    /\ UNCHANGED <<latest, built, rows, entries, recorded, adopted>>

\* fault: what an earlier deploy recorded is not read
FetchNothing(d) ==
    /\ pc[d] = "fetch"
    /\ recorded' = [recorded EXCEPT ![d] = {}]
    /\ Goto(d, "insert")
    /\ UNCHANGED <<latest, built, rows, entries, adopted>>

\* ensureMigrationsTable, fetchRecordedNames
FetchRecorded(d) ==
    /\ pc[d] = "fetch"
    /\ recorded' = [recorded EXCEPT ![d] = Recorded]
    /\ Goto(d, "insert")
    /\ UNCHANGED <<latest, built, rows, entries, adopted>>

Missing(d) == entries[d] \ recorded[d]

\* INSERT the next entry that had no row
Insert(d) ==
    /\ pc[d] = "insert"
    /\ \E m \in Missing(d) :
          /\ \A n \in Missing(d) : m <= n
          /\ rows' = [rows EXCEPT ![m] = @ + 1]
          /\ recorded' = [recorded EXCEPT ![d] = @ \cup {m}]
    /\ UNCHANGED <<latest, built, pc, entries, adopted>>

\* fault: a database that has rows at all counts as baselined
BaselinedEarly(d) ==
    /\ pc[d] = "insert" /\ recorded[d] # {}
    /\ Goto(d, "migrate")
    /\ UNCHANGED <<latest, built, rows, entries, recorded, adopted>>

\* every entry has a row: outcome 'baselined'
Baselined(d) ==
    /\ pc[d] = "insert" /\ Missing(d) = {}
    /\ Goto(d, "migrate")
    /\ adopted' = IF adopted = 0 THEN latest ELSE adopted
    /\ UNCHANGED <<latest, built, rows, entries, recorded>>

\* getMigrationsToRun: the migrations of the folder without a row
Pending(d) == entries[d] \ Recorded

\* drizzle-kit migrate: run them in one transaction, which a CREATE TABLE of a
\* table that exists fails
Migrate(d) ==
    /\ pc[d] = "migrate"
    /\ IF Pending(d) \cap built = {}
       THEN /\ built' = built \cup Pending(d)
            /\ rows' = [m \in All |-> IF m \in Pending(d) THEN 1 ELSE rows[m]]
            /\ Goto(d, "idle")
       ELSE /\ Goto(d, "collided")
            /\ UNCHANGED <<built, rows>>
    /\ UNCHANGED <<latest, entries, recorded, adopted>>

\* the deploy dies, or a failed one is given up
Abort(d) ==
    /\ pc[d] # "idle"
    /\ Goto(d, "idle")
    /\ UNCHANGED <<latest, built, rows, entries, recorded, adopted>>

Next ==
    \/ AddMigration
    \/ \E d \in Deploys :
          \/ ReadEntries(d) \/ Probe(d) \/ FetchRecorded(d) \/ Insert(d)
          \/ Baselined(d) \/ Migrate(d) \/ Abort(d)

Spec == Init /\ [][Next]_vars

-----------------------------------------------------------------------------
(* Properties *)

\* README: idempotent, safe to run again before every migrate.  Deploys that die
\* between two INSERTs and are repeated never add a second row of a migration; only
\* deploys that overlap can, one row each.
RowsPerDeploy == \A m \in All : rows[m] <= Cardinality(Deploys)

\* What the baseline is for: migrate never runs a migration whose tables exist,
\* whatever was added to the repository since the database was first baselined,
\* and however deploys overlap or died before.
NeverCollides == \A d \in Deploys : pc[d] # "collided"

\* README: from the baseline on, only new migrations are executed: one that was
\* added after it, and describes no legacy table, is recorded by being run.
NewMigrationsRun ==
    \A m \in Recorded \ Legacy : adopted > 0 /\ m > adopted => m \in built
=============================================================================
