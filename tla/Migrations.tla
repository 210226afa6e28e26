------------------------------ MODULE Migrations ------------------------------
(***************************************************************************)
(* cmd/migrate: runners that bring the schema up to date, one transaction  *)
(* per migration file, and note it in schema_migrations.  Runners of       *)
(* several deployments may work on one database at once, and each may be   *)
(* killed at any time and started again.                                   *)
(*                                                                         *)
(* A migration is known by its number; files are applied in the order of   *)
(* their names, which is the order of their numbers.  objects holds the    *)
(* migrations whose tables, columns and indexes exist.                     *)
(***************************************************************************)
EXTENDS Naturals

CONSTANTS
    Runners,
    LastVersion,    \* migrations are numbered from 1 to LastVersion
    Needs,          \* [Versions -> SUBSET Versions]: whose objects one refers to
    Tolerant,       \* those that pass over objects that exist (IF NOT EXISTS)
    MaxCrashes      \* bound: times a runner fails for no fault of its own

VARIABLES
    hasLedger,          \* table schema_migrations exists
    ledger, objects,    \* committed
    executed, noted,    \* by the open transaction of each runner
    step, at,           \* next statement of a runner, and the file it is at
    crashes

catalog    == <<hasLedger, ledger, objects>>
runner     == <<executed, noted, step, at>>
migrations == <<catalog, runner, crashes>>

Versions == 1..LastVersion
Labels   == {"off", "table", "creating", "check", "execute", "record",
             "commit", "done", "failed"}

ASSUME MigrationsAssumption ==
    /\ LastVersion \in Nat /\ MaxCrashes \in Nat
    /\ Needs \in [Versions -> SUBSET Versions]
    /\ \A v \in Versions : \A w \in Needs[v] : w < v
    /\ Tolerant \subseteq Versions

MigrationsInit ==
    /\ hasLedger = FALSE /\ ledger = {} /\ objects = {}
    /\ executed = [r \in Runners |-> {}] /\ noted = [r \in Runners |-> {}]
    /\ step = [r \in Runners |-> "off"]
    /\ at = [r \in Runners |-> 1]
    /\ crashes = 0

Goto(r, label) == step' = [step EXCEPT ![r] = label]

\* The open transaction, if there is one, is rolled back.
DropWork(r) ==
    /\ executed' = [executed EXCEPT ![r] = {}]
    /\ noted' = [noted EXCEPT ![r] = {}]

KeepWork == UNCHANGED <<executed, noted>>

\* Any error ends the runner: log.Fatalf, exit code 1.
Fatal(r) ==
    /\ Goto(r, "failed")
    /\ DropWork(r)
    /\ UNCHANGED <<catalog, at>>

-----------------------------------------------------------------------------

\* The operator starts a runner, or starts it again, also one that succeeded.
Launch(r) ==
    /\ step[r] \in {"off", "failed", "done"}
    /\ Goto(r, "table")
    /\ at' = [at EXCEPT ![r] = 1]
    /\ KeepWork /\ UNCHANGED <<catalog, crashes>>

\* CREATE TABLE IF NOT EXISTS looks first ...
LookForLedger(r) ==
    /\ step[r] = "table"
    /\ Goto(r, IF hasLedger THEN "check" ELSE "creating")
    /\ KeepWork /\ UNCHANGED <<catalog, at, crashes>>

\* ... and fails when another runner has created the table since.
CreateLedger(r) ==
    /\ step[r] = "creating"
    /\ \/ hasLedger /\ Fatal(r)
       \/ /\ ~hasLedger
          /\ hasLedger' = TRUE
          /\ Goto(r, "check")
          /\ KeepWork /\ UNCHANGED <<ledger, objects, at>>
    /\ UNCHANGED crashes

\* Fault: the loop ends at a migration that is applied already.
CheckApplied_Ends(r) ==
    /\ step[r] = "check"
    /\ Goto(r, IF at[r] \in Versions \ ledger THEN "execute" ELSE "done")
    /\ KeepWork /\ UNCHANGED <<catalog, at, crashes>>

\* isMigrationApplied, outside the transaction that may apply it.
CheckApplied(r) ==
    /\ step[r] = "check"
    /\ \/ /\ at[r] \notin Versions
          /\ Goto(r, "done")
          /\ UNCHANGED at
       \/ /\ at[r] \in ledger
          /\ at' = [at EXCEPT ![r] = @ + 1]
          /\ UNCHANGED step
       \/ /\ at[r] \in Versions \ ledger
          /\ Goto(r, "execute")
          /\ UNCHANGED at
    /\ KeepWork /\ UNCHANGED <<catalog, crashes>>

\* Whose open transaction has touched the objects of a migration.
IsBusy(r, v) == \E q \in Runners \ {r} : v \in executed[q] \cup noted[q]

\* Fault: the file is executed outside the transaction.
Execute_Autocommit(r) ==
    /\ step[r] = "execute"
    /\ ~IsBusy(r, at[r])
    /\ \/ /\ at[r] \in objects \ Tolerant \/ ~(Needs[at[r]] \subseteq objects)
          /\ Fatal(r)
       \/ /\ at[r] \notin objects \ Tolerant /\ Needs[at[r]] \subseteq objects
          /\ objects' = objects \cup {at[r]}
          /\ Goto(r, "record")
          /\ UNCHANGED <<executed, noted, hasLedger, ledger, at>>
    /\ UNCHANGED crashes

\* BeginTx and the statements of the file.  They wait while another runner is
\* creating the same objects, and fail when those exist, or what they refer to
\* does not.
Execute(r) ==
    /\ step[r] = "execute"
    /\ ~IsBusy(r, at[r])
    /\ \/ /\ at[r] \in objects \ Tolerant \/ ~(Needs[at[r]] \subseteq objects)
          /\ Fatal(r)
       \/ /\ at[r] \notin objects \ Tolerant /\ Needs[at[r]] \subseteq objects
          /\ executed' = [executed EXCEPT ![r] = {at[r]} \ objects]
          /\ Goto(r, "record")
          /\ UNCHANGED <<noted, catalog, at>>
    /\ UNCHANGED crashes

\* Fault: the version is noted outside the transaction.
Record_Autocommit(r) ==
    /\ step[r] = "record"
    /\ ~IsBusy(r, at[r])
    /\ \/ at[r] \in ledger /\ Fatal(r)
       \/ /\ at[r] \notin ledger
          /\ ledger' = ledger \cup {at[r]}
          /\ Goto(r, "commit")
          /\ UNCHANGED <<executed, noted, hasLedger, objects, at>>
    /\ UNCHANGED crashes

\* INSERT INTO schema_migrations, whose primary key is the version.
Record(r) ==
    /\ step[r] = "record"
    /\ ~IsBusy(r, at[r])
    /\ \/ at[r] \in ledger /\ Fatal(r)
       \/ /\ at[r] \notin ledger
          /\ noted' = [noted EXCEPT ![r] = {at[r]}]
          /\ Goto(r, "commit")
          /\ UNCHANGED <<executed, catalog, at>>
    /\ UNCHANGED crashes

PublishWork(r) ==
    /\ objects' = objects \cup executed[r]
    /\ ledger' = ledger \cup noted[r]
    /\ DropWork(r)
    /\ UNCHANGED hasLedger

CommitMigration(r) ==
    /\ step[r] = "commit"
    /\ PublishWork(r)
    /\ Goto(r, "check")
    /\ at' = [at EXCEPT ![r] = @ + 1]
    /\ UNCHANGED crashes

\* A runner is killed, loses its connection, or its file fails in the middle;
\* or it commits and never learns that it did.
Crash(r) ==
    /\ step[r] \notin {"off", "done", "failed"} /\ crashes < MaxCrashes
    /\ \/ Fatal(r)
       \/ /\ step[r] = "commit"
          /\ PublishWork(r)
          /\ Goto(r, "failed")
          /\ UNCHANGED at
    /\ crashes' = crashes + 1

RunnerStep(r) ==
    \/ LookForLedger(r) \/ CreateLedger(r) \/ CheckApplied(r)
    \/ Execute(r) \/ Record(r) \/ CommitMigration(r)

MigrationsNext == \E r \in Runners : Launch(r) \/ RunnerStep(r) \/ Crash(r)

MigrationsSpec == MigrationsInit /\ [][MigrationsNext]_migrations

-----------------------------------------------------------------------------
(* Safety.                                                                 *)

MigrationsTypeOK ==
    /\ hasLedger \in BOOLEAN
    /\ ledger \subseteq Versions /\ objects \subseteq Versions
    /\ executed \in [Runners -> SUBSET Versions]
    /\ noted \in [Runners -> SUBSET Versions]
    /\ step \in [Runners -> Labels]
    /\ at \in [Runners -> 1..(LastVersion + 1)]
    /\ crashes \in Nat

\* "Each migration runs in a transaction of its own": what is noted is what
\* exists, wherever a runner was killed and however many run at once.
LedgerMatchesSchema == ledger = objects

\* Migrations are applied in order, none is left out.
AppliedInOrder == \A v \in ledger : \A w \in Versions : w < v => w \in ledger

\* A runner that ends well leaves the whole schema behind, also when others did
\* part of the work.
DoneMeansComplete ==
    \A r \in Runners : step[r] = "done" => objects = Versions

-----------------------------------------------------------------------------
(* Liveness.                                                               *)

\* The operator starts a runner again until it succeeds, and PostgreSQL lets a
\* statement that waits for another transaction go on when that has ended.
MigrationsFairness ==
    \A r \in Runners : WF_migrations(RunnerStep(r)) /\ WF_migrations(Launch(r))

\* However often runners get in each other's way or are killed, no crash leaves
\* a database on which they fail for ever: all of them succeed in the end.
RunnersSucceed == \A r \in Runners : <>(step[r] = "done")
=============================================================================
