----------------------------- MODULE Migrations -----------------------------
(***************************************************************************)
(* The schema of the SQLite file (internal/database/migrate.go): every     *)
(* process migrates it before it serves, one transaction per migration     *)
(* that runs its SQL and records it in schema_migrations.                  *)
(*                                                                         *)
(* Processes are started from any build of the program, one after the      *)
(* other or side by side, and are stopped at any point.  SQLite locks the  *)
(* file for one writer at a time, rolls a transaction back when its        *)
(* process dies, and with "synchronous = normal" may lose the last commits *)
(* when the power fails.                                                   *)
(***************************************************************************)
EXTENDS Host

CONSTANT Latest   \* the newest migration of any build

ASSUME LatestAssumption == Latest \in Nat

Versions == 1..Latest

VARIABLES
    effects,   \* migrations whose SQL is in the file
    recorded,  \* schema_migrations
    saved,     \* earlier contents of both that a power failure may bring back
    writer,    \* the process that holds SQLite's write lock
    pc,        \* where each process is
    version,   \* the newest migration that its build knows
    todo,      \* the migrations it has yet to apply
    beside     \* those that others committed since it read schema_migrations

fileVars == <<effects, recorded, saved, writer>>
processVars == <<pc, version, todo, beside>>
migrationVars == <<fileVars, processVars, faults>>

MigrationTypeOK ==
    /\ effects \in SUBSET Versions
    /\ recorded \in SUBSET Versions
    /\ saved \in SUBSET ((SUBSET Versions) \X (SUBSET Versions))
    /\ writer \in Processes \cup {None}
    /\ pc \in [Processes -> {"down", "started", "migrating", "executed", "inserted",
                             "serving"}]
    /\ version \in [Processes -> 0..Latest]
    /\ todo \in [Processes -> SUBSET Versions]
    /\ beside \in [Processes -> SUBSET Versions]
    /\ faults \in 0..MaxFaults

MigrationInit ==
    /\ effects = {} /\ recorded = {} /\ saved = {}
    /\ writer = None
    /\ pc = [p \in Processes |-> "down"]
    /\ version = [p \in Processes |-> 0]
    /\ todo = [p \in Processes |-> {}]
    /\ beside = [p \in Processes |-> {}]
    /\ faults = 0

Enter(p, where) == pc' = [pc EXCEPT ![p] = where]

-----------------------------------------------------------------------------
(***************************************************************************)
(* Migrate.                                                                *)
(***************************************************************************)
\* A process of a build that knows the migrations 1..v opens the file.
Start(p, v) ==
    /\ pc[p] = "down"
    /\ Enter(p, "started")
    /\ version' = [version EXCEPT ![p] = v]
    /\ UNCHANGED <<fileVars, todo, beside, faults>>

\* Mutant: the file may be newer than the build.
ReadAppliedOfAny(p) ==
    /\ pc[p] = "started"
    /\ todo' = [todo EXCEPT ![p] = (1..version[p]) \ recorded]
    /\ beside' = [beside EXCEPT ![p] = {}]
    /\ Enter(p, "migrating")
    /\ UNCHANGED <<fileVars, version, faults>>

\* Mutant: what is applied is not looked up.
ReadNothing(p) ==
    /\ pc[p] = "started"
    /\ recorded \subseteq 1..version[p]
    /\ todo' = [todo EXCEPT ![p] = 1..version[p]]
    /\ beside' = [beside EXCEPT ![p] = {}]
    /\ Enter(p, "migrating")
    /\ UNCHANGED <<fileVars, version, faults>>

\* appliedMigrationVersions and maxKnownMigrationVersion
ReadApplied(p) ==
    /\ pc[p] = "started"
    /\ recorded \subseteq 1..version[p]
    /\ todo' = [todo EXCEPT ![p] = (1..version[p]) \ recorded]
    /\ beside' = [beside EXCEPT ![p] = {}]
    /\ Enter(p, "migrating")
    /\ UNCHANGED <<fileVars, version, faults>>

RefuseNewer(p) ==
    /\ pc[p] = "started"
    /\ ~(recorded \subseteq 1..version[p])
    /\ Enter(p, "down")
    /\ UNCHANGED <<fileVars, version, todo, beside, faults>>

\* Migrations are applied in the order of their list.
IsNext(p, v) == v \in todo[p] /\ \A w \in todo[p] : v <= w

\* Mutant: the SQL is not part of the transaction.
ExecuteOutside(p, v) ==
    /\ pc[p] = "migrating" /\ IsNext(p, v)
    /\ writer = None
    /\ v \notin effects
    /\ effects' = effects \cup {v}
    /\ Enter(p, "executed")
    /\ UNCHANGED <<recorded, saved, writer, version, todo, beside, faults>>

\* applyMigration: the SQL takes the write lock.
ExecuteSQL(p, v) ==
    /\ pc[p] = "migrating" /\ IsNext(p, v)
    /\ writer = None
    /\ v \notin effects
    /\ writer' = p
    /\ Enter(p, "executed")
    /\ UNCHANGED <<effects, recorded, saved, version, todo, beside, faults>>

\* Its tables exist already, or the other writer takes longer than the
\* busy_timeout: the process gives up.
ExecuteSQLFails(p) ==
    /\ pc[p] = "migrating"
    /\ \E v \in todo[p] : IsNext(p, v) /\ (writer # None \/ v \in effects)
    /\ Enter(p, "down")
    /\ UNCHANGED <<fileVars, version, todo, beside, faults>>

InsertRecord(p) ==
    /\ pc[p] = "executed"
    /\ Enter(p, "inserted")
    /\ UNCHANGED <<fileVars, version, todo, beside, faults>>

Commit(p, v) ==
    /\ pc[p] = "inserted" /\ IsNext(p, v)
    /\ effects' = effects \cup {v}
    /\ recorded' = recorded \cup {v}
    /\ saved' = saved \cup {<<effects, recorded>>}
    /\ writer' = None
    /\ Enter(p, "migrating")
    /\ todo' = [todo EXCEPT ![p] = @ \ {v}]
    /\ beside' = [q \in Processes |-> IF q = p THEN beside[q] ELSE beside[q] \cup {v}]
    /\ UNCHANGED <<version, faults>>

Serve(p) ==
    /\ pc[p] = "migrating" /\ todo[p] = {}
    /\ Enter(p, "serving")
    /\ UNCHANGED <<fileVars, version, todo, beside, faults>>

\* The process stops: it was told to, a statement failed or it was killed.  What
\* it had not committed is rolled back.
Stop(p) ==
    /\ pc[p] # "down"
    /\ Enter(p, "down")
    /\ writer' = IF writer = p THEN None ELSE writer
    /\ \/ pc[p] = "serving" /\ UNCHANGED faults
       \/ pc[p] # "serving" /\ Fault
    /\ UNCHANGED <<effects, recorded, saved, version, todo, beside>>

-----------------------------------------------------------------------------
(***************************************************************************)
(* SQLite.                                                                 *)
(***************************************************************************)
\* A checkpoint of the write-ahead log: what was committed stays.
Checkpoint ==
    /\ saved # {}
    /\ saved' = {}
    /\ UNCHANGED <<effects, recorded, writer, processVars, faults>>

PowerFails ==
    /\ \E s \in saved \cup {<<effects, recorded>>} :
        effects' = s[1] /\ recorded' = s[2]
    /\ saved' = {}
    /\ writer' = None
    /\ pc' = [p \in Processes |-> "down"]
    /\ Fault
    /\ UNCHANGED <<version, todo, beside>>

Migrate(p) ==
    \/ ReadApplied(p) \/ RefuseNewer(p) \/ ExecuteSQLFails(p) \/ InsertRecord(p)
    \/ \E v \in Versions : ExecuteSQL(p, v) \/ Commit(p, v)
    \/ Serve(p)

MigrationNext ==
    \/ \E p \in Processes : \/ \E v \in 0..Latest : Start(p, v)
                            \/ Migrate(p)
                            \/ Stop(p)
    \/ Checkpoint
    \/ PowerFails

MigrationSpec == MigrationInit /\ [][MigrationNext]_migrationVars

-----------------------------------------------------------------------------

\* What schema_migrations says is what the file contains, and the migrations in
\* it are the first ones of the list, whatever was interrupted.
SchemaIsRecorded ==
    /\ effects = recorded
    /\ \A v \in recorded : 1..v \subseteq recorded

\* A process that serves has the whole schema its build relies on.
ServingIsMigrated ==
    \A p \in Processes : pc[p] = "serving" => 1..version[p] \subseteq effects

\* No migration is applied a second time: a process finds one that it has yet to
\* apply in the file only if another process was migrating beside it.
NotAppliedTwice ==
    \A p \in Processes : pc[p] \in {"migrating", "executed", "inserted"} =>
        todo[p] \cap effects \subseteq beside[p]

\* A build serves a file that is newer than it only if the file was migrated by
\* another process after it had looked.
NewerIsRefused ==
    \A p \in Processes : pc[p] = "serving" =>
        recorded \ (1..version[p]) \subseteq beside[p]
=============================================================================
