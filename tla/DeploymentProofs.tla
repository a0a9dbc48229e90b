-------------------------- MODULE DeploymentProofs --------------------------
(***************************************************************************)
(* Proofs about Migrations and ControlPlane, for any number of processes,  *)
(* migrations, requests and faults.                                        *)
(***************************************************************************)
EXTENDS Migrations, ControlPlane, TLAPS

-----------------------------------------------------------------------------
(***************************************************************************)
(* Migrations.  The invariant says of the file that its migrations are the *)
(* first of the list, now and in everything a power failure may bring      *)
(* back, and of each process which part of the list is behind it; the      *)
(* write lock keeps what it saw true until it commits.                     *)
(***************************************************************************)
\* The migrations in R are the first ones of the list.
First(R) == \A v \in R : 1..v \subseteq R

FileInv ==
    /\ effects = recorded
    /\ First(recorded)
    /\ \A s \in saved : s[1] = s[2] /\ First(s[1])

LockInv == \A p \in Processes : writer = p <=> pc[p] \in {"executed", "inserted"}

Migrating(p) == pc[p] \in {"migrating", "executed", "inserted"}

\* What a process that has read schema_migrations has before and behind it.
TodoInv(p) ==
    /\ todo[p] \subseteq 1..version[p]
    /\ (1..version[p]) \ todo[p] \subseteq effects
    /\ todo[p] \cap effects \subseteq beside[p]

\* The migration that is being applied is not in the file.
NextInv(p) == \A v \in todo[p] : IsNext(p, v) => v \notin effects

ProcessInv ==
    \A p \in Processes :
        /\ Migrating(p) => TodoInv(p)
        /\ pc[p] \in {"executed", "inserted"} => NextInv(p)
        /\ pc[p] = "serving" => 1..version[p] \subseteq effects
        /\ Migrating(p) \/ pc[p] = "serving" =>
              recorded \ (1..version[p]) \subseteq beside[p]

MigrationInv == MigrationTypeOK /\ FileInv /\ LockInv /\ ProcessInv

-----------------------------------------------------------------------------
(***************************************************************************)
(* Types.                                                                  *)
(***************************************************************************)
LEMMA MigrationInitTypes == MigrationInit => MigrationTypeOK
  BY LatestAssumption, HostAssumption DEF MigrationInit, MigrationTypeOK

LEMMA MigrationStepTypes == MigrationTypeOK /\ [MigrationNext]_migrationVars => MigrationTypeOK'
<1> SUFFICES ASSUME MigrationTypeOK, [MigrationNext]_migrationVars
             PROVE  MigrationTypeOK'
  OBVIOUS
<1> USE LatestAssumption, HostAssumption
<1>1. ASSUME NEW p \in Processes, NEW v \in 0..Latest, Start(p, v)
      PROVE  MigrationTypeOK'
  BY <1>1 DEF MigrationTypeOK, Start, Enter, fileVars
<1>2. ASSUME NEW p \in Processes, Migrate(p)
      PROVE  MigrationTypeOK'
  <2>1. CASE ReadApplied(p)
    <3>1. (1..version[p]) \ recorded \in SUBSET Versions
      BY DEF MigrationTypeOK, Versions
    <3> QED
      BY <2>1, <3>1 DEF MigrationTypeOK, ReadApplied, Enter, fileVars
  <2>2. CASE RefuseNewer(p) \/ ExecuteSQLFails(p) \/ InsertRecord(p) \/ Serve(p)
    BY <2>2 DEF MigrationTypeOK, RefuseNewer, ExecuteSQLFails, InsertRecord, Serve, Enter, fileVars
  <2>3. ASSUME NEW v \in Versions, ExecuteSQL(p, v)
        PROVE  MigrationTypeOK'
    BY <2>3 DEF MigrationTypeOK, ExecuteSQL, Enter
  <2>4. ASSUME NEW v \in Versions, Commit(p, v)
        PROVE  MigrationTypeOK'
    <3>1. (effects \cup {v}) \in SUBSET Versions /\ (recorded \cup {v}) \in SUBSET Versions
      BY DEF MigrationTypeOK
    <3>2. saved' \in SUBSET ((SUBSET Versions) \X (SUBSET Versions))
      BY <2>4 DEF MigrationTypeOK, Commit
    <3>3. /\ todo' \in [Processes -> SUBSET Versions]
          /\ beside' \in [Processes -> SUBSET Versions]
      BY <2>4 DEF MigrationTypeOK, Commit
    <3> QED
      BY <2>4, <3>1, <3>2, <3>3 DEF MigrationTypeOK, Commit, Enter
  <2> QED
    BY <1>2, <2>1, <2>2, <2>3, <2>4 DEF Migrate
<1>3. ASSUME NEW p \in Processes, Stop(p)
      PROVE  MigrationTypeOK'
  BY <1>3 DEF MigrationTypeOK, Stop, Enter, Fault
<1>4. CASE Checkpoint
  BY <1>4 DEF MigrationTypeOK, Checkpoint, processVars
<1>5. CASE PowerFails
  <2>1. PICK s \in saved \cup {<<effects, recorded>>} : effects' = s[1] /\ recorded' = s[2]
    BY <1>5 DEF PowerFails
  <2>2. s \in (SUBSET Versions) \X (SUBSET Versions)
    BY DEF MigrationTypeOK
  <2>3. effects' \in SUBSET Versions /\ recorded' \in SUBSET Versions
    BY <2>1, <2>2
  <2> QED
    BY <1>5, <2>3 DEF MigrationTypeOK, PowerFails, Fault
<1>6. CASE UNCHANGED migrationVars
  BY <1>6 DEF MigrationTypeOK, migrationVars, fileVars, processVars
<1> QED
  BY <1>1, <1>2, <1>3, <1>4, <1>5, <1>6 DEF MigrationNext

-----------------------------------------------------------------------------
(***************************************************************************)
(* The invariant.                                                          *)
(***************************************************************************)
LEMMA MigrationInitInv == MigrationInit => MigrationInv
<1> SUFFICES ASSUME MigrationInit
             PROVE  MigrationInv
  OBVIOUS
<1>1. FileInv
  BY DEF MigrationInit, FileInv, First
<1>2. LockInv
  BY HostAssumption DEF MigrationInit, LockInv
<1>3. ProcessInv
  BY DEF MigrationInit, ProcessInv, Migrating
<1> QED
  BY <1>1, <1>2, <1>3, MigrationInitTypes DEF MigrationInv

\* A step that leaves the file as it is.
LEMMA FileStays ==
    MigrationInv /\ UNCHANGED <<effects, recorded, saved>> => FileInv'
  BY DEF MigrationInv, FileInv, First

\* What is true of a process stays true while the file and the process stay.
LEMMA ProcessStays ==
    ASSUME MigrationInv, UNCHANGED <<effects, recorded>>, NEW q \in Processes,
           pc'[q] = pc[q], version'[q] = version[q], todo'[q] = todo[q],
           beside'[q] = beside[q]
    PROVE  /\ Migrating(q)' => TodoInv(q)'
           /\ pc'[q] \in {"executed", "inserted"} => NextInv(q)'
           /\ pc'[q] = "serving" => 1..version'[q] \subseteq effects'
           /\ Migrating(q)' \/ pc'[q] = "serving" =>
                 recorded' \ (1..version'[q]) \subseteq beside'[q]
  BY DEF MigrationInv, ProcessInv, Migrating, TodoInv, NextInv, IsNext

LEMMA StartInv ==
    ASSUME MigrationInv, NEW p \in Processes, NEW v \in 0..Latest, Start(p, v)
    PROVE  FileInv' /\ LockInv' /\ ProcessInv'
<1> USE DEF MigrationInv, MigrationTypeOK, Start, Enter, fileVars
<1>1. FileInv'
  BY FileStays
<1>2. LockInv'
  BY DEF LockInv
<1>3. ProcessInv'
  BY ProcessStays DEF ProcessInv, Migrating
<1> QED
  BY <1>1, <1>2, <1>3

LEMMA ReadAppliedInv ==
    ASSUME MigrationInv, NEW p \in Processes, ReadApplied(p)
    PROVE  FileInv' /\ LockInv' /\ ProcessInv'
<1> USE DEF MigrationInv, MigrationTypeOK, ReadApplied, Enter, fileVars
<1>1. FileInv'
  BY FileStays
<1>2. LockInv'
  BY DEF LockInv
<1>3. TodoInv(p)'
  BY DEF TodoInv, FileInv
<1>4. ProcessInv'
  BY <1>3, ProcessStays DEF ProcessInv, Migrating
<1> QED
  BY <1>1, <1>2, <1>4

LEMMA ExecuteSQLInv ==
    ASSUME MigrationInv, NEW p \in Processes, NEW v \in Versions, ExecuteSQL(p, v)
    PROVE  FileInv' /\ LockInv' /\ ProcessInv'
<1> USE DEF MigrationInv, MigrationTypeOK, ExecuteSQL, Enter
<1>1. FileInv'
  BY FileStays
<1>2. LockInv'
  BY HostAssumption DEF LockInv
<1>3. \A w \in todo[p] : IsNext(p, w) => w = v
  BY DEF IsNext, Versions
<1>4. TodoInv(p)' /\ NextInv(p)'
  BY <1>3 DEF ProcessInv, Migrating, TodoInv, NextInv, IsNext
<1>5. recorded' \ (1..version'[p]) \subseteq beside'[p]
  BY DEF ProcessInv, Migrating
<1>6. ProcessInv'
  BY <1>4, <1>5, ProcessStays DEF ProcessInv, Migrating
<1> QED
  BY <1>1, <1>2, <1>6

LEMMA InsertRecordInv ==
    ASSUME MigrationInv, NEW p \in Processes, InsertRecord(p)
    PROVE  FileInv' /\ LockInv' /\ ProcessInv'
<1> USE DEF MigrationInv, MigrationTypeOK, InsertRecord, Enter, fileVars
<1>1. FileInv'
  BY FileStays
<1>2. LockInv'
  BY DEF LockInv
<1>3. TodoInv(p)' /\ NextInv(p)' /\ recorded' \ (1..version'[p]) \subseteq beside'[p]
  BY DEF ProcessInv, Migrating, TodoInv, NextInv, IsNext
<1>4. ProcessInv'
  BY <1>3, ProcessStays DEF ProcessInv, Migrating
<1> QED
  BY <1>1, <1>2, <1>4

\* The heart of it: the migration that is committed is the first that is missing.
LEMMA CommitInv ==
    ASSUME MigrationInv, NEW p \in Processes, NEW v \in Versions, Commit(p, v)
    PROVE  FileInv' /\ LockInv' /\ ProcessInv'
<1> USE DEF MigrationInv, MigrationTypeOK, Commit, Enter
<1>1. TodoInv(p) /\ v \in todo[p] /\ v \in 1..version[p]
  BY DEF ProcessInv, Migrating, TodoInv, IsNext
<1>2. 1..v \subseteq effects \cup {v}
  <2> SUFFICES ASSUME NEW w \in 1..v, w # v
               PROVE  w \in effects
    OBVIOUS
  <2>1. v \in Nat /\ w \in Nat /\ w < v /\ version[p] \in Nat
    BY LatestAssumption DEF Versions
  <2>2. w \in (1..version[p]) \ todo[p]
    BY <1>1, <2>1 DEF IsNext, Versions
  <2> QED
    BY <1>1, <2>2 DEF TodoInv
<1>3. FileInv'
  <2>1. First(recorded')
    BY <1>2 DEF FileInv, First
  <2>2. \A s \in saved' : s[1] = s[2] /\ First(s[1])
    BY DEF FileInv
  <2> QED
    BY <2>1, <2>2 DEF FileInv
<1>4. writer = p /\ \A q \in Processes \ {p} : pc[q] \notin {"executed", "inserted"}
  BY DEF LockInv
<1>5. LockInv'
  BY <1>4, HostAssumption DEF LockInv
<1>6. TodoInv(p)' /\ recorded' \ (1..version'[p]) \subseteq beside'[p]
  BY <1>1 DEF ProcessInv, Migrating, TodoInv, FileInv
<1>7. ASSUME NEW q \in Processes, q # p
      PROVE  /\ Migrating(q)' => TodoInv(q)'
             /\ pc'[q] \notin {"executed", "inserted"}
             /\ pc'[q] = "serving" => 1..version'[q] \subseteq effects'
             /\ Migrating(q)' \/ pc'[q] = "serving" =>
                   recorded' \ (1..version'[q]) \subseteq beside'[q]
  BY <1>4, <1>7 DEF ProcessInv, Migrating, TodoInv
<1>8. ProcessInv'
  BY <1>6, <1>7 DEF ProcessInv, Migrating
<1> QED
  BY <1>3, <1>5, <1>8

LEMMA ServeInv ==
    ASSUME MigrationInv, NEW p \in Processes, Serve(p)
    PROVE  FileInv' /\ LockInv' /\ ProcessInv'
<1> USE DEF MigrationInv, MigrationTypeOK, Serve, Enter, fileVars
<1>1. FileInv'
  BY FileStays
<1>2. LockInv'
  BY DEF LockInv
<1>3. 1..version'[p] \subseteq effects' /\ recorded' \ (1..version'[p]) \subseteq beside'[p]
  BY DEF ProcessInv, Migrating, TodoInv
<1>4. ProcessInv'
  BY <1>3, ProcessStays DEF ProcessInv, Migrating
<1> QED
  BY <1>1, <1>2, <1>4

LEMMA GivesUpInv ==
    ASSUME MigrationInv, NEW p \in Processes, RefuseNewer(p) \/ ExecuteSQLFails(p) \/ Stop(p)
    PROVE  FileInv' /\ LockInv' /\ ProcessInv'
<1> USE DEF MigrationInv, MigrationTypeOK, RefuseNewer, ExecuteSQLFails, Stop, Enter, fileVars
<1>1. FileInv'
  BY FileStays
<1>2. LockInv'
  BY HostAssumption DEF LockInv
<1>3. ProcessInv'
  BY ProcessStays DEF ProcessInv, Migrating
<1> QED
  BY <1>1, <1>2, <1>3

LEMMA PowerFailsInv ==
    ASSUME MigrationInv, PowerFails
    PROVE  FileInv' /\ LockInv' /\ ProcessInv'
<1>1. FileInv'
  BY DEF MigrationInv, PowerFails, FileInv, First
<1>2. \A p \in Processes : pc'[p] = "down"
  BY DEF PowerFails
<1>3. LockInv'
  BY <1>2, HostAssumption DEF PowerFails, LockInv
<1>4. ProcessInv'
  BY <1>2 DEF ProcessInv, Migrating
<1> QED
  BY <1>1, <1>3, <1>4

LEMMA MigrationStepInv == MigrationInv /\ [MigrationNext]_migrationVars => MigrationInv'
<1> SUFFICES ASSUME MigrationInv, [MigrationNext]_migrationVars
             PROVE  FileInv' /\ LockInv' /\ ProcessInv'
  BY MigrationStepTypes DEF MigrationInv
<1>1. ASSUME NEW p \in Processes, Migrate(p)
      PROVE  FileInv' /\ LockInv' /\ ProcessInv'
  BY <1>1, ReadAppliedInv, GivesUpInv, InsertRecordInv, ExecuteSQLInv, CommitInv, ServeInv
     DEF Migrate
<1>2. CASE Checkpoint
  <2>1. FileInv' /\ LockInv'
    BY <1>2 DEF MigrationInv, Checkpoint, FileInv, First, LockInv, processVars
  <2>2. ProcessInv'
    BY <1>2, ProcessStays DEF Checkpoint, ProcessInv, processVars
  <2> QED
    BY <2>1, <2>2
<1>3. CASE UNCHANGED migrationVars
  <2>1. FileInv' /\ LockInv'
    BY <1>3 DEF MigrationInv, FileInv, First, LockInv, migrationVars, fileVars, processVars
  <2>2. ProcessInv'
    BY <1>3, ProcessStays DEF ProcessInv, migrationVars, fileVars, processVars
  <2> QED
    BY <2>1, <2>2
<1> QED
  BY <1>1, <1>2, <1>3, StartInv, GivesUpInv, PowerFailsInv DEF MigrationNext

LEMMA MigrationInvariant == MigrationSpec => []MigrationInv
  BY MigrationInitInv, MigrationStepInv, PTL DEF MigrationSpec

-----------------------------------------------------------------------------
\* The variables keep their types.
THEOREM MigrationTypeCorrect == MigrationSpec => []MigrationTypeOK
<1>1. MigrationInv => MigrationTypeOK
  BY DEF MigrationInv
<1> QED
  BY <1>1, MigrationInvariant, PTL

\* schema_migrations says what the file contains, and that is a beginning of the
\* list of migrations, after any crash, power failure or race of processes.
THEOREM SchemaIsAlwaysRecorded == MigrationSpec => []SchemaIsRecorded
<1>1. MigrationInv => SchemaIsRecorded
  BY DEF MigrationInv, FileInv, First, SchemaIsRecorded
<1> QED
  BY <1>1, MigrationInvariant, PTL

\* A process that serves has the whole schema its build relies on.
THEOREM ServingIsAlwaysMigrated == MigrationSpec => []ServingIsMigrated
<1>1. MigrationInv => ServingIsMigrated
  BY DEF MigrationInv, ProcessInv, ServingIsMigrated
<1> QED
  BY <1>1, MigrationInvariant, PTL

\* A process meets one of its own migrations in the file only when another
\* process was migrating beside it.
THEOREM NeverAppliedTwice == MigrationSpec => []NotAppliedTwice
<1>1. MigrationInv => NotAppliedTwice
  BY DEF MigrationInv, ProcessInv, Migrating, TodoInv, NotAppliedTwice
<1> QED
  BY <1>1, MigrationInvariant, PTL

\* A build serves a newer file only when it became newer after it had looked.
THEOREM NewerIsAlwaysRefused == MigrationSpec => []NewerIsRefused
<1>1. MigrationInv => NewerIsRefused
  BY DEF MigrationInv, ProcessInv, NewerIsRefused
<1> QED
  BY <1>1, MigrationInvariant, PTL

-----------------------------------------------------------------------------
(***************************************************************************)
(* ControlPlane.  The invariant ties the variables of a process to where   *)
(* its run is: which of them it has set on the way up and cleared on the   *)
(* way down.                                                               *)
(***************************************************************************)
\* Where run has come to, and what it has opened, started and cancelled.
LifeInv(p) ==
    /\ main[p] = "down" => p \notin signalled \cup cancelled
    /\ main[p] \in {"down", "opened"} => p \notin timedOut \cup serveFailed
    /\ rec[p] # "off" => main[p] \in {"serving", "draining", "stopping"}
    /\ p \in dbOpen <=> main[p] \in {"opened", "serving", "draining", "stopping"}
    /\ p \in signalled => p \in cancelled
    /\ port = p => main[p] = "serving" /\ p \notin serveFailed
    /\ main[p] = "serving" => port = p \/ p \in serveFailed
    /\ main[p] = "draining" => p \in signalled
    /\ main[p] = "stopping" => p \in signalled \cup serveFailed

\* The requests of a process that does not listen.
RequestsInv(p) ==
    /\ main[p] \in {"down", "opened"} => Requests(p) = {}
    /\ main[p] \in {"stopping", "closing"} =>
          Requests(p) = {} \/ p \in timedOut \cup serveFailed

IInv == TypeOK /\ \A p \in Processes : LifeInv(p) /\ RequestsInv(p)

-----------------------------------------------------------------------------
(***************************************************************************)
(* Types.                                                                  *)
(***************************************************************************)
LEMMA InitTypes == Init => TypeOK
  BY HostAssumption, SlotsAssumption DEF Init, TypeOK, Kinds, Reconciler

LEMMA GoneTypes ==
    ASSUME TypeOK, NEW p \in Processes, Gone(p), faults' \in 0..MaxFaults
    PROVE  TypeOK'
  BY HostAssumption, SlotsAssumption DEF TypeOK, Gone, Goto, Over, Requests, Reconciler, Kinds

LEMMA RunTypes ==
    ASSUME IInv, NEW p \in Processes,
           Starts(p) \/ Signal(p) \/ Stops(p) \/ ServeFails(p) \/ Kill(p)
    PROVE  TypeOK'
<1> USE HostAssumption, SlotsAssumption DEF IInv
<1>1. CASE Open(p)
  BY <1>1 DEF TypeOK, Open, Goto, recVars, slotVars
<1>2. CASE InitFails(p)
  BY <1>2, GoneTypes DEF InitFails, Fault, TypeOK
<1>3. CASE Listen(p)
  BY <1>3 DEF TypeOK, LifeInv, Listen, Goto, slotVars
<1>4. CASE ListenFails(p) \/ Exit(p)
  BY <1>4, GoneTypes DEF ListenFails, Exit, TypeOK
<1>5. CASE Signal(p)
  BY <1>5 DEF TypeOK, Signal, slotVars
<1>6. CASE Shutdown(p) \/ ServeErr(p) \/ CloseDatabase(p)
  BY <1>6 DEF TypeOK, Shutdown, ServeErr, CloseDatabase, Goto, recVars, slotVars
<1>7. CASE ShutdownEnds(p)
  BY <1>7 DEF TypeOK, ShutdownEnds, Goto, Requests, recVars
<1>8. CASE StopReconciler(p)
  BY <1>8 DEF TypeOK, StopReconciler, mainVars, slotVars
<1>9. CASE ServeFails(p)
  BY <1>9 DEF TypeOK, ServeFails, Fault, recVars, slotVars
<1>10. CASE Kill(p)
  BY <1>10, GoneTypes DEF Kill, Fault, TypeOK
<1> QED
  BY <1>1, <1>2, <1>3, <1>4, <1>5, <1>6, <1>7, <1>8, <1>9, <1>10 DEF Starts, Stops

LEMMA ReconcilerTypes ==
    ASSUME TypeOK, NEW p \in Processes, Reconciles(p) \/ RecAcquire(p)
    PROVE  TypeOK'
<1>1. CASE RunStep(p) \/ RecCallEnds(p) \/ RecReturns(p)
  BY <1>1 DEF TypeOK, RunStep, RecCallEnds, RecReturns, RecGoto, mainVars, slotVars
<1>2. CASE RecStatementEnds(p)
  BY <1>2, HostAssumption, SlotsAssumption DEF TypeOK, RecStatementEnds, RecGoto, mainVars, slotVars,
              Reconciler
<1>3. CASE RecAcquire(p)
  BY <1>3, HostAssumption, SlotsAssumption DEF TypeOK, RecAcquire, RecGoto, mainVars, slotVars,
              Reconciler
<1> QED
  BY <1>1, <1>2, <1>3 DEF Reconciles

LEMMA RequestTypes ==
    ASSUME TypeOK, NEW h \in Slots,
           \/ \E p \in Processes, k \in Kinds : Accept(p, h, k)
           \/ Acquire(h) \/ Handles(h) \/ ReadyzTimesOut(h) \/ Client(h)
    PROVE  TypeOK'
<1> USE HostAssumption, SlotsAssumption DEF Reconciler
<1>1. ASSUME NEW p \in Processes, NEW k \in Kinds, Accept(p, h, k)
      PROVE  TypeOK'
  BY <1>1 DEF TypeOK, Accept, mainVars, recVars
<1>2. CASE Acquire(h)
  BY <1>2 DEF TypeOK, Acquire, mainVars, recVars
<1>3. CASE DatabaseIsClosed(h) \/ ReadyzTimesOut(h)
  BY <1>3 DEF TypeOK, DatabaseIsClosed, ReadyzTimesOut, Over, Kinds, mainVars, recVars
<1>4. CASE Over({h}) /\ Release(h) /\ UNCHANGED <<mainVars, recVars, faults>>
  BY <1>4 DEF TypeOK, Over, Release, Kinds, mainVars, recVars
<1> QED
  BY <1>1, <1>2, <1>3, <1>4 DEF Handles, Client, StatementEnds, CutOff, ClientReads,
                                ClientLeaves

LEMMA StepTypes == IInv /\ [Next]_vars => TypeOK'
<1>1. TypeOK /\ UNCHANGED vars => TypeOK'
  BY DEF TypeOK, vars, mainVars, recVars, slotVars
<1> QED
  BY <1>1, RunTypes, ReconcilerTypes, RequestTypes DEF Next, IInv

-----------------------------------------------------------------------------
(***************************************************************************)
(* The course of a process.                                                *)
(***************************************************************************)
LEMMA InitInv == Init => IInv
  BY InitTypes, HostAssumption, SlotsAssumption DEF Init, IInv, LifeInv, RequestsInv, Requests

LEMMA GoneInv ==
    ASSUME IInv, NEW p \in Processes, Gone(p), NEW q \in Processes
    PROVE  LifeInv(q)' /\ RequestsInv(q)'
  BY HostAssumption, SlotsAssumption DEF IInv, TypeOK, LifeInv, RequestsInv, Gone, Goto, Over, Requests

LEMMA RunInv ==
    ASSUME IInv, NEW p \in Processes,
           Starts(p) \/ Signal(p) \/ Stops(p) \/ ServeFails(p) \/ Kill(p),
           NEW q \in Processes
    PROVE  LifeInv(q)' /\ RequestsInv(q)'
<1> USE HostAssumption, SlotsAssumption DEF IInv, TypeOK, LifeInv, RequestsInv, Requests
<1>1. CASE Open(p)
  BY <1>1 DEF Open, Goto, recVars, slotVars
<1>2. CASE InitFails(p) \/ ListenFails(p) \/ Exit(p) \/ Kill(p)
  BY <1>2, GoneInv DEF InitFails, ListenFails, Exit, Kill
<1>3. CASE Listen(p)
  BY <1>3 DEF Listen, Goto, slotVars
<1>4. CASE Signal(p)
  BY <1>4 DEF Signal, slotVars
<1>5. CASE Shutdown(p)
  BY <1>5 DEF Shutdown, Goto, recVars, slotVars
<1>6. CASE ShutdownEnds(p)
  BY <1>6 DEF ShutdownEnds, Goto, recVars
<1>7. CASE ServeErr(p)
  BY <1>7 DEF ServeErr, Goto, recVars, slotVars
<1>8. CASE StopReconciler(p)
  BY <1>8 DEF StopReconciler, mainVars, slotVars
<1>9. CASE CloseDatabase(p)
  BY <1>9 DEF CloseDatabase, Goto, recVars, slotVars
<1>10. CASE ServeFails(p)
  BY <1>10 DEF ServeFails, recVars, slotVars
<1> QED
  BY <1>1, <1>2, <1>3, <1>4, <1>5, <1>6, <1>7, <1>8, <1>9, <1>10 DEF Starts, Stops

LEMMA ReconcilerInv ==
    ASSUME IInv, NEW p \in Processes, Reconciles(p) \/ RecAcquire(p),
           NEW q \in Processes
    PROVE  LifeInv(q)' /\ RequestsInv(q)'
  BY DEF IInv, TypeOK, LifeInv, RequestsInv, Requests, Reconciles, RunStep, RecCallEnds,
         RecReturns, RecStatementEnds, RecAcquire, RecGoto, mainVars, slotVars

\* A new request needs a process that listens; the others only come to an end.
LEMMA RequestInv ==
    ASSUME IInv, NEW h \in Slots,
           \/ \E p \in Processes, k \in Kinds : Accept(p, h, k)
           \/ Acquire(h) \/ Handles(h) \/ ReadyzTimesOut(h) \/ Client(h),
           NEW q \in Processes
    PROVE  LifeInv(q)' /\ RequestsInv(q)'
<1>1. UNCHANGED <<mainVars, recVars>>
  BY DEF Accept, Acquire, Handles, ReadyzTimesOut, Client, StatementEnds, DatabaseIsClosed,
         CutOff, ClientReads, ClientLeaves
<1>2. LifeInv(q)'
  BY <1>1 DEF IInv, LifeInv, mainVars, recVars
<1>3. main[q] # "serving" => Requests(q)' \subseteq Requests(q)
  <2>1. ASSUME NEW p \in Processes, NEW k \in Kinds, Accept(p, h, k)
        PROVE  main[q] # "serving" => Requests(q)' \subseteq Requests(q)
    BY <2>1 DEF IInv, TypeOK, LifeInv, Accept, Requests
  <2>2. CASE Acquire(h)
    BY <2>2 DEF IInv, TypeOK, Acquire, Requests
  <2>3. CASE Over({h})
    BY <2>3 DEF IInv, TypeOK, Over, Requests
  <2> QED
    BY <2>1, <2>2, <2>3 DEF Handles, ReadyzTimesOut, Client, StatementEnds,
                            DatabaseIsClosed, CutOff, ClientReads, ClientLeaves
<1> QED
  BY <1>1, <1>2, <1>3 DEF IInv, RequestsInv, mainVars

LEMMA StepInv == IInv /\ [Next]_vars => IInv'
<1> SUFFICES ASSUME IInv, [Next]_vars
             PROVE  IInv'
  OBVIOUS
<1>1. TypeOK'
  BY StepTypes
<1>2. ASSUME NEW q \in Processes
      PROVE  LifeInv(q)' /\ RequestsInv(q)'
  <2>1. CASE UNCHANGED vars
    BY <2>1 DEF IInv, LifeInv, RequestsInv, Requests, vars, mainVars, recVars, slotVars
  <2> QED
    BY <2>1, RunInv, ReconcilerInv, RequestInv DEF Next
<1> QED
  BY <1>1, <1>2 DEF IInv

LEMMA Invariant == Spec => []IInv
<1>1. Init => IInv
  BY InitInv
<1>2. IInv /\ [Next]_vars => IInv'
  BY StepInv
<1> QED
  BY <1>1, <1>2, PTL DEF Spec

-----------------------------------------------------------------------------
\* The variables keep their types, and whoever holds a connection knows it.
THEOREM TypeCorrect == Spec => []TypeOK
<1>1. IInv => TypeOK
  BY DEF IInv
<1> QED
  BY <1>1, Invariant, PTL

\* Only one process at a time reconciles, however processes overlap, unless a
\* listener has failed (main.go: the listener comes before the reconciler, and
\* the signal reaches the reconciler before the listener is closed).
THEOREM AlwaysOneReconciler == Spec => []OneReconciler
<1>1. IInv => OneReconciler
  BY DEF IInv, LifeInv, TypeOK, OneReconciler, Reconciling
<1> QED
  BY <1>1, Invariant, PTL

\* The database is closed under no reconciler, and only under requests that
\* outlasted Shutdown's timeout or whose server had failed (main.go: the order
\* of the deferred calls).
THEOREM NeverClosedUnder == Spec => []ClosedUnderNobody
<1>1. IInv => ClosedUnderNobody
  BY DEF IInv, LifeInv, RequestsInv, TypeOK, ClosedUnderNobody
<1> QED
  BY <1>1, Invariant, PTL
=============================================================================
