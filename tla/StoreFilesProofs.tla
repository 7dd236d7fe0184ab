-------------------------- MODULE StoreFilesProofs --------------------------
(***************************************************************************)
(* Theorems about StoreFiles for any processes, tasks, blobs and           *)
(* destinations.                                                           *)
(*                                                                         *)
(* IInv has two parts.  FileInv is about opening: the stages between the   *)
(* preflight and the end of Store::open belong to the holder of the        *)
(* migration lock, so that what one of them found or prepared is still so  *)
(* at the next.  WorkInv is about the daemon: a task between the first and *)
(* the last step of a mutation or a backup holds the mutex, and works on a *)
(* store of the current version, which no opening process changes.         *)
(***************************************************************************)
EXTENDS StoreFiles, TLAPS

Database == [meta : BOOLEAN, version : 0 .. SchemaVersion, tables : BOOLEAN,
             rows : SUBSET Blobs]

Places == {"idle", "put", "checked", "snapshotted", "copied", "verified"}

TaskRows == [at : Places, blob : Blobs \cup {Nothing},
             destination : Destinations \cup {Nothing}, copy : Copy]

\* The stages that act under the migration lock.
Inside == {"preflighted", "snapshotted", "checked", "staged", "prepared", "rebuilt", "meta",
           "versioned", "migrating"}

\* Those before the recovery snapshot is published.
Staging == {"preflighted", "snapshotted", "checked", "staged"}

\* The stages after the recovery snapshot.
Secured == {"prepared", "rebuilt", "meta", "versioned", "migrating"}

HasRecovery ==
  \E s \in snapshots :
    s.from = origin.version /\ s.rows = origin.rows /\ s.rows \subseteq s.blobs \cup s.lost

TypeInv ==
  /\ TypeOK
  /\ origin \in Database
  /\ task \in [Tasks -> TaskRows]

LockHeld == \A p \in Processes : stage[p] \in Inside => migrationLock = p

StagedReady ==
  \A p \in Processes :
    /\ stage[p] \in Staging => seen[p] \in 1 .. SchemaVersion - 1
    /\ stage[p] \in {"snapshotted", "checked", "staged"} =>
         staged[p].from = seen[p] /\ staged[p].rows = database.rows
    /\ stage[p] = "checked" => staged[p].rows \subseteq Intact \cup staged[p].lost
    /\ stage[p] = "staged" => staged[p].rows \subseteq staged[p].blobs \cup staged[p].lost

SchemaProgress ==
  \A p \in Processes :
    /\ stage[p] = "rebuilt" => database.version = 3
    /\ stage[p] \in {"meta", "versioned", "migrating"} => database.meta
    /\ stage[p] \in {"versioned", "migrating"} => database.version # 0
    /\ stage[p] = "migrating" => database.tables

\* A store that was there when the first process came is never older again,
\* and a process past its snapshot, or a store that moved on, has a snapshot
\* of it; its rows are written again at the current version only.
Secure ==
  /\ database.version < SchemaVersion => database.rows = origin.rows
  /\ origin.version \in 1 .. SchemaVersion - 1 =>
       /\ database.version >= origin.version
       /\ database.version > origin.version => HasRecovery
       /\ \A p \in Processes : stage[p] \in Secured => HasRecovery

FileInv ==
  /\ LockHeld
  /\ ActsOnCurrentVersion
  /\ StagedReady
  /\ SchemaProgress
  /\ OpenIsComplete
  /\ Secure

MutexHeld ==
  \A t \in Tasks : task[t].at \in {"put", "snapshotted", "copied", "verified"} => mutex = t

\* A task runs in a daemon that has the store open.
TaskServed == \A t \in Tasks : task[t].at # "idle" => Serving

TaskGrounded ==
  \A t \in Tasks :
    /\ task[t].at = "put" =>
         /\ task[t].blob \in Blobs
         /\ blobs[task[t].blob] = "intact" \/ task[t].blob \in damaged
    /\ task[t].at \in {"checked", "snapshotted", "copied", "verified"} =>
         task[t].destination \in Destinations

CopyFresh ==
  \A t \in Tasks :
    task[t].at \in {"snapshotted", "copied", "verified"} =>
      task[t].copy.rows = database.rows /\ task[t].copy.from = database.version

WorkInv ==
  /\ MutexHeld
  /\ TaskServed
  /\ TaskGrounded
  /\ CopyFresh
  /\ CommittedReadable

IInv == TypeInv /\ FileInv /\ WorkInv

-----------------------------------------------------------------------------
(* Types.                                                                  *)

\* A task that does nothing is typed.
LEMMA IdleTyped == Idle \in TaskRows
  BY DEF Idle, NoCopy, Copy, TaskRows, Places, SchemaVersion

\* A copy that gains or loses objects is typed.
LEMMA CopyTyped ==
  ASSUME NEW c \in Copy, NEW B \in SUBSET Blobs
  PROVE  [c EXCEPT !.blobs = B] \in Copy /\ [c EXCEPT !.lost = @ \cup B] \in Copy
  BY DEF Copy

\* Every step keeps the types.
LEMMA TypeStep ==
  ASSUME IInv, [Next]_vars
  PROVE  TypeInv'
<1>1. CASE UNCHANGED vars
  BY <1>1 DEF IInv, TypeInv, TypeOK, vars, opening, working, history
<1> SUFFICES ASSUME Next PROVE TypeInv'
  BY <1>1
<1> USE DEF IInv, TypeInv, TypeOK, opening, working, history
<1>2. ASSUME NEW p \in Processes, StartDaemon(p) PROVE TypeInv'
  BY <1>2 DEF StartDaemon, Stages
<1>3. ASSUME NEW p \in Processes, StartCommand(p) PROVE TypeInv'
  BY <1>3 DEF StartCommand, Stages
<1>4. ASSUME NEW p \in Processes, Preflight(p) PROVE TypeInv'
  BY <1>4 DEF Preflight, Stages
<1>5. ASSUME NEW p \in Processes, SnapshotSource(p) \/ CheckSource(p) \/ CopySource(p)
      PROVE  TypeInv'
  <2>1. SnapshotOf(seen[p], database) \in Copy
    BY DEF SnapshotOf, NoCopy, Copy, Database, SchemaVersion
  <2>2. staged[p] \in Copy
    BY Zenon
  <2>3. [staged[p] EXCEPT !.blobs = Intact] \in Copy
    BY <2>2, CopyTyped, Intact \in SUBSET Blobs DEF Intact
  <2> QED
    BY <1>5, <2>1, <2>2, <2>3 DEF SnapshotSource, CheckSource, CopySource, StageStep, Stages
<1>6. ASSUME NEW p \in Processes, PublishSnapshot(p) PROVE TypeInv'
  BY <1>6 DEF PublishSnapshot, Stages, Copy, NoCopy, SchemaVersion
<1>7. ASSUME NEW p \in Processes, MigrateV2(p) PROVE TypeInv'
  BY <1>7 DEF MigrateV2, OpenStep, Stages, Database, SchemaVersion
<1>8. ASSUME NEW p \in Processes, CreateMeta(p) PROVE TypeInv'
  BY <1>8 DEF CreateMeta, OpenStep, Stages, Database, SchemaVersion
<1>9. ASSUME NEW p \in Processes, InsertVersion(p) PROVE TypeInv'
  BY <1>9 DEF InsertVersion, OpenStep, Stages, Database, SchemaVersion
<1>10. ASSUME NEW p \in Processes, CreateTables(p) PROVE TypeInv'
  BY <1>10 DEF CreateTables, OpenStep, Stages, Database, SchemaVersion
<1>11. ASSUME NEW p \in Processes, Migrate(p) PROVE TypeInv'
  <2>1. database.version \in 1 .. SchemaVersion - 1
    BY <1>11 DEF Migrate, Outdated
  <2>2. database' = [meta |-> database.meta, tables |-> database.tables, rows |-> database.rows,
                     version |-> IF database.version = 1 THEN 3 ELSE database.version + 1]
    BY <1>11 DEF Migrate, OpenStep, Database
  <2>3. database' \in Database
    BY <2>1, <2>2 DEF Database, SchemaVersion
  <2> QED
    BY <1>11, <2>3 DEF Migrate, OpenStep, Stages, Database
<1>12. ASSUME NEW p \in Processes, FinishOpen(p) PROVE TypeInv'
  BY <1>12 DEF FinishOpen, Stages
<1>13. ASSUME NEW p \in Processes, Exit(p) PROVE TypeInv'
  BY <1>13, IdleTyped DEF Exit, Stages, Copy, NoCopy, SchemaVersion
<1>14. ASSUME NEW t \in Tasks, NEW b \in Blobs, PutBlob(t, b) PROVE TypeInv'
  <2>1. [Idle EXCEPT !.at = "put", !.blob = b] \in TaskRows
    BY IdleTyped DEF TaskRows, Places
  <2> QED
    BY <1>14, <2>1 DEF PutBlob, TaskMoves
<1>15. ASSUME NEW t \in Tasks, CommitRow(t) PROVE TypeInv'
  <2>2. task[t].blob \in Blobs
    BY <1>15 DEF CommitRow, TaskMoves, WorkInv, TaskGrounded
  <2>3. [database EXCEPT !.rows = @ \cup {task[t].blob}] \in Database
    BY <2>2 DEF Database
  <2> QED
    BY <1>15, IdleTyped, <2>3 DEF CommitRow, TaskMoves, Database
<1>16. ASSUME NEW t \in Tasks, RollBack(t) PROVE TypeInv'
  BY <1>16, IdleTyped DEF RollBack, TaskMoves
<1>17. ASSUME NEW t \in Tasks, NEW d \in Destinations, CheckDestination(t, d) PROVE TypeInv'
  <2>1. [Idle EXCEPT !.at = "checked", !.destination = d] \in TaskRows
    BY IdleTyped DEF TaskRows, Places
  <2> QED
    BY <1>17, <2>1 DEF CheckDestination, TaskMoves
<1>18. ASSUME NEW t \in Tasks, SnapshotDatabase(t) PROVE TypeInv'
  <2> DEFINE copy == SnapshotOf(database.version, database)
  <2>1. copy \in Copy
    BY DEF Database, Copy, NoCopy, SnapshotOf, SchemaVersion
  <2>2. [task[t] EXCEPT !.at = "snapshotted", !.copy = copy] \in TaskRows
    BY <2>1, task[t] \in TaskRows DEF TaskRows, Places
  <2> QED
    BY <1>18, <2>2 DEF SnapshotDatabase, TaskMoves
<1>19. ASSUME NEW t \in Tasks, CopyObjects(t) \/ VerifyStaged(t) PROVE TypeInv'
  <2>1. [task[t].copy EXCEPT !.blobs = Intact] \in Copy
    BY task[t] \in TaskRows DEF TaskRows, Copy, Intact
  <2>2. /\ [task[t] EXCEPT !.at = "copied", !.copy.blobs = Intact] \in TaskRows
        /\ [task[t] EXCEPT !.at = "verified"] \in TaskRows
    BY <2>1, task[t] \in TaskRows DEF TaskRows, Places
  <2> QED
    BY <1>19, <2>2 DEF CopyObjects, VerifyStaged, TaskMoves
<1>20. ASSUME NEW t \in Tasks, PublishBackup(t) PROVE TypeInv'
  <2>2. task[t].copy \in Copy /\ task[t].destination \in Destinations
    BY <1>20 DEF PublishBackup, TaskMoves, TaskRows, WorkInv, TaskGrounded
  <2> QED
    BY <1>20, IdleTyped, <2>2 DEF PublishBackup, TaskMoves
<1>21. ASSUME NEW t \in Tasks, BackupFails(t) PROVE TypeInv'
  BY <1>21, IdleTyped DEF BackupFails, TaskMoves
<1>22. ASSUME NEW b \in Blobs, Damage(b) PROVE TypeInv'
  <2>1. ASSUME NEW p \in Processes PROVE [staged[p] EXCEPT !.lost = @ \cup {b}] \in Copy
    <3>1. staged[p] \in Copy
      BY Zenon
    <3> QED
      BY <3>1, CopyTyped, {b} \in SUBSET Blobs
  <2> QED
    BY <1>22, <2>1 DEF Damage
<1>23. ASSUME NEW d \in Destinations, Occupy(d) PROVE TypeInv'
  BY <1>23 DEF Occupy
<1> QED
  BY <1>2, <1>3, <1>4, <1>5, <1>6, <1>7, <1>8, <1>9, <1>10, <1>11, <1>12, <1>13, <1>14, <1>15, <1>16, <1>17, <1>18, <1>19, <1>20, <1>21, <1>22, <1>23 DEF Next, Opening, Working

-----------------------------------------------------------------------------
(* Opening.                                                                *)

LEMMA StartDaemonKeeps ==
  ASSUME IInv, TypeInv', NEW p \in Processes, StartDaemon(p)
  PROVE  FileInv'
<1> USE DEF IInv, FileInv, TypeInv, TypeOK, SchemaVersion, Inside, Staging, Secured, Stages, Database,
        Intact, history
<1>1. LockHeld'
  BY DEF StartDaemon, LockHeld
<1>2. ActsOnCurrentVersion'
  BY DEF StartDaemon, LockHeld, ActsOnCurrentVersion
<1>3. StagedReady'
  BY DEF StartDaemon, LockHeld, ActsOnCurrentVersion, StagedReady
<1>4. SchemaProgress'
  BY DEF StartDaemon, LockHeld, ActsOnCurrentVersion, StagedReady, SchemaProgress
<1>5. OpenIsComplete'
  BY DEF StartDaemon, LockHeld, ActsOnCurrentVersion, StagedReady, SchemaProgress, OpenIsComplete
<1>6. Secure'
  BY DEF StartDaemon, LockHeld, ActsOnCurrentVersion, StagedReady, SchemaProgress, HasRecovery, Secure
<1> QED
  BY <1>1, <1>2, <1>3, <1>4, <1>5, <1>6

LEMMA StartCommandKeeps ==
  ASSUME IInv, TypeInv', NEW p \in Processes, StartCommand(p)
  PROVE  FileInv'
<1> USE DEF IInv, FileInv, TypeInv, TypeOK, SchemaVersion, Inside, Staging, Secured, Stages, Database,
        Intact, history
<1>1. LockHeld'
  BY DEF StartCommand, LockHeld
<1>2. ActsOnCurrentVersion'
  BY DEF StartCommand, LockHeld, ActsOnCurrentVersion
<1>3. StagedReady'
  BY DEF StartCommand, LockHeld, ActsOnCurrentVersion, StagedReady
<1>4. SchemaProgress'
  BY DEF StartCommand, LockHeld, ActsOnCurrentVersion, StagedReady, SchemaProgress
<1>5. OpenIsComplete'
  BY DEF StartCommand, LockHeld, ActsOnCurrentVersion, StagedReady, SchemaProgress, OpenIsComplete
<1>6. Secure'
  BY DEF StartCommand, LockHeld, ActsOnCurrentVersion, StagedReady, SchemaProgress, HasRecovery, Secure
<1> QED
  BY <1>1, <1>2, <1>3, <1>4, <1>5, <1>6

LEMMA PreflightKeeps ==
  ASSUME IInv, TypeInv', NEW p \in Processes, Preflight(p)
  PROVE  FileInv'
<1> USE DEF IInv, FileInv, TypeInv, TypeOK, SchemaVersion, Inside, Staging, Secured, Stages, Database,
        Intact, history
<1>1. LockHeld'
  BY StoreFilesAssumption DEF Preflight, Recognized, Outdated, LockHeld
<1>2. ActsOnCurrentVersion'
  BY DEF Preflight, Recognized, Outdated, LockHeld, ActsOnCurrentVersion
<1>3. StagedReady'
  BY DEF Preflight, Recognized, Outdated, LockHeld, ActsOnCurrentVersion, StagedReady
<1>4. SchemaProgress'
  BY DEF Preflight, Recognized, Outdated, LockHeld, ActsOnCurrentVersion, StagedReady, SchemaProgress
<1>5. OpenIsComplete'
  BY DEF Preflight, Recognized, Outdated, LockHeld, ActsOnCurrentVersion, StagedReady, SchemaProgress, OpenIsComplete
<1>6. Secure'
  BY DEF Preflight, Recognized, Outdated, LockHeld, ActsOnCurrentVersion, StagedReady, SchemaProgress, HasRecovery, Secure
<1> QED
  BY <1>1, <1>2, <1>3, <1>4, <1>5, <1>6

LEMMA SnapshotSourceKeeps ==
  ASSUME IInv, TypeInv', NEW p \in Processes, SnapshotSource(p)
  PROVE  FileInv'
<1> USE DEF IInv, FileInv, TypeInv, TypeOK, SchemaVersion, Inside, Staging, Secured, Stages, Database,
        Intact, history, SnapshotSource, StageStep, Copy, SnapshotOf, NoCopy
<1>1. LockHeld'
  BY DEF LockHeld
<1>2. ActsOnCurrentVersion'
  BY DEF LockHeld, ActsOnCurrentVersion
<1>3. StagedReady'
  BY DEF LockHeld, ActsOnCurrentVersion, StagedReady
<1>4. SchemaProgress'
  BY DEF LockHeld, SchemaProgress
<1>5. OpenIsComplete'
  BY DEF OpenIsComplete
<1>6. Secure'
  BY DEF LockHeld, HasRecovery, Secure
<1> QED
  BY <1>1, <1>2, <1>3, <1>4, <1>5, <1>6

LEMMA CheckSourceKeeps ==
  ASSUME IInv, TypeInv', NEW p \in Processes, CheckSource(p)
  PROVE  FileInv'
<1> USE DEF IInv, FileInv, TypeInv, TypeOK, SchemaVersion, Inside, Staging, Secured, Stages, Database,
        Intact, history, CheckSource, StageStep, Copy, ReferencedIntact
<1>1. LockHeld'
  BY DEF LockHeld
<1>2. ActsOnCurrentVersion'
  BY DEF LockHeld, ActsOnCurrentVersion
<1>3. StagedReady'
  BY DEF LockHeld, ActsOnCurrentVersion, StagedReady
<1>4. SchemaProgress'
  BY DEF LockHeld, SchemaProgress
<1>5. OpenIsComplete'
  BY DEF OpenIsComplete
<1>6. Secure'
  BY DEF LockHeld, HasRecovery, Secure
<1> QED
  BY <1>1, <1>2, <1>3, <1>4, <1>5, <1>6

LEMMA CopySourceKeeps ==
  ASSUME IInv, TypeInv', NEW p \in Processes, CopySource(p)
  PROVE  FileInv'
<1> USE DEF IInv, FileInv, TypeInv, TypeOK, SchemaVersion, Inside, Staging, Secured, Stages, Database,
        Intact, history, CopySource, StageStep, Copy
<1>1. LockHeld'
  BY DEF LockHeld
<1>2. ActsOnCurrentVersion'
  BY DEF LockHeld, ActsOnCurrentVersion
<1>3. StagedReady'
  BY DEF LockHeld, ActsOnCurrentVersion, StagedReady
<1>4. SchemaProgress'
  BY DEF LockHeld, SchemaProgress
<1>5. OpenIsComplete'
  BY DEF OpenIsComplete
<1>6. Secure'
  BY DEF LockHeld, HasRecovery, Secure
<1> QED
  BY <1>1, <1>2, <1>3, <1>4, <1>5, <1>6

LEMMA PublishSnapshotKeeps ==
  ASSUME IInv, TypeInv', NEW p \in Processes, PublishSnapshot(p)
  PROVE  FileInv'
<1> USE DEF IInv, FileInv, TypeInv, TypeOK, SchemaVersion, Inside, Staging, Secured, Stages, Database,
        Intact, history
<1>1. LockHeld'
  BY DEF PublishSnapshot, LockHeld
<1>2. ActsOnCurrentVersion'
  BY DEF PublishSnapshot, LockHeld, ActsOnCurrentVersion
<1>3. StagedReady'
  BY DEF PublishSnapshot, LockHeld, ActsOnCurrentVersion, StagedReady
<1>4. SchemaProgress'
  BY DEF PublishSnapshot, LockHeld, ActsOnCurrentVersion, StagedReady, SchemaProgress
<1>5. OpenIsComplete'
  BY DEF PublishSnapshot, LockHeld, ActsOnCurrentVersion, StagedReady, SchemaProgress, OpenIsComplete
<1>6. Secure'
  BY DEF PublishSnapshot, LockHeld, ActsOnCurrentVersion, StagedReady, SchemaProgress, HasRecovery, Secure
<1> QED
  BY <1>1, <1>2, <1>3, <1>4, <1>5, <1>6

LEMMA MigrateV2Keeps ==
  ASSUME IInv, TypeInv', NEW p \in Processes, MigrateV2(p)
  PROVE  FileInv'
<1> USE DEF IInv, FileInv, TypeInv, TypeOK, SchemaVersion, Inside, Staging, Secured, Stages, Database,
        Intact, history
<1>1. LockHeld'
  BY DEF MigrateV2, OpenStep, LockHeld
<1>2. ActsOnCurrentVersion'
  BY DEF MigrateV2, OpenStep, LockHeld, ActsOnCurrentVersion
<1>3. StagedReady'
  BY DEF MigrateV2, OpenStep, LockHeld, ActsOnCurrentVersion, StagedReady
<1>4. SchemaProgress'
  BY DEF MigrateV2, OpenStep, LockHeld, ActsOnCurrentVersion, StagedReady, SchemaProgress
<1>5. OpenIsComplete'
  BY DEF MigrateV2, OpenStep, LockHeld, ActsOnCurrentVersion, StagedReady, SchemaProgress, OpenIsComplete
<1>6. Secure'
  BY DEF MigrateV2, OpenStep, LockHeld, ActsOnCurrentVersion, StagedReady, SchemaProgress, HasRecovery, Secure
<1> QED
  BY <1>1, <1>2, <1>3, <1>4, <1>5, <1>6

LEMMA CreateMetaKeeps ==
  ASSUME IInv, TypeInv', NEW p \in Processes, CreateMeta(p)
  PROVE  FileInv'
<1> USE DEF IInv, FileInv, TypeInv, TypeOK, SchemaVersion, Inside, Staging, Secured, Stages, Database,
        Intact, history
<1>1. LockHeld'
  BY DEF CreateMeta, OpenStep, LockHeld
<1>2. ActsOnCurrentVersion'
  BY DEF CreateMeta, OpenStep, LockHeld, ActsOnCurrentVersion
<1>3. StagedReady'
  BY DEF CreateMeta, OpenStep, LockHeld, ActsOnCurrentVersion, StagedReady
<1>4. SchemaProgress'
  BY DEF CreateMeta, OpenStep, LockHeld, ActsOnCurrentVersion, StagedReady, SchemaProgress
<1>5. OpenIsComplete'
  BY DEF CreateMeta, OpenStep, LockHeld, ActsOnCurrentVersion, StagedReady, SchemaProgress, OpenIsComplete
<1>6. Secure'
  BY DEF CreateMeta, OpenStep, LockHeld, ActsOnCurrentVersion, StagedReady, SchemaProgress, HasRecovery, Secure
<1> QED
  BY <1>1, <1>2, <1>3, <1>4, <1>5, <1>6

LEMMA InsertVersionKeeps ==
  ASSUME IInv, TypeInv', NEW p \in Processes, InsertVersion(p)
  PROVE  FileInv'
<1> USE DEF IInv, FileInv, TypeInv, TypeOK, SchemaVersion, Inside, Staging, Secured, Stages, Database,
        Intact, history
<1>1. LockHeld'
  BY DEF InsertVersion, OpenStep, LockHeld
<1>2. ActsOnCurrentVersion'
  BY DEF InsertVersion, OpenStep, LockHeld, ActsOnCurrentVersion
<1>3. StagedReady'
  BY DEF InsertVersion, OpenStep, LockHeld, ActsOnCurrentVersion, StagedReady
<1>4. SchemaProgress'
  BY DEF InsertVersion, OpenStep, LockHeld, ActsOnCurrentVersion, StagedReady, SchemaProgress
<1>5. OpenIsComplete'
  BY DEF InsertVersion, OpenStep, LockHeld, ActsOnCurrentVersion, StagedReady, SchemaProgress, OpenIsComplete
<1>6. Secure'
  BY DEF InsertVersion, OpenStep, LockHeld, ActsOnCurrentVersion, StagedReady, SchemaProgress, HasRecovery, Secure
<1> QED
  BY <1>1, <1>2, <1>3, <1>4, <1>5, <1>6

LEMMA CreateTablesKeeps ==
  ASSUME IInv, TypeInv', NEW p \in Processes, CreateTables(p)
  PROVE  FileInv'
<1> USE DEF IInv, FileInv, TypeInv, TypeOK, SchemaVersion, Inside, Staging, Secured, Stages, Database,
        Intact, history
<1>1. LockHeld'
  BY DEF CreateTables, OpenStep, LockHeld
<1>2. ActsOnCurrentVersion'
  BY DEF CreateTables, OpenStep, LockHeld, ActsOnCurrentVersion
<1>3. StagedReady'
  BY DEF CreateTables, OpenStep, LockHeld, ActsOnCurrentVersion, StagedReady
<1>4. SchemaProgress'
  BY DEF CreateTables, OpenStep, LockHeld, ActsOnCurrentVersion, StagedReady, SchemaProgress
<1>5. OpenIsComplete'
  BY DEF CreateTables, OpenStep, LockHeld, ActsOnCurrentVersion, StagedReady, SchemaProgress, OpenIsComplete
<1>6. Secure'
  BY DEF CreateTables, OpenStep, LockHeld, ActsOnCurrentVersion, StagedReady, SchemaProgress, HasRecovery, Secure
<1> QED
  BY <1>1, <1>2, <1>3, <1>4, <1>5, <1>6

LEMMA MigrateKeeps ==
  ASSUME IInv, TypeInv', NEW p \in Processes, Migrate(p)
  PROVE  FileInv'
<1> USE DEF IInv, FileInv, TypeInv, TypeOK, SchemaVersion, Inside, Staging, Secured, Stages, Database,
        Intact, history
<1>1. LockHeld'
  BY DEF Migrate, OpenStep, Outdated, LockHeld
<1>2. ActsOnCurrentVersion'
  BY DEF Migrate, OpenStep, Outdated, LockHeld, ActsOnCurrentVersion
<1>3. StagedReady'
  BY DEF Migrate, OpenStep, Outdated, LockHeld, ActsOnCurrentVersion, StagedReady
<1>4. SchemaProgress'
  BY DEF Migrate, OpenStep, Outdated, LockHeld, ActsOnCurrentVersion, StagedReady, SchemaProgress
<1>5. OpenIsComplete'
  BY DEF Migrate, OpenStep, Outdated, LockHeld, ActsOnCurrentVersion, StagedReady, SchemaProgress, OpenIsComplete
<1>6. Secure'
  BY DEF Migrate, OpenStep, Outdated, LockHeld, ActsOnCurrentVersion, StagedReady, SchemaProgress, HasRecovery, Secure
<1> QED
  BY <1>1, <1>2, <1>3, <1>4, <1>5, <1>6

LEMMA FinishOpenKeeps ==
  ASSUME IInv, TypeInv', NEW p \in Processes, FinishOpen(p)
  PROVE  FileInv'
<1> USE DEF IInv, FileInv, TypeInv, TypeOK, SchemaVersion, Inside, Staging, Secured, Stages, Database,
        Intact, history
<1>1. LockHeld'
  BY DEF FinishOpen, LockHeld
<1>2. ActsOnCurrentVersion'
  BY DEF FinishOpen, LockHeld, ActsOnCurrentVersion
<1>3. StagedReady'
  BY DEF FinishOpen, LockHeld, ActsOnCurrentVersion, StagedReady
<1>4. SchemaProgress'
  BY DEF FinishOpen, LockHeld, ActsOnCurrentVersion, StagedReady, SchemaProgress
<1>5. OpenIsComplete'
  BY DEF FinishOpen, LockHeld, ActsOnCurrentVersion, StagedReady, SchemaProgress, OpenIsComplete
<1>6. Secure'
  BY DEF FinishOpen, LockHeld, ActsOnCurrentVersion, StagedReady, SchemaProgress, HasRecovery, Secure
<1> QED
  BY <1>1, <1>2, <1>3, <1>4, <1>5, <1>6

LEMMA ExitKeeps ==
  ASSUME IInv, TypeInv', NEW p \in Processes, Exit(p)
  PROVE  FileInv'
<1> USE DEF IInv, FileInv, TypeInv, TypeOK, SchemaVersion, Inside, Staging, Secured, Stages, Database,
        Intact, history
<1>1. LockHeld'
  BY DEF Exit, LockHeld
<1>2. ActsOnCurrentVersion'
  BY DEF Exit, LockHeld, ActsOnCurrentVersion
<1>3. StagedReady'
  BY DEF Exit, LockHeld, ActsOnCurrentVersion, StagedReady
<1>4. SchemaProgress'
  BY DEF Exit, LockHeld, ActsOnCurrentVersion, StagedReady, SchemaProgress
<1>5. OpenIsComplete'
  BY DEF Exit, LockHeld, ActsOnCurrentVersion, StagedReady, SchemaProgress, OpenIsComplete
<1>6. Secure'
  BY DEF Exit, LockHeld, ActsOnCurrentVersion, StagedReady, SchemaProgress, HasRecovery, Secure
<1> QED
  BY <1>1, <1>2, <1>3, <1>4, <1>5, <1>6

\* A step that only writes rows and objects of an open store leaves all of it
\* alone.
LEMMA FileFrame ==
  ASSUME IInv,
         UNCHANGED <<snapshots, opening, origin>>,
         database'.version = database.version,
         database'.meta = database.meta,
         database'.tables = database.tables,
         database'.rows = database.rows \/ database.version = SchemaVersion,
         blobs' = blobs \/ database.version = SchemaVersion
  PROVE  FileInv'
<1> USE DEF IInv, FileInv, TypeInv, TypeOK, SchemaVersion, Secured, Staging, Inside, opening
<1>1. LockHeld' /\ ActsOnCurrentVersion' /\ SchemaProgress' /\ OpenIsComplete'
  BY DEF LockHeld, ActsOnCurrentVersion, SchemaProgress, OpenIsComplete
<1>2. StagedReady'
  BY DEF StagedReady, ActsOnCurrentVersion, Intact
<1>3. Secure'
  BY DEF Secure, HasRecovery
<1> QED
  BY <1>1, <1>2, <1>3

\* An object lost between the check of a snapshot and its copy is on record.
LEMMA DamageKeepsFiles ==
  ASSUME IInv, NEW b \in Blobs, Damage(b)
  PROVE  FileInv'
<1> USE DEF IInv, FileInv, TypeInv, TypeOK, Damage
<1>1. LockHeld' /\ ActsOnCurrentVersion' /\ SchemaProgress' /\ OpenIsComplete' /\ Secure'
  BY DEF LockHeld, ActsOnCurrentVersion, SchemaProgress, OpenIsComplete, Secure, HasRecovery
<1>2. Intact' = Intact \ {b}
  BY DEF Intact
<1>3. ASSUME NEW p \in Processes
      PROVE  /\ staged'[p].from = staged[p].from /\ staged'[p].rows = staged[p].rows
             /\ staged'[p].blobs = staged[p].blobs
             /\ staged[p].lost \subseteq staged'[p].lost
             /\ stage[p] = "checked" => b \in staged'[p].lost
  BY DEF Copy
<1>4. StagedReady'
  BY <1>2, <1>3 DEF StagedReady
<1> QED
  BY <1>1, <1>4

\* A daemon with a task has a store of the current version.
LEMMA ServedIsCurrent ==
  ASSUME IInv, Serving
  PROVE  database.version = SchemaVersion
  BY DEF IInv, FileInv, OpenIsComplete, Serving

LEMMA TaskKeepsFiles ==
  ASSUME IInv, NEW t \in Tasks, Working(t)
  PROVE  FileInv'
<1>1. UNCHANGED <<snapshots, opening, origin>> /\ Serving
  BY DEF Working, PutBlob, CommitRow, RollBack, CheckDestination, SnapshotDatabase,
         CopyObjects, VerifyStaged, PublishBackup, BackupFails, TaskMoves
<1>2. database.version = SchemaVersion
  BY <1>1, ServedIsCurrent
<1>3. /\ database'.version = database.version
      /\ database'.meta = database.meta
      /\ database'.tables = database.tables
  BY DEF Working, PutBlob, CommitRow, RollBack, CheckDestination, SnapshotDatabase,
         CopyObjects, VerifyStaged, PublishBackup, BackupFails, IInv, TypeInv, TypeOK
<1> QED
  BY <1>1, <1>2, <1>3, FileFrame

LEMMA FileStep ==
  ASSUME IInv, [Next]_vars
  PROVE  FileInv'
<1>1. TypeInv'
  BY TypeStep
<1>2. ASSUME NEW p \in Processes, Opening(p) PROVE FileInv'
  BY <1>1, <1>2, StartDaemonKeeps, StartCommandKeeps, PreflightKeeps, SnapshotSourceKeeps,
     CheckSourceKeeps, CopySourceKeeps, PublishSnapshotKeeps, MigrateV2Keeps, CreateMetaKeeps, InsertVersionKeeps,
     CreateTablesKeeps, MigrateKeeps, FinishOpenKeeps, ExitKeeps
  DEF Opening
<1>3. ASSUME NEW t \in Tasks, Working(t) PROVE FileInv'
  BY <1>3, TaskKeepsFiles
<1>4. ASSUME NEW b \in Blobs, Damage(b) PROVE FileInv'
  BY <1>4, DamageKeepsFiles
<1>5. ASSUME NEW d \in Destinations, Occupy(d) PROVE FileInv'
  BY <1>5, FileFrame DEF Occupy, history
<1>6. CASE UNCHANGED vars
  BY <1>6, FileFrame DEF vars, history
<1> QED
  BY <1>2, <1>3, <1>4, <1>5, <1>6 DEF Next

-----------------------------------------------------------------------------
(* The daemon at work.                                                     *)

LEMMA PutBlobKeeps ==
  ASSUME IInv, TypeInv', NEW t \in Tasks, NEW b \in Blobs, PutBlob(t, b)
  PROVE  WorkInv'
<1> USE StoreFilesAssumption
    DEF IInv, WorkInv, TypeInv, TypeOK, Database, Copy, TaskRows, PutBlob, TaskMoves, Idle
<1>1. MutexHeld'
  BY DEF MutexHeld
<1>2. TaskServed'
  BY DEF TaskServed, Serving, opening
<1>3. TaskGrounded'
  BY DEF TaskGrounded
<1>4. CopyFresh'
  BY DEF CopyFresh, MutexHeld
<1>5. CommittedReadable'
  BY DEF CommittedReadable, TaskGrounded
<1> QED
  BY <1>1, <1>2, <1>3, <1>4, <1>5

LEMMA CommitRowKeeps ==
  ASSUME IInv, TypeInv', NEW t \in Tasks, CommitRow(t)
  PROVE  WorkInv'
<1> USE StoreFilesAssumption
    DEF IInv, WorkInv, TypeInv, TypeOK, Database, Copy, TaskRows, CommitRow, TaskMoves, Idle
<1>1. MutexHeld'
  BY DEF MutexHeld
<1>2. TaskServed'
  BY DEF TaskServed, Serving, opening
<1>3. TaskGrounded'
  BY DEF TaskGrounded
<1>4. CopyFresh'
  BY DEF CopyFresh, MutexHeld
<1>5. CommittedReadable'
  BY DEF CommittedReadable, TaskGrounded
<1> QED
  BY <1>1, <1>2, <1>3, <1>4, <1>5

LEMMA RollBackKeeps ==
  ASSUME IInv, TypeInv', NEW t \in Tasks, RollBack(t)
  PROVE  WorkInv'
<1> USE StoreFilesAssumption
    DEF IInv, WorkInv, TypeInv, TypeOK, Database, Copy, TaskRows, RollBack, TaskMoves, Idle
<1>1. MutexHeld'
  BY DEF MutexHeld
<1>2. TaskServed'
  BY DEF TaskServed, Serving, opening
<1>3. TaskGrounded'
  BY DEF TaskGrounded
<1>4. CopyFresh'
  BY DEF CopyFresh, MutexHeld
<1>5. CommittedReadable'
  BY DEF CommittedReadable, TaskGrounded
<1> QED
  BY <1>1, <1>2, <1>3, <1>4, <1>5

LEMMA CheckDestinationKeeps ==
  ASSUME IInv, TypeInv', NEW t \in Tasks, NEW d \in Destinations, CheckDestination(t, d)
  PROVE  WorkInv'
<1> USE StoreFilesAssumption
    DEF IInv, WorkInv, TypeInv, TypeOK, Database, Copy, TaskRows, CheckDestination, TaskMoves, Idle
<1>1. MutexHeld'
  BY DEF MutexHeld
<1>2. TaskServed'
  BY DEF TaskServed, Serving, opening
<1>3. TaskGrounded'
  BY DEF TaskGrounded
<1>4. CopyFresh'
  BY DEF CopyFresh, MutexHeld
<1>5. CommittedReadable'
  BY DEF CommittedReadable, TaskGrounded
<1> QED
  BY <1>1, <1>2, <1>3, <1>4, <1>5

LEMMA SnapshotDatabaseKeeps ==
  ASSUME IInv, TypeInv', NEW t \in Tasks, SnapshotDatabase(t)
  PROVE  WorkInv'
<1> USE StoreFilesAssumption
    DEF IInv, WorkInv, TypeInv, TypeOK, Database, Copy, TaskRows, SnapshotDatabase, SnapshotOf,
        TaskMoves, Idle, NoCopy
<1>1. MutexHeld'
  BY DEF MutexHeld
<1>2. TaskServed'
  BY DEF TaskServed, Serving, opening
<1>3. TaskGrounded'
  BY DEF TaskGrounded
<1>4. CopyFresh'
  BY DEF CopyFresh, MutexHeld
<1>5. CommittedReadable'
  BY DEF CommittedReadable, TaskGrounded
<1> QED
  BY <1>1, <1>2, <1>3, <1>4, <1>5

LEMMA CopyObjectsKeeps ==
  ASSUME IInv, TypeInv', NEW t \in Tasks, CopyObjects(t)
  PROVE  WorkInv'
<1> USE DEF IInv, WorkInv
<1> DEFINE to == [task[t] EXCEPT !.at = "copied", !.copy.blobs = Intact]
<1>1. task[t] \in TaskRows /\ task[t].at = "snapshotted"
  BY DEF CopyObjects, TaskMoves, TypeInv
<1>2. /\ to.at = "copied" /\ to.blob = task[t].blob /\ to.destination = task[t].destination
      /\ to.copy.rows = task[t].copy.rows /\ to.copy.from = task[t].copy.from
  BY <1>1 DEF TaskRows, Copy
<1> HIDE DEF to
<1>3. /\ task' = [task EXCEPT ![t] = to] /\ Serving
      /\ UNCHANGED <<database, blobs, backups, mutex, damaged, opening>>
  BY DEF CopyObjects, TaskMoves, to
<1>4. task'[t] = to /\ \A u \in Tasks \ {t} : task'[u] = task[u]
  BY <1>3 DEF TypeInv
<1>5. MutexHeld'
  BY <1>1, <1>3, <1>4 DEF MutexHeld
<1>6. TaskServed'
  BY <1>3 DEF TaskServed, Serving, opening
<1>7. TaskGrounded'
  BY <1>1, <1>2, <1>3, <1>4 DEF TaskGrounded
<1>8. CopyFresh'
  BY <1>1, <1>2, <1>3, <1>4 DEF CopyFresh
<1>9. CommittedReadable'
  BY <1>3 DEF CommittedReadable
<1> QED
  BY <1>5, <1>6, <1>7, <1>8, <1>9

LEMMA VerifyStagedKeeps ==
  ASSUME IInv, TypeInv', NEW t \in Tasks, VerifyStaged(t)
  PROVE  WorkInv'
<1> USE DEF IInv, WorkInv
<1> DEFINE to == [task[t] EXCEPT !.at = "verified"]
<1>1. task[t] \in TaskRows /\ task[t].at = "copied"
  BY DEF VerifyStaged, TaskMoves, TypeInv
<1>2. /\ to.at = "verified" /\ to.blob = task[t].blob /\ to.destination = task[t].destination
      /\ to.copy.rows = task[t].copy.rows /\ to.copy.from = task[t].copy.from
  BY <1>1 DEF TaskRows, Copy
<1> HIDE DEF to
<1>3. /\ task' = [task EXCEPT ![t] = to] /\ Serving
      /\ UNCHANGED <<database, blobs, backups, mutex, damaged, opening>>
  BY DEF VerifyStaged, TaskMoves, to
<1>4. task'[t] = to /\ \A u \in Tasks \ {t} : task'[u] = task[u]
  BY <1>3 DEF TypeInv
<1>5. MutexHeld'
  BY <1>1, <1>3, <1>4 DEF MutexHeld
<1>6. TaskServed'
  BY <1>3 DEF TaskServed, Serving, opening
<1>7. TaskGrounded'
  BY <1>1, <1>2, <1>3, <1>4 DEF TaskGrounded
<1>8. CopyFresh'
  BY <1>1, <1>2, <1>3, <1>4 DEF CopyFresh
<1>9. CommittedReadable'
  BY <1>3 DEF CommittedReadable
<1> QED
  BY <1>5, <1>6, <1>7, <1>8, <1>9

LEMMA PublishBackupKeeps ==
  ASSUME IInv, TypeInv', NEW t \in Tasks, PublishBackup(t)
  PROVE  WorkInv'
<1> USE StoreFilesAssumption
    DEF IInv, WorkInv, TypeInv, TypeOK, Database, Copy, TaskRows, PublishBackup, TaskMoves, Idle
<1>1. MutexHeld'
  BY DEF MutexHeld
<1>2. TaskServed'
  BY DEF TaskServed, Serving, opening
<1>3. TaskGrounded'
  BY DEF TaskGrounded
<1>4. CopyFresh'
  BY DEF CopyFresh, MutexHeld
<1>5. CommittedReadable'
  BY DEF CommittedReadable, TaskGrounded
<1> QED
  BY <1>1, <1>2, <1>3, <1>4, <1>5

LEMMA BackupFailsKeeps ==
  ASSUME IInv, TypeInv', NEW t \in Tasks, BackupFails(t)
  PROVE  WorkInv'
<1> USE StoreFilesAssumption
    DEF IInv, WorkInv, TypeInv, TypeOK, Database, Copy, TaskRows, BackupFails, TaskMoves, Idle
<1>1. MutexHeld'
  BY DEF MutexHeld
<1>2. TaskServed'
  BY DEF TaskServed, Serving, opening
<1>3. TaskGrounded'
  BY DEF TaskGrounded
<1>4. CopyFresh'
  BY DEF CopyFresh, MutexHeld
<1>5. CommittedReadable'
  BY DEF CommittedReadable, TaskGrounded
<1> QED
  BY <1>1, <1>2, <1>3, <1>4, <1>5

\* Opening changes neither the rows nor what a served daemon has open; only
\* the end of the daemon ends its tasks, all at once.
LEMMA OpeningKeepsWork ==
  ASSUME IInv, FileInv', NEW p \in Processes, Opening(p)
  PROVE  WorkInv'
<1> USE DEF IInv, WorkInv
<1>1. CASE Exit(p)
  <2>1. CASE dataLock = p
    <3>1. task' = [t \in Tasks |-> Idle] /\ \A t \in Tasks : task'[t].at = "idle"
      BY <1>1, <2>1 DEF Exit, Idle
    <3>2. UNCHANGED <<database, blobs, backups, damaged>>
      BY <1>1 DEF Exit, history
    <3>3. MutexHeld' /\ TaskServed' /\ TaskGrounded' /\ CopyFresh'
      BY <3>1 DEF MutexHeld, TaskServed, TaskGrounded, CopyFresh
    <3> QED
      BY <3>2, <3>3 DEF CommittedReadable
  <2>2. CASE dataLock # p
    <3>1. UNCHANGED <<database, blobs, backups, damaged, dataLock, mutex, task>>
      BY <1>1, <2>2 DEF Exit, history, working
    <3>2. TaskServed'
      BY <1>1, <2>2, <3>1 DEF Exit, TaskServed, Serving, TypeInv, TypeOK
    <3> QED
      BY <3>1, <3>2 DEF MutexHeld, TaskGrounded, CopyFresh, CommittedReadable
  <2> QED
    BY <2>1, <2>2
<1>2. CASE ~Exit(p)
  <2>1. /\ UNCHANGED <<blobs, backups, damaged, mutex, task>>
        /\ database'.rows = database.rows
        /\ Serving => dataLock' = dataLock
        /\ \A q \in Processes : stage[q] = "open" => stage'[q] = "open"
    BY <1>2, StoreFilesAssumption
    DEF Opening, StartDaemon, StartCommand, Preflight, SnapshotSource, CheckSource, CopySource,
        StageStep, PublishSnapshot, MigrateV2, CreateMeta, InsertVersion, CreateTables, Migrate, FinishOpen, OpenStep, Serving,
        working, history, TypeInv, TypeOK
  <2>2. Serving => Serving' /\ database.version = SchemaVersion /\ database'.version = SchemaVersion
    BY <2>1, ServedIsCurrent DEF Serving, FileInv, OpenIsComplete
  <2>3. TaskServed'
    BY <2>1, <2>2 DEF TaskServed
  <2>4. CopyFresh'
    BY <2>1, <2>2 DEF CopyFresh, TaskServed
  <2> QED
    BY <2>1, <2>3, <2>4 DEF MutexHeld, TaskGrounded, CommittedReadable
<1> QED
  BY <1>1, <1>2

LEMMA WorkStep ==
  ASSUME IInv, [Next]_vars
  PROVE  WorkInv'
<1>1. TypeInv' /\ FileInv'
  BY TypeStep, FileStep
<1>2. ASSUME NEW p \in Processes, Opening(p) PROVE WorkInv'
  BY <1>1, <1>2, OpeningKeepsWork
<1>3. ASSUME NEW t \in Tasks, Working(t) PROVE WorkInv'
  BY <1>1, <1>3, PutBlobKeeps, CommitRowKeeps, RollBackKeeps, CheckDestinationKeeps,
     SnapshotDatabaseKeeps, CopyObjectsKeeps, VerifyStagedKeeps, PublishBackupKeeps, BackupFailsKeeps
  DEF Working
<1>4. ASSUME NEW b \in Blobs, Damage(b) PROVE WorkInv'
  BY <1>4
  DEF Damage, IInv, WorkInv, TypeInv, TypeOK, MutexHeld, TaskServed, TaskGrounded, CopyFresh,
      CommittedReadable, Serving, opening, working
<1>5. ASSUME NEW d \in Destinations, Occupy(d) PROVE WorkInv'
  BY <1>5
  DEF Occupy, IInv, WorkInv, TypeInv, TypeOK, MutexHeld, TaskServed, TaskGrounded, CopyFresh,
      CommittedReadable, Serving, opening, working, history
<1>6. CASE UNCHANGED vars
  BY <1>6
  DEF vars, IInv, WorkInv, MutexHeld, TaskServed, TaskGrounded, CopyFresh,
      CommittedReadable, Serving, opening, working, history
<1> QED
  BY <1>2, <1>3, <1>4, <1>5, <1>6 DEF Next

-----------------------------------------------------------------------------
(* The theorems.                                                           *)

LEMMA Initially == Init => IInv
<1> SUFFICES ASSUME Init PROVE IInv
  OBVIOUS
<1>1. database \in Database
  <2>1. database \in Databases
    BY DEF Init
  <2>2. CASE database = [meta |-> FALSE, version |-> 0, tables |-> FALSE, rows |-> {}]
    BY <2>2 DEF Database, SchemaVersion
  <2>3. CASE database \in [meta : {TRUE}, version : 1 .. SchemaVersion - 1, tables : {FALSE},
                           rows : SUBSET Blobs]
    <3>0. /\ database.meta = TRUE
          /\ database.version \in 1 .. SchemaVersion - 1
          /\ database.tables = FALSE
          /\ database.rows \in SUBSET Blobs
      BY <2>3
    <3>1. database.version \in 0 .. SchemaVersion
      BY <3>0, SMT DEF SchemaVersion
    <3>2. database.meta \in BOOLEAN /\ database.tables \in BOOLEAN
      BY <3>0, Zenon
    <3>3. database = [meta |-> database.meta, version |-> database.version,
                      tables |-> database.tables, rows |-> database.rows]
      BY <2>3
    <3> QED
      BY <3>0, <3>1, <3>2, <3>3 DEF Database
  <2> QED
    BY <2>1, <2>2, <2>3 DEF Databases
<1>2. TypeInv
  BY <1>1, IdleTyped
  DEF Init, TypeInv, TypeOK, Stages, Database, NoCopy, Copy, SchemaVersion
<1>3. FileInv
  BY DEF Init, FileInv, LockHeld, ActsOnCurrentVersion, StagedReady, SchemaProgress,
         OpenIsComplete, Secure, Inside, Staging, Secured, Databases, SchemaVersion
<1>4. WorkInv
  <2>1. \A t \in Tasks : task[t].at = "idle"
    BY DEF Init, Idle
  <2>2. CommittedReadable
    BY <1>1 DEF Init, CommittedReadable, Database
  <2> QED
    BY <2>1, <2>2 DEF Init, WorkInv, MutexHeld, TaskServed, TaskGrounded, CopyFresh
<1> QED
  BY <1>2, <1>3, <1>4 DEF IInv

\* In every reachable state the files, the locks and the connection tasks
\* agree: the inductive invariant behind the theorems below.
THEOREM FilesAgree == Spec => []IInv
<1>1. IInv /\ [Next]_vars => IInv'
  BY TypeStep, FileStep, WorkStep DEF IInv
<1> QED
  BY <1>1, Initially, PTL DEF Spec

\* Types hold for any number of processes, tasks, blobs and destinations.
THEOREM TypesHold == Spec => []TypeOK
<1>1. IInv => TypeOK
  BY DEF IInv, TypeInv
<1> QED
  BY <1>1, FilesAgree, PTL

\* Whatever processes were interrupted, and wherever, a store that a migration
\* has moved on has a snapshot as the older program left it, which lacks no
\* object but those lost between its check and its copy.
THEOREM MigratedIsRecoverable == Spec => []RecoverySnapshot
<1>1. IInv => RecoverySnapshot
  BY DEF IInv, FileInv, Secure, HasRecovery, RecoverySnapshot
<1> QED
  BY <1>1, FilesAgree, PTL

\* An opening process acts on the version it read, and an opened store has
\* every table and the current version.
THEOREM OpeningIsSound == Spec => [](ActsOnCurrentVersion /\ OpenIsComplete)
<1>1. IInv => ActsOnCurrentVersion /\ OpenIsComplete
  BY DEF IInv, FileInv
<1> QED
  BY <1>1, FilesAgree, PTL

\* A committed row refers to content that was written before it.
THEOREM RowsReadable == Spec => []CommittedReadable
<1>1. IInv => CommittedReadable
  BY DEF IInv, WorkInv
<1> QED
  BY <1>1, FilesAgree, PTL

\* A step that publishes a backup publishes the store as it is.
LEMMA PublishesCurrent ==
  ASSUME IInv, [Next]_vars, NEW d \in Destinations,
         backups'[d] # backups[d], backups'[d] # Foreign
  PROVE  backups'[d].rows = database.rows /\ backups'[d].from = database.version
<1>1. ASSUME NEW t \in Tasks, PublishBackup(t)
      PROVE  backups'[d].rows = database.rows /\ backups'[d].from = database.version
  <2>1. task[t].at = "verified" /\ backups' = [backups EXCEPT ![task[t].destination] = task[t].copy]
    BY <1>1 DEF PublishBackup, TaskMoves
  <2>2. backups'[d] = task[t].copy
    BY <2>1 DEF IInv, TypeInv, TypeOK
  <2> QED
    BY <2>1, <2>2 DEF IInv, WorkInv, CopyFresh
<1>2. CASE \A t \in Tasks : ~PublishBackup(t)
  <2>1. ASSUME NEW e \in Destinations, Occupy(e) PROVE FALSE
    BY <2>1 DEF Occupy, IInv, TypeInv, TypeOK
  <2>2. ASSUME NEW p \in Processes, Opening(p) PROVE FALSE
    BY <2>2
    DEF Opening, StartDaemon, StartCommand, Preflight, SnapshotSource, CheckSource, CopySource,
        StageStep, PublishSnapshot, MigrateV2, CreateMeta, InsertVersion, CreateTables, Migrate, FinishOpen, Exit, OpenStep
  <2>3. ASSUME NEW t \in Tasks, Working(t) PROVE FALSE
    BY <1>2, <2>3
    DEF Working, PutBlob, CommitRow, RollBack, CheckDestination, SnapshotDatabase,
        CopyObjects, VerifyStaged, BackupFails
  <2> QED
    BY <2>1, <2>2, <2>3 DEF Next, Damage, vars
<1> QED
  BY <1>1, <1>2

\* A backup shows the store at the moment it is published.
THEOREM BackupsAreCurrent == Spec => BackupIsCurrent
<1>1. IInv /\ [Next]_vars =>
        [\A d \in Destinations :
           backups'[d] # backups[d] /\ backups'[d] # Foreign
           => backups'[d].rows = database.rows /\ backups'[d].from = database.version]_vars
  BY PublishesCurrent
<1> QED
  BY <1>1, FilesAgree, PTL DEF Spec, BackupIsCurrent

\* What is at a destination stays as it is, whoever put it there.
THEOREM DestinationsStay == Spec => DestinationsKept
<1>1. ASSUME IInv, [Next]_vars, NEW d \in Destinations, backups[d] # Nothing
      PROVE  backups'[d] = backups[d]
  <2>1. ASSUME NEW t \in Tasks, Working(t) PROVE backups'[d] = backups[d]
    <3>1. CASE PublishBackup(t)
      <4>1. task[t].destination # d
        BY <1>1, <3>1 DEF PublishBackup
      <4> QED
        BY <4>1, <1>1, <3>1 DEF PublishBackup, IInv, TypeInv, TypeOK
    <3> QED
      BY <2>1, <3>1
      DEF Working, PutBlob, CommitRow, RollBack, CheckDestination, SnapshotDatabase,
          CopyObjects, VerifyStaged, BackupFails
  <2>2. ASSUME NEW e \in Destinations, Occupy(e) PROVE backups'[d] = backups[d]
    BY <1>1, <2>2 DEF Occupy, IInv, TypeInv, TypeOK
  <2>3. ASSUME NEW p \in Processes, Opening(p) PROVE backups'[d] = backups[d]
    BY <2>3
    DEF Opening, StartDaemon, StartCommand, Preflight, SnapshotSource, CheckSource, CopySource,
        StageStep, PublishSnapshot, MigrateV2, CreateMeta, InsertVersion, CreateTables, Migrate, FinishOpen, Exit, OpenStep
  <2> QED
    BY <1>1, <2>1, <2>2, <2>3 DEF Next, Damage, vars
<1>2. IInv /\ [Next]_vars =>
        [\A d \in Destinations : backups[d] # Nothing => backups'[d] = backups[d]]_vars
  BY <1>1
<1> QED
  BY <1>2, FilesAgree, PTL DEF Spec, DestinationsKept
=============================================================================
