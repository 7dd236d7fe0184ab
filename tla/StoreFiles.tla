----------------------------- MODULE StoreFiles -----------------------------
(***************************************************************************)
(* What Store::open, the mutations and backup_create leave on disk         *)
(* (src/src/store.rs, src/src/cas.rs), when a process may end between any  *)
(* two of their steps.                                                     *)
(*                                                                         *)
(* A data directory has one database, one content-addressed store (CAS) of *)
(* external blobs and the recovery snapshots of its migrations.  Any       *)
(* process may open it: a daemon, which holds the data lock and writes,    *)
(* and local commands, which open it without that lock and write no        *)
(* authority.  Opening is serialized by the migration lock.                *)
(*                                                                         *)
(* Abstractions: the authority rows are the set of digests they refer to;  *)
(* a migration rewrites rows without adding or dropping any (module        *)
(* Migration has what it makes of conflicts); a copy of the CAS is one     *)
(* step, as an object lost while it runs is either copied already or lost  *)
(* before it; inline blobs are part of their row; free space and           *)
(* permissions are left out.                                               *)
(***************************************************************************)
EXTENDS Naturals, FiniteSets

CONSTANTS
  Processes,     \* processes of the current program that may open the store
  Tasks,         \* connection tasks of the daemon
  Blobs,         \* digests of content above the inline threshold
  Destinations,  \* paths callers ask a backup for
  Nobody,        \* holder of a lock that is free
  Nothing,       \* content of a path that does not exist
  Foreign        \* content of a path that something else created

ASSUME StoreFilesAssumption ==
  /\ Nobody \notin Processes \cup Tasks
  /\ Nothing # Foreign

SchemaVersion == 5

VARIABLES
  database,       \* the SQLite file: meta table, version row, tables, rows
  blobs,          \* the file of each digest in the CAS
  snapshots,      \* contents of the directories below migration-backups
  backups,        \* what is at each destination
  dataLock,       \* memoreed.lock
  migrationLock,  \* schema-migration.lock
  stage,          \* where each process is in Store::open
  seen,           \* existing_schema_version, as the preflight read it; 0: none
  staged,         \* the snapshot a process is staging; history: the objects
                  \* lost after it was checked and before it was copied
  mutex,          \* the connection mutex of the daemon
  task,           \* where each connection task is
  origin,         \* history: the database as the first process found it
  damaged         \* history: digests whose file was lost or overwritten

opening == <<dataLock, migrationLock, stage, seen, staged>>
working == <<mutex, task>>
history == <<origin, damaged>>
vars == <<database, blobs, snapshots, backups, opening, working, history>>

Copy == [from : 0 .. SchemaVersion, rows : SUBSET Blobs, blobs : SUBSET Blobs,
         lost : SUBSET Blobs]
NoCopy == [from |-> 0, rows |-> {}, blobs |-> {}, lost |-> {}]

SnapshotOf(version, db) == [NoCopy EXCEPT !.from = version, !.rows = db.rows]

Idle == [at |-> "idle", blob |-> Nothing, destination |-> Nothing, copy |-> NoCopy]

Intact == {b \in Blobs : blobs[b] = "intact"}

\* Faulty variant: what is referenced is not looked up.
NotLookedUp == TRUE

\* verify_referenced_external_blobs: each object a row refers to is there and
\* matches its digest.
ReferencedIntact == database.rows \subseteq Intact

\* copy_external_to copies the objects there are, unless one of them does not
\* match its digest.
Copyable == \A b \in Blobs : blobs[b] # "corrupt"

-----------------------------------------------------------------------------
(* Opening.                                                                *)

\* serve_daemon takes the data lock or gives up; a command takes none.
StartDaemon(p) ==
  /\ stage[p] = "idle"
  /\ dataLock = Nobody
  /\ dataLock' = p
  /\ stage' = [stage EXCEPT ![p] = "waiting"]
  /\ UNCHANGED <<database, blobs, snapshots, backups, migrationLock, seen, staged,
                 working, history>>

StartCommand(p) ==
  /\ stage[p] = "idle"
  /\ stage' = [stage EXCEPT ![p] = "waiting"]
  /\ UNCHANGED <<database, blobs, snapshots, backups, dataLock, migrationLock, seen,
                 staged, working, history>>

\* preflight_schema_version: an empty file or a version this program knows.
Recognized == database.meta => database.version \in 1 .. SchemaVersion

Outdated == database.version \in 1 .. SchemaVersion - 1

\* Faulty variant: a store of the current version needs no SCHEMA pass.
PreflightCurrentSkips(p) ==
  /\ stage[p] = "waiting" /\ migrationLock = Nobody /\ Recognized
  /\ migrationLock' = p
  /\ seen' = [seen EXCEPT ![p] = database.version]
  /\ stage' = [stage EXCEPT ![p] =
                 IF Outdated THEN "preflighted"
                 ELSE IF database.version = SchemaVersion THEN "migrating" ELSE "prepared"]
  /\ UNCHANGED <<database, blobs, snapshots, backups, dataLock, staged, working, history>>

\* The migration lock, then the preflight; an older store is snapshotted.
Preflight(p) ==
  /\ stage[p] = "waiting"
  /\ migrationLock = Nobody
  /\ Recognized
  /\ migrationLock' = p
  /\ seen' = [seen EXCEPT ![p] = database.version]
  /\ stage' = [stage EXCEPT ![p] = IF Outdated THEN "preflighted" ELSE "prepared"]
  /\ UNCHANGED <<database, blobs, snapshots, backups, dataLock, staged, working, history>>

\* create_pre_migration_backup, in a staging directory: the SQLite snapshot,
\* the check of what the source refers to, and the copy of the CAS.  What is
\* verified afterwards are the objects that were copied.
StageStep(p, from, to, copy) ==
  /\ stage[p] = from
  /\ stage' = [stage EXCEPT ![p] = to]
  /\ staged' = [staged EXCEPT ![p] = copy]
  /\ UNCHANGED <<database, blobs, snapshots, backups, dataLock, migrationLock, seen,
                 working, history>>

SnapshotSource(p) ==
  StageStep(p, "preflighted", "snapshotted", SnapshotOf(seen[p], database))

CheckSource(p) ==
  ReferencedIntact /\ StageStep(p, "snapshotted", "checked", staged[p])

CopySource(p) ==
  Copyable /\ StageStep(p, "checked", "staged", [staged[p] EXCEPT !.blobs = Intact])

\* Its atomic publication, under a name that no other snapshot has.
PublishSnapshot(p) ==
  /\ stage[p] = "staged"
  /\ snapshots' = snapshots \cup {staged[p]}
  /\ staged' = [staged EXCEPT ![p] = NoCopy]
  /\ stage' = [stage EXCEPT ![p] = "prepared"]
  /\ UNCHANGED <<database, blobs, backups, dataLock, migrationLock, seen, working, history>>

\* One statement or transaction of Store::open on the database.
OpenStep(p, from, to, db) ==
  /\ stage[p] = from
  /\ stage' = [stage EXCEPT ![p] = to]
  /\ database' = db
  /\ UNCHANGED <<blobs, snapshots, backups, dataLock, migrationLock, seen, staged,
                 working, history>>

\* migrate_schema_v2_to_v3, before the SCHEMA pass.
MigrateV2(p) ==
  /\ seen[p] = 2
  /\ OpenStep(p, "prepared", "rebuilt", [database EXCEPT !.version = 3])

\* The SCHEMA pass: execute_batch commits statement by statement.  The meta
\* table is the first statement, its version row the second, if it has none.
CreateMeta(p) ==
  /\ stage[p] = "prepared" => seen[p] # 2
  /\ \E from \in {"prepared", "rebuilt"} :
       OpenStep(p, from, "meta", [database EXCEPT !.meta = TRUE])

InsertVersion(p) ==
  OpenStep(p, "meta", "versioned",
           [database EXCEPT !.version = IF @ = 0 THEN SchemaVersion ELSE @])

CreateTables(p) == OpenStep(p, "versioned", "migrating", [database EXCEPT !.tables = TRUE])

\* migrate_schema: one transaction per step, 1 to 3, 3 to 4 and 4 to 5.
Migrate(p) ==
  /\ Outdated
  /\ OpenStep(p, "migrating", "migrating",
              [database EXCEPT !.version = IF @ = 1 THEN 3 ELSE @ + 1])

\* The check of the version; the lock goes with the file handle.
FinishOpen(p) ==
  /\ stage[p] = "migrating"
  /\ database.version = SchemaVersion
  /\ stage' = [stage EXCEPT ![p] = "open"]
  /\ migrationLock' = IF migrationLock = p THEN Nobody ELSE migrationLock
  /\ UNCHANGED <<database, blobs, snapshots, backups, dataLock, seen, staged,
                 working, history>>

\* A process ends: it is done, refused by a check, or killed.  The kernel
\* drops its locks; what it staged is no longer used by anyone.
Exit(p) ==
  /\ stage[p] # "idle"
  /\ stage' = [stage EXCEPT ![p] = "idle"]
  /\ seen' = [seen EXCEPT ![p] = 0]
  /\ staged' = [staged EXCEPT ![p] = NoCopy]
  /\ migrationLock' = IF migrationLock = p THEN Nobody ELSE migrationLock
  /\ IF dataLock = p
     THEN dataLock' = Nobody /\ mutex' = Nobody /\ task' = [t \in Tasks |-> Idle]
     ELSE UNCHANGED <<dataLock, working>>
  /\ UNCHANGED <<database, blobs, snapshots, backups, history>>

-----------------------------------------------------------------------------
(* The daemon at work.  A mutation and a backup hold the connection mutex  *)
(* from their first to their last step.                                    *)

Serving == \E p \in Processes : dataLock = p /\ stage[p] = "open"

TaskMoves(t, from, to) ==
  /\ Serving
  /\ task[t].at = from
  /\ task' = [task EXCEPT ![t] = to]
  /\ UNCHANGED <<snapshots, opening, origin>>

\* A mutation with content b inside its transaction: Cas::put writes the
\* object or finds it; one that does not match its digest is an error.
PutBlob(t, b) ==
  /\ mutex = Nobody
  /\ blobs[b] # "corrupt"
  /\ TaskMoves(t, "idle", [Idle EXCEPT !.at = "put", !.blob = b])
  /\ mutex' = t
  /\ blobs' = [blobs EXCEPT ![b] = "intact"]
  /\ UNCHANGED <<database, backups, damaged>>

\* The transaction commits.
CommitRow(t) ==
  /\ TaskMoves(t, "put", Idle)
  /\ database' = [database EXCEPT !.rows = @ \cup {task[t].blob}]
  /\ mutex' = Nobody
  /\ UNCHANGED <<blobs, backups, damaged>>

\* A later statement fails: the transaction rolls back, the object stays.
RollBack(t) ==
  /\ TaskMoves(t, "put", Idle)
  /\ mutex' = Nobody
  /\ UNCHANGED <<database, blobs, backups, damaged>>

\* backup_create: the destination is checked before the mutex is taken.
CheckDestination(t, d) ==
  /\ backups[d] = Nothing
  /\ TaskMoves(t, "idle", [Idle EXCEPT !.at = "checked", !.destination = d])
  /\ UNCHANGED <<database, blobs, backups, mutex, damaged>>

\* Faulty variant: the mutex is given back as soon as SQLite is copied.
SnapshotBriefly(t) ==
  /\ mutex = Nobody
  /\ TaskMoves(t, "checked",
               [task[t] EXCEPT !.at = "snapshotted",
                               !.copy = SnapshotOf(database.version, database)])
  /\ UNCHANGED <<database, blobs, backups, mutex, damaged>>

\* Under the mutex, the commit sequence and the SQLite snapshot.
SnapshotDatabase(t) ==
  /\ mutex = Nobody
  /\ TaskMoves(t, "checked",
               [task[t] EXCEPT !.at = "snapshotted",
                               !.copy = SnapshotOf(database.version, database)])
  /\ mutex' = t
  /\ UNCHANGED <<database, blobs, backups, damaged>>

CopyObjects(t) ==
  /\ Copyable
  /\ TaskMoves(t, "snapshotted",
               [task[t] EXCEPT !.at = "copied", !.copy.blobs = Intact])
  /\ UNCHANGED <<database, blobs, backups, mutex, damaged>>

\* The staged store is opened and verified as a restore would.
VerifyStaged(t) ==
  /\ task[t].copy.rows \subseteq task[t].copy.blobs
  /\ TaskMoves(t, "copied", [task[t] EXCEPT !.at = "verified"])
  /\ UNCHANGED <<database, blobs, backups, mutex, damaged>>

\* atomic_publish_backup: a rename that refuses an existing destination.
PublishBackup(t) ==
  /\ TaskMoves(t, "verified", Idle)
  /\ backups[task[t].destination] = Nothing
  /\ backups' = [backups EXCEPT ![task[t].destination] = task[t].copy]
  /\ mutex' = Nobody
  /\ UNCHANGED <<database, blobs, damaged>>

\* Any error of a backup removes its staging directory and gives up.
BackupFails(t) ==
  /\ \E at \in {"checked", "snapshotted", "copied", "verified"} : TaskMoves(t, at, Idle)
  /\ mutex' = IF mutex = t THEN Nobody ELSE mutex
  /\ UNCHANGED <<database, blobs, backups, damaged>>

-----------------------------------------------------------------------------
(* The world around the program.                                           *)

\* An object of the CAS is lost or overwritten.
Damage(b) ==
  /\ blobs[b] = "intact"
  /\ \E state \in {"absent", "corrupt"} : blobs' = [blobs EXCEPT ![b] = state]
  /\ damaged' = damaged \cup {b}
  /\ staged' = [p \in Processes |->
                  IF stage[p] = "checked" THEN [staged[p] EXCEPT !.lost = @ \cup {b}]
                  ELSE staged[p]]
  /\ UNCHANGED <<database, snapshots, backups, dataLock, migrationLock, stage, seen,
                 working, origin>>

\* Something else creates a destination.
Occupy(d) ==
  /\ backups[d] = Nothing
  /\ backups' = [backups EXCEPT ![d] = Foreign]
  /\ UNCHANGED <<database, blobs, snapshots, opening, working, history>>

-----------------------------------------------------------------------------
\* No database yet, or one an older or this program completed.
Databases ==
  {[meta |-> FALSE, version |-> 0, tables |-> FALSE, rows |-> {}]}
  \cup [meta : {TRUE}, version : 1 .. SchemaVersion - 1, tables : {FALSE},
        rows : SUBSET Blobs]

Init ==
  /\ database \in Databases
  /\ blobs = [b \in Blobs |-> IF b \in database.rows THEN "intact" ELSE "absent"]
  /\ snapshots = {}
  /\ backups = [d \in Destinations |-> Nothing]
  /\ dataLock = Nobody /\ migrationLock = Nobody
  /\ stage = [p \in Processes |-> "idle"]
  /\ seen = [p \in Processes |-> 0]
  /\ staged = [p \in Processes |-> NoCopy]
  /\ mutex = Nobody
  /\ task = [t \in Tasks |-> Idle]
  /\ origin = database
  /\ damaged = {}

Opening(p) ==
  \/ StartDaemon(p) \/ StartCommand(p) \/ Preflight(p)
  \/ SnapshotSource(p) \/ CheckSource(p) \/ CopySource(p) \/ PublishSnapshot(p)
  \/ MigrateV2(p) \/ CreateMeta(p) \/ InsertVersion(p) \/ CreateTables(p)
  \/ Migrate(p) \/ FinishOpen(p) \/ Exit(p)

Working(t) ==
  \/ \E b \in Blobs : PutBlob(t, b)
  \/ CommitRow(t) \/ RollBack(t)
  \/ \E d \in Destinations : CheckDestination(t, d)
  \/ SnapshotDatabase(t) \/ CopyObjects(t) \/ VerifyStaged(t) \/ PublishBackup(t)
  \/ BackupFails(t)

Next ==
  \/ \E p \in Processes : Opening(p)
  \/ \E t \in Tasks : Working(t)
  \/ \E b \in Blobs : Damage(b)
  \/ \E d \in Destinations : Occupy(d)

Spec == Init /\ [][Next]_vars

-----------------------------------------------------------------------------
(* Invariants.                                                             *)

Stages == {"idle", "waiting", "preflighted", "snapshotted", "checked", "staged", "prepared",
           "rebuilt", "meta", "versioned", "migrating", "open"}

\* Every file and every process is in a state the code has; a version row
\* never goes beyond what this program knows.
TypeOK ==
  /\ database \in [meta : BOOLEAN, version : 0 .. SchemaVersion, tables : BOOLEAN,
                   rows : SUBSET Blobs]
  /\ blobs \in [Blobs -> {"absent", "intact", "corrupt"}]
  /\ snapshots \subseteq Copy
  /\ backups \in [Destinations -> {Nothing, Foreign} \cup Copy]
  /\ dataLock \in Processes \cup {Nobody}
  /\ migrationLock \in Processes \cup {Nobody}
  /\ stage \in [Processes -> Stages]
  /\ seen \in [Processes -> 0 .. SchemaVersion]
  /\ staged \in [Processes -> Copy]
  /\ mutex \in Tasks \cup {Nobody}
  /\ damaged \subseteq Blobs

\* Once any step of a migration has been committed, in however many attempts,
\* there is a snapshot of the store as the older program left it.  It has the
\* objects its rows refer to, except those lost between the check of the source
\* and its copy: what was lost before the check stops the migration.
RecoverySnapshot ==
  origin.version \in 1 .. SchemaVersion - 1 /\ database.version > origin.version =>
    \E s \in snapshots :
      s.from = origin.version /\ s.rows = origin.rows /\ s.rows \subseteq s.blobs \cup s.lost

\* What README.md says of a recovery snapshot: it "retains the old schema,
\* verified SQLite bytes, all external CAS objects".  The code does not give it:
\* no step after the copy asks whether what the rows refer to was copied.
SnapshotRetainsAll == \A s \in snapshots : s.rows \subseteq s.blobs

\* A process migrates by the version it read before its snapshot; no other
\* process has moved the store on since.
ActsOnCurrentVersion ==
  \A p \in Processes :
    stage[p] \in {"preflighted", "snapshotted", "checked", "staged", "prepared"}
    => seen[p] = database.version

\* A store that has been opened is complete, also when earlier processes
\* were interrupted anywhere in their own opening of it: the version row is
\* committed before the tables are.
OpenIsComplete ==
  \A p \in Processes :
    stage[p] = "open" =>
      database.meta /\ database.tables /\ database.version = SchemaVersion

\* No crash leaves a committed row whose content was never written.
CommittedReadable ==
  \A b \in database.rows : blobs[b] = "intact" \/ b \in damaged

-----------------------------------------------------------------------------
(* Action properties.                                                      *)

\* A backup shows the store at the moment it is published: no commit falls
\* between its SQLite snapshot, its copy of the CAS and its publication.
BackupIsCurrent ==
  [][\A d \in Destinations :
       backups'[d] # backups[d] /\ backups'[d] # Foreign
       => backups'[d].rows = database.rows /\ backups'[d].from = database.version]_vars

\* A destination is never replaced, by whomever and whenever it was created.
DestinationsKept ==
  [][\A d \in Destinations : backups[d] # Nothing => backups'[d] = backups[d]]_vars
=============================================================================
