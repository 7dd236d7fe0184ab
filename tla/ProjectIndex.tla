---------------------------- MODULE ProjectIndex ----------------------------
(***************************************************************************)
(* ProjectIndex (src/src/project_index.rs): the disposable index of a      *)
(* working tree, built by one command at a time while the tree is edited,  *)
(* opened by searches without the index lock, and kept up to date by an    *)
(* explicit foreground watcher.                                            *)
(*                                                                         *)
(* Abstractions: a file's content stands for its bytes, chunks and parse;  *)
(* Defines and Calls say which names a content defines and calls, each at  *)
(* one place.  Digests are injective, so a snapshot is the value it        *)
(* hashes.  Untracked files are excluded (the default), `tracked` is the   *)
(* index of Git, which a file leaves only with its removal.  Files outside *)
(* the allowlist, limits of size and number, and the counters of a report  *)
(* are left out.                                                           *)
(***************************************************************************)
EXTENDS FiniteSets, Naturals, Functions

CONSTANTS
  Files,
  Contents,
  Missing,       \* no such file
  Names,         \* identifiers
  Defines,       \* [Contents -> SUBSET Names]
  Calls,         \* [Contents -> SUBSET Names]
  Nothing,       \* no snapshot
  IgnoreTracked, \* .memoreeignore is committed with the project
  MaxEdits,      \* bound on changes of the tree
  MaxFailures    \* bound on failures of Git

VARIABLES
  tree,      \* content of each file
  tracked,   \* files in the index of Git
  head,      \* HEAD
  ignored,   \* files that .memoreeignore names
  changes,   \* changes of the tree, for the bound
  failures,  \* failures of Git, for the bound
  db,        \* the projection: rows, edges and meta rows
  lock,      \* holder of index.lock
  job,       \* where each index operation stands
  reader,    \* a search that opens the database
  watch      \* the watcher

treeVars == <<tree, tracked, head, ignored>>
projectIndexVars ==
  <<tree, tracked, head, ignored, changes, failures, db, lock, job, reader, watch>>

Indexers == {"watcher", "command"}

EmptyRows == [f \in {} |-> Missing]

\* Dropped tables; `schema` says that a compatible version is on record.
NoProjection == [schema |-> FALSE, rows |-> EmptyRows, edges |-> {},
                 snapshot |-> Nothing, read |-> EmptyRows, settled |-> FALSE, whole |-> FALSE]

IdleJob == [at |-> "idle", snapshot |-> Nothing, read |-> EmptyRows, previous |-> EmptyRows,
            settled |-> FALSE, whole |-> FALSE]

-----------------------------------------------------------------------------
(* git_snapshot and list_git_files.                                        *)

\* `git diff --name-only HEAD`: also a file that left the index of Git.
ChangedPaths ==
  {f \in Files : \/ f \in tracked /\ tree[f] # head[f]
                 \/ f \notin tracked /\ head[f] # Missing}

\* Faulty variant: only the files that are there are hashed.
SnapshotOfPresent ==
  [head |-> head, ignored |-> IF IgnoreTracked THEN ignored ELSE {},
   files |-> [f \in {g \in ChangedPaths \ ignored : tree[g] # Missing} |-> tree[f]]]

\* HEAD and the changed files; a committed ignore file is a control file.
Snapshot ==
  [head |-> head, ignored |-> IF IgnoreTracked THEN ignored ELSE {},
   files |-> [f \in ChangedPaths \ ignored |-> tree[f]]]

\* The files an index run reads.
Listing == [f \in {g \in tracked \ ignored : tree[g] # Missing} |-> tree[f]]

-----------------------------------------------------------------------------
(* Edits of the working tree.                                              *)

Changing ==
  /\ changes < MaxEdits /\ changes' = changes + 1
  /\ job' = [p \in Indexers |-> IF job[p].at = "snapped"
                                THEN [job[p] EXCEPT !.settled = FALSE] ELSE job[p]]
  /\ UNCHANGED <<failures, db, lock, reader, watch>>

EditFile(f, content) ==
  /\ content # tree[f]
  /\ tree' = [tree EXCEPT ![f] = content]
  /\ Changing /\ UNCHANGED <<tracked, head, ignored>>

AddFile(f) ==
  /\ f \notin tracked /\ tree[f] # Missing
  /\ tracked' = tracked \cup {f}
  /\ Changing /\ UNCHANGED <<tree, head, ignored>>

CommitTree ==
  /\ head' = [f \in Files |-> IF f \in tracked THEN tree[f] ELSE Missing]
  /\ head' # head
  /\ tracked' = {f \in tracked : tree[f] # Missing}
  /\ Changing /\ UNCHANGED <<tree, ignored>>

IgnoreFile(f) ==
  /\ ignored' = IF f \in ignored THEN ignored \ {f} ELSE ignored \cup {f}
  /\ Changing /\ UNCHANGED <<tree, tracked, head>>

-----------------------------------------------------------------------------
(* rebuild_project_edges.                                                  *)

\* A name resolves in its own file first, else in every file that defines it.
Targets(rows, f, name) ==
  IF name \in Defines[rows[f]] THEN {f}
  ELSE {g \in DOMAIN rows : name \in Defines[rows[g]]}

EdgesFrom(rows, f) ==
  UNION {{[from |-> f, name |-> name, to |-> g,
           confidence |-> IF Cardinality(Targets(rows, f, name)) = 1
                          THEN "inferred" ELSE "ambiguous"] : g \in Targets(rows, f, name)} :
         name \in Calls[rows[f]]}

EdgesOf(rows) == UNION {EdgesFrom(rows, f) : f \in DOMAIN rows}

\* Faulty variant: only the edges of changed files are made again.
EdgesOfChanged(edges, rows, changed) ==
  {e \in edges : e.from \in DOMAIN rows \ changed} \cup UNION {EdgesFrom(rows, f) : f \in changed}

EdgesAfter(edges, rows, changed) == EdgesOf(rows)

-----------------------------------------------------------------------------
(* ProjectIndex::index.                                                    *)

Moves(p, to) == job' = [job EXCEPT ![p].at = to]

StartIndex(p) ==
  /\ job[p].at = "idle" /\ lock = "none"
  /\ lock' = p /\ Moves(p, "locked")

IndexSnapshot(p) ==
  /\ job[p].at = "locked"
  /\ job' = [job EXCEPT ![p].at = "snapped", ![p].snapshot = Snapshot, ![p].settled = TRUE]
  /\ UNCHANGED <<treeVars, changes, failures, db, lock, reader, watch>>

ReadTree(p) ==
  /\ job[p].at = "snapped"
  /\ job' = [job EXCEPT ![p].at = "read", ![p].read = Listing]
  /\ UNCHANGED <<treeVars, changes, failures, db, lock, reader, watch>>

\* open_database: an incompatible projection is dropped, in steps of its own.
Invalidated == IF db.schema THEN db ELSE [NoProjection EXCEPT !.schema = TRUE]

Interrupted(jobs) ==
  [p \in Indexers |-> IF jobs[p].at = "planned" THEN [jobs[p] EXCEPT !.whole = FALSE]
                      ELSE jobs[p]]

OpenForIndex(p) ==
  /\ job[p].at = "read"
  /\ db' = Invalidated
  /\ Moves(p, "opened")
  /\ UNCHANGED <<treeVars, changes, failures, lock, reader, watch>>

ReadPrevious(p) ==
  /\ job[p].at = "opened"
  /\ job' = [job EXCEPT ![p].at = "planned", ![p].previous = db.rows, ![p].whole = TRUE]
  /\ UNCHANGED <<treeVars, changes, failures, db, lock, reader, watch>>

ChangedRows(p) ==
  {f \in DOMAIN job[p].read :
     f \notin DOMAIN job[p].previous \/ job[p].previous[f] # job[p].read[f]}

RemovedRows(p) == DOMAIN job[p].previous \ DOMAIN job[p].read

NewRows(p) ==
  [f \in (DOMAIN db.rows \ RemovedRows(p)) \cup ChangedRows(p) |->
     IF f \in ChangedRows(p) THEN job[p].read[f] ELSE db.rows[f]]

\* One transaction over what was planned.
Committed(p) ==
  [schema |-> TRUE, rows |-> NewRows(p),
   edges |-> EdgesAfter(db.edges, NewRows(p), ChangedRows(p)),
   snapshot |-> job[p].snapshot, read |-> job[p].read,
   settled |-> job[p].settled, whole |-> job[p].whole]

\* The end of an operation, or of its process: the lock goes with it.
Release(p) ==
  /\ lock' = IF lock = p THEN "none" ELSE lock
  /\ job' = [job EXCEPT ![p] = IdleJob]

-----------------------------------------------------------------------------
(* `memoree project index`.                                                *)

CommandStarts ==
  StartIndex("command") /\ UNCHANGED <<treeVars, changes, failures, db, reader, watch>>

CommandCommits ==
  /\ job["command"].at = "planned"
  /\ db' = Committed("command")
  /\ Release("command")
  /\ UNCHANGED <<treeVars, changes, failures, reader, watch>>

CommandFails ==
  /\ job["command"].at # "idle"
  /\ failures < MaxFailures /\ failures' = failures + 1
  /\ Release("command")
  /\ UNCHANGED <<treeVars, changes, db, reader, watch>>

-----------------------------------------------------------------------------
(* Searches and status: the database is opened without the lock.           *)

ReaderOpens ==
  /\ reader = "idle"
  /\ reader' = IF db.schema THEN "idle" ELSE "incompatible"
  /\ UNCHANGED <<treeVars, changes, failures, db, lock, job, watch>>

ReaderInvalidates ==
  /\ reader = "incompatible"
  /\ db' = [NoProjection EXCEPT !.schema = TRUE]
  /\ job' = Interrupted(job)
  /\ reader' = "idle"
  /\ UNCHANGED <<treeVars, changes, failures, lock, watch>>

-----------------------------------------------------------------------------
(* watch_observed.                                                         *)

GitFails == failures < MaxFailures /\ failures' = failures + 1

Watching(to) ==
  watch' = [watch EXCEPT !.at = to] /\ UNCHANGED <<treeVars, changes, db, reader>>

\* The snapshot a watcher starts with is taken as indexed, stale or not.
WatcherStarts ==
  /\ watch.at = "off"
  /\ \/ /\ watch' = [watch EXCEPT !.at = "poll", !.last = Snapshot]
        /\ UNCHANGED failures
     \/ GitFails /\ watch' = [watch EXCEPT !.at = "poll"]
  /\ UNCHANGED <<treeVars, changes, db, lock, job, reader>>

PollFails ==
  /\ watch.at \in {"poll", "debounce"} /\ GitFails
  /\ Watching("poll") /\ UNCHANGED <<lock, job>>

\* The first snapshot after a failed start.
PollFirst ==
  /\ watch.at = "poll" /\ watch.last = Nothing
  /\ watch' = [watch EXCEPT !.last = Snapshot]
  /\ UNCHANGED <<treeVars, changes, failures, db, lock, job, reader>>

PollObserves ==
  /\ watch.at = "poll" /\ watch.last # Nothing /\ Snapshot # watch.last
  /\ watch' = [watch EXCEPT !.at = "debounce", !.observed = Snapshot]
  /\ UNCHANGED <<treeVars, changes, failures, db, lock, job, reader>>

\* The tree still moves: the new snapshot is remembered as the last one.
DebounceMoved ==
  /\ watch.at = "debounce" /\ Snapshot # watch.observed
  /\ watch' = [watch EXCEPT !.at = "poll", !.last = Snapshot]
  /\ UNCHANGED <<treeVars, changes, failures, db, lock, job, reader>>

DebounceSettled ==
  /\ watch.at = "debounce" /\ Snapshot = watch.observed
  /\ Watching("reindex") /\ UNCHANGED <<failures, lock, job>>

WatcherIndexes ==
  /\ watch.at = "reindex"
  /\ StartIndex("watcher")
  /\ Watching("indexing") /\ UNCHANGED failures

\* Faulty variant: a held lock counts as an attempt that need not be repeated.
WatcherMeetsLockOnce ==
  /\ watch.at = "reindex" /\ lock # "none"
  /\ watch' = [watch EXCEPT !.at = "poll", !.last = watch.observed]
  /\ UNCHANGED <<treeVars, changes, failures, db, lock, job, reader>>

\* Another operation holds the lock: a retryable error keeps the last snapshot.
WatcherMeetsLock ==
  /\ watch.at = "reindex" /\ lock # "none"
  /\ Watching("poll") /\ UNCHANGED <<failures, lock, job>>

WatcherCommits ==
  /\ watch.at = "indexing" /\ job["watcher"].at = "planned"
  /\ db' = Committed("watcher")
  /\ watch' = [watch EXCEPT !.at = "poll", !.last = job["watcher"].snapshot]
  /\ Release("watcher")
  /\ UNCHANGED <<treeVars, changes, failures, reader>>

\* An error of Git or of a limit is not retryable: the change is dropped.
WatcherIndexFails ==
  /\ watch.at = "indexing" /\ job["watcher"].at = "locked" /\ GitFails
  /\ watch' = [watch EXCEPT !.at = "poll", !.last = watch.observed, !.dropped = TRUE]
  /\ Release("watcher")
  /\ UNCHANGED <<treeVars, changes, db, reader>>

-----------------------------------------------------------------------------
ProjectIndexInit ==
  /\ tree \in [Files -> Contents] /\ tracked = Files /\ head = tree /\ ignored = {}
  /\ changes = 0 /\ failures = 0
  /\ db = NoProjection
  /\ lock = "none" /\ job = [p \in Indexers |-> IdleJob]
  /\ reader = "idle"
  /\ watch = [at |-> "off", last |-> Nothing, observed |-> Nothing, dropped |-> FALSE]

IndexStep(p) ==
  IndexSnapshot(p) \/ ReadTree(p) \/ OpenForIndex(p) \/ ReadPrevious(p)

WatcherStep ==
  \/ PollFirst \/ PollObserves \/ DebounceMoved \/ DebounceSettled
  \/ WatcherIndexes \/ WatcherMeetsLock \/ IndexStep("watcher") \/ WatcherCommits

ProjectIndexNext ==
  \/ \E f \in Files : \/ \E content \in Contents \cup {Missing} : EditFile(f, content)
                      \/ AddFile(f)
                      \/ IgnoreFile(f)
  \/ CommitTree
  \/ CommandStarts \/ IndexStep("command") \/ CommandCommits \/ CommandFails
  \/ ReaderOpens \/ ReaderInvalidates
  \/ WatcherStarts \/ PollFails \/ WatcherStep \/ WatcherIndexFails

\* Polling and indexing go on; editors, commands and Git are not forced.
\* A command that holds the lock ends.
ProjectIndexFairness ==
  /\ WF_projectIndexVars(WatcherStep)
  /\ WF_projectIndexVars(IndexStep("command") \/ CommandCommits)

ProjectIndexSpec == ProjectIndexInit /\ [][ProjectIndexNext]_projectIndexVars

-----------------------------------------------------------------------------
(* The invariant from which the properties follow.                         *)

Trees == [Files -> Contents \cup {Missing}]

\* What an index run can read and a projection can hold.
FileRows == UNION {[S -> Contents \cup {Missing}] : S \in SUBSET Files}

Snapshots == [head : Trees, ignored : SUBSET Files, files : FileRows]

JobRows ==
  [at : {"idle", "locked", "snapped", "read", "opened", "planned"},
   snapshot : Snapshots \cup {Nothing}, read : FileRows, previous : FileRows,
   settled : BOOLEAN, whole : BOOLEAN]

IndexTypeOK ==
  /\ tree \in Trees /\ head \in Trees
  /\ tracked \subseteq Files /\ ignored \subseteq Files
  /\ db.rows \in FileRows /\ db.read \in FileRows
  /\ job \in [Indexers -> JobRows]

LockHeld == \A p \in Indexers : job[p].at # "idle" => lock = p

\* What leaves the index of Git has left the tree and HEAD.
UntrackedGone == \A f \in Files \ tracked : head[f] = Missing

\* The files of the tree that a snapshot was taken of, where the ignore file
\* is part of the snapshot.
InSnapshot(snap, f) == IF f \in DOMAIN snap.files THEN snap.files[f] ELSE snap.head[f]

Listed(snap) ==
  [f \in {g \in Files \ snap.ignored : InSnapshot(snap, g) # Missing} |-> InSnapshot(snap, f)]

\* What was read was read of the tree of the snapshot, and what was planned is
\* planned against the rows as they are.
JobOK(c) ==
  /\ c.at = "snapped" /\ c.settled => c.snapshot = Snapshot
  /\ c.at \in {"read", "opened", "planned"} /\ c.settled /\ IgnoreTracked =>
       c.read = Listed(c.snapshot)
  /\ c.at = "planned" /\ c.whole => c.previous = db.rows

ProjectionOK ==
  /\ db.whole => db.rows = db.read /\ db.edges = EdgesOf(db.read)
  /\ db.settled /\ IgnoreTracked => db.read = Listed(db.snapshot)

ProjectIndexInv ==
  /\ IndexTypeOK /\ LockHeld /\ UntrackedGone
  /\ \A p \in Indexers : JobOK(job[p])
  /\ ProjectionOK

-----------------------------------------------------------------------------
(* Properties.                                                             *)

\* An incremental update equals a clean rebuild: rows and edges are those of
\* the files one run has read, whatever the runs before it left, unless a
\* reader invalidated the projection between the plan and its transaction.
IncrementalEqualsRebuild ==
  db.snapshot # Nothing /\ db.whole => db.rows = db.read /\ db.edges = EdgesOf(db.read)

\* A projection that is not reported stale holds the files as they are, when
\* they stayed as they were between its snapshot and its reads.
FreshIsCurrent ==
  db.snapshot = Snapshot /\ db.settled /\ db.whole => db.rows = Listing

\* A change that outlasts the debounce is indexed, although other operations
\* hold the lock and polls of Git fail, unless another change follows it or
\* Git fails under the reindex itself.
ConfirmedIsIndexed ==
  (watch.at = "reindex" /\ watch.observed = Snapshot)
    ~> (db.snapshot = Snapshot \/ watch.observed # Snapshot \/ watch.dropped)

=============================================================================
