----------------------------- MODULE LocalProofs ----------------------------
(***************************************************************************)
(* Proofs about what a project keeps beside its store.  ProjectIndex: for  *)
(* any files, contents, edits and failures, an incremental update equals a *)
(* rebuild, and a projection that is not reported stale holds the tracked  *)
(* files as they are.  ProjectMap: for any call graph, a complete facet    *)
(* leaves nothing out, the leads of a mixed query aside.  Semantic: a      *)
(* rebuild that no other overtakes mends whatever a race left.  Metrics: a *)
(* full store stops growing and no step takes a row of a study away.       *)
(***************************************************************************)
EXTENDS Metrics, ProjectIndex, ProjectMap, Semantic, FiniteSetTheorems, TLAPS

-----------------------------------------------------------------------------
(* Rows, snapshots and listings.                                           *)

LEMMA RowsTyped ==
  ASSUME NEW S \in SUBSET Files, NEW found \in [S -> Contents \cup {Missing}]
  PROVE  found \in FileRows
  BY DEF FileRows

LEMMA RowsAreFunctions ==
  ASSUME NEW found \in FileRows
  PROVE  /\ found = [f \in DOMAIN found |-> found[f]] /\ DOMAIN found \subseteq Files
         /\ \A f \in DOMAIN found : found[f] \in Contents \cup {Missing}
  BY DEF FileRows

LEMMA EmptyRowsTyped == EmptyRows \in FileRows
  <1>1. EmptyRows \in [{} -> Contents \cup {Missing}]
    BY DEF EmptyRows
  <1> QED BY <1>1, RowsTyped

LEMMA SnapshotTyped == IndexTypeOK => Snapshot \in Snapshots
  <1> SUFFICES ASSUME IndexTypeOK PROVE Snapshot \in Snapshots
    OBVIOUS
  <1> DEFINE S == ChangedPaths \ ignored
             kept == [f \in S |-> tree[f]]
             ign == IF IgnoreTracked THEN ignored ELSE {}
  <1>1. S \in SUBSET Files
    BY DEF ChangedPaths
  <1>2. kept \in [S -> Contents \cup {Missing}]
    BY <1>1 DEF IndexTypeOK, Trees
  <1>3. kept \in FileRows
    BY <1>1, <1>2, RowsTyped
  <1>4. ign \in SUBSET Files /\ head \in Trees
    BY DEF IndexTypeOK
  <1>5. Snapshot = [head |-> head, ignored |-> ign, files |-> kept]
    BY DEF Snapshot
  <1> HIDE DEF kept, ign
  <1> QED BY <1>3, <1>4, <1>5 DEF Snapshots

LEMMA ListingTyped == IndexTypeOK => Listing \in FileRows
  <1> SUFFICES ASSUME IndexTypeOK PROVE Listing \in FileRows
    OBVIOUS
  <1> DEFINE S == {g \in tracked \ ignored : tree[g] # Missing}
  <1>1. S \in SUBSET Files
    BY DEF IndexTypeOK
  <1>2. Listing \in [S -> Contents \cup {Missing}]
    BY <1>1 DEF IndexTypeOK, Trees, Listing
  <1> QED BY <1>1, <1>2, RowsTyped

\* A snapshot determines what an index run reads, although it names only the
\* files that differ from HEAD.
LEMMA SnapshotDeterminesListing ==
  IndexTypeOK /\ UntrackedGone /\ IgnoreTracked => Listing = Listed(Snapshot)
  <1> SUFFICES ASSUME IndexTypeOK, UntrackedGone, IgnoreTracked
               PROVE  Listing = Listed(Snapshot)
    OBVIOUS
  <1> DEFINE S == ChangedPaths \ ignored
             kept == [f \in S |-> tree[f]]
  <1>1. Snapshot.head = head /\ Snapshot.ignored = ignored /\ Snapshot.files = kept
    BY DEF Snapshot
  <1>2. DOMAIN kept = S /\ \A f \in S : kept[f] = tree[f]
    OBVIOUS
  <1>3. tracked \subseteq Files
    BY DEF IndexTypeOK
  <1>4. ChangedPaths = {f \in tracked : tree[f] # head[f]}
    BY <1>3 DEF ChangedPaths, UntrackedGone
  <1>5. \A f \in Files \ ignored :
          InSnapshot(Snapshot, f) = IF f \in tracked /\ tree[f] # head[f] THEN tree[f] ELSE head[f]
    BY <1>1, <1>2, <1>4 DEF InSnapshot
  <1>6. \A f \in Files \ ignored :
          InSnapshot(Snapshot, f) = IF f \in tracked THEN tree[f] ELSE Missing
    BY <1>5 DEF UntrackedGone
  <1>7. {g \in Files \ Snapshot.ignored : InSnapshot(Snapshot, g) # Missing}
          = {g \in tracked \ ignored : tree[g] # Missing}
    BY <1>1, <1>3, <1>6
  <1>8. \A f \in {g \in tracked \ ignored : tree[g] # Missing} : InSnapshot(Snapshot, f) = tree[f]
    BY <1>3, <1>6
  <1> QED BY <1>7, <1>8 DEF Listing, Listed

\* What is planned against the rows as they are makes them what was read.
LEMMA PlannedRows ==
  ASSUME NEW p \in Indexers, job[p].read \in FileRows, db.rows \in FileRows,
         job[p].previous = db.rows
  PROVE  NewRows(p) = job[p].read
  <1> DEFINE read == job[p].read
             old == db.rows
             changed == ChangedRows(p)
             kept == (DOMAIN old \ RemovedRows(p)) \cup changed
  <1>1. changed = {f \in DOMAIN read : f \notin DOMAIN old \/ old[f] # read[f]}
    BY DEF ChangedRows
  <1>2. RemovedRows(p) = DOMAIN old \ DOMAIN read
    BY DEF RemovedRows
  <1>3. kept = DOMAIN read
    BY <1>1, <1>2
  <1>4. NewRows(p) = [f \in kept |-> IF f \in changed THEN read[f] ELSE old[f]]
    BY DEF NewRows
  <1>5. \A f \in kept : (IF f \in changed THEN read[f] ELSE old[f]) = read[f]
    BY <1>1, <1>3
  <1>6. NewRows(p) = [f \in DOMAIN read |-> read[f]]
    BY <1>3, <1>4, <1>5
  <1> QED BY <1>6, RowsAreFunctions

LEMMA NewRowsTyped ==
  ASSUME NEW p \in Indexers, job[p].read \in FileRows, db.rows \in FileRows
  PROVE  NewRows(p) \in FileRows
  <1> DEFINE kept == (DOMAIN db.rows \ RemovedRows(p)) \cup ChangedRows(p)
  <1>1. kept \in SUBSET Files
    BY RowsAreFunctions DEF ChangedRows
  <1>2. /\ \A f \in ChangedRows(p) : job[p].read[f] \in Contents \cup {Missing}
        /\ \A f \in DOMAIN db.rows : db.rows[f] \in Contents \cup {Missing}
    BY RowsAreFunctions DEF ChangedRows
  <1>3. NewRows(p) \in [kept -> Contents \cup {Missing}]
    BY <1>2 DEF NewRows
  <1> QED BY <1>1, <1>3, RowsTyped

-----------------------------------------------------------------------------
(* Steps.                                                                  *)

\* The fields of a job that goes on.
LEMMA JobTyped ==
  ASSUME ProjectIndexInv, NEW p \in Indexers
  PROVE  job[p] \in JobRows /\ JobOK(job[p])
  BY DEF ProjectIndexInv, IndexTypeOK

\* The tree and the projection stay, and one job goes on.
LEMMA JobStep ==
  ASSUME ProjectIndexInv, UNCHANGED treeVars, UNCHANGED db,
         NEW p \in Indexers, NEW new \in JobRows, JobOK(new),
         job' = [job EXCEPT ![p] = new], new.at # "idle" => lock' = p,
         \A q \in Indexers \ {p} : job[q].at # "idle" => lock' = lock
  PROVE  ProjectIndexInv'
  <1>1. /\ UNCHANGED <<tree, tracked, head, ignored, db>>
        /\ job \in [Indexers -> JobRows]
    BY DEF treeVars, ProjectIndexInv, IndexTypeOK
  <1>2. /\ job' \in [Indexers -> JobRows] /\ job'[p] = new
        /\ \A q \in Indexers \ {p} : job'[q] = job[q]
    BY <1>1
  <1>3. IndexTypeOK' /\ UntrackedGone' /\ ProjectionOK'
    BY <1>1, <1>2 DEF ProjectIndexInv, IndexTypeOK, UntrackedGone, ProjectionOK
  <1>4. LockHeld'
    BY <1>2 DEF ProjectIndexInv, LockHeld
  <1>5. \A c : JobOK(c) => JobOK(c)'
    BY <1>1 DEF JobOK, Snapshot, ChangedPaths
  <1>6. \A q \in Indexers : JobOK(job[q])'
    <2>1. ASSUME NEW q \in Indexers PROVE \A c : c = job'[q] => JobOK(c)
      BY <1>2, JobTyped
    <2> QED BY <1>5, <2>1
  <1> QED BY <1>3, <1>4, <1>6 DEF ProjectIndexInv

\* An edit leaves no job settled between its snapshot and its reads.
LEMMA EditStep ==
  ASSUME ProjectIndexInv, Changing, tree' \in Trees, head' \in Trees,
         tracked' \subseteq Files, ignored' \subseteq Files, UntrackedGone'
  PROVE  ProjectIndexInv'
  <1>1. /\ UNCHANGED <<db, lock>> /\ job \in [Indexers -> JobRows]
        /\ job' = [p \in Indexers |-> IF job[p].at = "snapped"
                                      THEN [job[p] EXCEPT !.settled = FALSE] ELSE job[p]]
    BY DEF Changing, ProjectIndexInv, IndexTypeOK
  <1>2. ASSUME NEW p \in Indexers
        PROVE  /\ job'[p] \in JobRows /\ job'[p].at = job[p].at
               /\ JobOK(job[p]) /\ JobOK(job[p])'
    <2>1. job[p] \in JobRows /\ JobOK(job[p])
      BY JobTyped
    <2>2. CASE job[p].at = "snapped"
      <3>1. PICK c : c = job'[p]
        OBVIOUS
      <3>2. c = [job[p] EXCEPT !.settled = FALSE]
        BY <1>1, <2>2, <3>1
      <3>3. c \in JobRows /\ c.at = "snapped" /\ c.settled = FALSE
        BY <2>1, <2>2, <3>2 DEF JobRows
      <3>4. JobOK(c)'
        BY <3>3 DEF JobOK
      <3> QED BY <2>1, <2>2, <3>1, <3>3, <3>4
    <2>3. CASE job[p].at # "snapped"
      <3>1. PICK c : c = job'[p]
        OBVIOUS
      <3>2. c = job[p]
        BY <1>1, <2>3, <3>1
      <3>3. JobOK(c)'
        BY <1>1, <2>1, <2>3, <3>2 DEF JobOK
      <3> QED BY <2>1, <3>1, <3>2, <3>3
    <2> QED BY <2>2, <2>3
  <1>3. job' \in [Indexers -> JobRows]
    <2>1. DOMAIN job' = Indexers /\ job' = [p \in Indexers |-> job'[p]]
      BY <1>1
    <2> QED BY <1>2, <2>1
  <1>4. IndexTypeOK' /\ ProjectionOK'
    BY <1>1, <1>3 DEF ProjectIndexInv, IndexTypeOK, ProjectionOK
  <1>5. LockHeld'
    BY <1>1, <1>2 DEF ProjectIndexInv, LockHeld
  <1>6. \A p \in Indexers : JobOK(job[p])'
    BY <1>2
  <1> QED BY <1>4, <1>5, <1>6 DEF ProjectIndexInv

LEMMA EditFileStep ==
  ASSUME ProjectIndexInv, NEW f \in Files, NEW content \in Contents \cup {Missing},
         EditFile(f, content)
  PROVE  ProjectIndexInv'
  <1>1. tree' \in Trees
    BY DEF EditFile, ProjectIndexInv, IndexTypeOK, Trees
  <1> QED BY <1>1, EditStep DEF EditFile, ProjectIndexInv, IndexTypeOK, UntrackedGone

LEMMA AddFileStep ==
  ASSUME ProjectIndexInv, NEW f \in Files, AddFile(f)
  PROVE  ProjectIndexInv'
  <1>1. tracked' \subseteq Files /\ UntrackedGone' /\ UNCHANGED <<tree, head, ignored>>
    BY DEF AddFile, ProjectIndexInv, IndexTypeOK, UntrackedGone
  <1> QED BY <1>1, EditStep DEF AddFile, ProjectIndexInv, IndexTypeOK

LEMMA IgnoreFileStep ==
  ASSUME ProjectIndexInv, NEW f \in Files, IgnoreFile(f)
  PROVE  ProjectIndexInv'
  <1>1. ignored' \subseteq Files /\ UntrackedGone' /\ UNCHANGED <<tree, head, tracked>>
    BY DEF IgnoreFile, ProjectIndexInv, IndexTypeOK, UntrackedGone
  <1> QED BY <1>1, EditStep DEF IgnoreFile, ProjectIndexInv, IndexTypeOK

\* A file leaves the index of Git and HEAD with the same commit.
LEMMA CommitTreeStep ==
  ASSUME ProjectIndexInv, CommitTree
  PROVE  ProjectIndexInv'
  <1>1. /\ head' = [f \in Files |-> IF f \in tracked THEN tree[f] ELSE Missing]
        /\ tracked' = {f \in tracked : tree[f] # Missing} /\ UNCHANGED <<tree, ignored>>
    BY DEF CommitTree
  <1>2. tree \in Trees /\ tracked \subseteq Files /\ ignored \subseteq Files
    BY DEF ProjectIndexInv, IndexTypeOK
  <1>3. head' \in Trees /\ tracked' \subseteq Files
    BY <1>1, <1>2 DEF Trees
  <1>4. UntrackedGone'
    BY <1>1 DEF UntrackedGone
  <1> QED BY <1>1, <1>2, <1>3, <1>4, EditStep DEF CommitTree

\* A job goes on without a change of its data.
LEMMA MovesStep ==
  ASSUME ProjectIndexInv, UNCHANGED treeVars, UNCHANGED db, NEW p \in Indexers,
         \/ job[p].at = "idle" /\ lock = "none" /\ lock' = p /\ Moves(p, "locked")
         \/ job[p].at = "read" /\ lock' = lock /\ Moves(p, "opened")
  PROVE  ProjectIndexInv'
  <1> DEFINE c == job[p]
  <1>1. c \in JobRows /\ JobOK(c)
    BY JobTyped
  <1>2. PICK to \in {"locked", "opened"} :
          Moves(p, to) /\ (to = "opened" => c.at = "read") /\ lock' = p
    BY DEF ProjectIndexInv, LockHeld
  <1> DEFINE new == [c EXCEPT !.at = to]
  <1>3. /\ new \in JobRows /\ new.at = to /\ new.snapshot = c.snapshot /\ new.read = c.read
        /\ new.settled = c.settled
    BY <1>1 DEF JobRows
  <1>4. job' = [job EXCEPT ![p] = new]
    BY <1>2 DEF Moves, ProjectIndexInv, IndexTypeOK
  <1>5. \A q \in Indexers \ {p} : job[q].at # "idle" => lock' = lock
    BY DEF ProjectIndexInv, LockHeld, Indexers
  <1> HIDE DEF new
  <1>6. JobOK(new)
    BY <1>1, <1>2, <1>3 DEF JobOK
  <1> QED BY <1>2, <1>3, <1>4, <1>5, <1>6, JobStep

LEMMA IndexSnapshotStep ==
  ASSUME ProjectIndexInv, NEW p \in Indexers, IndexSnapshot(p)
  PROVE  ProjectIndexInv'
  <1> DEFINE c == job[p]
             new == [c EXCEPT !.at = "snapped", !.snapshot = Snapshot, !.settled = TRUE]
  <1>1. c \in JobRows /\ c.at = "locked" /\ lock = p /\ Snapshot \in Snapshots
    BY JobTyped, SnapshotTyped DEF IndexSnapshot, ProjectIndexInv, LockHeld
  <1>2. new \in JobRows /\ new.at = "snapped" /\ new.snapshot = Snapshot
    BY <1>1 DEF JobRows
  <1>3. job' = [job EXCEPT ![p] = new] /\ UNCHANGED <<treeVars, db, lock>>
    BY DEF IndexSnapshot, ProjectIndexInv, IndexTypeOK
  <1> HIDE DEF new
  <1>4. JobOK(new)
    BY <1>2 DEF JobOK
  <1> QED BY <1>1, <1>2, <1>3, <1>4, JobStep

LEMMA ReadTreeStep ==
  ASSUME ProjectIndexInv, NEW p \in Indexers, ReadTree(p)
  PROVE  ProjectIndexInv'
  <1> DEFINE c == job[p]
             new == [c EXCEPT !.at = "read", !.read = Listing]
  <1>1. c \in JobRows /\ JobOK(c) /\ c.at = "snapped" /\ lock = p /\ Listing \in FileRows
    BY JobTyped, ListingTyped DEF ReadTree, ProjectIndexInv, LockHeld
  <1>2. /\ new \in JobRows /\ new.at = "read" /\ new.snapshot = c.snapshot
        /\ new.read = Listing /\ new.settled = c.settled
    BY <1>1 DEF JobRows
  <1>3. job' = [job EXCEPT ![p] = new] /\ UNCHANGED <<treeVars, db, lock>>
    BY DEF ReadTree, ProjectIndexInv, IndexTypeOK
  <1>4. c.settled /\ IgnoreTracked => Listing = Listed(c.snapshot)
    BY <1>1, SnapshotDeterminesListing DEF JobOK, ProjectIndexInv
  <1> HIDE DEF new
  <1>5. JobOK(new)
    BY <1>2, <1>4 DEF JobOK
  <1> QED BY <1>1, <1>2, <1>3, <1>5, JobStep

LEMMA ReadPreviousStep ==
  ASSUME ProjectIndexInv, NEW p \in Indexers, ReadPrevious(p)
  PROVE  ProjectIndexInv'
  <1> DEFINE c == job[p]
             new == [c EXCEPT !.at = "planned", !.previous = db.rows, !.whole = TRUE]
  <1>1. c \in JobRows /\ JobOK(c) /\ c.at = "opened" /\ lock = p /\ db.rows \in FileRows
    BY JobTyped DEF ReadPrevious, ProjectIndexInv, LockHeld, IndexTypeOK
  <1>2. /\ new \in JobRows /\ new.at = "planned" /\ new.snapshot = c.snapshot
        /\ new.read = c.read /\ new.settled = c.settled /\ new.previous = db.rows
    BY <1>1 DEF JobRows
  <1>3. job' = [job EXCEPT ![p] = new] /\ UNCHANGED <<treeVars, db, lock>>
    BY DEF ReadPrevious, ProjectIndexInv, IndexTypeOK
  <1> HIDE DEF new
  <1>4. JobOK(new)
    BY <1>1, <1>2 DEF JobOK
  <1> QED BY <1>1, <1>2, <1>3, <1>4, JobStep

LEMMA IdleJobOK == IdleJob \in JobRows /\ IdleJob.at = "idle" /\ JobOK(IdleJob)
  BY EmptyRowsTyped DEF IdleJob, JobRows, JobOK

\* An operation ends, and the projection is as it was.
LEMMA ReleaseStep ==
  ASSUME ProjectIndexInv, UNCHANGED treeVars, UNCHANGED db, NEW p \in Indexers, Release(p)
  PROVE  ProjectIndexInv'
  <1>1. \A q \in Indexers \ {p} : job[q].at # "idle" => lock' = lock
    BY DEF ProjectIndexInv, LockHeld, Release
  <1> QED BY <1>1, IdleJobOK, JobStep DEF Release

\* The projection changes under jobs that are not planned against it.
LEMMA OthersStay ==
  ASSUME UNCHANGED treeVars, NEW c, JobOK(c), ~(c.at = "planned" /\ c.whole)
  PROVE  JobOK(c)'
  BY DEF JobOK, treeVars, Snapshot, ChangedPaths

\* open_database keeps a compatible projection, or drops it.
LEMMA OpenForIndexStep ==
  ASSUME ProjectIndexInv, NEW p \in Indexers, OpenForIndex(p)
  PROVE  ProjectIndexInv'
  <1> DEFINE c == job[p]
             new == [c EXCEPT !.at = "opened"]
  <1>1. c \in JobRows /\ JobOK(c) /\ c.at = "read" /\ lock = p
    BY JobTyped DEF OpenForIndex, ProjectIndexInv, LockHeld
  <1>2. /\ new \in JobRows /\ new.at = "opened" /\ new.snapshot = c.snapshot
        /\ new.read = c.read /\ new.settled = c.settled
    BY <1>1 DEF JobRows
  <1>3. /\ job' = [job EXCEPT ![p] = new] /\ UNCHANGED <<treeVars, lock>>
        /\ job \in [Indexers -> JobRows]
    BY DEF OpenForIndex, Moves, ProjectIndexInv, IndexTypeOK
  <1> HIDE DEF new
  <1>4. JobOK(new)
    BY <1>1, <1>2 DEF JobOK
  <1>5. /\ job' \in [Indexers -> JobRows] /\ job'[p] = new
        /\ \A q \in Indexers \ {p} : job'[q] = job[q] /\ job[q].at = "idle"
    BY <1>1, <1>2, <1>3 DEF ProjectIndexInv, LockHeld
  <1>6. LockHeld'
    BY <1>1, <1>3, <1>5 DEF LockHeld
  <1>7. \A q \in Indexers : JobOK(job[q])'
    <2>1. ASSUME NEW q \in Indexers, NEW d, d = job'[q] PROVE JobOK(d)'
      <3>1. JobOK(d) /\ d.at # "planned"
        <4>1. CASE q = p
          BY <1>2, <1>4, <1>5, <2>1, <4>1
        <4>2. CASE q # p
          BY <1>5, <2>1, <4>2, JobTyped
        <4> QED BY <4>1, <4>2
      <3> QED BY <1>3, <3>1, OthersStay
    <2> QED BY <2>1
  <1>8. db' = db \/ db' = [NoProjection EXCEPT !.schema = TRUE]
    BY DEF OpenForIndex, Invalidated
  <1>9. db'.rows \in FileRows /\ db'.read \in FileRows /\ ProjectionOK'
    <2>1. CASE db' = db
      BY <2>1 DEF ProjectIndexInv, IndexTypeOK, ProjectionOK
    <2>2. CASE db' = [NoProjection EXCEPT !.schema = TRUE]
      BY <2>2, EmptyRowsTyped DEF NoProjection, ProjectionOK
    <2> QED BY <1>8, <2>1, <2>2
  <1>10. IndexTypeOK' /\ UntrackedGone'
    BY <1>3, <1>5, <1>9 DEF treeVars, ProjectIndexInv, IndexTypeOK, UntrackedGone
  <1> QED BY <1>6, <1>7, <1>9, <1>10 DEF ProjectIndexInv

\* One transaction makes the rows what was planned, and the operation ends.
LEMMA CommitStep ==
  ASSUME ProjectIndexInv, NEW p \in Indexers, job[p].at = "planned", db' = Committed(p),
         Release(p), UNCHANGED treeVars
  PROVE  ProjectIndexInv'
  <1> DEFINE c == job[p]
  <1>1. c \in JobRows /\ JobOK(c) /\ lock = p /\ c.read \in FileRows /\ db.rows \in FileRows
    BY JobTyped DEF ProjectIndexInv, LockHeld, IndexTypeOK, JobRows
  <1>2. /\ db'.rows = NewRows(p) /\ db'.edges = EdgesOf(NewRows(p))
        /\ db'.snapshot = c.snapshot /\ db'.read = c.read
        /\ db'.settled = c.settled /\ db'.whole = c.whole
    BY DEF Committed, EdgesAfter
  <1>3. ProjectionOK'
    <2>1. db'.whole => db'.rows = db'.read /\ db'.edges = EdgesOf(db'.read)
      BY <1>1, <1>2, PlannedRows DEF JobOK
    <2>2. db'.settled /\ IgnoreTracked => db'.read = Listed(db'.snapshot)
      BY <1>1, <1>2 DEF JobOK
    <2>3. (EdgesOf(db.read))' = EdgesOf(db'.read)
      BY DEF EdgesOf, EdgesFrom, Targets
    <2>4. (Listed(db.snapshot))' = Listed(db'.snapshot)
      BY DEF Listed, InSnapshot
    <2> QED BY <2>1, <2>2, <2>3, <2>4 DEF ProjectionOK
  <1>4. db'.rows \in FileRows /\ db'.read \in FileRows
    BY <1>1, <1>2, NewRowsTyped
  <1>5. /\ job' = [job EXCEPT ![p] = IdleJob] /\ UNCHANGED treeVars
        /\ job \in [Indexers -> JobRows]
    BY DEF Release, ProjectIndexInv, IndexTypeOK
  <1>6. /\ job' \in [Indexers -> JobRows] /\ job'[p] = IdleJob
        /\ \A q \in Indexers \ {p} : job'[q] = job[q] /\ job[q].at = "idle"
    BY <1>1, <1>5, IdleJobOK DEF ProjectIndexInv, LockHeld
  <1>7. LockHeld'
    BY <1>6, IdleJobOK DEF LockHeld
  <1>8. \A q \in Indexers : JobOK(job[q])'
    <2>1. ASSUME NEW q \in Indexers, NEW d, d = job'[q] PROVE JobOK(d)'
      <3>1. d.at = "idle"
        BY <1>6, <2>1, IdleJobOK
      <3> QED BY <3>1 DEF JobOK
    <2> QED BY <2>1
  <1>9. IndexTypeOK' /\ UntrackedGone'
    BY <1>4, <1>5, <1>6 DEF treeVars, ProjectIndexInv, IndexTypeOK, UntrackedGone
  <1> QED BY <1>3, <1>7, <1>8, <1>9 DEF ProjectIndexInv

\* A reader that drops the projection tells a planned job's rows from whole ones.
LEMMA ReaderInvalidatesStep ==
  ASSUME ProjectIndexInv, ReaderInvalidates
  PROVE  ProjectIndexInv'
  <1>1. /\ db' = [NoProjection EXCEPT !.schema = TRUE] /\ job' = Interrupted(job)
        /\ UNCHANGED <<treeVars, lock>>
    BY DEF ReaderInvalidates
  <1>2. db'.rows \in FileRows /\ db'.read \in FileRows /\ ProjectionOK'
    BY <1>1, EmptyRowsTyped DEF NoProjection, ProjectionOK
  <1>3. ASSUME NEW q \in Indexers, NEW d, d = job'[q]
        PROVE  d \in JobRows /\ d.at = job[q].at /\ JobOK(d)'
    <2>1. job[q] \in JobRows /\ JobOK(job[q])
      BY JobTyped
    <2>2. CASE job[q].at = "planned"
      <3>1. d = [job[q] EXCEPT !.whole = FALSE]
        BY <1>1, <1>3, <2>2 DEF Interrupted
      <3>2. /\ d \in JobRows /\ d.at = "planned" /\ d.whole = FALSE
            /\ d.read = job[q].read /\ d.snapshot = job[q].snapshot /\ d.settled = job[q].settled
        BY <2>1, <2>2, <3>1 DEF JobRows
      <3>3. JobOK(d)
        BY <2>1, <2>2, <3>2 DEF JobOK
      <3> QED BY <1>1, <2>2, <3>2, <3>3, OthersStay
    <2>3. CASE job[q].at # "planned"
      <3>1. d = job[q]
        BY <1>1, <1>3, <2>3 DEF Interrupted
      <3> QED BY <1>1, <2>1, <2>3, <3>1, OthersStay
    <2> QED BY <2>2, <2>3
  <1>4. job' \in [Indexers -> JobRows]
    BY <1>1, <1>3 DEF Interrupted
  <1>5. LockHeld'
    <2>1. \A q \in Indexers : job'[q].at = job[q].at
      BY <1>3
    <2> QED BY <1>1, <2>1 DEF ProjectIndexInv, LockHeld
  <1>6. \A q \in Indexers : JobOK(job[q])'
    BY <1>3
  <1>7. IndexTypeOK' /\ UntrackedGone'
    BY <1>1, <1>2, <1>4 DEF treeVars, ProjectIndexInv, IndexTypeOK, UntrackedGone
  <1> QED BY <1>2, <1>5, <1>6, <1>7 DEF ProjectIndexInv

\* Nothing that the invariant is about changes.
LEMMA IndexUnchanged ==
  ASSUME ProjectIndexInv, UNCHANGED <<treeVars, db, lock, job>>
  PROVE  ProjectIndexInv'
  <1>1. UNCHANGED <<tree, tracked, head, ignored, db, lock, job>>
    BY DEF treeVars
  <1>2. \A c : JobOK(c) => JobOK(c)'
    BY <1>1 DEF JobOK, Snapshot, ChangedPaths
  <1>3. \A q \in Indexers : JobOK(job[q])'
    BY <1>1, <1>2 DEF ProjectIndexInv
  <1> QED BY <1>1, <1>3 DEF ProjectIndexInv, IndexTypeOK, LockHeld, UntrackedGone, ProjectionOK

-----------------------------------------------------------------------------
(* The specification.                                                      *)

LEMMA IndexInit == ProjectIndexInit => ProjectIndexInv
  <1> SUFFICES ASSUME ProjectIndexInit PROVE ProjectIndexInv
    OBVIOUS
  <1>1. /\ tree \in Trees /\ head \in Trees /\ tracked = Files /\ ignored = {}
        /\ db = NoProjection /\ job = [p \in Indexers |-> IdleJob]
    BY DEF ProjectIndexInit, Trees
  <1>2. /\ db.rows = EmptyRows /\ db.read = EmptyRows
        /\ db.whole = FALSE /\ db.settled = FALSE
    BY <1>1 DEF NoProjection
  <1>3. IndexTypeOK
    BY <1>1, <1>2, IdleJobOK, EmptyRowsTyped DEF IndexTypeOK
  <1> QED BY <1>1, <1>2, <1>3, IdleJobOK
          DEF ProjectIndexInv, LockHeld, UntrackedGone, ProjectionOK

LEMMA IndexStepInv ==
  ASSUME ProjectIndexInv, NEW p \in Indexers, IndexStep(p)
  PROVE  ProjectIndexInv'
  BY IndexSnapshotStep, ReadTreeStep, OpenForIndexStep, ReadPreviousStep DEF IndexStep

LEMMA WatcherInv ==
  ASSUME ProjectIndexInv,
         WatcherStarts \/ PollFails \/ WatcherStep \/ WatcherIndexFails
  PROVE  ProjectIndexInv'
  <1>1. "watcher" \in Indexers
    BY DEF Indexers
  <1>2. CASE \/ WatcherStarts \/ PollFails \/ PollFirst \/ PollObserves
             \/ DebounceMoved \/ DebounceSettled \/ WatcherMeetsLock
    BY <1>2, IndexUnchanged
       DEF WatcherStarts, PollFails, PollFirst, PollObserves, DebounceMoved, DebounceSettled,
           WatcherMeetsLock, Watching
  <1>3. CASE WatcherIndexes
    BY <1>1, <1>3, MovesStep DEF WatcherIndexes, StartIndex, Watching
  <1>4. CASE IndexStep("watcher")
    BY <1>1, <1>4, IndexStepInv
  <1>5. CASE WatcherCommits
    BY <1>1, <1>5, CommitStep DEF WatcherCommits
  <1>6. CASE WatcherIndexFails
    BY <1>1, <1>6, ReleaseStep DEF WatcherIndexFails
  <1> QED BY <1>2, <1>3, <1>4, <1>5, <1>6 DEF WatcherStep

LEMMA IndexNextInv == ProjectIndexInv /\ [ProjectIndexNext]_projectIndexVars => ProjectIndexInv'
  <1> SUFFICES ASSUME ProjectIndexInv, [ProjectIndexNext]_projectIndexVars
               PROVE  ProjectIndexInv'
    OBVIOUS
  <1>1. "command" \in Indexers
    BY DEF Indexers
  <1>2. ASSUME NEW f \in Files,
               \/ \E content \in Contents \cup {Missing} : EditFile(f, content)
               \/ AddFile(f) \/ IgnoreFile(f)
        PROVE  ProjectIndexInv'
    BY <1>2, EditFileStep, AddFileStep, IgnoreFileStep
  <1>3. CASE CommitTree
    BY <1>3, CommitTreeStep
  <1>4. CASE CommandStarts
    BY <1>1, <1>4, MovesStep DEF CommandStarts, StartIndex
  <1>5. CASE IndexStep("command")
    BY <1>1, <1>5, IndexStepInv
  <1>6. CASE CommandCommits
    BY <1>1, <1>6, CommitStep DEF CommandCommits
  <1>7. CASE CommandFails
    BY <1>1, <1>7, ReleaseStep DEF CommandFails
  <1>8. CASE ReaderOpens
    BY <1>8, IndexUnchanged DEF ReaderOpens
  <1>9. CASE ReaderInvalidates
    BY <1>9, ReaderInvalidatesStep
  <1>10. CASE WatcherStarts \/ PollFails \/ WatcherStep \/ WatcherIndexFails
    BY <1>10, WatcherInv
  <1>11. CASE UNCHANGED projectIndexVars
    BY <1>11, IndexUnchanged DEF projectIndexVars, treeVars
  <1> QED BY <1>2, <1>3, <1>4, <1>5, <1>6, <1>7, <1>8, <1>9, <1>10, <1>11 DEF ProjectIndexNext

\* Whatever is edited and whichever operations run, race and fail: a job that
\* is settled has read the tree of its snapshot, and a job that is planned
\* knows the rows as they are.
THEOREM IndexInvHolds == ProjectIndexSpec => []ProjectIndexInv
  BY IndexInit, IndexNextInv, PTL DEF ProjectIndexSpec

\* The incremental update of any projection is the rebuild of the files that
\* were read.
THEOREM IncrementalIsRebuild == ProjectIndexSpec => []IncrementalEqualsRebuild
  <1>1. ProjectIndexInv => IncrementalEqualsRebuild
    BY DEF ProjectIndexInv, ProjectionOK, IncrementalEqualsRebuild
  <1> QED BY <1>1, IndexInvHolds, PTL

\* Where the ignore file is committed, an equal snapshot means equal rows for
\* every tracked file.
THEOREM FreshIsPresent == IgnoreTracked => (ProjectIndexSpec => []FreshIsCurrent)
  <1> SUFFICES ASSUME IgnoreTracked PROVE ProjectIndexSpec => []FreshIsCurrent
    OBVIOUS
  <1>1. ProjectIndexInv => FreshIsCurrent
    <2> SUFFICES ASSUME ProjectIndexInv,
                        db.snapshot = Snapshot, db.settled, db.whole
                 PROVE  db.rows = Listing
      BY DEF FreshIsCurrent
    <2>1. db.rows = db.read /\ db.read = Listed(db.snapshot)
      BY DEF ProjectIndexInv, ProjectionOK
    <2> QED BY <2>1, SnapshotDeterminesListing DEF ProjectIndexInv
  <1> QED BY <1>1, IndexInvHolds, PTL

-----------------------------------------------------------------------------
(* ProjectMap: what a facet that reports itself complete rests on, from the *)
(* first rows to the packet.                                                *)

\* A test that calls a plain symbol: a row of the traversal.
IsLeadRow(row) ==
  /\ row.kind = "behavioral_test_lead" /\ row.related \in TestSymbols /\ row.hops \in Nat
  /\ \E s \in Plain : row.site = <<row.related, s>>

KnownRows(S) == \A row \in S : row \in DirectRows \/ IsLeadRow(row)

\* Each test is a lead once.
OneLeadEach(S) ==
  \A r, s \in S : r.kind = "behavioral_test_lead" /\ s.kind = r.kind /\ r.related = s.related
                  => r = s

\* The direct relations of a facet not marked incomplete are candidates.
DirectKept == \A row \in DirectRows : FacetOf(row) \in complete => row \in rows

\* FacetsComplete of the rows S and the facets C.
SitesShown(S, C) ==
  \A facet \in (Requested \cap C) \ {"leads"} : SitesOf(facet) \subseteq {row.site : row \in S}

LeadsShown(S, C) ==
  "tests" \in intents /\ "leads" \in C => BehavioralTests \subseteq LeadsOf(S)

Shown(S, C) == SitesShown(S, C) /\ LeadsShown(S, C)

WalkNodes == [symbol : Plain \cup {Lead}, chain : Seq(Plain \cup {Lead})]

ProjectMapTypeOK ==
  /\ graph \subseteq PossibleCalls
  /\ walk \in [frontier : SUBSET WalkNodes, next : SUBSET WalkNodes,
               seen : SUBSET (Plain \cup {Lead}), depth : Nat, nodes : Nat]

\* Symbols whose callers the traversal has read.
Visited == walk.seen \ {n.symbol : n \in walk.frontier \cup walk.next}

\* The first hop is from the lead, the later ones are from its callers.
WalkOK ==
  /\ Lead \in walk.seen /\ walk.depth # 0
  /\ \A n \in walk.frontier : n.symbol \in walk.seen /\ (n.symbol = Lead <=> walk.depth = 1)
  /\ \A n \in walk.next : n.symbol \in walk.seen /\ n.symbol # Lead

\* The callers of what was visited are known: to visit, or as leads.
WalkCovers ==
  /\ \A x \in Visited, s \in Plain : <<s, x>> \in graph => s \in walk.seen
  /\ \A x \in Visited \ {Lead}, t \in TestSymbols : <<t, x>> \in graph => t \in KnownLeads

ProjectMapInv ==
  /\ ProjectMapTypeOK
  /\ KnownRows(rows) /\ OneLeadEach(rows) /\ KnownRows(edges)
  /\ at = "asked" => rows = {}
  /\ at \in {"walking", "ranking"} => DirectKept
  /\ at = "walking" => WalkOK /\ ("leads" \in complete => WalkCovers)
  /\ at = "ranking" => LeadsShown(rows, complete)
  /\ at = "verifying" => Shown(rows, complete)
  /\ at \in {"budget", "sent"} => Shown(edges, complete)

LEMMA SymbolFacts ==
  /\ Symbols \subseteq Nat /\ IsFiniteSet(Symbols)
  /\ Lead \notin Plain /\ Lead \notin TestSymbols /\ Plain \cap TestSymbols = {}
  /\ Plain \subseteq Symbols /\ TestSymbols \subseteq Symbols /\ Lead \in Symbols
  BY ProjectMapAssumption DEF Symbols

\* The cap takes every caller when there are no more than it allows.
LEMMA FirstOfAll ==
  ASSUME NEW S \in SUBSET Symbols, NEW n \in Nat, Cardinality(S) <= n
  PROVE  FirstOf(S, n) = S
  <1>1. IsFiniteSet(S)
    BY SymbolFacts, FS_Subset
  <1>2. ASSUME NEW s \in S PROVE Cardinality({t \in S : Before(t, s)}) < n
    <2> DEFINE T == {t \in S : Before(t, s)}
    <2>1. ~Before(s, s)
      <3>1. s \in Nat
        BY SymbolFacts
      <3>2. ~(s < s)
        BY <3>1
      <3> QED BY <3>2, Zenon DEF Before
    <2>2. T \subseteq S /\ T # S
      <3>1. s \notin T
        BY <2>1
      <3>2. T \subseteq S
        OBVIOUS
      <3> QED BY <3>1, <3>2
    <2> HIDE DEF T
    <2>3. IsFiniteSet(T) /\ Cardinality(T) <= Cardinality(S) /\ Cardinality(T) # Cardinality(S)
      BY <1>1, <2>2, FS_Subset
    <2>4. Cardinality(T) \in Nat /\ Cardinality(S) \in Nat
      BY <1>1, <2>3, FS_CardinalityType
    <2>5. Cardinality(T) < n
      BY <2>3, <2>4
    <2> QED BY <2>5 DEF T
  <1> QED BY <1>2 DEF FirstOf

LEMMA FirstOfSubset == ASSUME NEW S, NEW n PROVE FirstOf(S, n) \subseteq S
  BY DEF FirstOf

LEMMA DirectRowShape ==
  ASSUME NEW row \in DirectRows
  PROVE  /\ row.site \in graph
         /\ \/ row = Row("calls", "incoming", row.site[1], row.site, 1) /\ row.site[2] = Lead
            \/ row = Row("calls", "outgoing", row.site[2], row.site, 1) /\ row.site[1] = Lead
            \/ /\ row = Row("tested_by", "outgoing", row.site[1], row.site, 1)
               /\ row.site[2] = Lead /\ row.site[1] \in TestSymbols
  BY DEF DirectRows, Row

LEMMA CallersRow ==
  ASSUME NEW c \in graph, c[2] = Lead
  PROVE  Row("calls", "incoming", c[1], c, 1) \in DirectRows
  BY DEF DirectRows

LEMMA CalleesRow ==
  ASSUME NEW c \in graph, c[1] = Lead
  PROVE  Row("calls", "outgoing", c[2], c, 1) \in DirectRows
  BY DEF DirectRows

LEMMA TestedByRow ==
  ASSUME NEW c \in graph, c[2] = Lead, c[1] \in TestSymbols
  PROVE  Row("tested_by", "outgoing", c[1], c, 1) \in DirectRows
  BY DEF DirectRows

\* The row of a site tells which facet the site belongs to.
LEMMA SiteFacet ==
  ASSUME NEW row, row \in DirectRows \/ IsLeadRow(row),
         NEW facet \in {"callers", "callees", "tests"}, row.site \in SitesOf(facet)
  PROVE  FacetOf(row) = facet
  <1> DEFINE c == row.site
  <1>1. c[1] # c[2] /\ (c[1] = Lead \/ c[2] = Lead)
    BY DEF SitesOf
  <1>2. /\ facet = "callers" => c[2] = Lead /\ c[1] \notin TestSymbols
        /\ facet = "callees" => c[1] = Lead
        /\ facet = "tests" => c[2] = Lead /\ c[1] \in TestSymbols
    BY DEF SitesOf
  <1>3. row \in DirectRows
    <2> SUFFICES ASSUME IsLeadRow(row) PROVE FALSE
      OBVIOUS
    <2>1. PICK s \in Plain : c = <<row.related, s>>
      BY DEF IsLeadRow
    <2>2. c[1] \in TestSymbols /\ c[2] \in Plain
      BY <2>1 DEF IsLeadRow
    <2> QED BY <1>1, <2>2, SymbolFacts
  <1> HIDE DEF c
  <1>4. CASE row = Row("calls", "incoming", c[1], c, 1) /\ c[2] = Lead
    <2>1. FacetOf(row) = IF c[1] \in TestSymbols THEN "tests" ELSE "callers"
      BY <1>4 DEF FacetOf, Row
    <2> QED BY <1>1, <1>2, <1>4, <2>1
  <1>5. CASE row = Row("calls", "outgoing", c[2], c, 1) /\ c[1] = Lead
    <2>1. FacetOf(row) = "callees"
      BY <1>5 DEF FacetOf, Row
    <2> QED BY <1>1, <1>2, <1>5, <2>1
  <1>6. CASE row = Row("tested_by", "outgoing", c[1], c, 1) /\ c[2] = Lead /\ c[1] \in TestSymbols
    <2>1. FacetOf(row) = "tests"
      BY <1>6 DEF FacetOf, Row
    <2> QED BY <1>1, <1>2, <1>6, <2>1
  <1> QED BY <1>3, <1>4, <1>5, <1>6, DirectRowShape DEF c

LEMMA LeadKind ==
  ASSUME NEW row \in DirectRows PROVE row.kind # "behavioral_test_lead"
  BY DirectRowShape DEF Row

\* Rows that are dropped with their marks leave the packet honest.
LEMMA DropShown ==
  ASSUME NEW S, NEW T \in SUBSET S, NEW C, KnownRows(S), Shown(S, C)
  PROVE  Shown(T, C \ MarksOf(S \ T))
  <1> DEFINE D == C \ MarksOf(S \ T)
  <1>1. SitesShown(T, D)
    <2> SUFFICES ASSUME NEW facet \in (Requested \cap D) \ {"leads"}, NEW c \in SitesOf(facet)
                 PROVE  \E row \in T : row.site = c
      BY DEF SitesShown
    <2>1. facet \in {"callers", "callees", "tests"}
      BY DEF Requested
    <2>2. PICK row \in S : row.site = c
      BY DEF Shown, SitesShown
    <2>3. FacetOf(row) = facet
      BY <2>1, <2>2, SiteFacet DEF KnownRows
    <2>4. row \in T
      BY <2>3 DEF MarksOf
    <2> QED BY <2>2, <2>4
  <1>2. LeadsShown(T, D)
    <2> SUFFICES ASSUME "tests" \in intents, "leads" \in D, NEW t \in BehavioralTests
                 PROVE  t \in LeadsOf(T)
      BY DEF LeadsShown
    <2>1. t \in LeadsOf(S)
      BY DEF Shown, LeadsShown
    <2>2. PICK row \in S : row.kind = "behavioral_test_lead" /\ row.related = t
      BY <2>1 DEF LeadsOf
    <2>3. FacetOf(row) = "leads"
      BY <2>2 DEF FacetOf
    <2>4. row \in T
      BY <2>3 DEF MarksOf
    <2> QED BY <2>2, <2>4 DEF LeadsOf
  <1> QED BY <1>1, <1>2 DEF Shown

\* The candidates that the query may list, and of these one for each site.
Candidates == {row \in rows : Priority(row) # NotListed}

RankInv ==
  /\ KnownRows(rows) /\ OneLeadEach(rows)
  /\ DirectKept /\ LeadsShown(rows, complete)

LEMMA Alone ==
  ASSUME NEW row \in Candidates, row.hops \in Nat,
         \A other \in Candidates : SameSite(row, other) => other = row
  PROVE  row \in OnePerSite(Candidates)
  <1>1. \A other \in Candidates : SameSite(row, other) =>
          SortKey(other) = SortKey(row) /\ ReadOrder(other) = ReadOrder(row)
    OBVIOUS
  <1>2. SortKey(row) \in Nat /\ ReadOrder(row) \in Nat
    <2>1. Priority(row) \in Nat /\ Confidence(row) \in Nat
      BY DEF Priority, Confidence, NotListed
    <2>2. ReadOrder(row) \in Nat
      BY DEF ReadOrder
    <2> QED BY <2>1, <2>2 DEF SortKey
  <1>3. ~(SortKey(row) < SortKey(row)) /\ ~(ReadOrder(row) < ReadOrder(row))
    BY <1>2
  <1> QED BY <1>1, <1>3, Zenon DEF OnePerSite

\* A site of the lead has its one row of the direction asked for.
LEMMA CallersSite ==
  ASSUME RankInv, "callers" \in Requested \cap complete, NEW c \in SitesOf("callers")
  PROVE  \E row \in OnePerSite(Candidates) : row.site = c
  <1> DEFINE row == Row("calls", "incoming", c[1], c, 1)
  <1>1. c \in graph /\ c[2] = Lead /\ c[1] # c[2] /\ c[1] \notin TestSymbols
    BY DEF SitesOf
  <1>2. row \in DirectRows /\ FacetOf(row) = "callers"
    <2>1. row \in DirectRows
      BY <1>1, CallersRow
    <2>2. FacetOf(row) = "callers"
      BY <1>1 DEF FacetOf, Row
    <2> QED BY <2>1, <2>2
  <1>3. /\ row.kind = "calls" /\ row.direction = "incoming"
        /\ row.related = c[1] /\ row.site = c /\ row.hops = 1
    BY DEF Row
  <1>4. intents \cap {"mixed", "calls", "callers"} # {}
    BY DEF Requested
  <1>5. row \in Candidates
    <2> HIDE DEF row
    <2>1. Priority(row) # NotListed
      BY <1>1, <1>3, <1>4 DEF Priority, NotListed
    <2> QED BY <1>2, <2>1 DEF Candidates, RankInv, DirectKept
  <1>6. ASSUME NEW other \in Candidates, SameSite(row, other) PROVE other = row
    <2>1. other.site = c /\ (other \in DirectRows \/ IsLeadRow(other))
      BY <1>3, <1>6 DEF SameSite, Candidates, RankInv, KnownRows
    <2>2. other \in DirectRows
      BY <1>1, <2>1, SymbolFacts DEF IsLeadRow
    <2> QED BY <1>1, <2>1, <2>2, DirectRowShape, Zenon
  <1> HIDE DEF row
  <1> QED BY <1>3, <1>5, <1>6, Alone

LEMMA CalleesSite ==
  ASSUME RankInv, "callees" \in Requested \cap complete, NEW c \in SitesOf("callees")
  PROVE  \E row \in OnePerSite(Candidates) : row.site = c
  <1> DEFINE row == Row("calls", "outgoing", c[2], c, 1)
  <1>1. c \in graph /\ c[1] = Lead /\ c[1] # c[2]
    BY DEF SitesOf
  <1>2. row \in DirectRows /\ FacetOf(row) = "callees"
    <2>1. row \in DirectRows
      BY <1>1, CalleesRow
    <2>2. FacetOf(row) = "callees"
      BY <1>1 DEF FacetOf, Row
    <2> QED BY <2>1, <2>2
  <1>3. /\ row.kind = "calls" /\ row.direction = "outgoing"
        /\ row.related = c[2] /\ row.site = c /\ row.hops = 1
    BY DEF Row
  <1>4. intents \cap {"mixed", "calls", "callees"} # {}
    BY DEF Requested
  <1>5. row \in Candidates
    <2> HIDE DEF row
    <2>1. Priority(row) # NotListed
      BY <1>1, <1>3, <1>4 DEF Priority, NotListed
    <2> QED BY <1>2, <2>1 DEF Candidates, RankInv, DirectKept
  <1>6. ASSUME NEW other \in Candidates, SameSite(row, other) PROVE other = row
    <2>1. other.site = c /\ (other \in DirectRows \/ IsLeadRow(other))
      BY <1>3, <1>6 DEF SameSite, Candidates, RankInv, KnownRows
    <2>2. other \in DirectRows
      BY <1>1, <2>1, SymbolFacts DEF IsLeadRow
    <2> QED BY <1>1, <2>1, <2>2, DirectRowShape, Zenon
  <1> HIDE DEF row
  <1> QED BY <1>3, <1>5, <1>6, Alone

\* The call of a test is a row of calls and a row of tested_by; one is kept.
LEMMA TestsSite ==
  ASSUME RankInv, "tests" \in Requested \cap complete, NEW c \in SitesOf("tests")
  PROVE  \E row \in OnePerSite(Candidates) : row.site = c
  <1> DEFINE call == Row("calls", "incoming", c[1], c, 1)
             test == Row("tested_by", "outgoing", c[1], c, 1)
  <1>1. c \in graph /\ c[2] = Lead /\ c[1] # c[2] /\ c[1] \in TestSymbols
    BY DEF SitesOf
  <1>2. /\ test.kind = "tested_by" /\ test.related = c[1] /\ test.site = c
        /\ call.kind = "calls" /\ call.direction = "incoming"
        /\ call.related = c[1] /\ call.site = c
    BY DEF Row
  <1>3. test \in DirectRows
    BY <1>1, TestedByRow
  <1>4. intents \cap {"mixed", "tests"} # {}
    BY DEF Requested
  <1>5. \A other \in Candidates : other.site = c => other \in {call, test}
    <2> SUFFICES ASSUME NEW other \in Candidates, other.site = c PROVE other \in {call, test}
      OBVIOUS
    <2>1. other \in DirectRows \/ IsLeadRow(other)
      BY DEF Candidates, RankInv, KnownRows
    <2>2. other \in DirectRows
      BY <1>1, <2>1, SymbolFacts DEF IsLeadRow
    <2> QED BY <1>1, <2>2, DirectRowShape, Zenon
  <1> HIDE DEF call, test
  <1>6. test \in Candidates
    <2>1. FacetOf(test) = "tests"
      BY <1>2 DEF FacetOf
    <2>2. Priority(test) # NotListed
      BY <1>2, <1>4 DEF Priority, NotListed
    <2> QED BY <1>3, <2>1, <2>2 DEF Candidates, RankInv, DirectKept
  <1>7. SortKey(call) \in Nat /\ SortKey(test) \in Nat
    <2>1. /\ Priority(call) \in Nat /\ Confidence(call) \in Nat
          /\ Priority(test) \in Nat /\ Confidence(test) \in Nat
      BY DEF Priority, Confidence, NotListed
    <2>2. call.hops = 1 /\ test.hops = 1
      BY DEF call, test, Row
    <2> QED BY <2>1, <2>2 DEF SortKey
  <1>8. ReadOrder(call) = 0 /\ ReadOrder(test) = 2
    BY <1>2 DEF ReadOrder
  <1>9. CASE call \in Candidates /\ SortKey(call) <= SortKey(test)
    <2>1. /\ ~(SortKey(call) < SortKey(call)) /\ ~(SortKey(test) < SortKey(call))
          /\ ~(ReadOrder(call) < ReadOrder(call)) /\ ~(ReadOrder(test) < ReadOrder(call))
      BY <1>7, <1>8, <1>9
    <2>2. call \in OnePerSite(Candidates)
      BY <1>2, <1>5, <1>9, <2>1, Zenon DEF OnePerSite, SameSite
    <2> QED BY <1>2, <2>2
  <1>10. CASE call \notin Candidates \/ SortKey(test) < SortKey(call)
    <2>1. /\ ~(SortKey(test) < SortKey(test)) /\ ~(ReadOrder(test) < ReadOrder(test))
          /\ call \in Candidates => /\ ~(SortKey(call) < SortKey(test))
                                /\ SortKey(call) # SortKey(test)
      BY <1>7, <1>8, <1>10
    <2>2. test \in OnePerSite(Candidates)
      BY <1>2, <1>5, <1>6, <2>1, Zenon DEF OnePerSite, SameSite
    <2> QED BY <1>2, <2>2
  <1> QED BY <1>7, <1>9, <1>10

LEMMA LeadsListed ==
  ASSUME RankInv, "tests" \in intents, NEW row \in rows, row.kind = "behavioral_test_lead"
  PROVE  row \in OnePerSite(Candidates)
  <1>1. IsLeadRow(row)
    BY LeadKind DEF RankInv, KnownRows
  <1>2. row \in Candidates
    <2>1. Priority(row) # NotListed
      BY DEF Priority, NotListed
    <2> QED BY <2>1 DEF Candidates
  <1>3. ASSUME NEW other \in Candidates, SameSite(row, other) PROVE other = row
    <2>1. other \in rows /\ other.site = row.site /\ other.related = row.related
      BY <1>3 DEF SameSite, Candidates
    <2>2. PICK s \in Plain : row.site = <<row.related, s>>
      BY <1>1 DEF IsLeadRow
    <2>3. other \notin DirectRows
      <3> SUFFICES ASSUME other \in DirectRows PROVE FALSE
        OBVIOUS
      <3>1. other.site[1] = Lead \/ other.site[2] = Lead
        BY DirectRowShape
      <3>2. other.site[1] \in TestSymbols /\ other.site[2] \in Plain
        BY <1>1, <2>1, <2>2 DEF IsLeadRow
      <3> QED BY <3>1, <3>2, SymbolFacts
    <2>4. other.kind = "behavioral_test_lead"
      BY <2>1, <2>3 DEF RankInv, KnownRows, IsLeadRow
    <2> QED BY <2>1, <2>4 DEF RankInv, OneLeadEach
  <1> QED BY <1>1, <1>2, <1>3, Alone DEF IsLeadRow

\* One row for each site shows every site.
LEMMA RankShown == RankInv => Shown(OnePerSite(Candidates), complete)
  <1> SUFFICES ASSUME RankInv PROVE Shown(OnePerSite(Candidates), complete)
    OBVIOUS
  <1>1. SitesShown(OnePerSite(Candidates), complete)
    <2> SUFFICES ASSUME NEW facet \in (Requested \cap complete) \ {"leads"},
                        NEW c \in SitesOf(facet)
                 PROVE  \E row \in OnePerSite(Candidates) : row.site = c
      BY DEF SitesShown
    <2>1. facet \in {"callers", "callees", "tests"}
      BY DEF Requested
    <2> QED BY <2>1, CallersSite, CalleesSite, TestsSite
  <1>2. LeadsShown(OnePerSite(Candidates), complete)
    <2> SUFFICES ASSUME "tests" \in intents, "leads" \in complete, NEW t \in BehavioralTests
                 PROVE  t \in LeadsOf(OnePerSite(Candidates))
      BY DEF LeadsShown
    <2>1. PICK row \in rows : row.kind = "behavioral_test_lead" /\ row.related = t
      BY DEF RankInv, LeadsShown, LeadsOf
    <2> QED BY <2>1, LeadsListed DEF LeadsOf
  <1> QED BY <1>1, <1>2 DEF Shown

LEMMA GraphFixed ==
  ASSUME graph' = graph, intents' = intents
  PROVE  /\ DirectRows' = DirectRows
         /\ \A S : KnownRows(S)' <=> KnownRows(S)
         /\ \A S, C : Shown(S, C)' <=> Shown(S, C)
         /\ \A S, C : LeadsShown(S, C)' <=> LeadsShown(S, C)
  <1>1. DirectRows' = DirectRows /\ Requested' = Requested
    BY DEF DirectRows, Requested
  <1>2. \A facet : SitesOf(facet)' = SitesOf(facet)
    BY DEF SitesOf
  <1>3. Reaching' = Reaching
    BY DEF Reaching, ClosedUnderCallers
  <1>4. BehavioralTests' = BehavioralTests
    BY <1>3 DEF BehavioralTests
  <1>5. \A S : KnownRows(S)' <=> KnownRows(S)
    BY <1>1 DEF KnownRows, IsLeadRow
  <1>6. \A S, C : SitesShown(S, C)' <=> SitesShown(S, C)
    BY <1>1, <1>2 DEF SitesShown
  <1>7. \A S, C : LeadsShown(S, C)' <=> LeadsShown(S, C)
    BY <1>4 DEF LeadsShown, LeadsOf
  <1> QED BY <1>1, <1>5, <1>6, <1>7 DEF Shown

LEMMA RankRowsStep == ProjectMapInv /\ RankRows => ProjectMapInv'
  <1> SUFFICES ASSUME ProjectMapInv, RankRows PROVE ProjectMapInv'
    OBVIOUS
  <1>1. RankInv
    BY DEF ProjectMapInv, RankInv, RankRows
  <1>2. Shown(OnePerSite(Candidates), complete)
    BY <1>1, RankShown
  <1>3. /\ rows' \subseteq OnePerSite(Candidates)
        /\ complete' = complete \ MarksOf(OnePerSite(Candidates) \ rows')
    BY DEF RankRows, Candidates, kSubset
  <1>4. KnownRows(OnePerSite(Candidates)) /\ OnePerSite(Candidates) \subseteq rows
    BY <1>1 DEF RankInv, KnownRows, OnePerSite, Candidates
  <1>5. Shown(rows', complete')
    BY <1>2, <1>3, <1>4, DropShown
  <1>6. /\ graph' = graph /\ intents' = intents /\ walk' = walk /\ edges' = edges
        /\ at' = "verifying"
    BY DEF RankRows
  <1>7. Shown(rows, complete)'
    BY <1>5, <1>6, GraphFixed
  <1>8. KnownRows(rows)' /\ KnownRows(edges)' /\ OneLeadEach(rows)'
    <2>1. KnownRows(rows')
      BY <1>3, <1>4 DEF KnownRows
    <2>2. OneLeadEach(rows')
      BY <1>1, <1>3, <1>4 DEF RankInv, OneLeadEach
    <2> QED BY <1>6, <2>1, <2>2, GraphFixed DEF ProjectMapInv, OneLeadEach
  <1>9. ProjectMapTypeOK'
    BY <1>6 DEF ProjectMapInv, ProjectMapTypeOK, WalkNodes
  <1> QED BY <1>6, <1>7, <1>8, <1>9 DEF ProjectMapInv

LEMMA VerifyRowsStep == ProjectMapInv /\ VerifyRows => ProjectMapInv'
  <1> SUFFICES ASSUME ProjectMapInv, VerifyRows PROVE ProjectMapInv'
    OBVIOUS
  <1>1. KnownRows(rows) /\ Shown(rows, complete)
    BY DEF ProjectMapInv, VerifyRows
  <1>2. edges' \subseteq rows /\ complete' = complete \ MarksOf(rows \ edges')
    BY DEF VerifyRows
  <1>3. Shown(edges', complete') /\ KnownRows(edges')
    BY <1>1, <1>2, DropShown DEF KnownRows
  <1>4. /\ graph' = graph /\ intents' = intents /\ walk' = walk /\ rows' = {}
        /\ at' = "budget"
    BY DEF VerifyRows
  <1>5. Shown(edges, complete)' /\ KnownRows(edges)'
    BY <1>3, <1>4, GraphFixed
  <1>6. KnownRows(rows)' /\ OneLeadEach(rows)'
    BY <1>4 DEF KnownRows, OneLeadEach
  <1>7. ProjectMapTypeOK'
    BY <1>4 DEF ProjectMapInv, ProjectMapTypeOK, WalkNodes
  <1> QED BY <1>4, <1>5, <1>6, <1>7 DEF ProjectMapInv

LEMMA PopEdgeStep == ProjectMapInv /\ PopEdge => ProjectMapInv'
  <1> SUFFICES ASSUME ProjectMapInv, PopEdge PROVE ProjectMapInv'
    OBVIOUS
  <1>1. KnownRows(edges) /\ Shown(edges, complete)
    BY DEF ProjectMapInv, PopEdge
  <1>2. PICK row \in edges : edges' = edges \ {row} /\ complete' = complete \ MarksOf({row})
    BY DEF PopEdge
  <1>3. edges' \subseteq edges /\ {row} = edges \ edges'
    BY <1>2
  <1>4. Shown(edges', complete') /\ KnownRows(edges')
    BY <1>1, <1>2, <1>3, DropShown DEF KnownRows
  <1>5. /\ graph' = graph /\ intents' = intents /\ walk' = walk /\ rows' = rows
        /\ at' = "budget"
    BY DEF PopEdge
  <1>6. Shown(edges, complete)' /\ KnownRows(edges)'
    BY <1>4, <1>5, GraphFixed
  <1>7. KnownRows(rows)' /\ OneLeadEach(rows)'
    BY <1>5, GraphFixed DEF ProjectMapInv, OneLeadEach
  <1>8. ProjectMapTypeOK'
    BY <1>5 DEF ProjectMapInv, ProjectMapTypeOK, WalkNodes
  <1> QED BY <1>5, <1>6, <1>7, <1>8 DEF ProjectMapInv

\* Nothing the invariant speaks of changes, or the packet is sent.
LEMMA MoveFileStep ==
  ASSUME ProjectMapInv,
         \/ SendPacket \/ (\E symbol \in Symbols : MoveFile(symbol)) \/ UNCHANGED projectMapVars
  PROVE  ProjectMapInv'
  <1>1. /\ graph' = graph /\ intents' = intents /\ walk' = walk /\ rows' = rows
        /\ edges' = edges /\ complete' = complete
    BY DEF SendPacket, MoveFile, projectMapVars
  <1>2. at' = at \/ (at = "budget" /\ at' = "sent")
    BY DEF SendPacket, MoveFile, projectMapVars
  <1>3. /\ Shown(edges, complete)' <=> Shown(edges, complete)
        /\ Shown(rows, complete)' <=> Shown(rows, complete)
        /\ LeadsShown(rows, complete)' <=> LeadsShown(rows, complete)
        /\ KnownRows(rows)' <=> KnownRows(rows)
        /\ KnownRows(edges)' <=> KnownRows(edges)
    BY <1>1, GraphFixed
  <1>4. OneLeadEach(rows)' <=> OneLeadEach(rows)
    BY <1>1 DEF OneLeadEach
  <1>5. DirectKept' <=> DirectKept
    BY <1>1, GraphFixed DEF DirectKept, FacetOf
  <1>6. WalkOK' <=> WalkOK
    BY <1>1 DEF WalkOK
  <1>7. WalkCovers' <=> WalkCovers
    BY <1>1 DEF WalkCovers, Visited, KnownLeads
  <1>8. ProjectMapTypeOK'
    BY <1>1 DEF ProjectMapInv, ProjectMapTypeOK, WalkNodes
  <1> QED BY <1>1, <1>2, <1>3, <1>4, <1>5, <1>6, <1>7, <1>8 DEF ProjectMapInv

LEMMA NoWalkTyped ==
  NoWalk \in [frontier : SUBSET WalkNodes, next : SUBSET WalkNodes,
              seen : SUBSET (Plain \cup {Lead}), depth : Nat, nodes : Nat]
  BY DEF NoWalk

LEMMA ProjectMapInitInv == ProjectMapInit => ProjectMapInv
  <1> SUFFICES ASSUME ProjectMapInit PROVE ProjectMapInv
    OBVIOUS
  <1>1. graph \subseteq PossibleCalls /\ walk = NoWalk /\ rows = {} /\ edges = {} /\ at = "asked"
    BY DEF ProjectMapInit
  <1>2. KnownRows(rows) /\ KnownRows(edges) /\ OneLeadEach(rows)
    BY <1>1 DEF KnownRows, OneLeadEach
  <1>3. ProjectMapTypeOK
    BY <1>1, NoWalkTyped DEF ProjectMapTypeOK
  <1> QED BY <1>1, <1>2, <1>3 DEF ProjectMapInv

LEMMA ResolveDirectStep == ProjectMapInv /\ ResolveDirect => ProjectMapInv'
  <1> SUFFICES ASSUME ProjectMapInv, ResolveDirect PROVE ProjectMapInv'
    OBVIOUS
  <1> DEFINE pruned == {row \in DirectRows : ~Compatible(row.site)}
  <1>1. /\ rows' = DirectRows \ pruned
        /\ complete' \subseteq Facets \ {FacetOf(row) : row \in pruned}
        /\ "tests" \in intents /\ ~first => "leads" \notin complete'
        /\ graph' = graph /\ intents' = intents /\ edges' = edges
    BY DEF ResolveDirect
  <1>2. \/ /\ at' = "walking" /\ walk'.frontier = {[symbol |-> Lead, chain |-> <<>>]}
           /\ walk' = [frontier |-> {[symbol |-> Lead, chain |-> <<>>]}, next |-> {},
                       seen |-> {Lead}, depth |-> 1, nodes |-> 0]
        \/ at' = "ranking" /\ walk' = walk /\ ~("tests" \in intents /\ first)
    BY DEF ResolveDirect, NoWalk
  <1>3. KnownRows(rows)' /\ OneLeadEach(rows)'
    <2>1. DirectRows' = DirectRows
      BY <1>1, GraphFixed
    <2> QED BY <1>1, <2>1, LeadKind DEF KnownRows, OneLeadEach
  <1>4. KnownRows(edges)'
    BY <1>1, GraphFixed DEF ProjectMapInv
  <1>5. DirectKept'
    <2>1. DirectRows' = DirectRows
      BY <1>1, GraphFixed
    <2> QED BY <1>1, <2>1 DEF DirectKept, FacetOf
  <1> HIDE DEF pruned
  <1>6. CASE at' = "walking" /\ walk'.frontier = {[symbol |-> Lead, chain |-> <<>>]}
             /\ walk' = [frontier |-> {[symbol |-> Lead, chain |-> <<>>]}, next |-> {},
                         seen |-> {Lead}, depth |-> 1, nodes |-> 0]
    <2>1. [symbol |-> Lead, chain |-> <<>>] \in WalkNodes
      BY DEF WalkNodes
    <2>2. ProjectMapTypeOK'
      BY <1>1, <1>6, <2>1 DEF ProjectMapInv, ProjectMapTypeOK, WalkNodes
    <2>3. WalkOK'
      BY <1>6 DEF WalkOK
    <2>4. Visited' = {}
      BY <1>6 DEF Visited
    <2>5. WalkCovers'
      BY <2>4 DEF WalkCovers
    <2> QED BY <1>3, <1>4, <1>5, <1>6, <2>2, <2>3, <2>5 DEF ProjectMapInv
  <1>7. CASE at' = "ranking" /\ walk' = walk /\ ~("tests" \in intents /\ first)
    <2>1. ProjectMapTypeOK'
      BY <1>1, <1>7 DEF ProjectMapInv, ProjectMapTypeOK, WalkNodes
    <2>2. LeadsShown(rows, complete)'
      BY <1>1, <1>7 DEF LeadsShown
    <2> QED BY <1>3, <1>4, <1>5, <1>7, <2>1, <2>2 DEF ProjectMapInv
  <1> QED BY <1>2, <1>6, <1>7

-----------------------------------------------------------------------------
\* The rows a node adds are of tests that are no leads yet.
LEMMA LeadRowsKnown ==
  ASSUME ProjectMapInv, at = "walking", NEW node \in walk.frontier,
         NEW T \in SUBSET FoundAt(node)
  PROVE  KnownRows(rows \cup LeadRows(node, T)) /\ OneLeadEach(rows \cup LeadRows(node, T))
  <1>1. /\ node \in WalkNodes /\ walk.depth \in Nat
        /\ node.symbol = Lead <=> walk.depth = 1
    BY DEF ProjectMapInv, ProjectMapTypeOK, WalkOK
  <1>2. T \subseteq TestSymbols \ KnownLeads /\ (T # {} => walk.depth >= 2)
    <2>1. FoundAt(node) \subseteq TestSymbols \ KnownLeads
      BY DEF FoundAt, TestsOf, FirstOf, CallersOf
    <2>2. FoundAt(node) # {} => walk.depth >= 2
      BY DEF FoundAt
    <2> QED BY <2>1, <2>2
  <1>3. T # {} => node.symbol \in Plain
    BY <1>1, <1>2 DEF WalkNodes
  <1>4. \A row \in LeadRows(node, T) :
          /\ IsLeadRow(row) /\ row.related \in T
          /\ row = Row("behavioral_test_lead", "outgoing", row.related,
                       <<row.related, node.symbol>>, walk.depth)
    BY <1>1, <1>2, <1>3 DEF LeadRows, IsLeadRow, Row
  <1>5. KnownRows(rows) /\ OneLeadEach(rows)
    BY DEF ProjectMapInv
  <1>6. KnownRows(rows \cup LeadRows(node, T))
    BY <1>4, <1>5 DEF KnownRows
  <1>7. OneLeadEach(rows \cup LeadRows(node, T))
    <2> SUFFICES ASSUME NEW r \in rows \cup LeadRows(node, T),
                        NEW s \in rows \cup LeadRows(node, T),
                        r.kind = "behavioral_test_lead", s.kind = r.kind, r.related = s.related
                 PROVE  r = s
      BY DEF OneLeadEach
    <2>1. \A row \in rows : row.kind = "behavioral_test_lead" => row.related \in KnownLeads
      BY DEF KnownLeads
    <2>2. CASE r \in rows /\ s \in rows
      BY <1>5, <2>2 DEF OneLeadEach
    <2>3. CASE r \in LeadRows(node, T) /\ s \in LeadRows(node, T)
      BY <1>4, <2>3
    <2>4. CASE r \in rows /\ s \in LeadRows(node, T)
      BY <1>2, <1>4, <2>1, <2>4
    <2>5. CASE r \in LeadRows(node, T) /\ s \in rows
      BY <1>2, <1>4, <2>1, <2>5
    <2> QED BY <2>2, <2>3, <2>4, <2>5
  <1> QED BY <1>6, <1>7

\* Where nothing was pruned, every caller is taken.
LEMMA AllCallersTaken ==
  ASSUME graph \subseteq PossibleCalls, NEW node, ~CallersPruned(node.symbol)
  PROVE  /\ \A s \in Plain : <<s, node.symbol>> \in graph => s \in PlainOf(node)
         /\ \A t \in TestSymbols : <<t, node.symbol>> \in graph => t \in TestsOf(node)
  <1> DEFINE tests == CallersOf(node.symbol, TestSymbols)
             plain == CallersOf(node.symbol, Plain \cup {Lead})
  <1>1. \A s \in Symbols : <<s, node.symbol>> \in graph =>
          <<s, node.symbol>> \notin Ambiguous /\ Compatible(<<s, node.symbol>>)
    BY DEF CallersPruned
  <1>2. /\ \A s \in Plain : <<s, node.symbol>> \in graph => s \in plain
        /\ \A t \in TestSymbols : <<t, node.symbol>> \in graph => t \in tests
    BY <1>1, SymbolFacts DEF CallersOf
  <1>3. tests \in SUBSET Symbols /\ plain \in SUBSET Symbols
    BY SymbolFacts DEF CallersOf
  <1>4. MaxTestCallers \in Nat /\ MaxPlainCallers \in Nat
    BY ProjectMapAssumption
  <1>5. ~(Cardinality(tests) > MaxTestCallers) /\ ~(Cardinality(plain) > MaxPlainCallers)
    BY DEF CallersPruned
  <1> HIDE DEF tests, plain
  <1>6. Cardinality(tests) \in Nat /\ Cardinality(plain) \in Nat
    BY <1>3, SymbolFacts, FS_Subset, FS_CardinalityType
  <1>7. Cardinality(tests) <= MaxTestCallers /\ Cardinality(plain) <= MaxPlainCallers
    BY <1>4, <1>5, <1>6
  <1>8. FirstOf(tests, MaxTestCallers) = tests /\ FirstOf(plain, MaxPlainCallers) = plain
    BY <1>3, <1>4, <1>7, FirstOfAll
  <1> QED BY <1>2, <1>8 DEF tests, plain, PlainOf, TestsOf

LEMMA TakenTyped ==
  ASSUME NEW node
  PROVE  /\ PlainOf(node) \subseteq Plain \cup {Lead} /\ TestsOf(node) \subseteq TestSymbols
         /\ Cardinality(PlainOf(node)) \in Nat /\ Cardinality(TestsOf(node)) \in Nat
  <1>1. PlainOf(node) \subseteq Plain \cup {Lead} /\ TestsOf(node) \subseteq TestSymbols
    BY DEF PlainOf, TestsOf, FirstOf, CallersOf
  <1>2. IsFiniteSet(PlainOf(node)) /\ IsFiniteSet(TestsOf(node))
    <2>1. PlainOf(node) \in SUBSET Symbols /\ TestsOf(node) \in SUBSET Symbols
      BY <1>1, SymbolFacts
    <2> QED BY <2>1, SymbolFacts, FS_Subset
  <1> QED BY <1>1, <1>2, FS_CardinalityType

\* A step of the traversal keeps the direct rows.
LEMMA WalkKeepsDirect ==
  ASSUME DirectKept, graph' = graph, intents' = intents,
         rows \subseteq rows', complete' \subseteq complete
  PROVE  DirectKept'
  <1>1. DirectRows' = DirectRows
    BY GraphFixed
  <1> QED BY <1>1 DEF DirectKept, FacetOf

LEMMA ExhaustNodesStep ==
  ASSUME ProjectMapInv, at = "walking", NEW node \in walk.frontier, ExhaustNodes(node),
         UNCHANGED <<graph, moved, intents, first, edges>>
  PROVE  ProjectMapInv'
  <1> DEFINE T == FirstOf(FoundAt(node), MaxNodes - walk.nodes)
  <1>1. T \in SUBSET FoundAt(node)
    BY FirstOfSubset
  <1>2. /\ rows' = rows \cup LeadRows(node, T) \/ rows' = rows
        /\ complete' = complete \ {"leads"} /\ walk' = NoWalk /\ at' = "ranking"
    BY DEF ExhaustNodes
  <1> HIDE DEF T
  <1>3. KnownRows(rows') /\ OneLeadEach(rows')
    BY <1>1, <1>2, LeadRowsKnown DEF ProjectMapInv
  <1>4. KnownRows(rows)' /\ KnownRows(edges)' /\ OneLeadEach(rows)'
    BY <1>3, GraphFixed DEF ProjectMapInv, OneLeadEach
  <1>5. DirectKept'
    BY <1>2, WalkKeepsDirect DEF ProjectMapInv
  <1>6. LeadsShown(rows, complete)'
    BY <1>2 DEF LeadsShown
  <1>7. ProjectMapTypeOK'
    <2>1. walk' \in [frontier : SUBSET WalkNodes, next : SUBSET WalkNodes,
                     seen : SUBSET (Plain \cup {Lead}), depth : Nat, nodes : Nat]
      BY <1>2, NoWalkTyped
    <2> QED BY <2>1 DEF ProjectMapInv, ProjectMapTypeOK, WalkNodes
  <1> QED BY <1>2, <1>4, <1>5, <1>6, <1>7 DEF ProjectMapInv

LEMMA VisitCallersStep ==
  ASSUME ProjectMapInv, at = "walking", NEW node \in walk.frontier, VisitCallers(node),
         UNCHANGED <<graph, moved, intents, first, edges>>
  PROVE  ProjectMapInv'
  <1> DEFINE fresh == PlainOf(node) \ walk.seen
             states == {[symbol |-> s, chain |-> Append(node.chain, s)] : s \in fresh}
             visited == [frontier |-> walk.frontier \ {node}, next |-> walk.next \cup states,
                         seen |-> walk.seen \cup fresh, depth |-> walk.depth,
                         nodes |-> NodesAfter(node)]
  <1>1. /\ at' = "walking" /\ graph' = graph /\ intents' = intents /\ edges' = edges
        /\ rows' = IF ChainVerified(node) THEN rows \cup LeadRows(node, FoundAt(node)) ELSE rows
        /\ complete' \subseteq complete
        /\ "leads" \in complete' => /\ "leads" \in complete /\ ~CallersPruned(node.symbol)
                                    /\ FoundAt(node) # {} => ChainVerified(node)
    BY DEF VisitCallers
  <1>2. /\ walk.frontier \subseteq WalkNodes /\ walk.next \subseteq WalkNodes
        /\ walk.seen \subseteq Plain \cup {Lead} /\ walk.depth \in Nat /\ walk.nodes \in Nat
        /\ walk = [frontier |-> walk.frontier, next |-> walk.next, seen |-> walk.seen,
                   depth |-> walk.depth, nodes |-> walk.nodes]
    BY DEF ProjectMapInv, ProjectMapTypeOK
  <1>3. walk' = visited
    <2>1. walk' = [walk EXCEPT
            !.frontier = walk.frontier \ {node}, !.nodes = NodesAfter(node),
            !.seen = walk.seen \cup fresh, !.next = walk.next \cup states]
      BY DEF VisitCallers
    <2> HIDE DEF fresh, states
    <2> QED BY <1>2, <2>1
  <1>4. node \in WalkNodes /\ fresh \subseteq Plain /\ Lead \notin fresh
    BY <1>2, TakenTyped DEF ProjectMapInv, WalkOK
  <1>5. /\ states \subseteq WalkNodes
        /\ \A n \in states : n.symbol \in fresh
        /\ \A s \in fresh : \E n \in states : n.symbol = s
    <2>1. \A s \in fresh : Append(node.chain, s) \in Seq(Plain \cup {Lead})
      BY <1>4 DEF WalkNodes
    <2>2. fresh \subseteq Plain \cup {Lead}
      BY <1>4
    <2> HIDE DEF fresh
    <2>3. \A s \in fresh : [symbol |-> s, chain |-> Append(node.chain, s)] \in WalkNodes
      BY <2>1, <2>2 DEF WalkNodes
    <2>4. states \subseteq WalkNodes
      BY <2>3
    <2>5. \A n \in states : n.symbol \in fresh
      OBVIOUS
    <2>6. \A s \in fresh : \E n \in states : n.symbol = s
      <3> TAKE s \in fresh
      <3> DEFINE n == [symbol |-> s, chain |-> Append(node.chain, s)]
      <3>1. n \in states /\ n.symbol = s
        OBVIOUS
      <3> HIDE DEF n, states
      <3> QED BY <3>1
    <2> QED BY <2>4, <2>5, <2>6
  <1> HIDE DEF fresh, states
  <1>6. NodesAfter(node) \in Nat
    BY <1>2, TakenTyped DEF NodesAfter
  <1>7. ProjectMapTypeOK'
    <2>1. walk' \in [frontier : SUBSET WalkNodes, next : SUBSET WalkNodes,
                     seen : SUBSET (Plain \cup {Lead}), depth : Nat, nodes : Nat]
      BY <1>2, <1>3, <1>4, <1>5, <1>6
    <2> QED BY <1>1, <2>1 DEF ProjectMapInv, ProjectMapTypeOK, WalkNodes
  <1>8. KnownRows(rows') /\ OneLeadEach(rows')
    BY <1>1, LeadRowsKnown DEF ProjectMapInv
  <1>9. KnownRows(rows)' /\ KnownRows(edges)' /\ OneLeadEach(rows)'
    BY <1>1, <1>8, GraphFixed DEF ProjectMapInv, OneLeadEach
  <1>10. DirectKept'
    BY <1>1, WalkKeepsDirect DEF ProjectMapInv
  <1>11. WalkOK'
    <2>1. WalkOK
      BY DEF ProjectMapInv
    <2>2. Lead \in visited.seen /\ visited.depth # 0
      BY <2>1 DEF WalkOK
    <2>3. \A n \in visited.frontier :
            n.symbol \in visited.seen /\ (n.symbol = Lead <=> visited.depth = 1)
      BY <2>1 DEF WalkOK
    <2>4. \A n \in visited.next : n.symbol \in visited.seen /\ n.symbol # Lead
      BY <1>4, <1>5, <2>1 DEF WalkOK
    <2> HIDE DEF visited
    <2> QED BY <1>3, <2>2, <2>3, <2>4 DEF WalkOK
  <1>12. ASSUME "leads" \in complete' PROVE WalkCovers'
    <2>1. WalkCovers /\ WalkOK
      BY <1>1, <1>12 DEF ProjectMapInv
    <2>2. Visited' \subseteq Visited \cup {node.symbol}
      <3> SUFFICES ASSUME NEW x \in visited.seen, x # node.symbol,
                          \A n \in visited.frontier \cup visited.next : n.symbol # x
                   PROVE  x \in Visited
        BY <1>3 DEF Visited
      <3>1. x \notin fresh
        BY <1>5
      <3>2. \A n \in walk.frontier \cup walk.next : n.symbol # x
        OBVIOUS
      <3> QED BY <3>1, <3>2 DEF Visited
    <2>3. /\ \A s \in Plain : <<s, node.symbol>> \in graph => s \in PlainOf(node)
          /\ \A t \in TestSymbols : <<t, node.symbol>> \in graph => t \in TestsOf(node)
      BY <1>1, <1>12, AllCallersTaken DEF ProjectMapInv, ProjectMapTypeOK
    <2>4. /\ \A s \in Plain : <<s, node.symbol>> \in graph => s \in visited.seen
          /\ walk.seen \subseteq visited.seen
      BY <2>3 DEF fresh
    <2>5. KnownLeads \subseteq KnownLeads'
      BY <1>1 DEF KnownLeads
    <2>6. FoundAt(node) \subseteq KnownLeads'
      <3> SUFFICES ASSUME NEW t \in FoundAt(node) PROVE t \in KnownLeads'
        OBVIOUS
      <3>1. rows' = rows \cup LeadRows(node, FoundAt(node))
        BY <1>1, <1>12
      <3>2. Row("behavioral_test_lead", "outgoing", t, <<t, node.symbol>>, walk.depth) \in rows'
        BY <3>1 DEF LeadRows
      <3> QED BY <3>2 DEF KnownLeads, Row
    <2>7. node.symbol # Lead => TestsOf(node) \subseteq KnownLeads'
      <3> SUFFICES ASSUME node.symbol # Lead PROVE TestsOf(node) \subseteq KnownLeads'
        OBVIOUS
      <3>1. walk.depth >= 2
        BY <1>2, <2>1 DEF WalkOK
      <3>2. FoundAt(node) = TestsOf(node) \ KnownLeads
        BY <3>1 DEF FoundAt
      <3> QED BY <2>5, <2>6, <3>2
    <2>8. \A x \in Visited', s \in Plain : <<s, x>> \in graph => s \in visited.seen
      BY <2>1, <2>2, <2>4 DEF WalkCovers
    <2>9. \A x \in Visited' \ {Lead}, t \in TestSymbols : <<t, x>> \in graph => t \in KnownLeads'
      BY <2>1, <2>2, <2>3, <2>5, <2>7 DEF WalkCovers
    <2> HIDE DEF visited
    <2>10. walk'.seen = visited.seen
      BY <1>3
    <2> QED BY <1>1, <2>8, <2>9, <2>10 DEF WalkCovers
  <1> QED BY <1>1, <1>7, <1>9, <1>10, <1>11, <1>12 DEF ProjectMapInv

LEMMA WalkSymbolStep == ProjectMapInv /\ WalkSymbol => ProjectMapInv'
  BY VisitCallersStep, ExhaustNodesStep DEF WalkSymbol

\* With nothing left to visit, what was seen holds whatever reaches the lead.
LEMMA WalkDone ==
  ASSUME ProjectMapTypeOK, WalkOK, WalkCovers, walk.frontier = {}, walk.next = {}
  PROVE  BehavioralTests \subseteq KnownLeads
  <1>1. Visited = walk.seen /\ walk.seen \in SUBSET (Plain \cup {Lead})
    BY DEF Visited, ProjectMapTypeOK
  <1>2. Lead \in walk.seen /\ ClosedUnderCallers(walk.seen)
    BY <1>1 DEF WalkOK, WalkCovers, ClosedUnderCallers
  <1>3. Reaching \subseteq walk.seen \ {Lead}
    BY <1>1, <1>2, SymbolFacts DEF Reaching
  <1> QED BY <1>1, <1>3 DEF BehavioralTests, WalkCovers

LEMMA WalkLevelStep == ProjectMapInv /\ WalkLevel => ProjectMapInv'
  <1> SUFFICES ASSUME ProjectMapInv, WalkLevel PROVE ProjectMapInv'
    OBVIOUS
  <1>1. /\ at = "walking" /\ walk.frontier = {} /\ ProjectMapTypeOK /\ WalkOK
        /\ "leads" \in complete => WalkCovers
    BY DEF ProjectMapInv, WalkLevel
  <1>2. /\ graph' = graph /\ intents' = intents /\ rows' = rows /\ edges' = edges
        /\ complete' \subseteq complete
    BY DEF WalkLevel
  <1>3. KnownRows(rows)' /\ KnownRows(edges)' /\ OneLeadEach(rows)'
    BY <1>2, GraphFixed DEF ProjectMapInv, OneLeadEach
  <1>4. DirectKept'
    BY <1>1, <1>2, WalkKeepsDirect DEF ProjectMapInv
  <1>5. CASE walk.next # {} /\ walk.depth < MaxHops
    <2> DEFINE deeper == [frontier |-> walk.next, next |-> {}, seen |-> walk.seen,
                          depth |-> walk.depth + 1, nodes |-> walk.nodes]
    <2>1. /\ walk' = [walk EXCEPT !.frontier = walk.next, !.next = {}, !.depth = walk.depth + 1]
          /\ at' = at /\ complete' = complete
      BY <1>5 DEF WalkLevel
    <2>2. walk' = deeper
      BY <1>1, <2>1 DEF ProjectMapTypeOK
    <2>3. walk.depth \in Nat /\ walk.depth # 0
      BY <1>1 DEF ProjectMapTypeOK, WalkOK
    <2>4. ProjectMapTypeOK'
      <3>1. deeper \in [frontier : SUBSET WalkNodes, next : SUBSET WalkNodes,
                        seen : SUBSET (Plain \cup {Lead}), depth : Nat, nodes : Nat]
        BY <1>1 DEF ProjectMapTypeOK
      <3> HIDE DEF deeper
      <3> QED BY <1>1, <1>2, <2>2, <3>1 DEF ProjectMapTypeOK, WalkNodes
    <2>5. WalkOK'
      BY <1>1, <2>2, <2>3 DEF WalkOK
    <2>6. "leads" \in complete' => WalkCovers'
      <3>1. Visited' = Visited
        BY <1>1, <2>2 DEF Visited
      <3>2. KnownLeads' = KnownLeads /\ walk'.seen = walk.seen
        BY <1>2, <2>2 DEF KnownLeads
      <3> QED BY <1>1, <1>2, <2>1, <3>1, <3>2 DEF WalkCovers
    <2> QED BY <1>1, <1>3, <1>4, <2>1, <2>4, <2>5, <2>6 DEF ProjectMapInv
  <1>6. CASE ~(walk.next # {} /\ walk.depth < MaxHops)
    <2>1. /\ walk' = NoWalk /\ at' = "ranking"
          /\ walk.next # {} => "leads" \notin complete'
      BY <1>6 DEF WalkLevel
    <2>2. ProjectMapTypeOK'
      <3>1. walk' \in [frontier : SUBSET WalkNodes, next : SUBSET WalkNodes,
                       seen : SUBSET (Plain \cup {Lead}), depth : Nat, nodes : Nat]
        BY <2>1, NoWalkTyped
      <3> QED BY <1>1, <1>2, <3>1 DEF ProjectMapTypeOK, WalkNodes
    <2>3. LeadsShown(rows, complete)'
      <3>1. LeadsShown(rows', complete')
        BY <1>1, <1>2, <2>1, WalkDone DEF LeadsShown, LeadsOf, KnownLeads
      <3> QED BY <1>2, <3>1, GraphFixed
    <2> QED BY <1>3, <1>4, <2>1, <2>2, <2>3 DEF ProjectMapInv
  <1> QED BY <1>5, <1>6

LEMMA ProjectMapNextInv == ProjectMapInv /\ [ProjectMapNext]_projectMapVars => ProjectMapInv'
  BY ResolveDirectStep, WalkSymbolStep, WalkLevelStep, RankRowsStep, VerifyRowsStep, PopEdgeStep,
     MoveFileStep DEF ProjectMapNext

\* Whatever files change while a lead is being answered, what its facets rest
\* on holds at every step.
THEOREM ProjectMapInvHolds == ProjectMapSpec => []ProjectMapInv
  BY ProjectMapInitInv, ProjectMapNextInv, PTL DEF ProjectMapSpec

\* No packet has leads that its query did not name.
NoStrayLeads ==
  "tests" \notin intents => at # "walking" /\ LeadsOf(rows) = {} /\ LeadsOf(edges) = {}

LEMMA StrayLeadsStep == NoStrayLeads /\ [ProjectMapNext]_projectMapVars => NoStrayLeads'
  <1> SUFFICES ASSUME NoStrayLeads, [ProjectMapNext]_projectMapVars, "tests" \notin intents'
               PROVE  at' # "walking" /\ LeadsOf(rows') = {} /\ LeadsOf(edges') = {}
    BY DEF NoStrayLeads, LeadsOf
  <1>1. "tests" \notin intents
    BY DEF ProjectMapNext, projectMapVars, ResolveDirect, WalkSymbol, WalkLevel, RankRows,
       VerifyRows, PopEdge, SendPacket, MoveFile
  <1>2. at # "walking" /\ LeadsOf(rows) = {} /\ LeadsOf(edges) = {}
    BY <1>1 DEF NoStrayLeads
  <1>3. \A S, T : S \subseteq T /\ LeadsOf(T) = {} => LeadsOf(S) = {}
    BY DEF LeadsOf
  <1>4. CASE ResolveDirect
    <2>1. at' # "walking" /\ rows' \subseteq DirectRows /\ edges' = edges
      BY <1>1, <1>4 DEF ResolveDirect
    <2>2. LeadsOf(DirectRows) = {}
      BY LeadKind DEF LeadsOf
    <2> QED BY <1>2, <1>3, <2>1, <2>2
  <1>5. CASE RankRows
    <2>1. at' # "walking" /\ edges' = edges
      BY <1>5 DEF RankRows
    <2>2. rows' \subseteq OnePerSite({row \in rows : Priority(row) # NotListed})
      BY <1>5 DEF RankRows, kSubset
    <2>3. rows' \subseteq rows
      BY <2>2 DEF OnePerSite
    <2> QED BY <1>2, <1>3, <2>1, <2>3
  <1>6. CASE VerifyRows
    <2>1. at' # "walking" /\ rows' = {} /\ edges' \subseteq rows
      BY <1>6 DEF VerifyRows
    <2>2. LeadsOf({}) = {}
      BY DEF LeadsOf
    <2> QED BY <1>2, <1>3, <2>1, <2>2
  <1>7. CASE PopEdge
    <2>1. at' # "walking" /\ rows' = rows /\ edges' \subseteq edges
      BY <1>2, <1>7 DEF PopEdge
    <2> QED BY <1>2, <1>3, <2>1
  <1>8. CASE \/ SendPacket \/ \E symbol \in Symbols : MoveFile(symbol)
             \/ UNCHANGED projectMapVars
    <2>1. at' # "walking" /\ rows' = rows /\ edges' = edges
      BY <1>2, <1>8 DEF SendPacket, MoveFile, projectMapVars
    <2> QED BY <1>2, <2>1
  <1>9. ~WalkSymbol /\ ~WalkLevel
    BY <1>2 DEF WalkSymbol, WalkLevel
  <1> QED BY <1>4, <1>5, <1>6, <1>7, <1>8, <1>9 DEF ProjectMapNext

\* A facet that reports complete_in_projection leaves nothing out, for any call
\* graph, any caps, any files that change and any intents.  What it cannot say
\* is that a mixed query looked for leads: there it shows none and says so.
THEOREM CompleteFacets == ProjectMapSpec => []FacetsComplete
  <1>1. ProjectMapInit => NoStrayLeads
    BY DEF ProjectMapInit, NoStrayLeads, LeadsOf
  <1>2. ProjectMapInv /\ NoStrayLeads => FacetsComplete
    <2> SUFFICES ASSUME ProjectMapInv, NoStrayLeads, at = "sent",
                        NEW facet \in Requested \cap complete
                 PROVE  \/ ShowsAll(facet)
                        \/ facet = "leads" /\ "tests" \notin intents /\ LeadsOf(edges) = {}
      BY DEF FacetsComplete
    <2>1. Shown(edges, complete)
      BY DEF ProjectMapInv
    <2>2. CASE facet # "leads"
      BY <2>1, <2>2 DEF Shown, SitesShown, ShowsAll
    <2>3. CASE facet = "leads" /\ "tests" \in intents
      BY <2>1, <2>3 DEF Shown, LeadsShown, ShowsAll
    <2>4. CASE facet = "leads" /\ "tests" \notin intents
      BY <2>4 DEF NoStrayLeads
    <2> QED BY <2>2, <2>3, <2>4
  <1> QED BY <1>1, <1>2, StrayLeadsStep, ProjectMapInvHolds, PTL DEF ProjectMapSpec


-----------------------------------------------------------------------------
(* The projection of vectors, which other processes rebuild beside the     *)
(* searches of a daemon.                                                   *)

BytesOrNone == Bytes \cup {Absent}

CommandStages ==
  {"idle", "staged", "cleared", "moved", "placed", "tidied", "installed", "collected",
   "planned", "ready"}

CommandStates ==
  [at : CommandStages, bytes : BytesOrNone, loaded : BytesOrNone, docs : Nat,
   existing : SUBSET Nat, overtaken : BOOLEAN]

SearchStates ==
  [at : {"idle", "embedded"}, current : Nat, indexed : Nat \cup {Absent}, ready : BOOLEAN]

DaemonStates == [cached : BytesOrNone, runtime : BytesOrNone, search : SearchStates]

\* The rows a command planned with are still the rows there are, unless another
\* one committed since.
PlansHold ==
  \A c \in Commands :
    command[c].at \in {"planned", "ready"} /\ ~command[c].overtaken =>
      command[c].existing = DOMAIN vectors

\* Files are the bytes of some model or absent, rows belong to revisions, and a
\* search remembers two commit numbers.
SemanticTypeOK ==
  /\ seq \in Nat
  /\ model \in BytesOrNone /\ previous \in BytesOrNone /\ manifest \in BytesOrNone
  /\ DOMAIN vectors \subseteq Nat /\ indexed \in Nat \cup {Absent}
  /\ command \in [Commands -> CommandStates]
  /\ daemon \in DaemonStates

SemanticInv == SemanticTypeOK /\ PlansHold

LEMMA IdleStates == NoCommand \in CommandStates /\ NoSearch \in SearchStates
  BY DEF NoCommand, NoSearch, CommandStates, CommandStages, SearchStates, BytesOrNone

LEMMA SemanticInitInv == SemanticInit => SemanticInv
  <1> SUFFICES ASSUME SemanticInit PROVE SemanticInv
    OBVIOUS
  <1>1. command \in [Commands -> CommandStates]
    BY IdleStates DEF SemanticInit
  <1>2. daemon \in DaemonStates
    BY IdleStates DEF SemanticInit, DaemonStates, BytesOrNone
  <1>3. DOMAIN vectors = {}
    BY DEF SemanticInit
  <1>4. SemanticTypeOK
    BY <1>1, <1>2, <1>3 DEF SemanticInit, SemanticTypeOK, BytesOrNone
  <1>5. PlansHold
    BY DEF SemanticInit, PlansHold, NoCommand
  <1> QED BY <1>4, <1>5 DEF SemanticInv

LEMMA GoesTyped ==
  ASSUME SemanticTypeOK, NEW c \in Commands, NEW to \in CommandStages, StageTo(c, to)
  PROVE  command' \in [Commands -> CommandStates]
  BY DEF SemanticTypeOK, StageTo, CommandStates, CommandStages

LEMMA EndsTyped ==
  ASSUME SemanticTypeOK, NEW c \in Commands, command' = [command EXCEPT ![c] = NoCommand]
  PROVE  command' \in [Commands -> CommandStates]
  BY IdleStates DEF SemanticTypeOK

LEMMA OvertakesTyped ==
  ASSUME SemanticTypeOK, NEW c \in Commands, Overtakes(c)
  PROVE  command' \in [Commands -> CommandStates]
  <1>1. \A d \in Commands : command[d] \in CommandStates
    BY DEF SemanticTypeOK
  <1>2. \A d \in Commands : [command[d] EXCEPT !.overtaken = TRUE] \in CommandStates
    BY <1>1 DEF CommandStates
  <1> QED BY <1>1, <1>2, IdleStates DEF Overtakes

\* What a transaction leaves: rows of revisions.
LEMMA CommitTyped ==
  ASSUME SemanticTypeOK, NEW c \in Commands, CommitProjection(c)
  PROVE  DOMAIN vectors' \subseteq Nat /\ indexed' \in Nat \cup {Absent}
  <1>1. command[c] \in CommandStates
    BY DEF SemanticTypeOK
  <1> QED BY <1>1 DEF CommitProjection, Changed, SemanticTypeOK, CommandStates

\* The steps of one command.
LEMMA CommandKeepsTypes ==
  ASSUME SemanticTypeOK, NEW c \in Commands,
         \/ \E bytes \in Bytes : StageModel(c, bytes)
         \/ RemovePrevious(c) \/ MoveModelAway(c) \/ PlaceModel(c) \/ PlaceFails(c)
         \/ RemoveMoved(c) \/ WriteManifest(c) \/ CollectDocuments(c) \/ ReadExisting(c)
         \/ LoadForRebuild(c) \/ CommitProjection(c) \/ CommandEnds(c)
  PROVE  SemanticTypeOK'
  <1> DEFINE Kept == UNCHANGED <<seq, model, previous, manifest, vectors, indexed, daemon>>
             Typed == command' \in [Commands -> CommandStates]
  <1>0. Kept /\ Typed => SemanticTypeOK'
    BY DEF SemanticTypeOK
  <1>a. command[c] \in CommandStates
    BY DEF SemanticTypeOK
  <1>1. ASSUME NEW bytes \in Bytes, StageModel(c, bytes) PROVE Kept /\ Typed
    <2>1. [NoCommand EXCEPT !.at = "staged", !.bytes = bytes] \in CommandStates
      BY DEF NoCommand, CommandStates, CommandStages, BytesOrNone
    <2> QED BY <1>1, <2>1 DEF StageModel, SemanticTypeOK, fileVars, projectionState
  <1>2. CASE RemovePrevious(c) \/ RemoveMoved(c)
    <2>1. Typed
      BY <1>2, GoesTyped DEF RemovePrevious, RemoveMoved, CommandStages
    <2> QED BY <1>2, <2>1
        DEF RemovePrevious, RemoveMoved, SemanticTypeOK, projectionState, BytesOrNone
  <1>3. CASE MoveModelAway(c)
    <2>1. Typed
      BY <1>3, GoesTyped DEF MoveModelAway, CommandStages
    <2> QED BY <1>3, <2>1 DEF MoveModelAway, SemanticTypeOK, projectionState, BytesOrNone
  <1>4. CASE PlaceModel(c)
    <2>1. Typed
      BY <1>4, GoesTyped DEF PlaceModel, CommandStages
    <2> QED BY <1>4, <1>a, <2>1
        DEF PlaceModel, SemanticTypeOK, projectionState, CommandStates, CommandStages
  <1>5. CASE PlaceFails(c) \/ CommandEnds(c)
    BY <1>0, <1>5, EndsTyped DEF PlaceFails, CommandEnds, fileVars, projectionState
  <1>6. CASE WriteManifest(c)
    <2>1. Typed
      BY <1>6, GoesTyped DEF WriteManifest, CommandStages
    <2> QED BY <1>6, <1>a, <2>1
        DEF WriteManifest, SemanticTypeOK, projectionState, CommandStates, CommandStages
  <1>7. CASE CollectDocuments(c)
    <2>1. Typed
      BY <1>7 DEF CollectDocuments, SemanticTypeOK, CommandStates, CommandStages
    <2> QED BY <1>0, <1>7, <2>1 DEF CollectDocuments, fileVars, projectionState
  <1>8. CASE ReadExisting(c)
    <2> DEFINE known == IF command[c].bytes # Absent THEN command[c].bytes ELSE manifest
               there == DOMAIN vectors
    <2>a. command' = [command EXCEPT ![c].at = "planned", ![c].existing = there,
                                     ![c].bytes = known]
      BY <1>8 DEF ReadExisting, RowsThere
    <2>b. known \in BytesOrNone
      BY <1>a DEF SemanticTypeOK, CommandStates
    <2>c. there \in SUBSET Nat
      BY DEF SemanticTypeOK
    <2>d. command \in [Commands -> CommandStates]
      BY DEF SemanticTypeOK
    <2> HIDE DEF known, there
    <2> DEFINE plan == [command[c] EXCEPT !.at = "planned", !.existing = there, !.bytes = known]
    <2>e. plan \in CommandStates
      BY <1>a, <2>b, <2>c DEF CommandStates, CommandStages
    <2>f. command' = [command EXCEPT ![c] = plan]
      BY <2>a
    <2> HIDE DEF plan
    <2>1. Typed
      BY <2>d, <2>e, <2>f
    <2> QED BY <1>0, <1>8, <2>1 DEF ReadExisting, fileVars, projectionState
  <1>9. CASE LoadForRebuild(c)
    <2>1. CASE StageTo(c, "ready")
      BY <1>9, <2>1, <1>0, GoesTyped
      DEF LoadForRebuild, fileVars, projectionState, CommandStates, CommandStages
    <2>2. CASE command' = [command EXCEPT ![c].at = "ready", ![c].loaded = model]
      <3>1. Typed
        BY <2>2 DEF SemanticTypeOK, CommandStates, CommandStages
      <3> QED BY <1>0, <1>9, <3>1 DEF LoadForRebuild, fileVars, projectionState
    <2> QED BY <1>9, <2>1, <2>2 DEF LoadForRebuild
  <1>10. CASE CommitProjection(c)
    <2>1. Typed
      BY <1>10, OvertakesTyped DEF CommitProjection
    <2> QED BY <1>10, <2>1, CommitTyped DEF CommitProjection, SemanticTypeOK, fileVars
  <1> QED BY <1>0, <1>1, <1>2, <1>3, <1>4, <1>5, <1>6, <1>7, <1>8, <1>9, <1>10

\* The steps of the daemon.
LEMMA DaemonKeepsTypes ==
  ASSUME SemanticTypeOK,
         CommitRevision \/ SearchBegins \/ SearchWithout \/ SearchReadsRows \/ RestartSemantic
  PROVE  SemanticTypeOK' /\ UNCHANGED <<vectors, command>>
  <1> DEFINE Kept == UNCHANGED <<seq, model, previous, manifest, vectors, indexed, command>>
  <1>0. Kept /\ daemon' \in DaemonStates => SemanticTypeOK' /\ UNCHANGED <<vectors, command>>
    BY DEF SemanticTypeOK
  <1>1. CASE CommitRevision
    BY <1>1 DEF CommitRevision, SemanticTypeOK, fileVars, projectionState
  <1>2. CASE SearchBegins
    <2>1. KnownManifest \in BytesOrNone
      BY DEF KnownManifest, SemanticTypeOK, DaemonStates, BytesOrNone
    <2>2. [NoSearch EXCEPT !.at = "embedded", !.current = seq, !.indexed = indexed]
            \in SearchStates
      BY DEF NoSearch, SearchStates, SemanticTypeOK
    <2>3. daemon' \in DaemonStates
      BY <1>2, <2>1, <2>2 DEF SearchBegins, SemanticTypeOK, DaemonStates
    <2> QED BY <1>0, <1>2, <2>3 DEF SearchBegins, fileVars, projectionState
  <1>3. CASE SearchWithout
    <2>1. daemon' \in DaemonStates
      BY <1>3, IdleStates DEF SearchWithout, SemanticTypeOK, DaemonStates
    <2> QED BY <1>0, <1>3, <2>1 DEF SearchWithout, fileVars, projectionState
  <1>4. CASE SearchReadsRows
    <2>1. Ready(daemon.search) \in BOOLEAN
      BY DEF Ready
    <2>2. [NoSearch EXCEPT !.ready = Ready(daemon.search)] \in SearchStates
      BY <2>1, Zenon, IdleStates DEF SearchStates
    <2>3. daemon' \in DaemonStates
      BY <1>4, <2>2 DEF SearchReadsRows, SemanticTypeOK, DaemonStates
    <2> QED BY <1>0, <1>4, <2>3 DEF SearchReadsRows, fileVars, projectionState
  <1>5. CASE RestartSemantic
    <2>1. daemon' \in DaemonStates
      BY <1>5, IdleStates DEF RestartSemantic, SemanticStart, DaemonStates, BytesOrNone
    <2> QED BY <1>0, <1>5, <2>1 DEF RestartSemantic, fileVars, projectionState
  <1> QED BY <1>1, <1>2, <1>3, <1>4, <1>5

\* The steps of a command that leave the projection alone, and what they make of
\* the plan of each command: gone, just read, or kept.
LEMMA PlansGoOn ==
  ASSUME SemanticInv, NEW c \in Commands,
         \/ \E bytes \in Bytes : StageModel(c, bytes)
         \/ RemovePrevious(c) \/ MoveModelAway(c) \/ PlaceModel(c) \/ PlaceFails(c)
         \/ RemoveMoved(c) \/ WriteManifest(c) \/ CollectDocuments(c) \/ ReadExisting(c)
         \/ LoadForRebuild(c) \/ CommandEnds(c)
  PROVE  PlansHold'
  <1> DEFINE planning == {"planned", "ready"}
             Others == \A d \in Commands \ {c} : command'[d] = command[d]
             Fresh == /\ command'[c].at \in planning /\ ~command'[c].overtaken
                      => command'[c].existing = DOMAIN vectors
  <1>1. command \in [Commands -> CommandStates]
    BY DEF SemanticInv, SemanticTypeOK
  <1>2. vectors' = vectors /\ Others /\ Fresh => PlansHold'
    BY DEF SemanticInv, PlansHold
  <1>3. CASE \E bytes \in Bytes : StageModel(c, bytes)
    BY <1>1, <1>2, <1>3 DEF StageModel, projectionState, NoCommand
  <1>4. CASE RemovePrevious(c) \/ MoveModelAway(c) \/ PlaceModel(c) \/ RemoveMoved(c)
             \/ WriteManifest(c)
    BY <1>1, <1>2, <1>4 DEF RemovePrevious, MoveModelAway, PlaceModel, RemoveMoved,
       WriteManifest, StageTo, projectionState, CommandStates
  <1>5. CASE PlaceFails(c) \/ CommandEnds(c)
    BY <1>1, <1>2, <1>5 DEF PlaceFails, CommandEnds, NoCommand, projectionState
  <1>6. CASE CollectDocuments(c)
    BY <1>1, <1>2, <1>6 DEF CollectDocuments, projectionState, CommandStates
  <1>7. CASE ReadExisting(c)
    BY <1>1, <1>2, <1>7 DEF ReadExisting, RowsThere, projectionState, CommandStates
  <1>8. CASE LoadForRebuild(c)
    <2>1. StageAt(c, "planned") /\ vectors' = vectors /\ Others
      BY <1>1, <1>8 DEF LoadForRebuild, StageTo, projectionState
    <2>2. /\ command'[c].existing = command[c].existing
          /\ command'[c].overtaken = command[c].overtaken
      BY <1>1, <1>8 DEF LoadForRebuild, StageTo, CommandStates
    <2>3. Fresh
      BY <2>1, <2>2 DEF SemanticInv, PlansHold, StageAt
    <2> QED BY <1>2, <2>1, <2>3
  <1> QED BY <1>3, <1>4, <1>5, <1>6, <1>7, <1>8

\* A transaction makes every other plan an overtaken one.
LEMMA CommitOvertakes ==
  ASSUME SemanticInv, NEW c \in Commands, CommitProjection(c)
  PROVE  PlansHold'
  <1>1. command \in [Commands -> CommandStates]
    BY DEF SemanticInv, SemanticTypeOK
  <1>2. command' = [d \in Commands |->
          IF d = c THEN NoCommand
          ELSE IF command[d].at \in {"planned", "ready"}
               THEN [command[d] EXCEPT !.overtaken = TRUE] ELSE command[d]]
    BY DEF CommitProjection, Overtakes
  <1>3. ASSUME NEW d \in Commands, command'[d].at \in {"planned", "ready"}
        PROVE  command'[d].overtaken
    <2>1. d # c
      BY <1>2, <1>3 DEF NoCommand
    <2>2. CASE command[d].at \in {"planned", "ready"}
      BY <1>1, <1>2, <2>1, <2>2 DEF CommandStates
    <2>3. CASE command[d].at \notin {"planned", "ready"}
      BY <1>2, <1>3, <2>1, <2>3
    <2> QED BY <2>2, <2>3
  <1> QED BY <1>3 DEF PlansHold

\* Whatever commands install and rebuild beside a daemon, its files, rows and
\* searches are what the steps expect, and a plan nobody overtook is current.
THEOREM SemanticInvHolds == SemanticSpec => []SemanticInv
<1>1. SemanticInv /\ SemanticNext => SemanticInv'
  <2> SUFFICES ASSUME SemanticInv, SemanticNext PROVE SemanticInv'
    OBVIOUS
  <2>1. SemanticTypeOK'
    BY CommandKeepsTypes, DaemonKeepsTypes DEF SemanticNext, SemanticInv
  <2>2. CASE CommitRevision \/ SearchBegins \/ SearchWithout \/ SearchReadsRows \/ RestartSemantic
    BY <2>2, DaemonKeepsTypes DEF SemanticInv, PlansHold
  <2>3. PlansHold'
    BY <2>2, PlansGoOn, CommitOvertakes DEF SemanticNext, SemanticInv
  <2> QED BY <2>1, <2>3 DEF SemanticInv
<1>2. SemanticInv /\ UNCHANGED semanticVars => SemanticInv'
  BY DEF SemanticInv, SemanticTypeOK, PlansHold, semanticVars, fileVars, projectionState
<1> QED BY <1>1, <1>2, SemanticInitInv, PTL DEF SemanticSpec

\* A transaction with a current plan: what it deletes and embeds leaves exactly
\* the documents.
LEMMA CommitMends ==
  ASSUME SemanticInv, NEW c \in Commands, CommitProjection(c), ~command[c].overtaken
  PROVE  DOMAIN vectors' = 1 .. command[c].docs /\ indexed' = command[c].docs
  <1>1. command[c].existing = DOMAIN vectors
    BY DEF SemanticInv, PlansHold, CommitProjection, StageAt
  <1>2. /\ DOMAIN vectors' =
             (DOMAIN vectors \ (command[c].existing \ (1 .. command[c].docs))) \cup Changed(c)
        /\ indexed' = command[c].docs
    BY DEF CommitProjection
  <1> HIDE DEF Changed
  <1>3. Changed(c) = (1 .. command[c].docs) \ command[c].existing
    BY DEF Changed
  <1> QED BY <1>1, <1>2, <1>3

\* A rebuild that no other overtakes leaves the vectors of its documents, all of
\* them and no others, for any number of commands, models and revisions and
\* however their installs, rebuilds and ends fell before it: neither a stale
\* counter nor rows left by a race survive it.
THEOREM RebuildsMend == SemanticSpec => RebuildMends
<1>1. SemanticInv /\ [SemanticNext]_semanticVars =>
        [\A c \in Commands : CommitProjection(c) /\ ~command[c].overtaken =>
           /\ DOMAIN vectors' = 1 .. command[c].docs
           /\ indexed' = command[c].docs]_semanticVars
  BY CommitMends
<1> QED BY <1>1, SemanticInvHolds, PTL DEF SemanticSpec, RebuildMends

-----------------------------------------------------------------------------
(* Rows of a file.                                                         *)

LEMMA LargestCapIs == LargestCap \in Nat /\ \A c \in Caps : c \in Nat /\ c <= LargestCap
  BY MetricsAssumption DEF LargestCap

LEMMA ProcessesCount == Cardinality(Processes) \in Nat \ {0}
  <1>1. Cardinality(Processes) \in Nat /\ Cardinality(Processes) # 0
    BY MetricsAssumption, FS_CardinalityType, FS_EmptySet
  <1> QED BY <1>1

\* The rows of a finite study are a number.
LEMMA StudyRowsNat ==
  ASSUME NEW base, IsFiniteSet(base.studies), IsFiniteSet(base.pairs), IsFiniteSet(base.observed)
  PROVE  StudyRows(base) \in Nat
  <1>1. /\ Cardinality(base.studies) \in Nat /\ Cardinality(base.pairs) \in Nat
        /\ Cardinality(base.observed) \in Nat
    BY FS_CardinalityType
  <1> QED BY <1>1 DEF StudyRows

\* What enforce_limits leaves of the events is a list of events.
LEMMA SuffixIsSeq ==
  ASSUME NEW events \in Seq(Int), NEW k \in Nat
  PROVE  SubSeq(events, 1 + k, Len(events)) \in Seq(Int)
  OBVIOUS

LEMMA DatabaseFields ==
  ASSUME NEW base \in Databases
  PROVE  /\ base.events \in Seq(Int) /\ Len(base.events) \in Nat
         /\ base.studies \subseteq Studies /\ base.pairs \subseteq PairRows
         /\ base.observed \subseteq Pairs \X Arms
  <1>1. base.events \in Seq(Int)
    BY DEF Databases
  <1> QED BY <1>1 DEF Databases

\* The oldest events are as many as their indices.
LEMMA AgedIsNat ==
  ASSUME NEW events \in Seq(Int)
  PROVE  Cardinality(Aged(events)) \in Nat
  <1>1. Aged(events) \in SUBSET (1 .. Len(events)) /\ Len(events) \in Int
    BY DEF Aged
  <1>2. IsFiniteSet(1 .. Len(events))
    BY <1>1, FS_Interval
  <1> QED BY <1>1, <1>2, FS_Subset, FS_CardinalityType

-----------------------------------------------------------------------------
(* One process takes its turn.                                             *)

\* What MetricsTypeOK asks of the row of a process.
RowOK(row) ==
  row # Idle => /\ row.phase # "open" => row.file \in Generations
                /\ row.phase = "insert" => row.kind = "record"
                /\ row.kind = "record" => row.on \in Pairs /\ row.arm \in Arms

AdmittedRow(row, f) == row # Idle /\ row.file = f /\ row.phase \in {"run", "insert"}

RunningOK == /\ running \in [Processes -> ProcessRows \cup {Idle}]
             /\ \A w \in Processes : RowOK(running[w])

LEMMA TypeParts ==
  MetricsTypeOK <=> /\ minute \in Int /\ settings \in [enabled : BOOLEAN, cap : Caps]
                    /\ current \in Generations \cup {NoFile}
                    /\ files \in [Generations -> Databases] /\ RunningOK
  BY DEF MetricsTypeOK, RunningOK, RowOK

LEMMA TypePartsNext ==
  MetricsTypeOK' <=> /\ minute' \in Int /\ settings' \in [enabled : BOOLEAN, cap : Caps]
                     /\ current' \in Generations \cup {NoFile}
                     /\ files' \in [Generations -> Databases] /\ RunningOK'
  BY DEF MetricsTypeOK, RunningOK, RowOK

LEMMA Turn ==
  ASSUME RunningOK, NEW w \in Processes, NEW row \in ProcessRows \cup {Idle}, RowOK(row),
         running' = [running EXCEPT ![w] = row]
  PROVE  /\ RunningOK'
         /\ \A f : /\ w \in Admitted(f)' <=> AdmittedRow(row, f)
                   /\ \A v \in Processes \ {w} : v \in Admitted(f)' <=> v \in Admitted(f)
  <1>1. running' \in [Processes -> ProcessRows \cup {Idle}]
    BY DEF RunningOK
  <1>2. running'[w] = row /\ \A v \in Processes \ {w} : running'[v] = running[v]
    BY DEF RunningOK
  <1>3. \A v \in Processes : RowOK(running'[v])
    BY <1>2 DEF RunningOK
  <1>4. \A f : /\ w \in Admitted(f)' <=> AdmittedRow(row, f)
               /\ \A v \in Processes \ {w} : v \in Admitted(f)' <=> v \in Admitted(f)
    BY <1>2 DEF Admitted, AdmittedRow
  <1>5. RunningOK'
    BY <1>1, <1>3 DEF RunningOK, RowOK
  <1> QED BY <1>4, <1>5

\* A process that ends is admitted nowhere.
LEMMA EndsTurn ==
  ASSUME RunningOK, NEW w \in Processes, Ends(w)
  PROVE  RunningOK' /\ \A f : Admitted(f)' \subseteq Admitted(f) \ {w}
  <1>1. RowOK(Idle) /\ ~\E f : AdmittedRow(Idle, f)
    BY DEF RowOK, AdmittedRow
  <1>2. \A f : Admitted(f)' \subseteq Processes
    BY DEF Admitted
  <1> QED BY <1>1, <1>2, Turn DEF Ends

\* A command past its opening goes on to another phase, in the same file.
LEMMA PhaseTurn ==
  ASSUME RunningOK, NEW w \in Processes, running[w] # Idle, running[w].phase # "open",
         NEW phase \in {"prune", "trim", "check", "run", "insert", "answer"},
         phase = "insert" => running[w].kind = "record",
         NEW opening \in BOOLEAN,
         \/ running' = [running EXCEPT ![w].phase = phase]
         \/ running' = [running EXCEPT ![w].phase = phase, ![w].opening = opening]
  PROVE  /\ RunningOK' /\ running[w].file \in Generations
         /\ \A f : \A v \in Processes \ {w} : v \in Admitted(f)' <=> v \in Admitted(f)
         /\ \A f : w \in Admitted(f)' <=>
                     f = running[w].file /\ phase \in {"run", "insert"}
  <1>1. running[w] \in ProcessRows /\ RowOK(running[w])
    BY DEF RunningOK
  <1> DEFINE row1 == [running[w] EXCEPT !.phase = phase]
             row2 == [running[w] EXCEPT !.phase = phase, !.opening = opening]
  <1>2. row1 \in ProcessRows /\ row2 \in ProcessRows
    BY <1>1 DEF ProcessRows
  <1>3. \A row \in {row1, row2} :
          /\ row.file = running[w].file /\ row.phase = phase /\ row.kind = running[w].kind
          /\ row.on = running[w].on /\ row.arm = running[w].arm
    BY <1>1 DEF ProcessRows
  <1>4. running' = [running EXCEPT ![w] = row1] \/ running' = [running EXCEPT ![w] = row2]
    OBVIOUS
  <1>5. row1 # Idle /\ row2 # Idle
    BY <1>2, MetricsIdle
  <1> HIDE DEF row1, row2
  <1>6. \A row \in {row1, row2} :
          /\ RowOK(row)
          /\ \A f : AdmittedRow(row, f) <=> f = running[w].file /\ phase \in {"run", "insert"}
    BY <1>1, <1>3, <1>5 DEF RowOK, AdmittedRow
  <1>7. running[w].file \in Generations
    BY <1>1 DEF RowOK
  <1> QED BY <1>2, <1>4, <1>6, <1>7, Turn

-----------------------------------------------------------------------------
(* What a step may do to the rows of studies.                              *)

SameStudies ==
  \A f \in Generations : /\ files'[f].studies = files[f].studies
                         /\ files'[f].pairs = files[f].pairs
                         /\ files'[f].observed = files[f].observed

\* Nothing is written, and nobody is admitted.
QuietRows == SameStudies /\ \A f \in Generations : Admitted(f)' \subseteq Admitted(f)

\* A command finds its file within its cap.
AdmitsOne ==
  \E w \in Processes :
    /\ running[w] \in ProcessRows /\ files' = files
    /\ ~(Rows(files[running[w].file]) > running[w].cap)
    /\ \A f \in Generations : f # running[w].file => Admitted(f)' \subseteq Admitted(f)

\* An admitted command writes at most one row, and is admitted no more.
WritesOne ==
  \E w \in Processes, f \in Generations :
    /\ w \in Admitted(f)
    /\ \A g \in Generations : /\ Admitted(g)' \subseteq Admitted(g) \ {w}
                              /\ g # f => files'[g] = files[g]
    /\ \/ SameStudies
       \/ \E x : /\ files'[f].studies = files[f].studies \cup {x}
                 /\ files'[f].pairs = files[f].pairs
                 /\ files'[f].observed = files[f].observed
       \/ \E x : /\ files'[f].pairs = files[f].pairs \cup {x}
                 /\ files'[f].studies = files[f].studies
                 /\ files'[f].observed = files[f].observed
       \/ \E x : /\ files'[f].observed = files[f].observed \cup {x}
                 /\ files'[f].pairs = files[f].pairs
                 /\ files'[f].studies = files[f].studies

RowsStep == QuietRows \/ AdmitsOne \/ WritesOne

LEMMA AdmittedCount ==
  ASSUME NEW f
  PROVE  /\ IsFiniteSet(Admitted(f)) /\ Cardinality(Admitted(f)) \in Nat
         /\ Cardinality(Admitted(f)) <= Cardinality(Processes)
  <1>1. Admitted(f) \in SUBSET Processes
    BY DEF Admitted
  <1>2. IsFiniteSet(Admitted(f)) /\ Cardinality(Admitted(f)) <= Cardinality(Processes)
    BY <1>1, MetricsAssumption, FS_Subset
  <1> QED BY <1>2, FS_CardinalityType

LEMMA QuietKeeps ==
  ASSUME StudiesFinite, RoomKept, QuietRows
  PROVE  StudiesFinite' /\ RoomKept'
  <1>1. StudiesFinite'
    BY DEF StudiesFinite, QuietRows, SameStudies
  <1>2. ASSUME NEW f \in Generations
        PROVE  StudyRows(files'[f]) + Cardinality(Admitted(f)')
                 <= Cardinality(Processes) + LargestCap
    <2>1. StudyRows(files'[f]) = StudyRows(files[f]) /\ StudyRows(files[f]) \in Nat
      BY StudyRowsNat DEF QuietRows, SameStudies, StudiesFinite, StudyRows
    <2>2. /\ Cardinality(Admitted(f)) \in Nat /\ Cardinality(Admitted(f)') \in Nat
          /\ Cardinality(Admitted(f)') <= Cardinality(Admitted(f))
      <3>1. Admitted(f)' \in SUBSET Admitted(f)
        BY DEF QuietRows
      <3> QED BY <3>1, AdmittedCount, FS_Subset, FS_CardinalityType
    <2> QED BY <2>1, <2>2, LargestCapIs, ProcessesCount DEF RoomKept
  <1> QED BY <1>1, <1>2 DEF RoomKept


\* A set that is given one element has at most one more.
LEMMA OneAdded ==
  ASSUME NEW S, NEW x, IsFiniteSet(S), NEW T, T = S \cup {x}
  PROVE  IsFiniteSet(T) /\ Cardinality(T) \in {Cardinality(S), Cardinality(S) + 1}
  <1>1. /\ IsFiniteSet(S \cup {x})
        /\ Cardinality(S \cup {x}) = IF x \in S THEN Cardinality(S) ELSE Cardinality(S) + 1
    BY FS_AddElement
  <1> QED BY <1>1

LEMMA AdmitsKeeps ==
  ASSUME MetricsTypeOK, StudiesFinite, RoomKept, AdmitsOne
  PROVE  StudiesFinite' /\ RoomKept'
  <1>1. PICK w \in Processes :
          /\ running[w] \in ProcessRows /\ files' = files
          /\ ~(Rows(files[running[w].file]) > running[w].cap)
          /\ \A f \in Generations : f # running[w].file => Admitted(f)' \subseteq Admitted(f)
    BY DEF AdmitsOne
  <1>2. StudiesFinite'
    BY <1>1 DEF StudiesFinite
  <1>3. ASSUME NEW f \in Generations
        PROVE  StudyRows(files'[f]) + Cardinality(Admitted(f)')
                 <= Cardinality(Processes) + LargestCap
    <2>1. files'[f] = files[f] /\ StudyRows(files[f]) \in Nat
      BY <1>1, StudyRowsNat DEF StudiesFinite
    <2>2. /\ IsFiniteSet(Admitted(f)) /\ Cardinality(Admitted(f)) \in Nat
          /\ Cardinality(Admitted(f)) <= Cardinality(Processes)
      BY AdmittedCount
    <2>3. /\ Cardinality(Admitted(f)') \in Nat
          /\ Cardinality(Admitted(f)') <= Cardinality(Processes)
      <3>1. Admitted(f)' \in SUBSET Processes
        BY DEF Admitted
      <3> QED BY <3>1, MetricsAssumption, FS_Subset, FS_CardinalityType
    <2>4. CASE f = running[w].file
      <3>1. Len(files[f].events) \in Nat
        BY DatabaseFields DEF MetricsTypeOK
      <3>2. running[w].cap \in Caps
        BY <1>1 DEF ProcessRows
      <3>3. Len(files[f].events) + StudyRows(files[f]) <= running[w].cap
        <4>1. Rows(files[f]) = Len(files[f].events) + StudyRows(files[f])
          BY DEF Rows
        <4>2. ~(Rows(files[f]) > running[w].cap) /\ running[w].cap \in Nat
          BY <1>1, <2>4, <3>2, MetricsAssumption
        <4> QED BY <2>1, <3>1, <4>1, <4>2
      <3>4. StudyRows(files[f]) <= LargestCap
        BY <2>1, <3>1, <3>2, <3>3, LargestCapIs
      <3> QED BY <2>1, <2>3, <3>4, LargestCapIs, ProcessesCount
    <2>5. CASE f # running[w].file
      <3>1. Admitted(f)' \in SUBSET Admitted(f)
        BY <1>1, <2>5
      <3>2. Cardinality(Admitted(f)') <= Cardinality(Admitted(f))
        BY <2>2, <3>1, FS_Subset
      <3> QED BY <2>1, <2>2, <2>3, <3>2, LargestCapIs, ProcessesCount DEF RoomKept
    <2> QED BY <2>4, <2>5
  <1> QED BY <1>2, <1>3 DEF RoomKept

LEMMA WritesKeeps ==
  ASSUME StudiesFinite, RoomKept, WritesOne
  PROVE  StudiesFinite' /\ RoomKept'
  <1>1. PICK w \in Processes, f \in Generations :
          /\ w \in Admitted(f)
          /\ \A g \in Generations : /\ Admitted(g)' \subseteq Admitted(g) \ {w}
                                    /\ g # f => files'[g] = files[g]
          /\ \/ SameStudies
             \/ \E x : /\ files'[f].studies = files[f].studies \cup {x}
                       /\ files'[f].pairs = files[f].pairs
                       /\ files'[f].observed = files[f].observed
             \/ \E x : /\ files'[f].pairs = files[f].pairs \cup {x}
                       /\ files'[f].studies = files[f].studies
                       /\ files'[f].observed = files[f].observed
             \/ \E x : /\ files'[f].observed = files[f].observed \cup {x}
                       /\ files'[f].pairs = files[f].pairs
                       /\ files'[f].studies = files[f].studies
    BY DEF WritesOne
  <1>2. /\ IsFiniteSet(files[f].studies) /\ Cardinality(files[f].studies) \in Nat
        /\ IsFiniteSet(files[f].pairs) /\ Cardinality(files[f].pairs) \in Nat
        /\ IsFiniteSet(files[f].observed) /\ Cardinality(files[f].observed) \in Nat
    BY FS_CardinalityType DEF StudiesFinite
  <1> DEFINE OneMore ==
               /\ IsFiniteSet(files'[f].studies) /\ IsFiniteSet(files'[f].pairs)
               /\ IsFiniteSet(files'[f].observed)
               /\ StudyRows(files'[f]) \in Nat /\ StudyRows(files[f]) \in Nat
               /\ StudyRows(files'[f]) <= StudyRows(files[f]) + 1
  <1>3. OneMore
    <2>1. CASE SameStudies
      BY <1>2, <2>1 DEF SameStudies, StudyRows
    <2>2. ASSUME NEW x, files'[f].studies = files[f].studies \cup {x},
                 files'[f].pairs = files[f].pairs, files'[f].observed = files[f].observed
          PROVE  OneMore
      <3>1. /\ IsFiniteSet(files'[f].studies)
            /\ Cardinality(files'[f].studies) \in {Cardinality(files[f].studies),
                                                   Cardinality(files[f].studies) + 1}
        BY <1>2, <2>2, OneAdded
      <3> QED BY <1>2, <2>2, <3>1 DEF StudyRows
    <2>3. ASSUME NEW x, files'[f].pairs = files[f].pairs \cup {x},
                 files'[f].studies = files[f].studies, files'[f].observed = files[f].observed
          PROVE  OneMore
      <3>1. /\ IsFiniteSet(files'[f].pairs)
            /\ Cardinality(files'[f].pairs) \in {Cardinality(files[f].pairs),
                                                 Cardinality(files[f].pairs) + 1}
        BY <1>2, <2>3, OneAdded
      <3> QED BY <1>2, <2>3, <3>1 DEF StudyRows
    <2>4. ASSUME NEW x, files'[f].observed = files[f].observed \cup {x},
                 files'[f].studies = files[f].studies, files'[f].pairs = files[f].pairs
          PROVE  OneMore
      <3>1. /\ IsFiniteSet(files'[f].observed)
            /\ Cardinality(files'[f].observed) \in {Cardinality(files[f].observed),
                                                    Cardinality(files[f].observed) + 1}
        BY <1>2, <2>4, OneAdded
      <3> QED BY <1>2, <2>4, <3>1 DEF StudyRows
    <2> QED BY <1>1, <2>1, <2>2, <2>3, <2>4
  <1>4. StudiesFinite'
    <2> SUFFICES ASSUME NEW g \in Generations
                 PROVE  /\ IsFiniteSet(files'[g].studies) /\ IsFiniteSet(files'[g].pairs)
                        /\ IsFiniteSet(files'[g].observed)
      BY DEF StudiesFinite
    <2> QED BY <1>1, <1>3 DEF StudiesFinite
  <1>5. ASSUME NEW g \in Generations
        PROVE  StudyRows(files'[g]) + Cardinality(Admitted(g)')
                 <= Cardinality(Processes) + LargestCap
    <2>1. /\ IsFiniteSet(Admitted(g)) /\ Cardinality(Admitted(g)) \in Nat
          /\ IsFiniteSet(Admitted(g) \ {w})
          /\ Cardinality(Admitted(g) \ {w})
               = IF w \in Admitted(g) THEN Cardinality(Admitted(g)) - 1
                                      ELSE Cardinality(Admitted(g))
      BY AdmittedCount, FS_RemoveElement
    <2>2. /\ Cardinality(Admitted(g)') \in Nat
          /\ Cardinality(Admitted(g)') <= Cardinality(Admitted(g) \ {w})
      <3>1. Admitted(g)' \in SUBSET (Admitted(g) \ {w})
        BY <1>1
      <3> QED BY <2>1, <3>1, FS_Subset, FS_CardinalityType
    <2>3. StudyRows(files[g]) + Cardinality(Admitted(g)) <= Cardinality(Processes) + LargestCap
      BY DEF RoomKept
    <2>4. CASE g = f
      BY <1>1, <1>3, <2>1, <2>2, <2>3, <2>4, LargestCapIs, ProcessesCount
    <2>5. CASE g # f
      <3>1. files'[g] = files[g] /\ StudyRows(files[g]) \in Nat
        BY <1>1, <2>5, StudyRowsNat DEF StudiesFinite
      <3>2. Cardinality(Admitted(g)') <= Cardinality(Admitted(g))
        BY <2>1, <2>2
      <3> QED BY <2>1, <2>2, <2>3, <3>1, <3>2, LargestCapIs, ProcessesCount
    <2> QED BY <2>4, <2>5
  <1> QED BY <1>4, <1>5 DEF RoomKept


-----------------------------------------------------------------------------
(* The actions: each keeps the types, and changes the rows of studies in   *)
(* one of the three ways, or only lets commands go.                        *)

StepOK == MetricsTypeOK' /\ RowsStep

LEMMA StartOK ==
  ASSUME MetricsTypeOK, NEW w \in Processes,
         NEW kind \in {"event", "begin", "pair", "record", "report", "clear"},
         NEW on \in Studies \cup Pairs \cup {NoFile}, NEW arm \in Arms \cup {NoFile},
         kind = "record" => on \in Pairs /\ arm \in Arms,
         Start(w, kind, on, arm)
  PROVE  StepOK
  <1> DEFINE row == [kind |-> kind, on |-> on, arm |-> arm, cap |-> settings.cap,
                     file |-> NoFile, phase |-> "open", opening |-> TRUE]
  <1>1. /\ running' = [running EXCEPT ![w] = row]
        /\ UNCHANGED <<minute, settings, current, files>>
    BY DEF Start
  <1>2. row \in ProcessRows /\ RowOK(row) /\ ~\E f : AdmittedRow(row, f)
    BY DEF ProcessRows, RowOK, AdmittedRow, MetricsTypeOK
  <1> HIDE DEF row
  <1>3. /\ RunningOK'
        /\ \A f : /\ w \in Admitted(f)' <=> AdmittedRow(row, f)
                  /\ \A v \in Processes \ {w} : v \in Admitted(f)' <=> v \in Admitted(f)
    BY <1>1, <1>2, TypeParts, Turn
  <1>4. QuietRows
    BY <1>1, <1>2, <1>3 DEF QuietRows, SameStudies, Admitted
  <1>5. MetricsTypeOK'
    BY <1>1, <1>3, TypeParts, TypePartsNext
  <1> QED BY <1>4, <1>5 DEF StepOK, RowsStep


LEMMA ConfigureOK ==
  ASSUME MetricsTypeOK, NEW w \in Processes, NEW enabled \in BOOLEAN, NEW cap \in Caps,
         Configure(w, enabled, cap)
  PROVE  StepOK
  <1> DEFINE row == [kind |-> "report", on |-> NoFile, arm |-> NoFile, cap |-> cap,
                     file |-> NoFile, phase |-> "open", opening |-> TRUE]
  <1>1. /\ running' = [running EXCEPT ![w] = row] \/ running' = running
        /\ settings' = [enabled |-> enabled, cap |-> cap]
        /\ UNCHANGED <<minute, current, files>>
    BY DEF Configure
  <1>2. row \in ProcessRows /\ RowOK(row) /\ ~\E f : AdmittedRow(row, f)
    BY DEF ProcessRows, RowOK, AdmittedRow
  <1> HIDE DEF row
  <1>3. RunningOK' /\ \A f : Admitted(f)' \subseteq Admitted(f)
    <2>1. CASE running' = [running EXCEPT ![w] = row]
      <3>1. /\ RunningOK'
            /\ \A f : /\ w \in Admitted(f)' <=> AdmittedRow(row, f)
                      /\ \A v \in Processes \ {w} : v \in Admitted(f)' <=> v \in Admitted(f)
        BY <1>2, <2>1, TypeParts, Turn
      <3> QED BY <1>2, <3>1 DEF Admitted
    <2>2. CASE running' = running
      BY <2>2, TypeParts DEF RunningOK, Admitted, RowOK
    <2> QED BY <1>1, <2>1, <2>2
  <1>4. QuietRows
    BY <1>1, <1>3 DEF QuietRows, SameStudies
  <1>5. MetricsTypeOK'
    BY <1>1, <1>3, TypeParts, TypePartsNext
  <1> QED BY <1>4, <1>5 DEF StepOK, RowsStep

LEMMA OpenOK ==
  ASSUME MetricsTypeOK, NEW w \in Processes, OpenDatabase(w)
  PROVE  StepOK
  <1>1. PICK file \in Generations :
          /\ running' = [running EXCEPT ![w].file = file, ![w].phase = "prune"]
          /\ current' \in Generations /\ files' = files
    BY DEF OpenDatabase, Opened, MetricsTypeOK
  <1>2. running[w] # Idle /\ minute' = minute /\ settings' = settings
    BY DEF OpenDatabase, At
  <1> DEFINE row == [running[w] EXCEPT !.file = file, !.phase = "prune"]
  <1>3. running[w] \in ProcessRows /\ RowOK(running[w])
    BY <1>2, TypeParts DEF RunningOK
  <1>4. /\ row \in ProcessRows /\ row.file = file /\ row.phase = "prune"
        /\ row.kind = running[w].kind /\ row.on = running[w].on /\ row.arm = running[w].arm
        /\ running' = [running EXCEPT ![w] = row]
    BY <1>1, <1>3 DEF ProcessRows
  <1> HIDE DEF row
  <1>5. RowOK(row) /\ ~\E f : AdmittedRow(row, f)
    BY <1>2, <1>3, <1>4 DEF RowOK, AdmittedRow
  <1>6. RunningOK' /\ \A f : Admitted(f)' \subseteq Admitted(f)
    <2>1. /\ RunningOK'
          /\ \A f : /\ w \in Admitted(f)' <=> AdmittedRow(row, f)
                    /\ \A v \in Processes \ {w} : v \in Admitted(f)' <=> v \in Admitted(f)
      BY <1>4, <1>5, TypeParts, Turn
    <2> QED BY <1>5, <2>1 DEF Admitted
  <1>7. QuietRows
    BY <1>1, <1>6 DEF QuietRows, SameStudies
  <1>8. MetricsTypeOK'
    BY <1>1, <1>2, <1>6, TypeParts, TypePartsNext
  <1> QED BY <1>7, <1>8 DEF StepOK, RowsStep

\* A step that leaves a suffix of the events of one file and lets its command
\* go on towards the check, or go.
LEMMA EventsShortened ==
  ASSUME MetricsTypeOK, NEW f \in Generations, NEW events \in Seq(Int),
         files' = [files EXCEPT ![f].events = events]
  PROVE  files' \in [Generations -> Databases] /\ SameStudies
  <1> DEFINE base == [files[f] EXCEPT !.events = events]
  <1>1. files[f] \in Databases
    BY DEF MetricsTypeOK
  <1>2. /\ base \in Databases /\ base.studies = files[f].studies
        /\ base.pairs = files[f].pairs /\ base.observed = files[f].observed
    BY <1>1 DEF Databases
  <1>3. files' = [files EXCEPT ![f] = base]
    OBVIOUS
  <1> HIDE DEF base
  <1> QED BY <1>2, <1>3 DEF MetricsTypeOK, SameStudies

LEMMA PruneOK ==
  ASSUME MetricsTypeOK, NEW w \in Processes, Prune(w)
  PROVE  StepOK
  <1> DEFINE f == running[w].file
             events == SubSeq(files[f].events, 1 + Cardinality(Aged(files[f].events)),
                              Len(files[f].events))
  <1>1. /\ running[w] # Idle /\ running[w].phase = "prune"
        /\ running' = [running EXCEPT ![w].phase = "trim"]
        /\ files' = [files EXCEPT ![f].events = events]
        /\ UNCHANGED <<minute, settings, current>>
    BY DEF Prune, At, Goes
  <1>2. /\ RunningOK' /\ f \in Generations
        /\ \A g : Admitted(g)' \subseteq Admitted(g)
    <2>1. /\ RunningOK' /\ f \in Generations
          /\ \A g : \A v \in Processes \ {w} : v \in Admitted(g)' <=> v \in Admitted(g)
          /\ \A g : w \in Admitted(g)' <=> g = f /\ "trim" \in {"run", "insert"}
      BY <1>1, TypeParts, PhaseTurn
    <2> QED BY <2>1 DEF Admitted
  <1>3. events \in Seq(Int)
    BY <1>2, AgedIsNat, SuffixIsSeq, DatabaseFields DEF MetricsTypeOK
  <1> HIDE DEF f, events
  <1>4. files' \in [Generations -> Databases] /\ SameStudies
    BY <1>1, <1>2, <1>3, EventsShortened
  <1>5. QuietRows
    BY <1>2, <1>4 DEF QuietRows
  <1>6. MetricsTypeOK'
    BY <1>1, <1>2, <1>4, TypeParts, TypePartsNext
  <1> QED BY <1>5, <1>6 DEF StepOK, RowsStep

LEMMA TrimOK ==
  ASSUME MetricsTypeOK, NEW w \in Processes, Trim(w)
  PROVE  StepOK
  <1> DEFINE f == running[w].file
             events == SubSeq(files[f].events, 1 + TrimBatch, Len(files[f].events))
  <1>1. /\ running[w] # Idle /\ running[w].phase = "trim"
        /\ running' = running \/ running' = [running EXCEPT ![w].phase = "check"]
        /\ files' = files \/ files' = [files EXCEPT ![f] = [files[f] EXCEPT !.events = events]]
        /\ UNCHANGED <<minute, settings, current>>
    BY DEF Trim, At, Goes, Trimmed
  <1>2. f \in Generations
    BY <1>1 DEF MetricsTypeOK
  <1>3. RunningOK' /\ \A g : Admitted(g)' \subseteq Admitted(g)
    <2>1. CASE running' = running
      BY <2>1, TypeParts DEF RunningOK, RowOK, Admitted
    <2>2. CASE running' = [running EXCEPT ![w].phase = "check"]
      <3>1. /\ RunningOK'
            /\ \A g : \A v \in Processes \ {w} : v \in Admitted(g)' <=> v \in Admitted(g)
            /\ \A g : w \in Admitted(g)' <=> g = f /\ "check" \in {"run", "insert"}
        BY <1>1, <2>2, TypeParts, PhaseTurn
      <3> QED BY <3>1 DEF Admitted
    <2> QED BY <1>1, <2>1, <2>2
  <1>4. events \in Seq(Int)
    BY <1>2, MetricsAssumption, SuffixIsSeq, DatabaseFields DEF MetricsTypeOK
  <1> HIDE DEF f, events
  <1>5. files' \in [Generations -> Databases] /\ SameStudies
    <2>1. CASE files' = files
      BY <2>1 DEF MetricsTypeOK, SameStudies
    <2>2. CASE files' = [files EXCEPT ![f] = [files[f] EXCEPT !.events = events]]
      BY <1>2, <1>4, <2>2, EventsShortened
    <2> QED BY <1>1, <2>1, <2>2
  <1>6. QuietRows
    BY <1>3, <1>5 DEF QuietRows
  <1>7. MetricsTypeOK'
    BY <1>1, <1>3, <1>5, TypeParts, TypePartsNext
  <1> QED BY <1>6, <1>7 DEF StepOK, RowsStep

\* A command that ends without a write.
LEMMA EndsOK ==
  ASSUME MetricsTypeOK, NEW w \in Processes, Ends(w), files' = files,
         minute' = minute, settings' = settings, current' \in Generations \cup {NoFile}
  PROVE  StepOK
  <1>1. RunningOK' /\ \A f : Admitted(f)' \subseteq Admitted(f) \ {w}
    BY TypeParts, EndsTurn
  <1>2. QuietRows
    BY <1>1 DEF QuietRows, SameStudies
  <1>3. MetricsTypeOK'
    BY <1>1, TypeParts, TypePartsNext
  <1> QED BY <1>2, <1>3 DEF StepOK, RowsStep

LEMMA CheckOK ==
  ASSUME MetricsTypeOK, NEW w \in Processes, Check(w)
  PROVE  StepOK
  <1>1. /\ running[w] # Idle /\ running[w].phase = "check"
        /\ UNCHANGED <<minute, settings, current, files>>
        /\ running[w] \in ProcessRows
    BY DEF Check, At, MetricsTypeOK
  <1>2. CASE Rows(files[running[w].file]) > running[w].cap
    <2>1. Ends(w)
      BY <1>2 DEF Check
    <2> QED BY <1>1, <2>1, EndsOK DEF MetricsTypeOK
  <1>3. CASE ~(Rows(files[running[w].file]) > running[w].cap)
    <2>1. PICK phase \in {"run", "answer"} : running' = [running EXCEPT ![w].phase = phase]
      BY <1>3 DEF Check, Goes
    <2>2. /\ RunningOK' /\ running[w].file \in Generations
          /\ \A f : \A v \in Processes \ {w} : v \in Admitted(f)' <=> v \in Admitted(f)
          /\ \A f : w \in Admitted(f)' <=>
                      f = running[w].file /\ phase \in {"run", "insert"}
      BY <1>1, <2>1, TypeParts, PhaseTurn
    <2>4. AdmitsOne
      BY <1>1, <1>3, <2>2 DEF AdmitsOne, Admitted
    <2>5. MetricsTypeOK'
      BY <1>1, <2>2, TypeParts, TypePartsNext
    <2> QED BY <2>4, <2>5 DEF StepOK, RowsStep
  <1> QED BY <1>2, <1>3


\* A statement of an admitted command wrote into its file.
LEMMA WroteOK ==
  ASSUME MetricsTypeOK, NEW w \in Processes,
         running[w] # Idle, running[w].phase \in {"run", "insert"},
         NEW base \in Databases, Wrote(w, base), UNCHANGED <<minute, settings, current>>
  PROVE  /\ MetricsTypeOK'
         /\ running[w].file \in Generations /\ w \in Admitted(running[w].file)
         /\ files'[running[w].file] = base
         /\ \A g \in Generations : /\ Admitted(g)' \subseteq Admitted(g) \ {w}
                                   /\ g # running[w].file => files'[g] = files[g]
  <1>1. /\ files' = [files EXCEPT ![running[w].file] = base]
        /\ running' = [running EXCEPT ![w].phase = "prune", ![w].opening = FALSE]
    BY DEF Wrote
  <1>2. /\ RunningOK' /\ running[w].file \in Generations
        /\ \A f : \A v \in Processes \ {w} : v \in Admitted(f)' <=> v \in Admitted(f)
        /\ \A f : w \in Admitted(f)' <=>
                    f = running[w].file /\ "prune" \in {"run", "insert"}
    BY <1>1, TypeParts, PhaseTurn
  <1>3. \A g : Admitted(g)' \subseteq Admitted(g) \ {w}
    BY <1>2 DEF Admitted
  <1>4. w \in Admitted(running[w].file)
    BY DEF Admitted
  <1>5. /\ files' \in [Generations -> Databases] /\ files'[running[w].file] = base
        /\ \A g \in Generations : g # running[w].file => files'[g] = files[g]
    BY <1>1, <1>2 DEF MetricsTypeOK
  <1>6. MetricsTypeOK'
    BY <1>2, <1>5, TypeParts, TypePartsNext
  <1> QED BY <1>2, <1>3, <1>4, <1>5, <1>6

LEMMA RunOK ==
  ASSUME MetricsTypeOK, NEW w \in Processes, Run(w)
  PROVE  StepOK
  <1> DEFINE f == running[w].file
             base == files[f]
  <1>1. /\ running[w] # Idle /\ running[w].phase = "run"
        /\ UNCHANGED <<minute, settings, current>>
    BY DEF Run, At
  <1>2. f \in Generations /\ running[w] \in ProcessRows /\ base \in Databases
    BY <1>1 DEF MetricsTypeOK
  <1>3. CASE WriteEvent(w, base)
    <2> DEFINE new == [base EXCEPT !.events = Append(base.events, minute)]
    <2>1. base.events \in Seq(Int) /\ minute \in Int
      BY <1>2, DatabaseFields DEF MetricsTypeOK
    <2>2. /\ new \in Databases /\ new.studies = base.studies /\ new.pairs = base.pairs
          /\ new.observed = base.observed
      <3> HIDE DEF base
      <3>1. Append(base.events, minute) \in Seq(Int)
        BY <2>1
      <3> QED BY <1>2, <3>1 DEF Databases
    <2>3. Wrote(w, new)
      BY <1>3 DEF WriteEvent
    <2> HIDE DEF new
    <2>4. /\ MetricsTypeOK' /\ w \in Admitted(f) /\ files'[f] = new
          /\ \A g \in Generations : /\ Admitted(g)' \subseteq Admitted(g) \ {w}
                                    /\ g # f => files'[g] = files[g]
      BY <1>1, <1>2, <2>2, <2>3, WroteOK
    <2>5. SameStudies
      BY <2>2, <2>4 DEF SameStudies
    <2> QED BY <1>2, <2>4, <2>5 DEF StepOK, RowsStep, WritesOne
  <1>4. CASE BeginExperiment(w, base)
    <2>1. PICK study \in Studies : Wrote(w, [base EXCEPT !.studies = base.studies \cup {study}])
      BY <1>4 DEF BeginExperiment
    <2> DEFINE new == [base EXCEPT !.studies = base.studies \cup {study}]
    <2>2. /\ new \in Databases /\ new.studies = base.studies \cup {study}
          /\ new.pairs = base.pairs /\ new.observed = base.observed
      <3> HIDE DEF base
      <3> QED BY <1>2 DEF Databases
    <2> HIDE DEF new
    <2>3. /\ MetricsTypeOK' /\ w \in Admitted(f) /\ files'[f] = new
          /\ \A g \in Generations : /\ Admitted(g)' \subseteq Admitted(g) \ {w}
                                    /\ g # f => files'[g] = files[g]
      BY <1>1, <1>2, <2>1, <2>2, WroteOK DEF new
    <2> QED BY <1>2, <2>2, <2>3 DEF StepOK, RowsStep, WritesOne
  <1>5. CASE CreatePair(w, base)
    <2>1. CASE Ends(w) /\ files' = files
      BY <1>1, <2>1, EndsOK DEF MetricsTypeOK
    <2>2. CASE ~(Ends(w) /\ files' = files)
      <3>1. running[w].on \in base.studies
        BY <1>5, <2>2 DEF CreatePair
      <3>2. PICK id \in Pairs, arm \in Arms :
              Wrote(w, [base EXCEPT !.pairs =
                base.pairs \cup {[id |-> id, study |-> running[w].on, first |-> arm]}])
        BY <1>5, <3>1 DEF CreatePair
      <3> DEFINE row == [id |-> id, study |-> running[w].on, first |-> arm]
                 new == [base EXCEPT !.pairs = base.pairs \cup {row}]
      <3>3. row \in PairRows
        BY <1>2, <3>1, DatabaseFields DEF PairRows
      <3>4. /\ new \in Databases /\ new.pairs = base.pairs \cup {row}
            /\ new.studies = base.studies /\ new.observed = base.observed
        <4> HIDE DEF base, row
        <4> QED BY <1>2, <3>3 DEF Databases
      <3> HIDE DEF new
      <3>5. /\ MetricsTypeOK' /\ w \in Admitted(f) /\ files'[f] = new
            /\ \A g \in Generations : /\ Admitted(g)' \subseteq Admitted(g) \ {w}
                                      /\ g # f => files'[g] = files[g]
        BY <1>1, <1>2, <3>2, <3>4, WroteOK DEF new
      <3> QED BY <1>2, <3>4, <3>5 DEF StepOK, RowsStep, WritesOne
    <2> QED BY <2>1, <2>2
  <1>6. CASE running[w].kind = "record" /\ LookUpPair(w, base)
    <2>1. files' = files
      BY <1>6 DEF LookUpPair
    <2>2. CASE Ends(w)
      BY <1>1, <2>1, <2>2, EndsOK DEF MetricsTypeOK
    <2>3. CASE running' = [running EXCEPT ![w].phase = "insert"]
      <3>1. /\ RunningOK' /\ f \in Generations
            /\ \A g : \A v \in Processes \ {w} : v \in Admitted(g)' <=> v \in Admitted(g)
            /\ \A g : w \in Admitted(g)' <=> g = f /\ "insert" \in {"run", "insert"}
        BY <1>1, <1>6, <2>3, TypeParts, PhaseTurn
      <3>2. QuietRows
        BY <1>1, <2>1, <3>1 DEF QuietRows, SameStudies, Admitted
      <3>3. MetricsTypeOK'
        BY <1>1, <2>1, <3>1, TypeParts, TypePartsNext
      <3> QED BY <3>2, <3>3 DEF StepOK, RowsStep
    <2> QED BY <1>6, <2>2, <2>3 DEF LookUpPair, Goes
  <1>7. CASE Ends(w) /\ files' = files
    BY <1>1, <1>7, EndsOK DEF MetricsTypeOK
  <1> QED BY <1>3, <1>4, <1>5, <1>6, <1>7 DEF Run

LEMMA InsertOK ==
  ASSUME MetricsTypeOK, NEW w \in Processes, InsertObservation(w)
  PROVE  StepOK
  <1> DEFINE f == running[w].file
             base == files[f]
             row == <<running[w].on, running[w].arm>>
             new == [base EXCEPT !.observed = base.observed \cup {row}]
  <1>1. /\ running[w] # Idle /\ running[w].phase = "insert"
        /\ UNCHANGED <<minute, settings, current>>
        /\ (Ends(w) /\ files' = files) \/ Wrote(w, new)
    BY DEF InsertObservation, At
  <1>2. CASE Ends(w) /\ files' = files
    BY <1>1, <1>2, EndsOK DEF MetricsTypeOK
  <1>3. CASE Wrote(w, new)
    <2>1. f \in Generations /\ base \in Databases /\ row \in Pairs \X Arms
      BY <1>1 DEF MetricsTypeOK
    <2>2. /\ new \in Databases /\ new.observed = base.observed \cup {row}
          /\ new.studies = base.studies /\ new.pairs = base.pairs
      <3> HIDE DEF base, row
      <3> QED BY <2>1 DEF Databases
    <2> HIDE DEF new
    <2>3. /\ MetricsTypeOK' /\ w \in Admitted(f) /\ files'[f] = new
          /\ \A g \in Generations : /\ Admitted(g)' \subseteq Admitted(g) \ {w}
                                    /\ g # f => files'[g] = files[g]
      BY <1>1, <1>3, <2>1, <2>2, WroteOK
    <2> QED BY <2>1, <2>2, <2>3 DEF StepOK, RowsStep, WritesOne
  <1> QED BY <1>1, <1>2, <1>3

LEMMA KnownTyped ==
  MetricsTypeOK => Known \subseteq Pairs /\ KnownStudies \subseteq Studies
  <1> SUFFICES ASSUME MetricsTypeOK
               PROVE  Known \subseteq Pairs /\ KnownStudies \subseteq Studies
    OBVIOUS
  <1>1. \A f \in Generations : files[f].studies \subseteq Studies /\ files[f].pairs \subseteq PairRows
    BY DatabaseFields DEF MetricsTypeOK
  <1> QED BY <1>1 DEF Known, KnownStudies, PairRows

LEMMA StartSomeOK ==
  ASSUME MetricsTypeOK, NEW w \in Processes, StartSome(w)
  PROVE  StepOK
  <1>1. ASSUME NEW kind \in {"event", "begin", "report", "clear"}, Start(w, kind, NoFile, NoFile)
        PROVE  StepOK
    BY <1>1, StartOK
  <1>2. ASSUME NEW study \in KnownStudies, Start(w, "pair", study, NoFile)
        PROVE  StepOK
    BY <1>2, KnownTyped, StartOK
  <1>3. ASSUME NEW pair \in Known, NEW arm \in Arms, Start(w, "record", pair, arm)
        PROVE  StepOK
    BY <1>3, KnownTyped, StartOK
  <1> QED BY <1>1, <1>2, <1>3, ConfigureOK DEF StartSome

LEMMA MetricsStepOK ==
  MetricsTypeOK /\ [MetricsNext]_metricsVars => StepOK
  <1> SUFFICES ASSUME MetricsTypeOK, [MetricsNext]_metricsVars PROVE StepOK
    OBVIOUS
  <1>1. CASE Tick \/ UNCHANGED metricsVars
    <2>1. /\ UNCHANGED <<settings, current, files, running>>
          /\ minute' = minute \/ minute' = minute + 1
      BY <1>1 DEF Tick, metricsVars
    <2>2. QuietRows
      BY <2>1 DEF QuietRows, SameStudies, Admitted
    <2>3. MetricsTypeOK'
      BY <2>1 DEF MetricsTypeOK
    <2> QED BY <2>2, <2>3 DEF StepOK, RowsStep
  <1>2. ASSUME NEW w \in Processes, Answer(w) \/ Clear(w) \/ Stop(w)
        PROVE  StepOK
    <2>1. /\ Ends(w) /\ files' = files /\ minute' = minute /\ settings' = settings
          /\ current' \in Generations \cup {NoFile}
      BY <1>2 DEF Answer, Clear, Stop, MetricsTypeOK
    <2> QED BY <2>1, EndsOK
  <1> QED BY <1>1, <1>2, StartSomeOK, OpenOK, PruneOK, TrimOK, CheckOK, RunOK, InsertOK
          DEF MetricsNext

-----------------------------------------------------------------------------
(* The invariant and the properties.                                       *)

LEMMA MetricsInitInv == MetricsInit => MetricsInv
  <1> SUFFICES ASSUME MetricsInit PROVE MetricsInv
    OBVIOUS
  <1>1. /\ minute = 0 /\ settings \in [enabled : {TRUE}, cap : Caps]
        /\ running = [w \in Processes |-> Idle]
    BY DEF MetricsInit
  <1>2. /\ EmptyFile \in Databases /\ EmptyFile.studies = {} /\ EmptyFile.pairs = {}
        /\ EmptyFile.observed = {}
    BY DEF EmptyFile, Databases
  <1> DEFINE FromStart(base) ==
               \/ base = EmptyFile
               \/ \E study, pair : /\ base.studies = {study} /\ base.pairs = {pair}
                                   /\ base.observed = {}
             FilesStart == /\ current \in Generations \cup {NoFile}
                           /\ files \in [Generations -> Databases]
                           /\ \A f \in Generations : FromStart(files[f])
             StudyAt(file, study, id, arm) ==
               /\ current = file
               /\ files = [f \in Generations |->
                            IF f # file THEN EmptyFile
                            ELSE [EmptyFile EXCEPT !.studies = {study},
                                    !.pairs = {[id |-> id, study |-> study, first |-> arm]}]]
  <1>3. FilesStart
    <2>1. CASE current = NoFile /\ files = [f \in Generations |-> EmptyFile]
      BY <1>2, <2>1
    <2>2. ASSUME NEW file \in Generations, NEW study \in Studies, NEW id \in Pairs, NEW arm \in Arms,
                 StudyAt(file, study, id, arm)
          PROVE  FilesStart
      <3> DEFINE row == [id |-> id, study |-> study, first |-> arm]
                 base == [EmptyFile EXCEPT !.studies = {study}, !.pairs = {row}]
      <3>1. {row} \subseteq PairRows /\ {study} \subseteq Studies
        BY DEF PairRows
      <3>2. files = [f \in Generations |-> IF f # file THEN EmptyFile ELSE base]
        BY <2>2
      <3> HIDE DEF row
      <3>3. base \in Databases /\ base.studies = {study} /\ base.pairs = {row}
        BY <1>2, <3>1 DEF Databases
      <3>4. base.observed = {}
        BY <1>2, <3>1 DEF Databases
      <3>5. FromStart(base)
        BY <3>3, <3>4
      <3> HIDE DEF base, FromStart
      <3>6. FromStart(EmptyFile)
        BY DEF FromStart
      <3>7. files \in [Generations -> Databases] /\ \A f \in Generations : FromStart(files[f])
        BY <1>2, <3>2, <3>3, <3>5, <3>6
      <3> QED BY <2>2, <3>7
    <2>3. \/ current = NoFile /\ files = [f \in Generations |-> EmptyFile]
          \/ \E file \in Generations, study \in Studies, id \in Pairs, arm \in Arms :
               StudyAt(file, study, id, arm)
      BY DEF MetricsInit
    <2> HIDE DEF FilesStart, StudyAt
    <2> QED BY <2>1, <2>2, <2>3
  <1> HIDE DEF FromStart, StudyAt
  <1>4. MetricsTypeOK
    <2>1. minute \in Int /\ running \in [Processes -> ProcessRows \cup {Idle}]
      BY <1>1
    <2>2. settings \in [enabled : BOOLEAN, cap : Caps]
      BY <1>1
    <2>3. \A w \in Processes : running[w] = Idle
      BY <1>1
    <2> QED BY <1>3, <2>1, <2>2, <2>3 DEF MetricsTypeOK
  <1> USE DEF FromStart
  <1>5. ASSUME NEW f \in Generations
        PROVE  /\ IsFiniteSet(files[f].studies) /\ IsFiniteSet(files[f].pairs)
               /\ IsFiniteSet(files[f].observed)
               /\ StudyRows(files[f]) \in 0 .. 2
    <2>1. /\ files[f].studies = {} \/ \E x : files[f].studies = {x}
          /\ files[f].pairs = {} \/ \E x : files[f].pairs = {x}
          /\ files[f].observed = {}
      BY <1>2, <1>3
    <2>2. /\ IsFiniteSet(files[f].studies) /\ Cardinality(files[f].studies) \in 0 .. 1
          /\ IsFiniteSet(files[f].pairs) /\ Cardinality(files[f].pairs) \in 0 .. 1
          /\ IsFiniteSet(files[f].observed) /\ Cardinality(files[f].observed) = 0
      <3>1. \A S : (S = {} \/ \E x : S = {x}) => IsFiniteSet(S) /\ Cardinality(S) \in 0 .. 1
        <4>1. \A S : S = {} => IsFiniteSet(S) /\ Cardinality(S) = 0
          BY FS_EmptySet
        <4>2. \A x : IsFiniteSet({x}) /\ Cardinality({x}) = 1
          BY FS_Singleton
        <4> QED BY <4>1, <4>2
      <3> QED BY <2>1, <3>1, FS_EmptySet
    <2> QED BY <2>2 DEF StudyRows
  <1>6. \A f \in Generations : Cardinality(Admitted(f)) = 0
    <2>1. \A f \in Generations : Admitted(f) = {}
      BY <1>1 DEF Admitted
    <2> QED BY <2>1, FS_EmptySet
  <1>7. LargestCap + Cardinality(Processes) >= 2 /\ LargestCap + Cardinality(Processes) \in Nat
    BY LargestCapIs, ProcessesCount, MetricsAssumption
  <1> QED BY <1>4, <1>5, <1>6, <1>7, LargestCapIs, ProcessesCount
          DEF MetricsInv, StudiesFinite, RoomKept

\* The invariant: whatever commands run beside each other, end anywhere and
\* have the file unlinked under them, a file keeps room for every command that
\* was admitted to write.
THEOREM RoomIsKept == Spec => []MetricsInv
  <1>1. MetricsInv /\ [MetricsNext]_metricsVars => MetricsInv'
    BY MetricsStepOK, QuietKeeps, AdmitsKeeps, WritesKeeps DEF MetricsInv, StepOK, RowsStep
  <1> QED BY <1>1, MetricsInitInv, PTL DEF Spec

LEMMA RoomBounds == MetricsInv => GrowthStops
  <1> SUFFICES ASSUME MetricsInv, NEW f \in Generations
               PROVE  StudyRows(files[f]) <= Cardinality(Processes) + LargestCap
    BY DEF GrowthStops
  <1>1. StudyRows(files[f]) \in Nat
    BY StudyRowsNat DEF MetricsInv, StudiesFinite
  <1>2. Cardinality(Admitted(f)) \in Nat
    BY AdmittedCount
  <1> QED BY <1>1, <1>2, LargestCapIs, ProcessesCount DEF MetricsInv, RoomKept

\* A full store stops growing, for any number of processes, files and caps: the
\* rows of its studies exceed the largest cap by no more than the processes.
THEOREM FullStoreStops == Spec => []GrowthStops
  <1> QED BY RoomIsKept, RoomBounds, PTL

\* Retention and the cap never take a row of a study.
THEOREM StudiesStay == Spec => StudiesKept
  <1> DEFINE Kept == \A f \in Generations : /\ files[f].studies \subseteq files'[f].studies
                                            /\ files[f].pairs \subseteq files'[f].pairs
                                            /\ files[f].observed \subseteq files'[f].observed
  <1>1. RowsStep => Kept
    <2>1. QuietRows => Kept
      BY DEF QuietRows, SameStudies
    <2>2. AdmitsOne => Kept
      BY DEF AdmitsOne
    <2>3. WritesOne => Kept
      <3> SUFFICES ASSUME WritesOne, NEW f \in Generations
                   PROVE  /\ files[f].studies \subseteq files'[f].studies
                          /\ files[f].pairs \subseteq files'[f].pairs
                          /\ files[f].observed \subseteq files'[f].observed
        OBVIOUS
      <3> QED BY DEF WritesOne, SameStudies
    <2> QED BY <2>1, <2>2, <2>3 DEF RowsStep
  <1>2. MetricsInv /\ [MetricsNext]_metricsVars => [Kept]_metricsVars
    BY <1>1, MetricsStepOK DEF MetricsInv, StepOK
  <1>3. Spec => [][Kept]_metricsVars
    <2> HIDE DEF Kept
    <2> QED BY <1>2, RoomIsKept, PTL DEF Spec
  <1> QED BY <1>3 DEF StudiesKept

=============================================================================
