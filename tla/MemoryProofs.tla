---------------------------- MODULE MemoryProofs ----------------------------
(***************************************************************************)
(* Proofs about Memory, where Sources and Projections share one store:     *)
(* MemoryInv is inductive, and what is promised of items, of answers and   *)
(* of the projection index follows from it.                                *)
(***************************************************************************)
EXTENDS Memory, TLAPS

-----------------------------------------------------------------------------
(* What a step may do to the artifacts, whoever takes it.                  *)

\* Artifacts only grow: nothing stored disappears, no head moves back, and an
\* artifact that is active was active or is new.
ArtifactsGrow ==
  /\ revisions \subseteq revisions'
  /\ \A a \in Artifacts :
       /\ artHead[a] <= artHead'[a]
       /\ Stored(a) => Stored(a)'
       /\ artStatus[a] = "forgotten" => artStatus'[a] = "forgotten"

\* The typing of the artifact tables.
ArtifactsTyped ==
  /\ artHead \in [Artifacts -> 0 .. MaxRevision]
  /\ artStatus \in [Artifacts -> {"absent", "active", "forgotten"}]
  /\ \A a \in Artifacts : Stored(a) <=> artHead[a] # 0
  /\ \A row \in revisions : row.artifact \in Artifacts /\ Stored(row.artifact)

\* A new identity.
LEMMA InsertGrows ==
  ASSUME ArtifactsTyped, NEW a \in Artifacts, NEW payload, NEW origin, NEW ambient,
         InsertArtifact(a, payload, origin, ambient)
  PROVE  /\ ArtifactsTyped' /\ ArtifactsGrow
         /\ artHead'[a] = 1 /\ artStatus'[a] = "active"
         /\ \A b \in Artifacts \ {a} : artStatus'[b] = artStatus[b]
         /\ \A row \in revisions : row.artifact # a
         /\ revisions' = revisions \cup {RevisionRow(a, 1, payload, origin)}
  <1>0. MaxRevision \in Nat \ {0}
    BY ArtifactsAssumption
  <1>1. /\ artStatus[a] = "absent" /\ artHead[a] = 0
        /\ artHead' = [artHead EXCEPT ![a] = 1]
        /\ artStatus' = [artStatus EXCEPT ![a] = "active"]
        /\ revisions' = revisions \cup {RevisionRow(a, 1, payload, origin)}
    BY DEF InsertArtifact, ArtifactsTyped, Stored
  <1>2. RevisionRow(a, 1, payload, origin).artifact = a
    BY DEF RevisionRow
  <1>3. /\ artHead' \in [Artifacts -> 0 .. MaxRevision]
        /\ artStatus' \in [Artifacts -> {"absent", "active", "forgotten"}]
        /\ \A b \in Artifacts \ {a} : artStatus'[b] = artStatus[b] /\ artHead'[b] = artHead[b]
        /\ artHead'[a] = 1 /\ artStatus'[a] = "active"
    BY <1>0, <1>1 DEF ArtifactsTyped
  <1>4. ArtifactsTyped'
    BY <1>1, <1>2, <1>3 DEF ArtifactsTyped, Stored
  <1>5. ArtifactsGrow
    BY <1>1, <1>3 DEF ArtifactsGrow, ArtifactsTyped, Stored
  <1> QED BY <1>1, <1>3, <1>4, <1>5 DEF ArtifactsTyped, Stored

\* A new revision.
LEMMA AppendGrows ==
  ASSUME ArtifactsTyped, NEW a \in Artifacts, Stored(a), NEW payload, NEW origin,
         AppendRevision(a, payload, origin)
  PROVE  /\ ArtifactsTyped' /\ ArtifactsGrow
         /\ artHead'[a] = artHead[a] + 1 /\ artHead'[a] \in 1 .. MaxRevision
         /\ artStatus' = artStatus
         /\ revisions' = revisions \cup {RevisionRow(a, artHead'[a], payload, origin)}
  <1>0. MaxRevision \in Nat /\ artHead[a] \in 0 .. MaxRevision
    BY ArtifactsAssumption DEF ArtifactsTyped
  <1>1. /\ artHead[a] < MaxRevision /\ artStatus' = artStatus
        /\ artHead' = [artHead EXCEPT ![a] = artHead[a] + 1]
        /\ revisions' = revisions \cup {RevisionRow(a, artHead[a] + 1, payload, origin)}
    BY DEF AppendRevision
  <1>2. RevisionRow(a, artHead[a] + 1, payload, origin).artifact = a
    BY DEF RevisionRow
  <1>3. /\ artHead' \in [Artifacts -> 0 .. MaxRevision]
        /\ \A b \in Artifacts \ {a} : artHead'[b] = artHead[b]
        /\ artHead'[a] = artHead[a] + 1
    BY <1>0, <1>1 DEF ArtifactsTyped
  <1>4. ArtifactsTyped'
    BY <1>0, <1>1, <1>2, <1>3 DEF ArtifactsTyped, Stored
  <1>5. ArtifactsGrow
    BY <1>0, <1>1, <1>3 DEF ArtifactsGrow, ArtifactsTyped, Stored
  <1> QED BY <1>0, <1>1, <1>3, <1>4, <1>5

\* A logical removal.
LEMMA ForgetGrows ==
  ASSUME ArtifactsTyped, NEW a \in Artifacts, Stored(a), MarkForgotten(a)
  PROVE  /\ ArtifactsTyped' /\ ArtifactsGrow
         /\ artStatus'[a] = "forgotten" /\ revisions' = revisions
         /\ \A b \in Artifacts \ {a} : artStatus'[b] = artStatus[b]
  <1>1. /\ artHead' = artHead /\ revisions' = revisions
        /\ artStatus' = [artStatus EXCEPT ![a] = "forgotten"]
    BY DEF MarkForgotten
  <1>2. /\ artStatus' \in [Artifacts -> {"absent", "active", "forgotten"}]
        /\ artStatus'[a] = "forgotten"
        /\ \A b \in Artifacts \ {a} : artStatus'[b] = artStatus[b]
    BY <1>1 DEF ArtifactsTyped
  <1>3. ArtifactsTyped'
    BY <1>1, <1>2 DEF ArtifactsTyped, Stored
  <1>4. ArtifactsGrow
    BY <1>1, <1>2, ArtifactsAssumption DEF ArtifactsGrow, ArtifactsTyped, Stored
  <1> QED BY <1>1, <1>2, <1>3, <1>4

LEMMA KeptGrows ==
  ASSUME ArtifactsTyped, UNCHANGED artifactVars
  PROVE  ArtifactsTyped' /\ ArtifactsGrow
  <1>1. UNCHANGED <<artHead, artStatus, revisions>>
    BY DEF artifactVars
  <1>2. \A a \in Artifacts : artHead[a] \in Nat
    BY ArtifactsAssumption DEF ArtifactsTyped
  <1> QED BY <1>1, <1>2 DEF ArtifactsTyped, ArtifactsGrow, Stored

-----------------------------------------------------------------------------
(* Commits and the answers stored with them.                               *)

\* A commit spends a sequence number; a recorded answer does not.
LEMMA CommitTypes ==
  ASSUME commitSeq \in Nat, DOMAIN idempotency = ScopedKeys,
         NEW ambient, NEW key, NEW request, Commit(ambient, key, request)
  PROVE  /\ commitSeq' \in Nat /\ commitSeq' = NextCommitSeq /\ NextCommitSeq \in Nat
         /\ DOMAIN idempotency' = ScopedKeys
  BY DEF Commit, NextCommitSeq, RecordIdempotency

\* An answer for something else than a delivery, or for a delivery whose
\* revision is there, keeps the answers true.
LEMMA AnswersKept ==
  ASSUME DOMAIN idempotency = ScopedKeys, AnswerNamesRevision,
         revisions \subseteq revisions',
         NEW ambient, NEW key, NEW request, NEW seq,
         RecordIdempotency(ambient, key, request, seq),
         request.op = "source.ingest" =>
           \E row \in revisions' : /\ row.origin = Origin(request.item, request.revision)
                                   /\ row.payload = request.payload /\ row.seq = seq
  PROVE  AnswerNamesRevision' /\ DOMAIN idempotency' = ScopedKeys
  <1>1. DOMAIN idempotency' = ScopedKeys
    BY DEF RecordIdempotency
  <1>2. ASSUME NEW scoped \in ScopedKeys, idempotency'[scoped] # NoRecord,
               idempotency'[scoped].request.op = "source.ingest"
        PROVE  \E row \in revisions' :
                 /\ row.origin = Origin(idempotency'[scoped].request.item,
                                        idempotency'[scoped].request.revision)
                 /\ row.payload = idempotency'[scoped].request.payload
                 /\ row.seq = idempotency'[scoped].seq
    <2>1. CASE idempotency'[scoped] = idempotency[scoped]
      BY <1>2, <2>1 DEF AnswerNamesRevision
    <2>2. CASE idempotency'[scoped] # idempotency[scoped]
      <3>1. idempotency'[scoped] = [request |-> request, seq |-> seq]
        BY <2>2 DEF RecordIdempotency
      <3> QED BY <1>2, <3>1
    <2> QED BY <2>1, <2>2
  <1> QED BY <1>1, <1>2 DEF AnswerNamesRevision

\* The same without an answer.
LEMMA AnswersStay ==
  ASSUME DOMAIN idempotency = ScopedKeys, AnswerNamesRevision,
         revisions \subseteq revisions', idempotency' = idempotency
  PROVE  AnswerNamesRevision' /\ DOMAIN idempotency' = ScopedKeys
  BY DEF AnswerNamesRevision

-----------------------------------------------------------------------------
(* Frames: what a step leaves alone stays as the invariant wants it.       *)

ItemsInv ==
  /\ sources \in [Sources -> SourceRows \cup {NoSource}]
  /\ items \in [ItemKeys -> ItemRows \cup {NoItem}]
  /\ ItemsGrounded /\ ItemsDistinct /\ DeliveriesOwned

ProjectionsInv == projections \subseteq ProjectionRows /\ ProjectionsIndexed

LedgerInv ==
  /\ commitSeq \in Nat /\ DOMAIN idempotency = ScopedKeys
  /\ AnswerNamesRevision

PutsTyped == puts \in [Workers -> PutRows \cup {Idle}]

LEMMA MemoryInvParts ==
  MemoryInv <=> ArtifactsTyped /\ ItemsInv /\ ProjectionsInv /\ LedgerInv /\ PutsTyped
  BY DEF MemoryInv, MemoryTypeOK, ArtifactsTyped, ItemsInv, ProjectionsInv, LedgerInv,
         PutsTyped

\* The items do not mind what agents do to artifacts: no revision of theirs
\* has an origin, and none of their steps makes an artifact active again.
LEMMA ItemsFrame ==
  ASSUME ArtifactsTyped, ItemsInv, ArtifactsGrow, items' = items,
         sources' \in [Sources -> SourceRows \cup {NoSource}],
         \A s \in Sources : Registered(s) => Registered(s)',
         \A row \in revisions' \ revisions : row.origin = NoOrigin,
         \A a \in Artifacts : Stored(a) /\ Active(a)' => Active(a)
  PROVE  ItemsInv'
  <1>1. \A i \in ItemKeys : i[1] \in Sources
    BY DEF ItemKeys
  <1>2. \A i \in ItemKeys : Delivered(i) => items[i] \in ItemRows /\ items[i].artifact \in Artifacts
    BY DEF ItemsInv, Delivered, ItemRows
  <1>3. ItemsGrounded'
    <2> SUFFICES ASSUME NEW i \in ItemKeys, Delivered(i)
                 PROVE  /\ Registered(i[1])'
                        /\ \E row \in revisions' :
                             /\ row.artifact = items[i].artifact /\ row.number = items[i].revision
                             /\ row.origin = Origin(i, items[i].externalRevision)
                             /\ row.payload = items[i].payload
                             /\ items[i].state = "live" => row.seq = items[i].seq
                        /\ items[i].state = "withdrawn" => artStatus'[items[i].artifact] = "forgotten"
      BY DEF ItemsGrounded, Delivered
    <2> QED BY <1>1, <1>2 DEF ItemsInv, ItemsGrounded, ArtifactsGrow
  <1>4. ItemsDistinct'
    BY DEF ItemsInv, ItemsDistinct, Delivered
  <1>5. DeliveriesOwned'
    <2> SUFFICES ASSUME NEW row \in revisions', row.origin # NoOrigin, Active(row.artifact)'
                 PROVE  \E i \in ItemKeys :
                          /\ LiveItem(i) /\ items[i].artifact = row.artifact
                          /\ row.origin.source = i[1] /\ row.origin.external = i[2]
      BY DEF DeliveriesOwned, LiveItem, Delivered
    <2>1. row \in revisions /\ row.artifact \in Artifacts /\ Stored(row.artifact)
      BY DEF ArtifactsTyped
    <2>2. Active(row.artifact)
      BY <2>1
    <2> QED BY <2>1, <2>2 DEF ItemsInv, DeliveriesOwned
  <1> QED BY <1>3, <1>4, <1>5 DEF ItemsInv

LEMMA ProjectionsFrame ==
  ASSUME ArtifactsTyped, ArtifactsTyped', ProjectionsInv, ArtifactsGrow,
         UNCHANGED projectionVars
  PROVE  ProjectionsInv'
  <1>1. projections' = projections /\ projectionFts' = projectionFts
    BY DEF projectionVars
  <1>2. \A p \in projections : p.revision <= artHead'[p.artifact]
    <2> SUFFICES ASSUME NEW p \in projections PROVE p.revision <= artHead'[p.artifact]
      OBVIOUS
    <2>1. p.artifact \in Artifacts /\ p.revision \in Nat
      BY ArtifactsAssumption DEF ProjectionsInv, ProjectionRows
    <2>2. artHead[p.artifact] \in Nat /\ artHead'[p.artifact] \in Nat
      BY <2>1, ArtifactsAssumption DEF ArtifactsTyped
    <2> QED BY <2>1, <2>2 DEF ProjectionsInv, ProjectionsIndexed, ArtifactsGrow
  <1> QED BY <1>1, <1>2 DEF ProjectionsInv, ProjectionsIndexed, IndexRow

\* A step that only answers a key, or works on a source or a put.
LEMMA QuietArtifacts ==
  ASSUME ArtifactsTyped, ItemsInv, ProjectionsInv, UNCHANGED artifactVars, items' = items,
         sources' \in [Sources -> SourceRows \cup {NoSource}],
         \A s \in Sources : Registered(s) => Registered(s)'
  PROVE  /\ ArtifactsTyped' /\ ArtifactsGrow /\ ItemsInv'
         /\ UNCHANGED projectionVars => ProjectionsInv'
  <1>1. ArtifactsTyped' /\ ArtifactsGrow
    BY KeptGrows
  <1>2. revisions' = revisions /\ \A a \in Artifacts : Stored(a) /\ Active(a)' => Active(a)
    BY DEF artifactVars, Active
  <1>3. ItemsInv'
    BY <1>1, <1>2, ItemsFrame
  <1> QED BY <1>1, <1>3, ProjectionsFrame

-----------------------------------------------------------------------------
(* The artifact handlers.                                                  *)

LEMMA ArtifactsStep ==
  ASSUME MemoryInv, NEW ambient \in Contexts, NEW key \in OptionalKeys,
         ArtifactsNext(ambient, key),
         UNCHANGED <<sourceVars, projectionVars, puts>>
  PROVE  MemoryInv'
  <1>0. /\ ArtifactsTyped /\ ItemsInv /\ ProjectionsInv /\ LedgerInv /\ PutsTyped
        /\ UNCHANGED sourceVars /\ UNCHANGED projectionVars /\ puts' = puts
    BY MemoryInvParts DEF sourceVars, projectionVars
  <1> DEFINE Grows == /\ ArtifactsTyped' /\ ArtifactsGrow
                      /\ \A row \in revisions' \ revisions : row.origin = NoOrigin
                      /\ \A a \in Artifacts : Stored(a) /\ Active(a)' => Active(a)
             Records == \E request, seq : /\ request.op # "source.ingest"
                                          /\ RecordIdempotency(ambient, key, request, seq)
  <1>1. ASSUME NEW a \in Artifacts, NEW payload, ArtifactPut(a, payload, ambient, key)
        PROVE  Grows /\ Records /\ commitSeq' = NextCommitSeq
    <2>1. /\ InsertArtifact(a, payload, NoOrigin, ambient)
          /\ Commit(ambient, key, [op |-> "artifact.put", payload |-> payload])
      BY <1>1 DEF ArtifactPut
    <2>2. /\ ArtifactsTyped' /\ ArtifactsGrow /\ artStatus[a] = "absent"
          /\ \A b \in Artifacts \ {a} : artStatus'[b] = artStatus[b]
          /\ revisions' = revisions \cup {RevisionRow(a, 1, payload, NoOrigin)}
      BY <1>0, <2>1, InsertGrows DEF InsertArtifact, Stored
    <2>3. Grows
      BY <2>2 DEF Stored, Active, RevisionRow
    <2> QED BY <2>1, <2>3 DEF Commit
  <1>2. ASSUME NEW a \in Artifacts, NEW ifRevision, NEW payload,
               ArtifactRevise(a, ifRevision, payload, ambient, key)
        PROVE  Grows /\ Records /\ commitSeq' = NextCommitSeq
    <2>1. /\ Stored(a) /\ AppendRevision(a, payload, NoOrigin)
          /\ Commit(ambient, key, [op |-> "artifact.revise", artifact |-> a,
                                   if_revision |-> ifRevision, payload |-> payload])
      BY <1>2 DEF ArtifactRevise
    <2>2. Grows
      BY <1>0, <2>1, AppendGrows DEF Active, RevisionRow
    <2> QED BY <2>1, <2>2 DEF Commit
  <1>3. ASSUME NEW a \in Artifacts, ArtifactForget(a, ambient, key)
        PROVE  Grows /\ Records /\ commitSeq' = NextCommitSeq
    <2>1. /\ Stored(a) /\ MarkForgotten(a)
          /\ Commit(ambient, key, [op |-> "artifact.forget", artifact |-> a])
      BY <1>3 DEF ArtifactForget
    <2>2. Grows
      BY <1>0, <2>1, ForgetGrows DEF Active
    <2> QED BY <2>1, <2>2 DEF Commit
  <1>4. Grows /\ Records /\ commitSeq' = NextCommitSeq
    <2> HIDE DEF Grows, Records
    <2> QED BY <1>1, <1>2, <1>3 DEF ArtifactsNext
  <1>5. ItemsInv'
    BY <1>0, <1>4, ItemsFrame DEF sourceVars, ItemsInv, Registered
  <1>6. ProjectionsInv'
    BY <1>0, <1>4, ProjectionsFrame
  <1>7. LedgerInv'
    <2>1. AnswerNamesRevision' /\ DOMAIN idempotency' = ScopedKeys
      BY <1>0, <1>4, AnswersKept DEF LedgerInv, ArtifactsGrow
    <2> QED BY <1>0, <1>4, <2>1 DEF LedgerInv, NextCommitSeq
  <1>8. PutsTyped'
    BY <1>0 DEF PutsTyped
  <1>9. (MemoryInv <=> ArtifactsTyped /\ ItemsInv /\ ProjectionsInv /\ LedgerInv /\ PutsTyped)'
    BY MemoryInvParts, PTL
  <1> QED BY <1>4, <1>5, <1>6, <1>7, <1>8, <1>9

-----------------------------------------------------------------------------
(* The source handlers.                                                    *)

\* A row of `sources` stays one, whatever a handler writes to its columns.
LEMMA SourceUpdated ==
  ASSUME sources \in [Sources -> SourceRows \cup {NoSource}], NEW s \in Sources,
         NEW new \in SourceRows, sources' = [sources EXCEPT ![s] = new]
  PROVE  /\ sources' \in [Sources -> SourceRows \cup {NoSource}]
         /\ \A t \in Sources : Registered(t) => Registered(t)'
         /\ Registered(s)'
  BY SourcesAssumption DEF Registered

LEMMA RegisterStep ==
  ASSUME ItemsInv, commitSeq \in Nat, NEW s \in Sources, NEW name \in Names,
         NEW ambient \in Contexts, NEW key, SourceRegister(s, name, ambient, key)
  PROVE  /\ sources' \in [Sources -> SourceRows \cup {NoSource}]
         /\ \A t \in Sources : Registered(t) => Registered(t)'
  <1> DEFINE new == [owner |-> ambient, name |-> name, health |-> "unknown",
                     cursor |-> NoCursor, seq |-> NextCommitSeq]
  <1>1. new \in SourceRows
    BY DEF SourceRows, NextCommitSeq, OptionalCursors
  <1>2. sources' = [sources EXCEPT ![s] = new]
    BY DEF SourceRegister
  <1> HIDE DEF new
  <1> QED BY <1>1, <1>2, SourceUpdated DEF ItemsInv

\* What a checkpoint and a delivery write of a source.
LEMMA SourceTouched ==
  ASSUME sources \in [Sources -> SourceRows \cup {NoSource}], commitSeq \in Nat,
         NEW s \in Sources, Registered(s),
         NEW health \in Healths \cup {"unknown", "healthy"}, NEW cursor \in OptionalCursors,
         sources' = [sources EXCEPT ![s].health = health,
                                    ![s].cursor = Coalesce(cursor, sources[s].cursor),
                                    ![s].seq = NextCommitSeq]
  PROVE  /\ sources' \in [Sources -> SourceRows \cup {NoSource}]
         /\ \A t \in Sources : Registered(t) => Registered(t)'
  <1> DEFINE kept == Coalesce(cursor, sources[s].cursor)
             new == [sources[s] EXCEPT !.health = health, !.cursor = kept,
                                       !.seq = NextCommitSeq]
  <1>1. sources[s] \in SourceRows
    BY DEF Registered
  <1>2. kept \in OptionalCursors /\ NextCommitSeq \in Nat
    <2>1. sources[s].cursor \in OptionalCursors
      BY <1>1 DEF SourceRows
    <2> QED BY <2>1 DEF Coalesce, NextCommitSeq
  <1>3. sources' = [sources EXCEPT ![s] = new]
    OBVIOUS
  <1> HIDE DEF kept
  <1>4. new \in SourceRows
    BY <1>1, <1>2 DEF SourceRows
  <1> HIDE DEF new
  <1> QED BY <1>3, <1>4, SourceUpdated

\* A delivery: the item is bound to a new revision of an artifact that no other
\* item has, and that is the item's own if the item was live.
LEMMA BindStep ==
  ASSUME ArtifactsTyped, ItemsInv, ArtifactsTyped', ArtifactsGrow, commitSeq \in Nat,
         NEW i \in ItemKeys, NEW a \in Artifacts, Registered(i[1]),
         NEW externalRevision \in ExternalRevisions, NEW payload \in Payloads,
         NEW cursor \in OptionalCursors, NEW ambient, NEW key,
         artStatus'[a] = "active", artHead'[a] \in 1 .. MaxRevision,
         revisions' = revisions \cup
           {RevisionRow(a, artHead'[a], payload, Origin(i, externalRevision))},
         \A b \in Artifacts \ {a} : artStatus'[b] = artStatus[b],
         \A j \in ItemKeys \ {i} : Delivered(j) => items[j].artifact # a,
         LiveItem(i) => items[i].artifact = a,
         \A row \in revisions : row.artifact = a /\ row.origin # NoOrigin =>
           row.origin.source = i[1] /\ row.origin.external = i[2],
         BindItem(i, externalRevision, payload, a, cursor, ambient, key)
  PROVE  ItemsInv'
  <1> DEFINE item == [externalRevision |-> externalRevision, payload |-> payload,
                      artifact |-> a, revision |-> artHead'[a], state |-> "live",
                      seq |-> NextCommitSeq]
             new == RevisionRow(a, artHead'[a], payload, Origin(i, externalRevision))
  <1>1. item \in ItemRows /\ item # NoItem
    BY SourcesAssumption DEF ItemRows, NextCommitSeq
  <1>2. /\ items' = [items EXCEPT ![i] = item]
        /\ items' \in [ItemKeys -> ItemRows \cup {NoItem}]
        /\ items'[i] = item /\ \A j \in ItemKeys \ {i} : items'[j] = items[j]
    BY <1>1 DEF BindItem, ItemsInv
  <1>3. /\ sources' \in [Sources -> SourceRows \cup {NoSource}]
        /\ \A s \in Sources : Registered(s) => Registered(s)'
    <2>1. i[1] \in Sources
      BY DEF ItemKeys
    <2> QED BY <2>1, SourceTouched DEF ItemsInv, BindItem
  <1>4. \A j \in ItemKeys \ {i} :
          /\ Delivered(j)' = Delivered(j) /\ LiveItem(j)' = LiveItem(j)
          /\ j[1] \in Sources
    BY <1>2 DEF Delivered, LiveItem, ItemKeys
  <1>5. /\ Delivered(i)' /\ LiveItem(i)'
        /\ items'[i].artifact = a /\ items'[i].revision = artHead'[a]
        /\ items'[i].externalRevision = externalRevision /\ items'[i].payload = payload
        /\ items'[i].state = "live" /\ items'[i].seq = NextCommitSeq
        /\ i[1] \in Sources
    BY <1>1, <1>2 DEF Delivered, LiveItem, ItemKeys
  <1>6. /\ new \in revisions' /\ new.artifact = a /\ new.number = artHead'[a]
        /\ new.payload = payload /\ new.seq = NextCommitSeq
        /\ new.origin = Origin(i, externalRevision)
        /\ new.origin.source = i[1] /\ new.origin.external = i[2]
    BY DEF RevisionRow, Origin
  <1> HIDE DEF item, new
  <1>7. ItemsGrounded'
    <2>1. ASSUME NEW j \in ItemKeys \ {i}, Delivered(j)
          PROVE  /\ Registered(j[1])'
                 /\ \E row \in revisions' :
                      /\ row.artifact = items[j].artifact /\ row.number = items[j].revision
                      /\ row.origin = Origin(j, items[j].externalRevision)
                      /\ row.payload = items[j].payload
                      /\ items[j].state = "live" => row.seq = items[j].seq
                 /\ items[j].state = "withdrawn" => artStatus'[items[j].artifact] = "forgotten"
      <3>1. items[j].artifact \in Artifacts
        BY <2>1 DEF ItemsInv, Delivered, ItemRows
      <3> QED BY <1>3, <1>4, <2>1, <3>1 DEF ItemsInv, ItemsGrounded, ArtifactsGrow
    <2>2. Registered(i[1])'
      BY <1>3, <1>5
    <2> QED BY <1>2, <1>4, <1>5, <1>6, <2>1, <2>2 DEF ItemsGrounded
  <1>8. ItemsDistinct'
    BY <1>2, <1>4, <1>5 DEF ItemsInv, ItemsDistinct
  <1>9. DeliveriesOwned'
    <2> SUFFICES ASSUME NEW row \in revisions', row.origin # NoOrigin, Active(row.artifact)'
                 PROVE  \E j \in ItemKeys :
                          /\ LiveItem(j)' /\ items'[j].artifact = row.artifact
                          /\ row.origin.source = j[1] /\ row.origin.external = j[2]
      BY DEF DeliveriesOwned
    <2>1. CASE row.artifact = a
      <3>1. row.origin.source = i[1] /\ row.origin.external = i[2]
        BY <1>6, <2>1 DEF new
      <3> QED BY <1>5, <2>1, <3>1
    <2>2. CASE row.artifact # a
      <3>1. row \in revisions /\ row.artifact \in Artifacts
        BY <1>6, <2>2 DEF ArtifactsTyped, new
      <3>2. Active(row.artifact)
        BY <2>2, <3>1 DEF Active
      <3>3. PICK j \in ItemKeys : /\ LiveItem(j) /\ items[j].artifact = row.artifact
                                  /\ row.origin.source = j[1] /\ row.origin.external = j[2]
        BY <3>1, <3>2 DEF ItemsInv, DeliveriesOwned
      <3>4. j # i
        BY <2>2, <3>3
      <3> QED BY <1>2, <1>4, <3>3, <3>4
    <2> QED BY <2>1, <2>2
  <1> QED BY <1>2, <1>3, <1>7, <1>8, <1>9 DEF ItemsInv

\* A delivered item has an artifact that is stored.
LEMMA ItemStored ==
  ASSUME ArtifactsTyped, ItemsInv, NEW i \in ItemKeys, Delivered(i)
  PROVE  /\ items[i] \in ItemRows /\ i[1] \in Sources
         /\ items[i].artifact \in Artifacts /\ Stored(items[i].artifact)
  <1>1. items[i] \in ItemRows /\ i[1] \in Sources
    BY DEF ItemsInv, Delivered, ItemKeys
  <1>2. Stored(items[i].artifact)
    BY DEF ItemsInv, ItemsGrounded, ArtifactsTyped
  <1> QED BY <1>1, <1>2 DEF ItemRows

\* A withdrawal: the item and its artifact end together.
LEMMA WithdrawStep ==
  ASSUME ArtifactsTyped, ItemsInv, commitSeq \in Nat, NEW i \in ItemKeys,
         NEW ambient, NEW key, SourceWithdraw(i, ambient, key)
  PROVE  /\ ItemsInv' /\ ArtifactsTyped' /\ ArtifactsGrow
         /\ revisions' = revisions
  <1> DEFINE a == items[i].artifact
             item == [items[i] EXCEPT !.state = "withdrawn", !.seq = NextCommitSeq]
  <1>1. /\ Delivered(i) /\ Registered(i[1]) /\ items[i].state = "live" /\ MarkForgotten(a)
        /\ items' = [items EXCEPT ![i].state = "withdrawn", ![i].seq = NextCommitSeq]
        /\ sources' = [sources EXCEPT ![i[1]].seq = NextCommitSeq]
    BY DEF SourceWithdraw, WithdrawAdmitted, SourceAdmitted
  <1>2. /\ items[i] \in ItemRows /\ i[1] \in Sources
        /\ a \in Artifacts /\ Stored(a)
    BY <1>1, ItemStored
  <1>3. /\ ArtifactsTyped' /\ ArtifactsGrow
        /\ artStatus'[a] = "forgotten" /\ revisions' = revisions
        /\ \A b \in Artifacts \ {a} : artStatus'[b] = artStatus[b]
    BY <1>1, <1>2, ForgetGrows
  <1>4. /\ sources' \in [Sources -> SourceRows \cup {NoSource}]
        /\ \A s \in Sources : Registered(s) => Registered(s)'
    <2> DEFINE new == [sources[i[1]] EXCEPT !.seq = NextCommitSeq]
    <2>1. sources[i[1]] \in SourceRows
      BY <1>1, <1>2 DEF ItemsInv, Registered
    <2>2. new \in SourceRows
      BY <2>1 DEF SourceRows, NextCommitSeq
    <2>3. sources' = [sources EXCEPT ![i[1]] = new]
      BY <1>1
    <2> HIDE DEF new
    <2> QED BY <1>2, <2>2, <2>3, SourceUpdated DEF ItemsInv
  <1>5. /\ item \in ItemRows /\ item.state = "withdrawn" /\ item.artifact = a
        /\ item.revision = items[i].revision /\ item.payload = items[i].payload
        /\ item.externalRevision = items[i].externalRevision
    <2>1. NextCommitSeq \in Nat
      BY DEF NextCommitSeq
    <2> HIDE DEF a
    <2>2. /\ item \in ItemRows /\ item.state = "withdrawn"
          /\ item.artifact = items[i].artifact
          /\ item.revision = items[i].revision /\ item.payload = items[i].payload
          /\ item.externalRevision = items[i].externalRevision
      BY <1>2, <2>1 DEF ItemRows
    <2> QED BY <2>2 DEF a
  <1>6. /\ items' \in [ItemKeys -> ItemRows \cup {NoItem}]
        /\ items'[i] = item /\ \A j \in ItemKeys \ {i} : items'[j] = items[j]
    BY <1>1, <1>5 DEF ItemsInv
  <1>7. /\ \A j \in ItemKeys : Delivered(j)' <=> Delivered(j)
        /\ \A j \in ItemKeys \ {i} : LiveItem(j)' <=> LiveItem(j)
        /\ \A j \in ItemKeys : Delivered(j) => items'[j].artifact = items[j].artifact
    BY <1>1, <1>5, <1>6, SourcesAssumption DEF Delivered, LiveItem
  <1> HIDE DEF a, item
  <1>8. ItemsGrounded'
    <2> SUFFICES ASSUME NEW j \in ItemKeys, Delivered(j)
                 PROVE  /\ Registered(j[1])'
                        /\ \E row \in revisions' :
                             /\ row.artifact = items'[j].artifact /\ row.number = items'[j].revision
                             /\ row.origin = Origin(j, items'[j].externalRevision)
                             /\ row.payload = items'[j].payload
                             /\ items'[j].state = "live" => row.seq = items'[j].seq
                        /\ items'[j].state = "withdrawn" => artStatus'[items'[j].artifact] = "forgotten"
      BY <1>7 DEF ItemsGrounded
    <2>1. Registered(j[1])' /\ j[1] \in Sources /\ items[j].artifact \in Artifacts
      BY <1>4, ItemStored DEF ItemsInv, ItemsGrounded
    <2>2. CASE j = i
      BY <1>3, <1>5, <1>6, <2>1, <2>2 DEF ItemsInv, ItemsGrounded, a
    <2>3. CASE j # i
      BY <1>3, <1>6, <2>1, <2>3 DEF ItemsInv, ItemsGrounded, ArtifactsGrow
    <2> QED BY <2>2, <2>3
  <1>9. ItemsDistinct'
    BY <1>7 DEF ItemsInv, ItemsDistinct
  <1>10. DeliveriesOwned'
    <2> SUFFICES ASSUME NEW row \in revisions, row.origin # NoOrigin, Active(row.artifact)'
                 PROVE  \E j \in ItemKeys :
                          /\ LiveItem(j)' /\ items'[j].artifact = row.artifact
                          /\ row.origin.source = j[1] /\ row.origin.external = j[2]
      BY <1>3 DEF DeliveriesOwned
    <2>1. row.artifact \in Artifacts /\ row.artifact # a /\ Active(row.artifact)
      BY <1>3 DEF ArtifactsTyped, Active
    <2>2. PICK j \in ItemKeys : /\ LiveItem(j) /\ items[j].artifact = row.artifact
                                /\ row.origin.source = j[1] /\ row.origin.external = j[2]
      BY <2>1 DEF ItemsInv, DeliveriesOwned
    <2>3. j # i
      BY <2>1, <2>2 DEF a
    <2> QED BY <1>6, <1>7, <2>2, <2>3
  <1> QED BY <1>3, <1>4, <1>6, <1>8, <1>9, <1>10 DEF ItemsInv

LEMMA DeliveredRow ==
  ASSUME NEW a, NEW number, NEW payload, NEW origin,
         RevisionRow(a, number, payload, origin) \in revisions'
  PROVE  \E row \in revisions' : /\ row.origin = origin
                                 /\ row.payload = payload /\ row.seq = NextCommitSeq
  <1>1. /\ RevisionRow(a, number, payload, origin).origin = origin
        /\ RevisionRow(a, number, payload, origin).payload = payload
        /\ RevisionRow(a, number, payload, origin).seq = NextCommitSeq
    BY DEF RevisionRow
  <1> QED BY <1>1

LEMMA IngestRevisionStep ==
  ASSUME ArtifactsTyped, ItemsInv, commitSeq \in Nat, NEW i \in ItemKeys,
         NEW externalRevision \in ExternalRevisions, NEW payload \in Payloads,
         NEW cursor \in OptionalCursors, NEW ambient, NEW key,
         IngestRevision(i, externalRevision, payload, cursor, ambient, key)
  PROVE  /\ ItemsInv' /\ ArtifactsTyped' /\ ArtifactsGrow
         /\ \E row \in revisions' : /\ row.origin = Origin(i, externalRevision)
                                    /\ row.payload = payload /\ row.seq = NextCommitSeq
  <1> DEFINE a == items[i].artifact
  <1>1. /\ LiveItem(i) /\ Delivered(i) /\ Registered(i[1]) /\ Active(a)
        /\ AppendRevision(a, payload, Origin(i, externalRevision))
        /\ BindItem(i, externalRevision, payload, a, cursor, ambient, key)
    BY DEF IngestRevision, SourceAdmitted, LiveItem
  <1>2. a \in Artifacts /\ Stored(a)
    BY <1>1, ItemStored
  <1>3. \A j \in ItemKeys \ {i} : Delivered(j) => items[j].artifact # a
    BY <1>1 DEF ItemsInv, ItemsDistinct
  <1>4. \A row \in revisions : row.artifact = a /\ row.origin # NoOrigin =>
          row.origin.source = i[1] /\ row.origin.external = i[2]
    <2> SUFFICES ASSUME NEW row \in revisions, row.artifact = a, row.origin # NoOrigin
                 PROVE  row.origin.source = i[1] /\ row.origin.external = i[2]
      OBVIOUS
    <2>1. PICK j \in ItemKeys : /\ LiveItem(j) /\ items[j].artifact = row.artifact
                                /\ row.origin.source = j[1] /\ row.origin.external = j[2]
      BY <1>1 DEF ItemsInv, DeliveriesOwned
    <2>2. j = i
      BY <1>3, <2>1 DEF LiveItem
    <2> QED BY <2>1, <2>2
  <1> HIDE DEF a
  <1>5. /\ ArtifactsTyped' /\ ArtifactsGrow
        /\ artHead'[a] \in 1 .. MaxRevision /\ artStatus' = artStatus
        /\ revisions' = revisions \cup
             {RevisionRow(a, artHead'[a], payload, Origin(i, externalRevision))}
    BY <1>1, <1>2, AppendGrows
  <1>6. artStatus'[a] = "active" /\ (LiveItem(i) => items[i].artifact = a)
    BY <1>1, <1>5 DEF Active, a
  <1>7. ItemsInv'
    BY <1>1, <1>2, <1>3, <1>4, <1>5, <1>6, BindStep
  <1>8. RevisionRow(a, artHead'[a], payload, Origin(i, externalRevision)) \in revisions'
    BY <1>5
  <1> QED BY <1>5, <1>7, <1>8, DeliveredRow

LEMMA IngestArtifactStep ==
  ASSUME ArtifactsTyped, ItemsInv, commitSeq \in Nat, NEW i \in ItemKeys,
         NEW a \in Artifacts,
         NEW externalRevision \in ExternalRevisions, NEW payload \in Payloads,
         NEW cursor \in OptionalCursors, NEW ambient, NEW key,
         IngestArtifact(i, a, externalRevision, payload, cursor, ambient, key)
  PROVE  /\ ItemsInv' /\ ArtifactsTyped' /\ ArtifactsGrow
         /\ \E row \in revisions' : /\ row.origin = Origin(i, externalRevision)
                                    /\ row.payload = payload /\ row.seq = NextCommitSeq
  <1>1. /\ ~LiveItem(i) /\ Registered(i[1]) /\ ~Stored(a)
        /\ InsertArtifact(a, payload, Origin(i, externalRevision), ambient)
        /\ BindItem(i, externalRevision, payload, a, cursor, ambient, key)
    BY DEF IngestArtifact, SourceAdmitted, InsertArtifact
  <1>2. /\ ArtifactsTyped' /\ ArtifactsGrow
        /\ artHead'[a] = 1 /\ artStatus'[a] = "active"
        /\ \A b \in Artifacts \ {a} : artStatus'[b] = artStatus[b]
        /\ \A row \in revisions : row.artifact # a
        /\ revisions' = revisions \cup
             {RevisionRow(a, 1, payload, Origin(i, externalRevision))}
    BY <1>1, InsertGrows
  <1>3. artHead'[a] \in 1 .. MaxRevision
    BY <1>2, ArtifactsAssumption
  <1>4. \A j \in ItemKeys \ {i} : Delivered(j) => items[j].artifact # a
    BY <1>1, ItemStored
  <1>5. ItemsInv'
    BY <1>1, <1>2, <1>3, <1>4, BindStep
  <1>6. RevisionRow(a, 1, payload, Origin(i, externalRevision)) \in revisions'
    BY <1>2
  <1> QED BY <1>2, <1>5, <1>6, DeliveredRow

LEMMA SourcesStep ==
  ASSUME MemoryInv, NEW ambient \in Contexts, NEW key \in OptionalKeys,
         SourcesNext(ambient, key), UNCHANGED <<projectionVars, puts>>
  PROVE  MemoryInv'
  <1>0. /\ ArtifactsTyped /\ ItemsInv /\ ProjectionsInv /\ LedgerInv /\ PutsTyped
        /\ UNCHANGED projectionVars /\ puts' = puts
        /\ commitSeq \in Nat /\ DOMAIN idempotency = ScopedKeys /\ AnswerNamesRevision
    BY MemoryInvParts DEF projectionVars, LedgerInv
  <1> DEFINE Kept == ArtifactsTyped' /\ ArtifactsGrow /\ ItemsInv' /\ LedgerInv'
  \* A step that answers another request than a delivery.
  <1>1. ASSUME ArtifactsGrow, NEW request, NEW seq, request.op # "source.ingest",
               RecordIdempotency(ambient, key, request, seq),
               commitSeq' = commitSeq \/ commitSeq' = NextCommitSeq
        PROVE  LedgerInv'
    <2>1. AnswerNamesRevision' /\ DOMAIN idempotency' = ScopedKeys
      BY <1>0, <1>1, AnswersKept DEF ArtifactsGrow
    <2> QED BY <1>0, <1>1, <2>1 DEF LedgerInv, NextCommitSeq
  \* A step that answers a delivery.
  <1>2. ASSUME ArtifactsGrow, NEW i, NEW externalRevision, NEW payload, NEW cursor, NEW seq,
               \E row \in revisions' : /\ row.origin = Origin(i, externalRevision)
                                      /\ row.payload = payload /\ row.seq = seq,
               RecordIdempotency(ambient, key,
                 IngestRequest(i, externalRevision, payload, cursor), seq),
               commitSeq' = commitSeq \/ commitSeq' = NextCommitSeq
        PROVE  LedgerInv'
    <2> DEFINE request == IngestRequest(i, externalRevision, payload, cursor)
    <2>1. request.item = i /\ request.revision = externalRevision /\ request.payload = payload
      BY DEF IngestRequest
    <2> HIDE DEF request
    <2>2. AnswerNamesRevision' /\ DOMAIN idempotency' = ScopedKeys
      <3>1. RecordIdempotency(ambient, key, request, seq)
        BY <1>2 DEF request
      <3>2. \E row \in revisions' : /\ row.origin = Origin(request.item, request.revision)
                                    /\ row.payload = request.payload /\ row.seq = seq
        BY <1>2, <2>1
      <3> QED BY <1>0, <1>2, <3>1, <3>2, AnswersKept DEF ArtifactsGrow
    <2> QED BY <1>0, <1>2, <2>2 DEF LedgerInv, NextCommitSeq
  <1>3. ASSUME NEW s \in Sources, NEW name \in Names, SourceRegister(s, name, ambient, key)
        PROVE  Kept
    <2>1. /\ sources' \in [Sources -> SourceRows \cup {NoSource}]
          /\ \A t \in Sources : Registered(t) => Registered(t)'
      BY <1>0, <1>3, RegisterStep
    <2>2. /\ UNCHANGED artifactVars /\ items' = items
          /\ Commit(ambient, key, [op |-> "source.register", name |-> name])
      BY <1>3 DEF SourceRegister
    <2>3. ArtifactsTyped' /\ ArtifactsGrow /\ ItemsInv'
      BY <1>0, <2>1, <2>2, QuietArtifacts
    <2>4. LedgerInv'
      BY <1>1, <2>2, <2>3 DEF Commit
    <2> QED BY <2>3, <2>4
  <1>4. ASSUME NEW s \in Sources, NEW health \in Healths, NEW cursor \in OptionalCursors,
               SourceCheckpoint(s, health, cursor, ambient, key)
        PROVE  Kept
    <2>1. /\ UNCHANGED artifactVars /\ items' = items /\ Registered(s)
          /\ sources' = [sources EXCEPT ![s].health = health,
                                        ![s].cursor = Coalesce(cursor, sources[s].cursor),
                                        ![s].seq = NextCommitSeq]
          /\ Commit(ambient, key, [op |-> "source.checkpoint", source |-> s,
                                   health |-> health, cursor |-> cursor])
      BY <1>4 DEF SourceCheckpoint, SourceAdmitted
    <2>2. /\ sources' \in [Sources -> SourceRows \cup {NoSource}]
          /\ \A t \in Sources : Registered(t) => Registered(t)'
      BY <1>0, <2>1, SourceTouched DEF ItemsInv
    <2>3. ArtifactsTyped' /\ ArtifactsGrow /\ ItemsInv'
      BY <1>0, <2>1, <2>2, QuietArtifacts
    <2>4. LedgerInv'
      BY <1>1, <2>1, <2>3 DEF Commit
    <2> QED BY <2>3, <2>4
  <1>5. ASSUME NEW i \in ItemKeys, NEW externalRevision \in ExternalRevisions,
               NEW payload \in Payloads, NEW cursor \in OptionalCursors,
               IngestHeld(i, externalRevision, payload, cursor, ambient, key)
        PROVE  Kept
    <2>1. /\ UNCHANGED artifactVars /\ items' = items /\ sources' = sources
          /\ commitSeq' = commitSeq /\ LiveItem(i) /\ Delivered(i)
          /\ items[i].externalRevision = externalRevision /\ items[i].payload = payload
          /\ RecordIdempotency(ambient, key,
               IngestRequest(i, externalRevision, payload, cursor), items[i].seq)
      BY <1>5 DEF IngestHeld, LiveItem
    <2>2. ArtifactsTyped' /\ ArtifactsGrow /\ ItemsInv'
      BY <1>0, <2>1, QuietArtifacts DEF ItemsInv, Registered
    <2>3. \E row \in revisions' : /\ row.origin = Origin(i, externalRevision)
                                  /\ row.payload = payload /\ row.seq = items[i].seq
      BY <1>0, <2>1 DEF artifactVars, ItemsInv, ItemsGrounded, LiveItem
    <2>4. LedgerInv'
      BY <1>2, <2>1, <2>2, <2>3
    <2> QED BY <2>2, <2>4
  <1>6. ASSUME NEW i \in ItemKeys, NEW externalRevision \in ExternalRevisions,
               NEW payload \in Payloads, NEW cursor \in OptionalCursors,
               IngestRevision(i, externalRevision, payload, cursor, ambient, key)
        PROVE  Kept
    <2>1. /\ ItemsInv' /\ ArtifactsTyped' /\ ArtifactsGrow
          /\ \E row \in revisions' : /\ row.origin = Origin(i, externalRevision)
                                     /\ row.payload = payload /\ row.seq = NextCommitSeq
      BY <1>0, <1>6, IngestRevisionStep
    <2>2. /\ commitSeq' = NextCommitSeq
          /\ RecordIdempotency(ambient, key,
               IngestRequest(i, externalRevision, payload, cursor), NextCommitSeq)
      BY <1>6 DEF IngestRevision, BindItem, Commit
    <2>3. LedgerInv'
      BY <1>2, <2>1, <2>2
    <2> QED BY <2>1, <2>3
  <1>7. ASSUME NEW i \in ItemKeys, NEW externalRevision \in ExternalRevisions,
               NEW payload \in Payloads, NEW cursor \in OptionalCursors, NEW a \in Artifacts,
               IngestArtifact(i, a, externalRevision, payload, cursor, ambient, key)
        PROVE  Kept
    <2>1. /\ ItemsInv' /\ ArtifactsTyped' /\ ArtifactsGrow
          /\ \E row \in revisions' : /\ row.origin = Origin(i, externalRevision)
                                     /\ row.payload = payload /\ row.seq = NextCommitSeq
      BY <1>0, <1>7, IngestArtifactStep
    <2>2. /\ commitSeq' = NextCommitSeq
          /\ RecordIdempotency(ambient, key,
               IngestRequest(i, externalRevision, payload, cursor), NextCommitSeq)
      BY <1>7 DEF IngestArtifact, BindItem, Commit
    <2>3. LedgerInv'
      BY <1>2, <2>1, <2>2
    <2> QED BY <2>1, <2>3
  <1>8. ASSUME NEW i \in ItemKeys, WithdrawHeld(i, ambient, key)
        PROVE  Kept
    <2>1. /\ UNCHANGED artifactVars /\ items' = items /\ sources' = sources
          /\ commitSeq' = commitSeq
          /\ RecordIdempotency(ambient, key, WithdrawRequest(i), items[i].seq)
      BY <1>8 DEF WithdrawHeld
    <2>2. ArtifactsTyped' /\ ArtifactsGrow /\ ItemsInv'
      BY <1>0, <2>1, QuietArtifacts DEF ItemsInv, Registered
    <2>3. WithdrawRequest(i).op # "source.ingest"
      BY DEF WithdrawRequest
    <2>4. LedgerInv'
      BY <1>1, <2>1, <2>2, <2>3
    <2> QED BY <2>2, <2>4
  <1>9. ASSUME NEW i \in ItemKeys, SourceWithdraw(i, ambient, key)
        PROVE  Kept
    <2>1. ArtifactsTyped' /\ ArtifactsGrow /\ ItemsInv'
      BY <1>0, <1>9, WithdrawStep
    <2>2. /\ commitSeq' = NextCommitSeq
          /\ RecordIdempotency(ambient, key, WithdrawRequest(i), NextCommitSeq)
      BY <1>9 DEF SourceWithdraw, Commit
    <2>3. WithdrawRequest(i).op # "source.ingest"
      BY DEF WithdrawRequest
    <2>4. LedgerInv'
      BY <1>1, <2>1, <2>2, <2>3
    <2> QED BY <2>1, <2>4
  <1>10. Kept
    <2> HIDE DEF Kept
    <2> QED BY <1>3, <1>4, <1>5, <1>6, <1>7, <1>8, <1>9 DEF SourcesNext
  <1>11. ProjectionsInv'
    BY <1>0, <1>10, ProjectionsFrame
  <1>12. PutsTyped'
    BY <1>0 DEF PutsTyped
  <1>13. (MemoryInv <=> ArtifactsTyped /\ ItemsInv /\ ProjectionsInv /\ LedgerInv /\ PutsTyped)'
    BY MemoryInvParts, PTL
  <1> QED BY <1>10, <1>11, <1>12, <1>13


-----------------------------------------------------------------------------
(* The projection handlers.                                                *)

\* A put that is answered, refused or not yet committed, and a drop that is
\* answered, change neither an artifact nor an item nor a projection.
LEMMA PutsQuiet ==
  ASSUME MemoryInv, UNCHANGED <<artifactVars, sourceVars, projectionVars>>, PutsTyped', LedgerInv'
  PROVE  MemoryInv'
  <1>1. /\ ArtifactsTyped /\ ItemsInv /\ ProjectionsInv
        /\ UNCHANGED artifactVars /\ UNCHANGED projectionVars
        /\ sources' = sources /\ items' = items
    BY MemoryInvParts DEF sourceVars, projectionVars, artifactVars
  <1>2. ArtifactsTyped' /\ ItemsInv' /\ ProjectionsInv'
    BY <1>1, QuietArtifacts DEF ItemsInv, Registered
  <1>3. (MemoryInv <=> ArtifactsTyped /\ ItemsInv /\ ProjectionsInv /\ LedgerInv /\ PutsTyped)'
    BY MemoryInvParts, PTL
  <1> QED BY <1>2, <1>3

\* No answer to a projection request is one to a delivery.
LEMMA ProjectionAnswers ==
  ASSUME LedgerInv, revisions' = revisions, NEW ambient, NEW key, NEW request, NEW seq,
         request.op # "source.ingest", RecordIdempotency(ambient, key, request, seq),
         commitSeq' = commitSeq \/ commitSeq' = NextCommitSeq
  PROVE  LedgerInv'
  <1>1. AnswerNamesRevision' /\ DOMAIN idempotency' = ScopedKeys
    BY AnswersKept DEF LedgerInv
  <1> QED BY <1>1 DEF LedgerInv, NextCommitSeq

\* A worker's put, with the types of its parts.
LEMMA PutTyped ==
  ASSUME PutsTyped, NEW w \in Workers, puts[w] # Idle
  PROVE  /\ puts[w] \in PutRows /\ puts[w].request \in PutRequests
         /\ puts[w].ambient \in Contexts /\ puts[w].key \in OptionalKeys
         /\ puts[w].request.op = "projection.put"
         /\ puts[w].request.artifact \in Artifacts
         /\ puts[w].request.revision \in 1 .. MaxRevision
         /\ puts[w].request.key \in ProjectionKeys /\ puts[w].request.text \in Texts
  <1>1. puts[w] \in PutRows
    BY DEF PutsTyped
  <1>2. puts[w].request \in PutRequests
    BY <1>1 DEF PutRows
  <1> QED BY <1>1, <1>2 DEF PutRows, PutRequests

LEMMA DoneTyped ==
  ASSUME PutsTyped, NEW w \in Workers, Done(w)
  PROVE  PutsTyped'
  BY DEF PutsTyped, Done

\* The row of a key is replaced: the key still has one row, and the index rows
\* of other keys are left alone.
LEMMA RowReplaced ==
  ASSUME ProjectionsInv, NEW new \in ProjectionRows,
         new.revision <= artHead[new.artifact], artHead' = artHead,
         projections' = (projections \ StoredFor(new)) \cup {new},
         projectionFts' = IndexWithout(new)
                            \cup (IF new.status = "active" THEN {IndexRow(new)} ELSE {})
  PROVE  ProjectionsInv'
  <1> DEFINE SameKey(p, q) == p.artifact = q.artifact /\ p.revision = q.revision /\ p.key = q.key
  <1>1. \A p : p \in projections' <=> p = new \/ (p \in projections /\ ~SameKey(p, new))
    BY DEF StoredFor
  <1>2. projections' \subseteq ProjectionRows
    BY <1>1 DEF ProjectionsInv
  <1>3. \A p, q \in projections' : SameKey(p, q) => p = q
    BY <1>1 DEF ProjectionsInv, ProjectionsIndexed
  <1>4. \A p \in projections' : p.revision <= artHead'[p.artifact]
    BY <1>1 DEF ProjectionsInv, ProjectionsIndexed
  <1>5. projectionFts' = {IndexRow(p) : p \in {q \in projections' : q.status = "active"}}
    <2>1. \A p, q : SameKey(IndexRow(p), q) <=> SameKey(p, q)
      BY DEF IndexRow
    <2>2. \A row : row \in IndexWithout(new) <=>
            \E p \in projections : p.status = "active" /\ row = IndexRow(p) /\ ~SameKey(p, new)
      BY <2>1 DEF IndexWithout, ProjectionsInv, ProjectionsIndexed
    <2> HIDE DEF SameKey
    <2>3. ASSUME NEW row
          PROVE  row \in projectionFts' <=>
                   \E p \in projections' : p.status = "active" /\ row = IndexRow(p)
      BY <1>1, <2>2
    <2> QED BY <2>3
  <1> QED BY <1>2, <1>3, <1>4, <1>5 DEF ProjectionsInv, ProjectionsIndexed

\* So a step that replaces the row of one key and commits keeps MemoryInv.
LEMMA RowWritten ==
  ASSUME MemoryInv, NEW new \in ProjectionRows,
         new.revision <= artHead[new.artifact],
         projections' = (projections \ StoredFor(new)) \cup {new},
         projectionFts' = IndexWithout(new)
                            \cup (IF new.status = "active" THEN {IndexRow(new)} ELSE {}),
         UNCHANGED <<artifactVars, sourceVars>>, PutsTyped', LedgerInv'
  PROVE  MemoryInv'
  <1>1. /\ ArtifactsTyped /\ ItemsInv /\ ProjectionsInv
        /\ UNCHANGED artifactVars /\ artHead' = artHead
        /\ sources' = sources /\ items' = items
    BY MemoryInvParts DEF sourceVars, artifactVars
  <1>2. ArtifactsTyped' /\ ItemsInv'
    BY <1>1, QuietArtifacts DEF ItemsInv, Registered
  <1>3. ProjectionsInv'
    BY <1>1, RowReplaced
  <1>4. (MemoryInv <=> ArtifactsTyped /\ ItemsInv /\ ProjectionsInv /\ LedgerInv /\ PutsTyped)'
    BY MemoryInvParts, PTL
  <1> QED BY <1>2, <1>3, <1>4


LEMMA PutReadStep ==
  ASSUME MemoryInv, NEW w \in Workers, NEW request \in PutRequests,
         NEW ambient \in Contexts, NEW key \in OptionalKeys,
         PutRead(w, request, ambient, key), UNCHANGED sourceVars
  PROVE  MemoryInv'
  <1>1. /\ UNCHANGED artifactVars /\ UNCHANGED projectionVars
        /\ commitSeq' = commitSeq /\ idempotency' = idempotency
        /\ puts' = [puts EXCEPT ![w] = [request |-> request, ambient |-> ambient,
                                        key |-> key, stage |-> "read"]]
    BY DEF PutRead, Serves, ledgerVars
  <1>2. LedgerInv /\ PutsTyped
    BY MemoryInvParts
  <1>3. LedgerInv'
    BY <1>1, <1>2, AnswersStay DEF LedgerInv, artifactVars
  <1>4. PutsTyped'
    BY <1>1, <1>2 DEF PutsTyped, PutRows
  <1> QED BY <1>1, <1>3, <1>4, PutsQuiet

LEMMA PutCompareStep ==
  ASSUME MemoryInv, NEW w \in Workers, PutCompare(w), UNCHANGED sourceVars
  PROVE  MemoryInv'
  <1>1. /\ UNCHANGED artifactVars /\ UNCHANGED projectionVars
        /\ commitSeq' = commitSeq /\ idempotency' = idempotency
        /\ Done(w) \/ puts' = [puts EXCEPT ![w].stage = "compared"]
        /\ puts[w] # Idle
    BY DEF PutCompare, AtStage, ledgerVars
  <1>2. LedgerInv /\ PutsTyped
    BY MemoryInvParts
  <1>3. LedgerInv'
    BY <1>1, <1>2, AnswersStay DEF LedgerInv, artifactVars
  <1>4. PutsTyped'
    <2>1. CASE Done(w)
      BY <1>2, <2>1, DoneTyped
    <2>2. CASE puts' = [puts EXCEPT ![w].stage = "compared"]
      <3>1. puts[w] \in PutRows
        BY <1>1, <1>2, PutTyped
      <3>2. [puts[w] EXCEPT !.stage = "compared"] \in PutRows
        BY <3>1 DEF PutRows
      <3> QED BY <1>2, <2>2, <3>2 DEF PutsTyped
    <2> QED BY <1>1, <2>1, <2>2
  <1> QED BY <1>1, <1>3, <1>4, PutsQuiet

LEMMA PutEndsStep ==
  ASSUME MemoryInv, NEW w \in Workers, PutEnds(w), UNCHANGED sourceVars
  PROVE  MemoryInv'
  <1>1. /\ UNCHANGED artifactVars /\ UNCHANGED projectionVars
        /\ commitSeq' = commitSeq /\ idempotency' = idempotency /\ Done(w)
    BY DEF PutEnds, ledgerVars
  <1>2. LedgerInv /\ PutsTyped
    BY MemoryInvParts
  <1>3. LedgerInv' /\ PutsTyped'
    BY <1>1, <1>2, AnswersStay, DoneTyped DEF LedgerInv, artifactVars
  <1> QED BY <1>1, <1>3, PutsQuiet

LEMMA PutHeldStep ==
  ASSUME MemoryInv, NEW w \in Workers, PutHeld(w), UNCHANGED sourceVars
  PROVE  MemoryInv'
  <1>1. /\ UNCHANGED artifactVars /\ UNCHANGED projectionVars
        /\ commitSeq' = commitSeq /\ Done(w) /\ puts[w] # Idle
        /\ \E seq : RecordIdempotency(puts[w].ambient, puts[w].key, puts[w].request, seq)
    BY DEF PutHeld, Committing, AtStage
  <1>2. LedgerInv /\ PutsTyped
    BY MemoryInvParts
  <1>3. puts[w].request.op # "source.ingest"
    BY <1>1, <1>2, PutTyped
  <1>4. LedgerInv' /\ PutsTyped'
    BY <1>1, <1>2, <1>3, ProjectionAnswers, DoneTyped DEF artifactVars
  <1> QED BY <1>1, <1>4, PutsQuiet

LEMMA PutCommitStep ==
  ASSUME MemoryInv, NEW w \in Workers, PutCommit(w), UNCHANGED sourceVars
  PROVE  MemoryInv'
  <1> DEFINE request == puts[w].request
             new == [artifact |-> request.artifact, revision |-> request.revision,
                     key |-> request.key, text |-> request.text, status |-> "active",
                     seq |-> NextCommitSeq]
  <1>1. /\ PutAdmitted(request, puts[w].ambient) /\ puts[w] # Idle /\ Done(w)
        /\ projections' = (projections \ StoredFor(request)) \cup {new}
        /\ projectionFts' = IndexWithout(new) \cup {IndexRow(new)}
        /\ Commit(puts[w].ambient, puts[w].key, request)
        /\ UNCHANGED artifactVars
    BY DEF PutCommit, Committing, AtStage
  <1>2. LedgerInv /\ PutsTyped /\ commitSeq \in Nat
    BY MemoryInvParts DEF LedgerInv
  <1>3. /\ request.op = "projection.put" /\ request.artifact \in Artifacts
        /\ request.revision \in 1 .. MaxRevision
        /\ request.key \in ProjectionKeys /\ request.text \in Texts
    BY <1>1, <1>2, PutTyped
  <1>4. new \in ProjectionRows
    <2>1. NextCommitSeq \in Nat
      BY <1>2 DEF NextCommitSeq
    <2> HIDE DEF request
    <2> QED BY <1>3, <2>1 DEF ProjectionRows
  <1>5. StoredFor(new) = StoredFor(request) /\ new.status = "active"
    BY DEF StoredFor
  <1>6. new.revision <= artHead[new.artifact]
    BY <1>1, <1>3, ArtifactsAssumption DEF PutAdmitted
  <1>7. LedgerInv' /\ PutsTyped'
    BY <1>1, <1>2, <1>3, ProjectionAnswers, DoneTyped DEF Commit, artifactVars
  <1> HIDE DEF new, request
  <1> QED BY <1>1, <1>4, <1>5, <1>6, <1>7, RowWritten

LEMMA DropHeldStep ==
  ASSUME MemoryInv, NEW p \in projections, NEW ambient \in Contexts, NEW key \in OptionalKeys,
         DropHeld(p, ambient, key), UNCHANGED sourceVars
  PROVE  MemoryInv'
  <1>1. /\ UNCHANGED artifactVars /\ UNCHANGED projectionVars /\ puts' = puts
        /\ commitSeq' = commitSeq
        /\ RecordIdempotency(ambient, key, DropRequest(p), p.seq)
    BY DEF DropHeld
  <1>2. LedgerInv /\ PutsTyped /\ DropRequest(p).op # "source.ingest"
    BY MemoryInvParts DEF DropRequest
  <1>3. LedgerInv'
    BY <1>1, <1>2, ProjectionAnswers DEF artifactVars
  <1>4. PutsTyped'
    BY <1>1, <1>2 DEF PutsTyped
  <1> QED BY <1>1, <1>3, <1>4, PutsQuiet

LEMMA ProjectionDropStep ==
  ASSUME MemoryInv, NEW p \in projections, NEW ambient \in Contexts, NEW key \in OptionalKeys,
         ProjectionDrop(p, ambient, key), UNCHANGED sourceVars
  PROVE  MemoryInv'
  <1> DEFINE new == [p EXCEPT !.status = "dropped", !.seq = NextCommitSeq]
  <1>1. /\ UNCHANGED artifactVars /\ puts' = puts
        /\ projections' = (projections \ {p}) \cup {new}
        /\ projectionFts' = IndexWithout(p)
        /\ Commit(ambient, key, DropRequest(p))
    BY DEF ProjectionDrop
  <1>2. /\ LedgerInv /\ PutsTyped /\ commitSeq \in Nat /\ ProjectionsInv
        /\ DropRequest(p).op # "source.ingest"
    BY MemoryInvParts DEF DropRequest, LedgerInv
  <1>3. /\ new \in ProjectionRows /\ new.status = "dropped"
        /\ new.artifact = p.artifact /\ new.revision = p.revision /\ new.key = p.key
    <2>1. p \in ProjectionRows /\ NextCommitSeq \in Nat
      BY <1>2 DEF ProjectionsInv, NextCommitSeq
    <2> QED BY <2>1 DEF ProjectionRows
  <1> HIDE DEF new
  <1>4. StoredFor(new) = {p} /\ IndexWithout(new) = IndexWithout(p)
    BY <1>2, <1>3 DEF StoredFor, IndexWithout, ProjectionsInv, ProjectionsIndexed
  <1>5. new.revision <= artHead[new.artifact]
    BY <1>2, <1>3 DEF ProjectionsInv, ProjectionsIndexed
  <1>6. LedgerInv'
    BY <1>1, <1>2, ProjectionAnswers DEF Commit, artifactVars
  <1>7. PutsTyped'
    BY <1>1, <1>2 DEF PutsTyped
  <1>8. projectionFts' = IndexWithout(new)
                           \cup (IF new.status = "active" THEN {IndexRow(new)} ELSE {})
    BY <1>1, <1>3, <1>4
  <1> QED BY <1>1, <1>3, <1>4, <1>5, <1>6, <1>7, <1>8, RowWritten

-----------------------------------------------------------------------------
(* The invariant and what follows from it.                                 *)

LEMMA MemoryInitInv == MemoryInit => MemoryInv
  <1> SUFFICES ASSUME MemoryInit PROVE MemoryInv
    OBVIOUS
  <1>1. /\ artHead = [a \in Artifacts |-> 0] /\ artStatus = [a \in Artifacts |-> "absent"]
        /\ revisions = {} /\ commitSeq = 0
        /\ idempotency = [scoped \in ScopedKeys |-> NoRecord]
        /\ sources = [s \in Sources |-> NoSource] /\ items = [i \in ItemKeys |-> NoItem]
        /\ projections = {} /\ projectionFts = {} /\ puts = [w \in Workers |-> Idle]
    BY DEF MemoryInit, ArtifactsInit, LedgerInit, SourcesInit, ProjectionsInit
  <1>2. MemoryTypeOK
    BY <1>1, ArtifactsAssumption DEF MemoryTypeOK, Stored
  <1>3. ItemsGrounded /\ ItemsDistinct /\ DeliveriesOwned
    BY <1>1 DEF ItemsGrounded, ItemsDistinct, DeliveriesOwned, Delivered
  <1>4. AnswerNamesRevision
    BY <1>1 DEF AnswerNamesRevision
  <1>5. ProjectionsIndexed
    BY <1>1 DEF ProjectionsIndexed
  <1> QED BY <1>2, <1>3, <1>4, <1>5 DEF MemoryInv

LEMMA MemoryStepInv == MemoryInv /\ [MemoryNext]_memoryVars => MemoryInv'
  <1> SUFFICES ASSUME MemoryInv, [MemoryNext]_memoryVars PROVE MemoryInv'
    OBVIOUS
  <1>1. ASSUME NEW ambient \in Contexts, NEW key \in OptionalKeys, MemoryCall(ambient, key)
        PROVE  MemoryInv'
    <2>1. CASE ArtifactsNext(ambient, key) /\ UNCHANGED <<sourceVars, projectionVars, puts>>
      BY <2>1, ArtifactsStep
    <2>2. CASE SourcesNext(ambient, key) /\ UNCHANGED <<projectionVars, puts>>
      BY <2>2, SourcesStep
    <2>3. CASE ProjectionsNext(ambient, key) /\ UNCHANGED sourceVars
      BY <2>3, PutReadStep, DropHeldStep, ProjectionDropStep DEF ProjectionsNext
    <2> QED BY <1>1, <2>1, <2>2, <2>3 DEF MemoryCall
  <1>2. CASE PutsNext /\ UNCHANGED sourceVars
    BY <1>2, PutCompareStep, PutEndsStep, PutHeldStep, PutCommitStep DEF PutsNext
  <1>3. CASE UNCHANGED memoryVars
    <2>1. /\ UNCHANGED artifactVars /\ UNCHANGED sourceVars /\ UNCHANGED projectionVars
          /\ puts' = puts /\ commitSeq' = commitSeq /\ idempotency' = idempotency
      BY <1>3 DEF memoryVars, ledgerVars
    <2>2. LedgerInv' /\ PutsTyped'
      <3>1. LedgerInv /\ PutsTyped
        BY MemoryInvParts
      <3> QED BY <2>1, <3>1, AnswersStay DEF LedgerInv, PutsTyped, artifactVars
    <2> QED BY <2>1, <2>2, PutsQuiet
  <1> QED BY <1>1, <1>2, <1>3 DEF MemoryNext

\* The invariant holds in every state of the store that agents, sources and
\* projection adapters share.
THEOREM MemoryInvHolds == MemorySpec => []MemoryInv
  <1> QED BY MemoryInitInv, MemoryStepInv, PTL DEF MemorySpec

\* Two active artifacts never hold deliveries of the same external id: the
\* live item a delivery belongs to is the one of its identity, and an item has
\* one artifact.
LEMMA OwnersAgree == MemoryInv => OneLiveIdentity
  <1> SUFFICES ASSUME MemoryInv, NEW p \in revisions, NEW q \in revisions,
                      p.origin # NoOrigin, q.origin # NoOrigin,
                      p.origin.source = q.origin.source,
                      p.origin.external = q.origin.external,
                      Active(p.artifact), Active(q.artifact)
               PROVE  p.artifact = q.artifact
    BY DEF OneLiveIdentity
  <1>1. PICK i \in ItemKeys : /\ LiveItem(i) /\ items[i].artifact = p.artifact
                              /\ p.origin.source = i[1] /\ p.origin.external = i[2]
    BY DEF MemoryInv, DeliveriesOwned
  <1>2. PICK j \in ItemKeys : /\ LiveItem(j) /\ items[j].artifact = q.artifact
                              /\ q.origin.source = j[1] /\ q.origin.external = j[2]
    BY DEF MemoryInv, DeliveriesOwned
  <1>3. i = j
    <2>1. i = <<i[1], i[2]>> /\ j = <<j[1], j[2]>>
      BY DEF ItemKeys
    <2> QED BY <1>1, <1>2, <2>1
  <1> QED BY <1>1, <1>2, <1>3

\* source.ingest and source.withdraw keep one live artifact per external id,
\* whatever agents revise and forget in between.
THEOREM LiveIdentityIsOne == MemorySpec => []OneLiveIdentity
  <1> QED BY MemoryInvHolds, OwnersAgree, PTL

LEMMA GroundedBreaks == MemoryInv => OnlyForgetsBreakItems
  <1> SUFFICES ASSUME MemoryInv, NEW i \in BrokenSourceItems
               PROVE  /\ LiveItem(i)
                      /\ artStatus[items[i].artifact] = "forgotten"
                      /\ \A other \in ItemKeys :
                           Delivered(other) /\ items[other].artifact = items[i].artifact
                             => other = i
    BY DEF OnlyForgetsBreakItems
  <1>1. /\ i \in ItemKeys /\ Delivered(i)
        /\ ~ /\ Registered(i[1])
             /\ \E row \in revisions : /\ row.artifact = items[i].artifact
                                       /\ row.number = items[i].revision
             /\ artStatus[items[i].artifact]
                  = IF items[i].state = "live" THEN "active" ELSE "forgotten"
    BY DEF BrokenSourceItems
  <1>2. artStatus[items[i].artifact]
          # IF items[i].state = "live" THEN "active" ELSE "forgotten"
    BY <1>1 DEF MemoryInv, ItemsGrounded
  <1>3. /\ items[i].state \in {"live", "withdrawn"}
        /\ artStatus[items[i].artifact] \in {"active", "forgotten"}
    <2>1. items[i] \in ItemRows /\ items[i].artifact \in Artifacts /\ Stored(items[i].artifact)
      BY <1>1, ItemStored, MemoryInvParts
    <2> QED BY <2>1 DEF ItemRows, MemoryInv, MemoryTypeOK, Stored
  <1>4. LiveItem(i) /\ artStatus[items[i].artifact] = "forgotten"
    BY <1>1, <1>2, <1>3 DEF MemoryInv, ItemsGrounded, LiveItem
  <1> QED BY <1>1, <1>4 DEF MemoryInv, ItemsDistinct

\* verify's complaint over items is always a live item whose artifact an agent
\* forgot, and never one that shares its artifact.
THEOREM OnlyForgetsBreak == MemorySpec => []OnlyForgetsBreakItems
  <1> QED BY MemoryInvHolds, GroundedBreaks, PTL

\* An answer to source.ingest names the commit of the revision asked for, also
\* when it is replayed long after.
THEOREM AnswersNameRevisions == MemorySpec => []AnswerNamesRevision
  <1>1. MemoryInv => AnswerNamesRevision
    BY DEF MemoryInv
  <1> QED BY <1>1, MemoryInvHolds, PTL

LEMMA IndexedFollows == MemoryInv => IndexFollowsProjections
  <1> SUFFICES ASSUME MemoryInv PROVE IndexFollowsProjections
    OBVIOUS
  <1> DEFINE SameKey(p, q) == p.artifact = q.artifact /\ p.revision = q.revision /\ p.key = q.key
  <1>1. /\ \A p, q \in projections : SameKey(p, q) => p = q
        /\ \A p \in projections : p.revision <= artHead[p.artifact]
        /\ projectionFts = {IndexRow(p) : p \in {q \in projections : q.status = "active"}}
        /\ projections \subseteq ProjectionRows
    BY DEF MemoryInv, ProjectionsIndexed, MemoryTypeOK
  <1>2. \A p, q : SameKey(IndexRow(p), q) <=> SameKey(p, q)
    BY DEF IndexRow
  <1>3. \A p : IndexRowsOf(p) = {row \in projectionFts : SameKey(row, p)}
    BY DEF IndexRowsOf
  <1> HIDE DEF SameKey
  <1>4. MalformedProjectionFts = {}
    <2> SUFFICES ASSUME NEW p \in projections
                 PROVE  IndexRowsOf(p) = IF p.status = "active" THEN {IndexRow(p)} ELSE {}
      BY DEF MalformedProjectionFts
    <2>1. ASSUME NEW row
          PROVE  row \in IndexRowsOf(p) <=> p.status = "active" /\ row = IndexRow(p)
      <3>1. SameKey(p, p)
        BY DEF SameKey
      <3> QED BY <1>1, <1>2, <1>3, <3>1
    <2> QED BY <2>1
  <1>5. OrphanedProjectionFts = {}
    <2> SUFFICES ASSUME NEW row \in projectionFts
                 PROVE  \E p \in projections : row \in IndexRowsOf(p)
      BY DEF OrphanedProjectionFts
    <2>1. PICK p \in projections : row = IndexRow(p)
      BY <1>1
    <2>2. SameKey(row, p)
      BY <2>1 DEF SameKey, IndexRow
    <2> QED BY <1>3, <2>2
  <1>6. BrokenProjections = {}
    <2> SUFFICES ASSUME NEW p \in projections
                 PROVE  p.revision \in 1 .. artHead[p.artifact] /\ StoredFor(p) = {p}
      BY DEF BrokenProjections
    <2>1. p.revision \in 1 .. artHead[p.artifact]
      <3>1. p.artifact \in Artifacts /\ p.revision \in Nat \ {0}
        BY <1>1, ArtifactsAssumption DEF ProjectionRows
      <3>2. artHead[p.artifact] \in Nat
        BY <3>1, ArtifactsAssumption DEF MemoryInv, MemoryTypeOK
      <3> QED BY <1>1, <3>1, <3>2
    <2>2. StoredFor(p) = {p}
      BY <1>1 DEF StoredFor, SameKey
    <2> QED BY <2>1, <2>2
  <1> QED BY <1>4, <1>5, <1>6 DEF IndexFollowsProjections

\* The projection index is the texts of the active projections: no text that
\* was replaced or dropped can match any more.
THEOREM IndexFollows == MemorySpec => []IndexFollowsProjections
  <1> QED BY MemoryInvHolds, IndexedFollows, PTL

\* Only the transaction of a put makes an active projection, and it asks again
\* whether the revision is current: the checks of the two earlier lock sections
\* do not count.
LEMMA PutsHit ==
  ASSUME MemoryInv, [MemoryNext]_memoryVars,
         NEW p \in projections' \ projections, p.status = "active"
  PROVE  Active(p.artifact) /\ p.revision = artHead[p.artifact]
  <1>1. projections' # projections
    OBVIOUS
  <1>2. ASSUME NEW w \in Workers, PutCommit(w)
        PROVE  Active(p.artifact) /\ p.revision = artHead[p.artifact]
    <2> DEFINE request == puts[w].request
    <2>1. /\ PutAdmitted(request, puts[w].ambient)
          /\ p.artifact = request.artifact /\ p.revision = request.revision
      BY <1>2 DEF PutCommit, Committing
    <2> QED BY <2>1 DEF PutAdmitted
  <1>3. ASSUME NEW d \in projections, NEW ambient, NEW key, ProjectionDrop(d, ambient, key)
        PROVE  FALSE
    <2>1. d \in ProjectionRows
      BY DEF MemoryInv, MemoryTypeOK
    <2>2. [d EXCEPT !.status = "dropped", !.seq = NextCommitSeq].status = "dropped"
      BY <2>1 DEF ProjectionRows
    <2> QED BY <1>3, <2>2 DEF ProjectionDrop
  <1>4. CASE PutsNext /\ UNCHANGED sourceVars
    BY <1>1, <1>2, <1>4 DEF PutsNext, PutCompare, PutEnds, PutHeld, projectionVars
  <1>5. ASSUME NEW ambient \in Contexts, NEW key \in OptionalKeys, MemoryCall(ambient, key)
        PROVE  FALSE
    <2>1. ProjectionsNext(ambient, key)
      BY <1>1, <1>5 DEF MemoryCall, projectionVars
    <2> QED BY <1>1, <1>3, <2>1 DEF ProjectionsNext, PutRead, DropHeld, projectionVars
  <1>6. CASE UNCHANGED memoryVars
    BY <1>1, <1>6 DEF memoryVars, projectionVars
  <1> QED BY <1>4, <1>5, <1>6 DEF MemoryNext

\* A put never attaches a text to a revision that is not current or to an
\* artifact that is forgotten, whatever happened since its first check.
THEOREM PutsStayCurrent == MemorySpec => PutsHitCurrent
  <1> DEFINE Hits == \A p \in projections' \ projections :
                       p.status = "active" =>
                         Active(p.artifact) /\ p.revision = artHead[p.artifact]
  <1>1. MemoryInv /\ [MemoryNext]_memoryVars
          => [Hits]_<<artifactVars, projectionVars, puts, ledgerVars>>
    BY PutsHit
  <1>2. MemorySpec => [][Hits]_<<artifactVars, projectionVars, puts, ledgerVars>>
    <2> HIDE DEF Hits
    <2> QED BY <1>1, MemoryInvHolds, PTL DEF MemorySpec
  <1> QED BY <1>2 DEF PutsHitCurrent

=============================================================================
