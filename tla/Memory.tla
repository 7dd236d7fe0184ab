------------------------------- MODULE Memory -------------------------------
(***************************************************************************)
(* What is kept of artifacts beside their revisions, in one store          *)
(* (src/src/store.rs): agents, adapters of sources and adapters of         *)
(* projections call the handlers of Artifacts, Sources and Projections     *)
(* under one connection mutex, one commit sequence and one idempotency     *)
(* table, in any order.                                                    *)
(***************************************************************************)
EXTENDS Sources, Projections

memoryVars == <<artifactVars, sourceVars, projectionVars, puts, ledgerVars>>

MemoryInit == ArtifactsInit /\ SourcesInit /\ ProjectionsInit

\* What one caller can do under one key.
MemoryCall(ambient, key) ==
  \/ ArtifactsNext(ambient, key) /\ UNCHANGED <<sourceVars, projectionVars, puts>>
  \/ SourcesNext(ambient, key) /\ UNCHANGED <<projectionVars, puts>>
  \/ ProjectionsNext(ambient, key) /\ UNCHANGED sourceVars

MemoryNext ==
  \/ \E ambient \in Contexts, key \in OptionalKeys : MemoryCall(ambient, key)
  \/ PutsNext /\ UNCHANGED sourceVars

MemorySpec == MemoryInit /\ [][MemoryNext]_memoryVars

-----------------------------------------------------------------------------
(* The invariant from which what Sources and Projections promise follows.  *)

\* The tables hold what the schema admits; an artifact has a revision from the
\* moment it is stored, and no revision is of an artifact that is not.
MemoryTypeOK ==
  /\ artHead \in [Artifacts -> 0 .. MaxRevision]
  /\ artStatus \in [Artifacts -> {"absent", "active", "forgotten"}]
  /\ \A a \in Artifacts : Stored(a) <=> artHead[a] # 0
  /\ \A row \in revisions : row.artifact \in Artifacts /\ Stored(row.artifact)
  /\ sources \in [Sources -> SourceRows \cup {NoSource}]
  /\ items \in [ItemKeys -> ItemRows \cup {NoItem}]
  /\ projections \subseteq ProjectionRows
  /\ puts \in [Workers -> PutRows \cup {Idle}]
  /\ commitSeq \in Nat
  /\ DOMAIN idempotency = ScopedKeys

\* The revision a live item holds was delivered for it in the commit the item
\* names; every item is of a registered source and of a revision that exists,
\* and a withdrawn one of an artifact that was forgotten.
ItemsGrounded ==
  \A i \in ItemKeys :
    Delivered(i) =>
      /\ Registered(i[1])
      /\ \E row \in revisions :
           /\ row.artifact = items[i].artifact /\ row.number = items[i].revision
           /\ row.origin = Origin(i, items[i].externalRevision)
           /\ row.payload = items[i].payload
           /\ items[i].state = "live" => row.seq = items[i].seq
      /\ items[i].state = "withdrawn" => artStatus[items[i].artifact] = "forgotten"

\* No two items meet in an artifact.
ItemsDistinct ==
  \A i, j \in ItemKeys :
    Delivered(i) /\ Delivered(j) /\ items[i].artifact = items[j].artifact => i = j

\* A delivered revision of an active artifact belongs to the live item it was
\* delivered for.
DeliveriesOwned ==
  \A row \in revisions :
    row.origin # NoOrigin /\ Active(row.artifact) =>
      \E i \in ItemKeys :
        /\ LiveItem(i) /\ items[i].artifact = row.artifact
        /\ row.origin.source = i[1] /\ row.origin.external = i[2]

\* One row per projection key, of a revision that exists, and the index is the
\* texts of the active ones.
ProjectionsIndexed ==
  /\ \A p, q \in projections :
       p.artifact = q.artifact /\ p.revision = q.revision /\ p.key = q.key => p = q
  /\ \A p \in projections : p.revision <= artHead[p.artifact]
  /\ projectionFts = {IndexRow(p) : p \in {q \in projections : q.status = "active"}}

MemoryInv ==
  /\ MemoryTypeOK
  /\ ItemsGrounded
  /\ ItemsDistinct
  /\ DeliveriesOwned
  /\ AnswerNamesRevision
  /\ ProjectionsIndexed
=============================================================================
