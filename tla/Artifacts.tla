----------------------------- MODULE Artifacts ------------------------------
(***************************************************************************)
(* Artifacts and their immutable revisions (src/src/store.rs): a mutable   *)
(* head over append-only rows, revised under optimistic concurrency and    *)
(* forgotten logically.                                                    *)
(*                                                                         *)
(* Abstractions: a revision is its revision_number; title, media type,     *)
(* bytes and provenance of a revision are its payload, of which only the   *)
(* kind matters to a handler, and its origin, the `memoree_source` entry   *)
(* of the provenance.  The lexical indexes follow the revisions by trigger *)
(* and are left out.                                                       *)
(***************************************************************************)
EXTENDS Ledger

CONSTANTS
  Artifacts,        \* the artifact identifiers new_id may produce
  Kinds,            \* artifact kinds
  Bodies,           \* contents, as far as digests tell them apart
  NoOwner,          \* the owner of an artifact that does not exist yet
  NoOrigin,         \* the origin of a revision that no source delivered
  MaxRevision       \* bound on the revisions of one artifact (model bound)

ASSUME ArtifactsAssumption ==
  /\ NoOwner \notin Contexts
  /\ MaxRevision \in Nat \ {0}

VARIABLES
  artHead,    \* artifacts.current_revision_id as a number; 0: no artifact
  artStatus,  \* artifacts.status; "absent" before the artifact is put
  artOwner,   \* the context columns of the artifact
  revisions   \* rows of artifact_revisions

artifactVars == <<artHead, artStatus, artOwner, revisions>>

Payloads == [kind : Kinds, body : Bodies]

Stored(a) == artStatus[a] # "absent"
Active(a) == artStatus[a] = "active"

\* artifacts.kind, which no revision may change.
HasKind(a, kind) == \E row \in revisions : row.artifact = a /\ row.payload.kind = kind

RevisionRow(a, number, payload, origin) ==
  [artifact |-> a, number |-> number, payload |-> payload, origin |-> origin,
   seq |-> NextCommitSeq]

-----------------------------------------------------------------------------
(* Row writes the artifact handlers and source.ingest have in common.      *)

\* A new identity at revision 1.
InsertArtifact(a, payload, origin, ambient) ==
  /\ ~Stored(a)
  /\ artHead' = [artHead EXCEPT ![a] = 1]
  /\ artStatus' = [artStatus EXCEPT ![a] = "active"]
  /\ artOwner' = [artOwner EXCEPT ![a] = ambient]
  /\ revisions' = revisions \cup {RevisionRow(a, 1, payload, origin)}

\* A new revision of an artifact, which becomes its head.
AppendRevision(a, payload, origin) ==
  /\ artHead[a] < MaxRevision
  /\ artHead' = [artHead EXCEPT ![a] = artHead[a] + 1]
  /\ revisions' = revisions \cup {RevisionRow(a, artHead[a] + 1, payload, origin)}
  /\ UNCHANGED <<artStatus, artOwner>>

MarkForgotten(a) ==
  /\ artStatus' = [artStatus EXCEPT ![a] = "forgotten"]
  /\ UNCHANGED <<artHead, artOwner, revisions>>

-----------------------------------------------------------------------------
(* Handlers.  A call that the guards refuse returns an error and changes   *)
(* nothing.                                                                *)

\* artifact.put: two identical puts without a key are two artifacts.
ArtifactPut(a, payload, ambient, key) ==
  /\ FreshKey(ambient, key)
  /\ MaySpendSeq
  /\ InsertArtifact(a, payload, NoOrigin, ambient)
  /\ Commit(ambient, key, [op |-> "artifact.put", payload |-> payload])

\* artifact.revise: optimistic concurrency on the head, the kind is kept.
ArtifactRevise(a, ifRevision, payload, ambient, key) ==
  /\ Stored(a)
  /\ InWriteScope(ambient, artOwner[a])
  /\ FreshKey(ambient, key)
  /\ artStatus[a] # "forgotten"
  /\ ifRevision = artHead[a]
  /\ HasKind(a, payload.kind)
  /\ MaySpendSeq
  /\ AppendRevision(a, payload, NoOrigin)
  /\ Commit(ambient, key, [op |-> "artifact.revise", artifact |-> a,
                           if_revision |-> ifRevision, payload |-> payload])

\* artifact.forget: logical, and refused a second time.
ArtifactForget(a, ambient, key) ==
  /\ Stored(a)
  /\ InWriteScope(ambient, artOwner[a])
  /\ FreshKey(ambient, key)
  /\ artStatus[a] # "forgotten"
  /\ MaySpendSeq
  /\ MarkForgotten(a)
  /\ Commit(ambient, key, [op |-> "artifact.forget", artifact |-> a])

ArtifactsInit ==
  /\ LedgerInit
  /\ artHead = [a \in Artifacts |-> 0]
  /\ artStatus = [a \in Artifacts |-> "absent"]
  /\ artOwner = [a \in Artifacts |-> NoOwner]
  /\ revisions = {}

ArtifactsNext(ambient, key) ==
  \E a \in Artifacts :
    \/ \E payload \in Payloads : ArtifactPut(a, payload, ambient, key)
    \/ \E ifRevision \in 1 .. MaxRevision, payload \in Payloads :
         ArtifactRevise(a, ifRevision, payload, ambient, key)
    \/ ArtifactForget(a, ambient, key)

-----------------------------------------------------------------------------
=============================================================================
