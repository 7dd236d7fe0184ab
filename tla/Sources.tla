------------------------------ MODULE Sources -------------------------------
(***************************************************************************)
(* The synchronisation contract for out-of-process adapters                *)
(* (src/src/store.rs): sources with a cursor and a health, and the items   *)
(* they delivered, each bound to one artifact revision.                    *)
(*                                                                         *)
(* Adapters share nothing but the store: they may deliver late, twice or   *)
(* out of order, while agents revise and forget the same artifacts.        *)
(*                                                                         *)
(* Abstractions: a cursor, an external revision and a payload are opaque;  *)
(* locator, metadata, messages, timestamps and reasons are left out.       *)
(***************************************************************************)
EXTENDS Artifacts

CONSTANTS
  Sources,            \* the source identifiers new_id may produce
  Names,              \* source names
  Externals,          \* upstream identifiers of items
  ExternalRevisions,  \* upstream revision tokens
  Cursors,            \* adapter cursors
  NoCursor,           \* no cursor stored, or none supplied
  Healths,            \* the healths a checkpoint may report
  NoSource,           \* a source that is not registered
  NoItem              \* an external id that was never delivered

VARIABLES
  sources,  \* rows of `sources`
  items     \* rows of `source_items` by (source, external id)

sourceVars == <<sources, items>>

ItemKeys == Sources \X Externals

OptionalCursors == Cursors \cup {NoCursor}

SourceRows == [owner : Contexts, name : Names, health : Healths \cup {"unknown", "healthy"},
               cursor : OptionalCursors, seq : Nat]

ItemRows == [externalRevision : ExternalRevisions, payload : Payloads,
             artifact : Artifacts, revision : 1 .. MaxRevision,
             state : {"live", "withdrawn"}, seq : Nat]

ASSUME SourcesAssumption == NoSource \notin SourceRows /\ NoItem \notin ItemRows

Registered(s) == sources[s] # NoSource
Delivered(i) == items[i] # NoItem
LiveItem(i) == Delivered(i) /\ items[i].state = "live"

\* COALESCE(new, stored): a call without a cursor keeps the stored one.
Coalesce(new, stored) == IF new = NoCursor THEN stored ELSE new

\* The `memoree_source` provenance of an ingested revision.
Origin(i, externalRevision) ==
  [source |-> i[1], external |-> i[2], revision |-> externalRevision]

\* UNIQUE(workspace_id, project_id, task_id, name), in which a NULL task
\* makes every row distinct.
NameTaken(ambient, name) ==
  /\ ambient.task # NoTask
  /\ \E s \in Sources : /\ Registered(s)
                        /\ sources[s].owner = ambient /\ sources[s].name = name

-----------------------------------------------------------------------------
(* Handlers.                                                               *)

SourceRegister(s, name, ambient, key) ==
  /\ ~Registered(s)
  /\ FreshKey(ambient, key)
  /\ ~NameTaken(ambient, name)
  /\ MaySpendSeq
  /\ sources' = [sources EXCEPT ![s] =
       [owner |-> ambient, name |-> name, health |-> "unknown",
        cursor |-> NoCursor, seq |-> NextCommitSeq]]
  /\ Commit(ambient, key, [op |-> "source.register", name |-> name])
  /\ UNCHANGED <<artifactVars, items>>

\* What every later source handler asks first.
SourceAdmitted(s, ambient, key) ==
  /\ Registered(s)
  /\ InWriteScope(ambient, sources[s].owner)
  /\ FreshKey(ambient, key)

SourceCheckpoint(s, health, cursor, ambient, key) ==
  /\ SourceAdmitted(s, ambient, key)
  /\ MaySpendSeq
  /\ sources' = [sources EXCEPT ![s].health = health,
                                ![s].cursor = Coalesce(cursor, sources[s].cursor),
                                ![s].seq = NextCommitSeq]
  /\ Commit(ambient, key, [op |-> "source.checkpoint", source |-> s,
                           health |-> health, cursor |-> cursor])
  /\ UNCHANGED <<artifactVars, items>>

IngestRequest(i, externalRevision, payload, cursor) ==
  [op |-> "source.ingest", item |-> i, revision |-> externalRevision,
   payload |-> payload, cursor |-> cursor]

\* Faulty variant: a duplicate is answered with the current commit.
IngestHeldNow(i, externalRevision, payload, cursor, ambient, key) ==
  /\ SourceAdmitted(i[1], ambient, key) /\ key # NoKey
  /\ LiveItem(i)
  /\ items[i].externalRevision = externalRevision /\ items[i].payload = payload
  /\ RecordIdempotency(ambient, key,
       IngestRequest(i, externalRevision, payload, cursor), commitSeq)
  /\ UNCHANGED <<artifactVars, sources, items, commitSeq>>

\* The revision the item already holds, with the same payload: answered with
\* the stored commit; the cursor is not advanced and only the key is recorded.
\* With another payload the call is a REVISION_CONFLICT.
IngestHeld(i, externalRevision, payload, cursor, ambient, key) ==
  /\ SourceAdmitted(i[1], ambient, key)
  /\ key # NoKey
  /\ LiveItem(i)
  /\ items[i].externalRevision = externalRevision
  /\ items[i].payload = payload
  /\ RecordIdempotency(ambient, key,
       IngestRequest(i, externalRevision, payload, cursor), items[i].seq)
  /\ UNCHANGED <<artifactVars, sources, items, commitSeq>>

\* The tail of source.ingest: the upserted item, the source, the commit.
BindItem(i, externalRevision, payload, a, cursor, ambient, key) ==
  /\ items' = [items EXCEPT ![i] =
       [externalRevision |-> externalRevision, payload |-> payload,
        artifact |-> a, revision |-> artHead'[a], state |-> "live",
        seq |-> NextCommitSeq]]
  /\ sources' = [sources EXCEPT ![i[1]].health = "healthy",
                                ![i[1]].cursor = Coalesce(cursor, sources[i[1]].cursor),
                                ![i[1]].seq = NextCommitSeq]
  /\ Commit(ambient, key, IngestRequest(i, externalRevision, payload, cursor))

\* Another external revision of a live item: a new revision of its artifact.
IngestRevision(i, externalRevision, payload, cursor, ambient, key) ==
  LET a == items[i].artifact IN
  /\ SourceAdmitted(i[1], ambient, key)
  /\ LiveItem(i)
  /\ items[i].externalRevision # externalRevision
  /\ InWriteScope(ambient, artOwner[a])
  /\ Active(a)
  /\ HasKind(a, payload.kind)
  /\ MaySpendSeq
  /\ AppendRevision(a, payload, Origin(i, externalRevision))
  /\ BindItem(i, externalRevision, payload, a, cursor, ambient, key)

\* Faulty variant: an external revision the item does not hold is a new artifact.
IngestArtifactPerRevision(i, a, externalRevision, payload, cursor, ambient, key) ==
  /\ SourceAdmitted(i[1], ambient, key)
  /\ LiveItem(i) => items[i].externalRevision # externalRevision
  /\ MaySpendSeq
  /\ InsertArtifact(a, payload, Origin(i, externalRevision), ambient)
  /\ BindItem(i, externalRevision, payload, a, cursor, ambient, key)

\* The first delivery of an external id, or one after its withdrawal: a new
\* artifact, owned by the caller's context.
IngestArtifact(i, a, externalRevision, payload, cursor, ambient, key) ==
  /\ SourceAdmitted(i[1], ambient, key)
  /\ ~LiveItem(i)
  /\ MaySpendSeq
  /\ InsertArtifact(a, payload, Origin(i, externalRevision), ambient)
  /\ BindItem(i, externalRevision, payload, a, cursor, ambient, key)

\* What source.withdraw asks before it looks at the state of the item.
WithdrawAdmitted(i, ambient, key) ==
  /\ SourceAdmitted(i[1], ambient, key)
  /\ Delivered(i)
  /\ InWriteScope(ambient, artOwner[items[i].artifact])

WithdrawRequest(i) == [op |-> "source.withdraw", item |-> i]

WithdrawHeld(i, ambient, key) ==
  /\ WithdrawAdmitted(i, ambient, key)
  /\ key # NoKey
  /\ items[i].state = "withdrawn"
  /\ RecordIdempotency(ambient, key, WithdrawRequest(i), items[i].seq)
  /\ UNCHANGED <<artifactVars, sources, items, commitSeq>>

\* Faulty variant: only the item is marked.
SourceWithdrawItem(i, ambient, key) ==
  /\ WithdrawAdmitted(i, ambient, key)
  /\ items[i].state = "live" /\ MaySpendSeq
  /\ items' = [items EXCEPT ![i].state = "withdrawn", ![i].seq = NextCommitSeq]
  /\ sources' = [sources EXCEPT ![i[1]].seq = NextCommitSeq]
  /\ Commit(ambient, key, WithdrawRequest(i))
  /\ UNCHANGED artifactVars

\* Upstream removal: the artifact is forgotten with the item, also when an
\* agent had forgotten it before.
SourceWithdraw(i, ambient, key) ==
  /\ WithdrawAdmitted(i, ambient, key)
  /\ items[i].state = "live"
  /\ MaySpendSeq
  /\ MarkForgotten(items[i].artifact)
  /\ items' = [items EXCEPT ![i].state = "withdrawn", ![i].seq = NextCommitSeq]
  /\ sources' = [sources EXCEPT ![i[1]].seq = NextCommitSeq]
  /\ Commit(ambient, key, WithdrawRequest(i))

-----------------------------------------------------------------------------
SourcesInit ==
  /\ sources = [s \in Sources |-> NoSource]
  /\ items = [i \in ItemKeys |-> NoItem]

SourcesNext(ambient, key) ==
  \/ \E s \in Sources :
       \/ \E name \in Names : SourceRegister(s, name, ambient, key)
       \/ \E health \in Healths, cursor \in OptionalCursors :
            SourceCheckpoint(s, health, cursor, ambient, key)
  \/ \E i \in ItemKeys :
       \/ \E externalRevision \in ExternalRevisions, payload \in Payloads,
             cursor \in OptionalCursors :
            \/ IngestHeld(i, externalRevision, payload, cursor, ambient, key)
            \/ IngestRevision(i, externalRevision, payload, cursor, ambient, key)
            \/ \E a \in Artifacts :
                 IngestArtifact(i, a, externalRevision, payload, cursor, ambient, key)
       \/ WithdrawHeld(i, ambient, key)
       \/ SourceWithdraw(i, ambient, key)

-----------------------------------------------------------------------------
(* What Store::verify asks of the items.                                   *)

\* Its revision and its artifact exist, and the life of the artifact is the
\* item's.
BrokenSourceItems ==
  {i \in ItemKeys :
     /\ Delivered(i)
     /\ ~ /\ Registered(i[1])
          /\ \E row \in revisions : /\ row.artifact = items[i].artifact
                                    /\ row.number = items[i].revision
          /\ artStatus[items[i].artifact]
               = IF items[i].state = "live" THEN "active" ELSE "forgotten"}

-----------------------------------------------------------------------------
(* Invariants.                                                             *)

\* An external id has one live artifact identity: of all artifacts that hold
\* a revision delivered for it, across withdrawals, redeliveries and the
\* revisions agents made, at most one is active.
OneLiveIdentity ==
  \A p, q \in revisions :
    /\ p.origin # NoOrigin /\ q.origin # NoOrigin
    /\ p.origin.source = q.origin.source /\ p.origin.external = q.origin.external
    /\ Active(p.artifact) /\ Active(q.artifact)
    => p.artifact = q.artifact

\* Upstream removal is final for what was removed, and a redelivery never shares
\* its artifact: the one complaint verify can have about items is a live item
\* whose artifact an agent forgot.
OnlyForgetsBreakItems ==
  \A i \in BrokenSourceItems :
    /\ LiveItem(i)
    /\ artStatus[items[i].artifact] = "forgotten"
    /\ \A other \in ItemKeys :
         Delivered(other) /\ items[other].artifact = items[i].artifact => other = i

\* The answer stored under a key for source.ingest names the commit that made
\* the revision the request asked for, also when an earlier call made it.
AnswerNamesRevision ==
  \A scoped \in ScopedKeys :
    /\ idempotency[scoped] # NoRecord
    /\ idempotency[scoped].request.op = "source.ingest"
    => LET request == idempotency[scoped].request IN
       \E row \in revisions :
         /\ row.origin = Origin(request.item, request.revision)
         /\ row.payload = request.payload
         /\ row.seq = idempotency[scoped].seq

\* verify raises no alarm over the items either.
VerifyAcceptsItems == BrokenSourceItems = {}
=============================================================================
