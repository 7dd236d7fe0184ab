------------------------------- MODULE Ledger -------------------------------
(***************************************************************************)
(* What every logical mutation of the store shares (src/src/store.rs): the *)
(* commit sequence, the append-only event row written with each commit,    *)
(* and the idempotency table that answers a repeated key.                  *)
(*                                                                         *)
(* A mutation runs inside one IMMEDIATE transaction under the connection   *)
(* mutex, so a handler is one step: it commits everything or nothing.  The *)
(* `events` table holds exactly one row per commit and no mutation reads   *)
(* it, so the table is represented by commitSeq alone: its keys are        *)
(* 1 .. commitSeq.                                                         *)
(***************************************************************************)
EXTENDS Naturals, FiniteSets

CONSTANTS
  Keys,      \* idempotency keys a caller may attach to a mutation
  NoKey,     \* a key of its own, that no later call repeats (its row is not kept)
  NoRecord,  \* an idempotency key that names no row
  MaxSeq,    \* bound on the commits of one behaviour (model bound)
  Projects,  \* stable project identifiers (workspace and project together)
  Tasks,     \* task identifiers
  NoTask     \* an ambient context or an owner at project level

ASSUME LedgerAssumption ==
  /\ NoKey \notin Keys
  /\ NoTask \notin Tasks
  /\ MaxSeq \in Nat

VARIABLES
  commitSeq,    \* meta.commit_seq: the last committed sequence number
  idempotency   \* scoped key -> the row recorded with the first success

ledgerVars == <<commitSeq, idempotency>>

-----------------------------------------------------------------------------
(* Ambient contexts and the write boundary.                                *)

Contexts == [project : Projects, task : Tasks \cup {NoTask}]

\* ensure_write_scope: the same project, and under a task only the entities
\* of that task or of no task.  Pins never widen it.
InWriteScope(ambient, owner) ==
  /\ ambient.project = owner.project
  /\ \/ ambient.task = NoTask
     \/ owner.task \in {NoTask, ambient.task}

-----------------------------------------------------------------------------
(* Idempotency.                                                            *)

OptionalKeys == Keys \cup {NoKey}

\* The service prefixes a key with a digest of workspace, project and task,
\* so equal keys of different contexts never meet.
ScopedKeys == Contexts \X Keys

\* idempotency_replay found no row: the mutation goes on.  With a row the
\* handler returns the stored response (same request) or an
\* IDEMPOTENCY_CONFLICT (another request); neither changes the store.
FreshKey(ambient, key) ==
  key \in Keys => idempotency[<<ambient, key>>] = NoRecord

\* record_idempotency: the row names the request, and the commit it answers
\* with, which for an already satisfied request is an earlier one.
RecordIdempotency(ambient, key, request, seq) ==
  idempotency' =
    IF key = NoKey
    THEN idempotency
    ELSE [idempotency EXCEPT ![<<ambient, key>>] = [request |-> request,
                                                    seq     |-> seq]]

-----------------------------------------------------------------------------
(* Commit sequence.                                                        *)

MaySpendSeq == commitSeq < MaxSeq

\* next_commit_seq and append_event: one more commit, one more event row.
NextCommitSeq == commitSeq + 1

\* The tail every successful mutation has.
Commit(ambient, key, request) ==
  /\ commitSeq' = NextCommitSeq
  /\ RecordIdempotency(ambient, key, request, NextCommitSeq)

LedgerInit ==
  /\ commitSeq = 0
  /\ idempotency = [scoped \in ScopedKeys |-> NoRecord]
=============================================================================
