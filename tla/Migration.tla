------------------------------ MODULE Migration ------------------------------
(***************************************************************************)
(* What the migrations from schema 1 and schema 2 make of the conflicts of *)
(* a store (migrate_schema and migrate_schema_v2_to_v3 in                  *)
(* src/src/store.rs).                                                      *)
(*                                                                         *)
(* Schema 1 kept no conflict cases, and schema 2 kept one per              *)
(* contradiction and opened no further one when a claim was revised.  The  *)
(* migrations reconstruct the cases from the commits of revisions and      *)
(* relations, in one pass of SQL over the whole store, what the handlers   *)
(* of Claims maintain one commit at a time.  Both are operators over the   *)
(* tables, compared in every state that Claims reaches.  Claims has no     *)
(* commit per revision, which this module adds.                            *)
(***************************************************************************)
EXTENDS ClaimsVerify, Sequences, FiniteSetsExt

VARIABLE written   \* claim_revisions.commit_seq of each revision, in order

migrationVars == <<vars, written>>

\* The commit of a handler is the commit of the revision it inserts.
WriteRevision ==
  written' = [c \in Claims |-> IF head'[c] > head[c]
                               THEN Append(written[c], commitSeq')
                               ELSE written[c]]

MigrationInit == Init /\ written = [c \in Claims |-> <<>>]

MigrationSpec == MigrationInit /\ [][Next /\ WriteRevision]_migrationVars

-----------------------------------------------------------------------------
Contradictions == {r \in relations : r.kind = "contradicts"}

\* The revision of a claim that was current at a commit: the last one whose
\* commit is not after it.
RevisionAt(c, seq) == Max({rev \in 1 .. head[c] : written[c][rev] <= seq})

AnyTerminal(r) == status[r.source] \in Terminal \/ status[r.target] \in Terminal

\* Faulty variant: the case compares what is current at the migration.
HeadAssessment(r) ==
  [source |-> r.source, target |-> r.target,
   sourceRev |-> head[r.source], targetRev |-> head[r.target],
   state |-> IF AnyTerminal(r) THEN "resolved" ELSE "open",
   opened |-> r.seq, closed |-> 0]

\* The first INSERT from schema 1: the assessment the contradiction was
\* created with, in the state the claims have brought it to.
FrozenAssessment(r) ==
  LET source == RevisionAt(r.source, r.seq)
      target == RevisionAt(r.target, r.seq)
  IN [source |-> r.source, target |-> r.target,
      sourceRev |-> source, targetRev |-> target,
      state |-> IF AnyTerminal(r) THEN "resolved"
                ELSE IF source # head[r.source] \/ target # head[r.target] THEN "stale"
                ELSE "open",
      opened |-> r.seq, closed |-> 0]

\* The second INSERT, from either schema: the current assessment of every
\* contradiction between live claims that has no open case for it.
Reassessments(cs) ==
  LET new(r) == Assessment(r.source, r.target, head,
                           Max({written[r.source][head[r.source]],
                                written[r.target][head[r.target]]}))
  IN {new(r) : r \in {row \in Contradictions :
                        ~AnyTerminal(row)
                        /\ ~\E case \in OpenCases(cs) : SameAssessment(case, new(row))}}

MigratedFromV1 ==
  LET frozen == {FrozenAssessment(r) : r \in Contradictions}
  IN frozen \cup Reassessments(frozen)

\* A store of schema 2 has the first case of each contradiction.
CasesV2 == {case \in cases : \E r \in Contradictions :
                               SameRelation(case, r) /\ case.opened = r.seq}

MigratedFromV2 == CasesV2 \cup Reassessments(CasesV2)

\* The UPDATE of claims: the status of every live claim, from the cases.
MigratedStatus(cs) == RecomputeClaimStatuses(status, Claims, cs, head)

-----------------------------------------------------------------------------
(* Invariants.                                                             *)

\* The migrated tables show the disputes the handlers would have shown at
\* that commit, every first assessment keeps the revisions it compared, and
\* no INSERT of the migration meets a unique key of conflict_cases.
Reconstructs(cs) ==
  /\ {Compared(case) : case \in OpenCases(cs)} = OpenComparisons
  /\ MigratedStatus(cs) = status
  /\ \A first \in CasesV2 : \E case \in cs : SameAssessment(case, first)
  /\ \A p, q \in cs :
       \/ SameAssessment(p, q)
       \/ SameRelation(p, q) /\ p.state = "open" /\ q.state = "open"
       => p = q

\* Schema 1, where nothing but the commits is known, loses no dispute and
\* invents none; nor does schema 2, whose case of a contradiction may have gone
\* stale or been resolved since.
MigrationReconstructs == Reconstructs(MigratedFromV1) /\ Reconstructs(MigratedFromV2)

-----------------------------------------------------------------------------
(* The invariant from which it follows.                                    *)

\* The commits of the revisions of a claim, in order.
RevisionsWritten ==
  /\ written \in [Claims -> Seq(Nat)]
  /\ \A c \in Claims :
       /\ Len(written[c]) = head[c]
       /\ \A i \in 1 .. head[c] : written[c][i] <= commitSeq
       /\ \A i, j \in 1 .. head[c] : i < j => written[c][i] < written[c][j]

CurrentAt(c, rev, seq) ==
  /\ written[c][rev] <= seq
  /\ rev < head[c] => seq < written[c][rev + 1]

\* A case compares the revisions that were current when it was opened.
OpenedCurrent ==
  \A case \in cases : /\ case.opened <= commitSeq
                      /\ CurrentAt(case.source, case.sourceRev, case.opened)
                      /\ CurrentAt(case.target, case.targetRev, case.opened)

\* The unique key of relations.
EdgesDistinct ==
  \A p, q \in relations :
    p.source = q.source /\ p.kind = q.kind /\ p.target = q.target => p = q

MigrationInv == IndInv /\ RevisionsWritten /\ OpenedCurrent /\ EdgesDistinct
=============================================================================
