------------------------------- MODULE Claims -------------------------------
(***************************************************************************)
(* Claims, the relations between them and the conflict cases derived from  *)
(* their contradictions (src/src/store.rs).                                *)
(*                                                                         *)
(* A claim has a mutable head over immutable revisions.  A `contradicts`   *)
(* relation opens a conflict case that freezes the two revisions it        *)
(* compared; revising an endpoint makes the case stale and opens a fresh   *)
(* one, a terminal endpoint resolves it.  The visible status `conflicted`  *)
(* is derived from the open cases.  Four handlers and the helpers they     *)
(* call keep three tables (claims, relations, conflict_cases) agreeing.    *)
(*                                                                         *)
(* Abstractions: a revision is its revision_number (rows are immutable and *)
(* unique per claim); statements, evidence, validity and metadata are left *)
(* out; the relation kinds without lifecycle meaning are one kind,         *)
(* "other"; conflict_events rows are the `opened` and `closed` commits of  *)
(* their case.                                                             *)
(***************************************************************************)
EXTENDS Ledger

CONSTANTS
  Claims,       \* the claim identifiers new_id may produce
  NoContext,    \* the owner of a claim that does not exist yet
  MaxRevision   \* bound on the revisions of one claim (model bound)

ASSUME ClaimsAssumption ==
  /\ NoContext \notin Contexts
  /\ MaxRevision \in Nat \ {0}

VARIABLES
  head,       \* claims.current_revision_id as a revision number; 0: no claim
  status,     \* claims.status; "absent" before the claim is asserted
  owner,      \* the context columns of the claim
  relations,  \* rows of `relations` between claims
  cases       \* rows of conflict_cases with the commits of their events

claimVars == <<head, status, owner, relations, cases>>
vars == <<head, status, owner, relations, cases, commitSeq, idempotency>>

Live == {"active", "conflicted"}
Terminal == {"superseded", "retracted"}
Kinds == {"contradicts", "supersedes", "other"}

Exists(c) == status[c] # "absent"

-----------------------------------------------------------------------------
(* Helpers over the tables.  They take the tables as arguments because a   *)
(* handler calls them between its own updates.                             *)

Ends(case) == {case.source, case.target}

\* The unique key (relation_id, source_revision_id, target_revision_id).
SameAssessment(p, q) ==
  /\ p.source = q.source /\ p.target = q.target
  /\ p.sourceRev = q.sourceRev /\ p.targetRev = q.targetRev

SameRelation(p, q) == p.source = q.source /\ p.target = q.target

OpenCases(cs) == {case \in cs : case.state = "open"}

\* The cases transition_open_conflicts selects, and what it makes of them.
Touching(cs, c) == {case \in OpenCases(cs) : c \in Ends(case)}

Close(case, state, seq) == [case EXCEPT !.state = state, !.closed = seq]

\* Faulty variant: only the cases whose source the claim is are closed.
TransitionAsSource(cs, c, state, seq) ==
  {IF case.source = c /\ case.state = "open" THEN Close(case, state, seq) ELSE case :
     case \in cs}

TransitionOpenConflicts(cs, c, state, seq) ==
  (cs \ Touching(cs, c)) \cup {Close(case, state, seq) : case \in Touching(cs, c)}

\* The row open_conflict_assessment inserts for the current revisions.
Assessment(source, target, heads, seq) ==
  [source |-> source, target |-> target,
   sourceRev |-> heads[source], targetRev |-> heads[target],
   state |-> "open", opened |-> seq, closed |-> 0]

\* INSERT OR IGNORE is refused by the unique key or by the index of one open
\* case per relation.  Only an identical case that is still open is benign;
\* anything else makes the handler fail and the transaction roll back.
AssessmentBlocked(cs, new) ==
  \E case \in cs :
    \/ SameAssessment(case, new) /\ case.state # "open"
    \/ SameRelation(case, new) /\ case.state = "open" /\ ~SameAssessment(case, new)

OpenAssessments(cs, news) ==
  cs \cup {new \in news : ~\E case \in cs : SameAssessment(case, new)}

\* The relations reassess_live_conflicts selects for a revised claim.
LiveContradictions(c, rels, st) ==
  {r \in rels : /\ r.kind = "contradicts"
                /\ c \in {r.source, r.target}
                /\ st[r.source] \in Live /\ st[r.target] \in Live}

\* Faulty variant: a claim is looked up at one end of a case only.
HasOpenCaseAsSource(c, cs, heads) ==
  \E case \in OpenCases(cs) : case.source = c /\ case.sourceRev = heads[c]

HasOpenCase(c, cs, heads) ==
  \E case \in OpenCases(cs) :
    \/ case.source = c /\ case.sourceRev = heads[c]
    \/ case.target = c /\ case.targetRev = heads[c]

RecomputeClaimStatuses(st, affected, cs, heads) ==
  [c \in Claims |->
     IF c \in affected /\ st[c] \in Live
     THEN IF HasOpenCase(c, cs, heads) THEN "conflicted" ELSE "active"
     ELSE st[c]]

-----------------------------------------------------------------------------
(* Handlers.  A call that the guards refuse returns an error and changes   *)
(* nothing.                                                                *)

\* claim.assert: a new identity at revision 1.
ClaimAssert(c, ambient, key) ==
  /\ ~Exists(c)
  /\ FreshKey(ambient, key)
  /\ MaySpendSeq
  /\ head' = [head EXCEPT ![c] = 1]
  /\ status' = [status EXCEPT ![c] = "active"]
  /\ owner' = [owner EXCEPT ![c] = ambient]
  /\ Commit(ambient, key, [op |-> "claim.assert", claim |-> c])
  /\ UNCHANGED <<relations, cases>>

\* Faulty variant: a claim has to be live for a repeated call to get as far
\* as its key.
ReachesLive(ambient, c) ==
  status[c] \in Live /\ InWriteScope(ambient, owner[c])

\* What every handler asks of a claim before it looks for the key: that it
\* exists, and within the write boundary of the caller.
Reaches(ambient, c) == Exists(c) /\ InWriteScope(ambient, owner[c])

\* The assessments a revision of c to the given heads opens.
FreshAssessments(c, heads, seq) ==
  {Assessment(r.source, r.target, heads, seq) :
     r \in LiveContradictions(c, relations, status)}

\* claim.revise: a new head under optimistic concurrency; open cases of the
\* claim go stale and every live contradiction is assessed afresh.
ClaimRevise(c, ifRevision, ambient, key) ==
  LET heads == [head EXCEPT ![c] = head[c] + 1]
      staled == TransitionOpenConflicts(cases, c, "stale", NextCommitSeq)
      fresh == FreshAssessments(c, heads, NextCommitSeq)
      assessed == OpenAssessments(staled, fresh)
      affected == {c} \cup UNION {Ends(case) : case \in Touching(cases, c) \cup fresh}
  IN
  /\ Reaches(ambient, c)
  /\ FreshKey(ambient, key)
  /\ ifRevision = head[c]
  /\ status[c] \notin Terminal
  /\ head[c] < MaxRevision
  /\ MaySpendSeq
  /\ \A new \in fresh : ~AssessmentBlocked(staled, new)
  /\ head' = heads
  /\ cases' = assessed
  /\ status' = RecomputeClaimStatuses(status, affected, assessed, heads)
  /\ Commit(ambient, key, [op |-> "claim.revise", claim |-> c,
                           if_revision |-> ifRevision])
  /\ UNCHANGED <<owner, relations>>

\* Faulty variant: the status of the claim at the other end is not recomputed.
ClaimRetractAlone(c, ambient, key) ==
  /\ Reaches(ambient, c) /\ FreshKey(ambient, key)
  /\ status[c] # "retracted" /\ MaySpendSeq
  /\ cases' = TransitionOpenConflicts(cases, c, "resolved", NextCommitSeq)
  /\ status' = [status EXCEPT ![c] = "retracted"]
  /\ Commit(ambient, key, [op |-> "claim.retract", claim |-> c])
  /\ UNCHANGED <<head, owner, relations>>

\* claim.retract: terminal from any state but itself; open cases resolve.
ClaimRetract(c, ambient, key) ==
  LET resolved == TransitionOpenConflicts(cases, c, "resolved", NextCommitSeq)
      affected == UNION {Ends(case) : case \in Touching(cases, c)}
  IN
  /\ Reaches(ambient, c)
  /\ FreshKey(ambient, key)
  /\ status[c] # "retracted"
  /\ MaySpendSeq
  /\ cases' = resolved
  /\ status' = RecomputeClaimStatuses([status EXCEPT ![c] = "retracted"],
                                      affected, resolved, head)
  /\ Commit(ambient, key, [op |-> "claim.retract", claim |-> c])
  /\ UNCHANGED <<head, owner, relations>>

RelationRequest(s, kind, t) ==
  [op |-> "relation.put", source |-> s, kind |-> kind, target |-> t]

Edge(s, kind, t) ==
  {r \in relations : r.source = s /\ r.kind = kind /\ r.target = t}

\* The checks relation.put makes before it looks for the edge.
RelationAdmitted(s, t, ambient, key) ==
  /\ s # t
  /\ Reaches(ambient, s) /\ Reaches(ambient, t)
  /\ FreshKey(ambient, key)

\* relation.put on an edge that exists: answered with the stored row and its
\* commit; only the key is recorded.
RelationExists(s, kind, t, ambient, key) ==
  /\ RelationAdmitted(s, t, ambient, key)
  /\ key # NoKey
  /\ \E r \in Edge(s, kind, t) :
       RecordIdempotency(ambient, key, RelationRequest(s, kind, t), r.seq)
  /\ UNCHANGED <<head, status, owner, relations, cases, commitSeq>>

\* The part of relation.put every new edge shares, and the guard of
\* validate_relation_semantics for the kinds that have a lifecycle.
InsertRelation(s, kind, t, ambient, key) ==
  /\ RelationAdmitted(s, t, ambient, key)
  /\ Edge(s, kind, t) = {}
  /\ kind # "other" => status[s] \in Live /\ status[t] \in Live
  /\ MaySpendSeq
  /\ relations' = relations \cup {[source |-> s, kind |-> kind, target |-> t,
                                   seq |-> NextCommitSeq]}
  /\ Commit(ambient, key, RelationRequest(s, kind, t))
  /\ UNCHANGED <<head, owner>>

\* `source` replaces `target`: the target becomes terminal, its cases resolve.
RelationSupersedes(s, t, ambient, key) ==
  LET resolved == TransitionOpenConflicts(cases, t, "resolved", NextCommitSeq)
      affected == {s, t} \cup UNION {Ends(case) : case \in Touching(cases, t)}
  IN
  /\ InsertRelation(s, "supersedes", t, ambient, key)
  /\ cases' = resolved
  /\ status' = RecomputeClaimStatuses([status EXCEPT ![t] = "superseded"],
                                      affected, resolved, head)

\* A contradiction opens the case of the two current revisions.
RelationContradicts(s, t, ambient, key) ==
  LET new == Assessment(s, t, head, NextCommitSeq)
      assessed == OpenAssessments(cases, {new})
  IN
  /\ InsertRelation(s, "contradicts", t, ambient, key)
  /\ ~AssessmentBlocked(cases, new)
  /\ cases' = assessed
  /\ status' = RecomputeClaimStatuses(status, {s, t}, assessed, head)

RelationOther(s, t, ambient, key) ==
  /\ InsertRelation(s, "other", t, ambient, key)
  /\ UNCHANGED <<status, cases>>

-----------------------------------------------------------------------------
Init ==
  /\ LedgerInit
  /\ head = [c \in Claims |-> 0]
  /\ status = [c \in Claims |-> "absent"]
  /\ owner = [c \in Claims |-> NoContext]
  /\ relations = {}
  /\ cases = {}

\* What one caller can do under one key.
Call(ambient, key) ==
  \/ \E c \in Claims :
       \/ ClaimAssert(c, ambient, key)
       \/ \E ifRevision \in 1 .. MaxRevision :
            ClaimRevise(c, ifRevision, ambient, key)
       \/ ClaimRetract(c, ambient, key)
  \/ \E s, t \in Claims :
       \/ \E kind \in Kinds : RelationExists(s, kind, t, ambient, key)
       \/ RelationSupersedes(s, t, ambient, key)
       \/ RelationContradicts(s, t, ambient, key)
       \/ RelationOther(s, t, ambient, key)

Next == \E ambient \in Contexts, key \in OptionalKeys : Call(ambient, key)

Spec == Init /\ [][Next]_vars

-----------------------------------------------------------------------------
(* Invariants.  The first three are what Store::verify asserts of a store: *)
(* a backup of a store that fails them is refused.                         *)

Statuses == {"absent"} \cup Live \cup Terminal

RelationRows == [source : Claims, kind : Kinds, target : Claims, seq : Nat]

CaseRows == [source : Claims, target : Claims,
             sourceRev : 1 .. MaxRevision, targetRev : 1 .. MaxRevision,
             state : {"open", "stale", "resolved"}, opened : Nat, closed : Nat]

\* The tables hold what the schema admits, and a claim has a revision and an
\* owner from the moment it is asserted.
TypeOK ==
  /\ head \in [Claims -> 0 .. MaxRevision]
  /\ status \in [Claims -> Statuses]
  /\ owner \in [Claims -> Contexts \cup {NoContext}]
  /\ relations \subseteq RelationRows
  /\ cases \subseteq CaseRows
  /\ commitSeq \in 0 .. MaxSeq
  /\ DOMAIN idempotency = ScopedKeys
  /\ \A c \in Claims : Exists(c) <=> head[c] # 0
  /\ \A c \in Claims : Exists(c) <=> owner[c] # NoContext

\* An open conflict case always compares the current revisions of two claims
\* that are not terminal, whatever was revised, retracted or superseded since.
OpenMatchesHeads ==
  \A case \in OpenCases(cases) :
    /\ case.sourceRev = head[case.source] /\ status[case.source] \in Live
    /\ case.targetRev = head[case.target] /\ status[case.target] \in Live

\* No contradiction between live claims is ever without an open case: a
\* revision of either end cannot make a dispute disappear.
LiveContradictionAssessed ==
  \A r \in relations :
    /\ r.kind = "contradicts"
    /\ status[r.source] \in Live /\ status[r.target] \in Live
    => \E case \in OpenCases(cases) : SameRelation(case, r)

\* The status of a live claim, which is stored, shows `conflicted` exactly
\* when an open case names the claim, also for the claim at the other end of
\* a case that another mutation closed.
ConflictedIffOpen ==
  \A c \in Claims :
    status[c] \in Live =>
      (status[c] = "conflicted" <=> \E case \in OpenCases(cases) : c \in Ends(case))

\* A contradiction has at most one open case, and one case for a pair of
\* revisions: the two unique keys of conflict_cases, which the handlers meet
\* without ever running into them.
CasesDistinct ==
  \A p, q \in cases :
    \/ SameAssessment(p, q)
    \/ SameRelation(p, q) /\ p.state = "open" /\ q.state = "open"
    => p = q

\* Edges and cases never dangle: an edge joins two claims that exist, what it
\* supersedes stays terminal, and a case belongs to a contradiction and
\* compares revisions that were current at some time.
EdgesGrounded ==
  \A r \in relations :
    /\ r.source # r.target
    /\ Exists(r.source) /\ Exists(r.target)
    /\ r.seq <= commitSeq
    /\ r.kind = "supersedes" => status[r.target] \in Terminal

CasesGrounded ==
  \A case \in cases :
    /\ \E r \in relations : r.kind = "contradicts" /\ SameRelation(r, case)
    /\ case.sourceRev <= head[case.source]
    /\ case.targetRev <= head[case.target]

\* No claim can become impossible to revise: the reassessment a revision
\* makes never meets the internal errors of open_conflict_assessment.
RevisionNeverBlocked ==
  \A c \in Claims :
    status[c] \in Live =>
      LET heads == [head EXCEPT ![c] = head[c] + 1]
          staled == TransitionOpenConflicts(cases, c, "stale", NextCommitSeq)
      IN \A new \in FreshAssessments(c, heads, NextCommitSeq) :
           ~AssessmentBlocked(staled, new)

\* A stale case is never the end of a dispute's history: the commit that made
\* it stale opened the next case of the same contradiction.
StaleHasSuccessor ==
  \A case \in cases :
    case.state = "stale" =>
      \E next \in cases : SameRelation(case, next) /\ next.opened = case.closed

\* Supersession has no cycles: along a chain of edges the commits decrease,
\* since a claim can only supersede another while it is itself live.
SupersessionDescends ==
  \A p, q \in relations :
    p.kind = "supersedes" /\ q.kind = "supersedes" /\ p.target = q.source
    => q.seq < p.seq

\* Together they are inductive: with them every handler re-establishes each
\* of them, which is what ClaimsProofs shows.
IndInv ==
  /\ TypeOK
  /\ OpenMatchesHeads
  /\ LiveContradictionAssessed
  /\ ConflictedIffOpen
  /\ CasesDistinct
  /\ EdgesGrounded
  /\ CasesGrounded
  /\ StaleHasSuccessor
  /\ SupersessionDescends

\* A key recorded for relation.put answers with the commit that inserted the
\* edge the request asked for, also when that was another caller's commit.
AnswerNamesItsEdge ==
  \A scoped \in ScopedKeys :
    /\ idempotency[scoped] # NoRecord
    /\ idempotency[scoped].request.op = "relation.put"
    => \E r \in relations :
         /\ RelationRequest(r.source, r.kind, r.target) = idempotency[scoped].request
         /\ r.seq = idempotency[scoped].seq

\* Every key stays good for its request: whatever becomes of the claims, the
\* caller can repeat the call and reach the stored answer.
AnswersStayReachable ==
  \A scoped \in ScopedKeys :
    idempotency[scoped] # NoRecord =>
      LET request == idempotency[scoped].request IN
      IF request.op = "relation.put"
      THEN Reaches(scoped[1], request.source) /\ Reaches(scoped[1], request.target)
      ELSE Reaches(scoped[1], request.claim)

-----------------------------------------------------------------------------
(* Action properties.                                                      *)

\* History is append-only: a case that left `open` never changes again, none
\* disappears, and an open one changes in nothing but its closing.
HistoryFrozen ==
  [][\A case \in cases :
       \/ case \in cases'
       \/ /\ case.state = "open"
          /\ \E state \in {"stale", "resolved"} :
               Close(case, state, commitSeq') \in cases']_vars

\* A terminal claim never comes back: not through a derived status that is
\* recomputed, nor through a later supersession of a retracted claim.
TerminalStays ==
  [][\A c \in Claims :
       /\ status[c] \in Terminal => status'[c] \in Terminal /\ head'[c] = head[c]
       /\ status[c] = "retracted" => status'[c] = "retracted"]_vars
=============================================================================
