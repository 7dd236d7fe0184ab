---------------------------- MODULE ClaimsProofs ----------------------------
(***************************************************************************)
(* Proofs about Claims: the type invariant, the inductive invariant from   *)
(* which the safety invariants and the action properties follow, the       *)
(* refinement of Disputes, and what the migrations of Migration make of    *)
(* the tables.                                                             *)
(***************************************************************************)
EXTENDS ClaimsVerify, Migration, TLAPS

-----------------------------------------------------------------------------
(* Facts about the helpers.                                                *)

\* Closing cases keeps the rows of the table rows.
LEMMA TransitionType ==
  ASSUME NEW cs \in SUBSET CaseRows, NEW c \in Claims,
         NEW state \in {"stale", "resolved"}, NEW seq \in Nat
  PROVE  TransitionOpenConflicts(cs, c, state, seq) \in SUBSET CaseRows
  <1>1. \A case \in CaseRows : Close(case, state, seq) \in CaseRows
    BY DEF Close, CaseRows
  <1>2. Touching(cs, c) \subseteq CaseRows
    BY DEF Touching, OpenCases
  <1> QED BY <1>1, <1>2 DEF TransitionOpenConflicts

\* After the transition the open cases are those that do not touch the claim.
LEMMA TransitionOpen ==
  ASSUME NEW cs \in SUBSET CaseRows, NEW c \in Claims,
         NEW state \in {"stale", "resolved"}, NEW seq \in Nat
  PROVE  OpenCases(TransitionOpenConflicts(cs, c, state, seq))
           = {case \in OpenCases(cs) : c \notin Ends(case)}
  BY DEF TransitionOpenConflicts, Touching, OpenCases, Close, CaseRows

\* Two rows are the same assessment of the same relation, opened together.
SameOpening(p, x) ==
  SameAssessment(p, x) /\ SameRelation(p, x) /\ p.opened = x.opened

\* Every row of the table has a counterpart after the transition, which
\* differs at most in its state and its closing commit.
LEMMA TransitionKeeps ==
  ASSUME NEW cs \in SUBSET CaseRows, NEW c \in Claims,
         NEW state \in {"stale", "resolved"}, NEW seq \in Nat,
         NEW case \in cs
  PROVE  \E after \in TransitionOpenConflicts(cs, c, state, seq) :
           SameOpening(after, case)
  <1>1. CASE case \in Touching(cs, c)
    <2>1. Close(case, state, seq) \in TransitionOpenConflicts(cs, c, state, seq)
      BY <1>1 DEF TransitionOpenConflicts
    <2>2. SameOpening(Close(case, state, seq), case)
      BY DEF Close, CaseRows, SameOpening, SameAssessment, SameRelation
    <2> QED BY <2>1, <2>2
  <1>2. CASE case \notin Touching(cs, c)
    BY <1>2 DEF TransitionOpenConflicts, SameOpening, SameAssessment, SameRelation
  <1> QED BY <1>1, <1>2

\* Closing a case changes nothing but its state and its closing commit.
LEMMA CloseFacts ==
  ASSUME NEW case \in CaseRows, NEW state \in {"stale", "resolved"}, NEW seq \in Nat
  PROVE  LET after == Close(case, state, seq) IN
         /\ after \in CaseRows
         /\ SameOpening(after, case)
         /\ after.state = state /\ after.closed = seq
  BY DEF Close, CaseRows, SameOpening, SameAssessment, SameRelation

\* p is what transition_open_conflicts makes of the row x.
ComesFrom(p, x, touched, state, seq) ==
  /\ SameOpening(p, x)
  /\ \/ p = x /\ ~touched
     \/ touched /\ p = Close(x, state, seq) /\ p.state = state /\ p.closed = seq

\* Every row after the transition comes from a row before it.
LEMMA TransitionOrigin ==
  ASSUME NEW cs \in SUBSET CaseRows, NEW c \in Claims,
         NEW state \in {"stale", "resolved"}, NEW seq \in Nat
  PROVE  \A p \in TransitionOpenConflicts(cs, c, state, seq) :
           \E x \in cs : ComesFrom(p, x, x \in Touching(cs, c), state, seq)
  <1> SUFFICES ASSUME NEW p \in TransitionOpenConflicts(cs, c, state, seq)
               PROVE  \E x \in cs : ComesFrom(p, x, x \in Touching(cs, c), state, seq)
    OBVIOUS
  <1>1. CASE p \in cs \ Touching(cs, c)
    BY <1>1 DEF ComesFrom, SameOpening, SameAssessment, SameRelation
  <1>2. CASE p \notin cs \ Touching(cs, c)
    <2>1. PICK x \in Touching(cs, c) : p = Close(x, state, seq)
      BY <1>2 DEF TransitionOpenConflicts
    <2>2. x \in cs /\ x \in CaseRows
      BY <2>1 DEF Touching, OpenCases
    <2> QED BY <2>1, <2>2, CloseFacts DEF ComesFrom, SameOpening
  <1> QED BY <1>1, <1>2

\* The transition does not make two rows compare the same revisions.
LEMMA TransitionDistinct ==
  ASSUME NEW cs \in SUBSET CaseRows, NEW c \in Claims,
         NEW state \in {"stale", "resolved"}, NEW seq \in Nat,
         \A p, q \in cs : SameAssessment(p, q) => p = q
  PROVE  \A p, q \in TransitionOpenConflicts(cs, c, state, seq) :
           SameAssessment(p, q) => p = q
  <1> SUFFICES ASSUME NEW p \in TransitionOpenConflicts(cs, c, state, seq),
                      NEW q \in TransitionOpenConflicts(cs, c, state, seq),
                      SameAssessment(p, q)
               PROVE  p = q
    OBVIOUS
  <1>1. PICK x \in cs : ComesFrom(p, x, x \in Touching(cs, c), state, seq)
    BY TransitionOrigin
  <1>2. PICK y \in cs : ComesFrom(q, y, y \in Touching(cs, c), state, seq)
    BY TransitionOrigin
  <1>3. x = y
    BY <1>1, <1>2 DEF ComesFrom, SameOpening, SameAssessment
  <1> QED BY <1>1, <1>2, <1>3 DEF ComesFrom, SameOpening

\* Recomputing statuses never changes which claims are live, and leaves the
\* others as they are.
LEMMA RecomputeKeepsLife ==
  ASSUME NEW st \in [Claims -> Statuses], NEW affected, NEW cs, NEW heads
  PROVE  LET new == RecomputeClaimStatuses(st, affected, cs, heads) IN
         /\ new \in [Claims -> Statuses]
         /\ \A c \in Claims : new[c] \in Live <=> st[c] \in Live
         /\ \A c \in Claims : st[c] \notin Live => new[c] = st[c]
         /\ \A c \in Claims : c \notin affected => new[c] = st[c]
         /\ \A c \in Claims : c \in affected /\ st[c] \in Live =>
              (new[c] = "conflicted" <=> HasOpenCase(c, cs, heads))
  BY DEF RecomputeClaimStatuses, Statuses, Live, Terminal

-----------------------------------------------------------------------------
(* Type correctness.                                                       *)

\* The empty store is type correct.
LEMMA InitType == Init => TypeOK
  BY ClaimsAssumption, LedgerAssumption
  DEF Init, LedgerInit, TypeOK, Exists, Statuses, ScopedKeys, RelationRows, CaseRows

\* A commit spends one sequence number and keeps the shape of the key table.
LEMMA CommitType ==
  ASSUME TypeOK, MaySpendSeq, NEW ambient, NEW key, NEW request,
         Commit(ambient, key, request)
  PROVE  /\ commitSeq' \in 0 .. MaxSeq /\ commitSeq' = commitSeq + 1
         /\ DOMAIN idempotency' = ScopedKeys
  BY LedgerAssumption
  DEF TypeOK, MaySpendSeq, Commit, NextCommitSeq, RecordIdempotency

\* Live claims have a revision, so their assessment is a row of the table.
LEMMA AssessmentType ==
  ASSUME NEW heads \in [Claims -> 0 .. MaxRevision],
         NEW s \in Claims, NEW t \in Claims, heads[s] # 0, heads[t] # 0,
         NEW seq \in Nat
  PROVE  Assessment(s, t, heads, seq) \in CaseRows
  BY ClaimsAssumption DEF Assessment, CaseRows

\* The assessments of a revision are rows of the table.
LEMMA FreshType ==
  ASSUME TypeOK, NEW c \in Claims,
         NEW heads \in [Claims -> 0 .. MaxRevision],
         \A d \in Claims : head[d] # 0 => heads[d] # 0,
         NEW seq \in Nat
  PROVE  FreshAssessments(c, heads, seq) \subseteq CaseRows
  <1>1. SUFFICES ASSUME NEW r \in LiveContradictions(c, relations, status)
                 PROVE  Assessment(r.source, r.target, heads, seq) \in CaseRows
    BY DEF FreshAssessments
  <1>2. r.source \in Claims /\ r.target \in Claims
    BY DEF LiveContradictions, TypeOK, RelationRows
  <1>3. heads[r.source] # 0 /\ heads[r.target] # 0
    BY <1>2 DEF LiveContradictions, TypeOK, Exists, Live
  <1> QED BY <1>2, <1>3, AssessmentType

\* Every handler keeps the tables as the schema admits them.
LEMMA StepType == TypeOK /\ [Next]_vars => TypeOK'
  <1> SUFFICES ASSUME TypeOK, [Next]_vars PROVE TypeOK'
    OBVIOUS
  <1> USE ClaimsAssumption, LedgerAssumption
  <1>0. commitSeq \in Nat /\ NextCommitSeq \in Nat
    BY DEF TypeOK, NextCommitSeq
  <1>1. ASSUME NEW ambient \in Contexts, NEW key \in OptionalKeys,
               NEW c \in Claims, ClaimAssert(c, ambient, key)
        PROVE  TypeOK'
    <2>1. commitSeq' \in 0 .. MaxSeq /\ DOMAIN idempotency' = ScopedKeys
      BY <1>1, CommitType DEF ClaimAssert
    <2>2. /\ head' \in [Claims -> 0 .. MaxRevision]
          /\ status' \in [Claims -> Statuses]
          /\ owner' \in [Claims -> Contexts \cup {NoContext}]
      BY <1>1 DEF ClaimAssert, TypeOK, Statuses, Live
    <2>3. \A d \in Claims : /\ Exists(d)' <=> head'[d] # 0
                           /\ Exists(d)' <=> owner'[d] # NoContext
      BY <1>1 DEF ClaimAssert, TypeOK, Exists
    <2> QED BY <1>1, <2>1, <2>2, <2>3 DEF ClaimAssert, TypeOK, Exists
  <1>2. ASSUME NEW ambient \in Contexts, NEW key \in OptionalKeys,
               NEW c \in Claims, NEW ifRevision, ClaimRevise(c, ifRevision, ambient, key)
        PROVE  TypeOK'
    <2> DEFINE heads == [head EXCEPT ![c] = head[c] + 1]
               staled == TransitionOpenConflicts(cases, c, "stale", NextCommitSeq)
               fresh == FreshAssessments(c, heads, NextCommitSeq)
    <2>1. commitSeq' \in 0 .. MaxSeq /\ DOMAIN idempotency' = ScopedKeys
      BY <1>2, CommitType DEF ClaimRevise
    <2>2. heads \in [Claims -> 0 .. MaxRevision]
          /\ \A d \in Claims : heads[d] # 0 <=> head[d] # 0
      BY <1>2 DEF Reaches, ClaimRevise, TypeOK, Exists
    <2>3. cases' \subseteq CaseRows
      <3>1. staled \subseteq CaseRows
        BY <1>0, TransitionType DEF TypeOK
      <3>2. fresh \subseteq CaseRows
        BY <1>0, <2>2, FreshType
      <3>3. cases' = OpenAssessments(staled, fresh)
        BY <1>2 DEF ClaimRevise
      <3> QED BY <3>1, <3>2, <3>3 DEF OpenAssessments
    <2>4. /\ status' \in [Claims -> Statuses]
          /\ \A d \in Claims : status'[d] = "absent" <=> status[d] = "absent"
      <3>1. PICK affected : status' = RecomputeClaimStatuses(status, affected, cases', heads)
        BY <1>2 DEF ClaimRevise
      <3> QED BY <3>1, RecomputeKeepsLife DEF TypeOK, Live, Statuses
    <2>5. UNCHANGED <<owner, relations>> /\ head' = heads
      BY <1>2 DEF ClaimRevise
    <2> QED BY <2>1, <2>2, <2>3, <2>4, <2>5 DEF TypeOK, Exists
  <1>3. ASSUME NEW ambient \in Contexts, NEW key \in OptionalKeys,
               NEW c \in Claims, ClaimRetract(c, ambient, key)
        PROVE  TypeOK'
    <2>1. commitSeq' \in 0 .. MaxSeq /\ DOMAIN idempotency' = ScopedKeys
      BY <1>3, CommitType DEF ClaimRetract
    <2>2. cases' \subseteq CaseRows
      BY <1>0, <1>3, TransitionType DEF ClaimRetract, TypeOK
    <2>3. /\ status' \in [Claims -> Statuses]
          /\ \A d \in Claims : status'[d] = "absent" <=> status[d] = "absent"
      <3> DEFINE st == [status EXCEPT ![c] = "retracted"]
      <3>1. PICK affected : status' = RecomputeClaimStatuses(st, affected, cases', head)
        BY <1>3 DEF ClaimRetract
      <3>2. /\ st \in [Claims -> Statuses]
            /\ \A d \in Claims : st[d] = "absent" <=> status[d] = "absent"
        BY <1>3 DEF Reaches, ClaimRetract, TypeOK, Statuses, Terminal, Exists
      <3> HIDE DEF st
      <3> QED BY <3>1, <3>2, RecomputeKeepsLife DEF Live
    <2>4. UNCHANGED <<head, owner, relations>>
      BY <1>3 DEF ClaimRetract
    <2> QED BY <2>1, <2>2, <2>3, <2>4 DEF TypeOK, Exists
  <1>4. ASSUME NEW ambient \in Contexts, NEW key \in OptionalKeys,
               NEW s \in Claims, NEW t \in Claims, NEW kind \in Kinds,
               RelationExists(s, kind, t, ambient, key)
        PROVE  TypeOK'
    BY <1>4 DEF RelationExists, RecordIdempotency, TypeOK, Exists
  <1>5. ASSUME NEW ambient \in Contexts, NEW key \in OptionalKeys,
               NEW s \in Claims, NEW t \in Claims, NEW kind \in Kinds,
               InsertRelation(s, kind, t, ambient, key)
        PROVE  /\ commitSeq' \in 0 .. MaxSeq /\ DOMAIN idempotency' = ScopedKeys
               /\ relations' \subseteq RelationRows
               /\ UNCHANGED <<head, owner>>
    <2>1. commitSeq' \in 0 .. MaxSeq /\ DOMAIN idempotency' = ScopedKeys
      BY <1>5, CommitType DEF InsertRelation
    <2>2. relations' \subseteq RelationRows
      BY <1>0, <1>5 DEF InsertRelation, TypeOK, RelationRows
    <2> QED BY <1>5, <2>1, <2>2 DEF InsertRelation
  <1>6. ASSUME NEW ambient \in Contexts, NEW key \in OptionalKeys,
               NEW s \in Claims, NEW t \in Claims,
               RelationSupersedes(s, t, ambient, key)
        PROVE  TypeOK'
    <2>1. InsertRelation(s, "supersedes", t, ambient, key)
      BY <1>6 DEF RelationSupersedes
    <2>2. cases' \subseteq CaseRows
      BY <1>0, <1>6, TransitionType DEF RelationSupersedes, TypeOK
    <2>3. /\ status' \in [Claims -> Statuses]
          /\ \A d \in Claims : status'[d] = "absent" <=> status[d] = "absent"
      <3> DEFINE st == [status EXCEPT ![t] = "superseded"]
      <3>1. PICK affected : status' = RecomputeClaimStatuses(st, affected, cases', head)
        BY <1>6 DEF RelationSupersedes
      <3>2. /\ st \in [Claims -> Statuses]
            /\ \A d \in Claims : st[d] = "absent" <=> status[d] = "absent"
        BY <2>1 DEF InsertRelation, TypeOK, Statuses, Terminal, Live
      <3> HIDE DEF st
      <3> QED BY <3>1, <3>2, RecomputeKeepsLife DEF Live
    <2> QED BY <1>5, <2>1, <2>2, <2>3 DEF TypeOK, Exists, Kinds
  <1>7. ASSUME NEW ambient \in Contexts, NEW key \in OptionalKeys,
               NEW s \in Claims, NEW t \in Claims,
               RelationContradicts(s, t, ambient, key)
        PROVE  TypeOK'
    <2>1. InsertRelation(s, "contradicts", t, ambient, key)
      BY <1>7 DEF RelationContradicts
    <2>2. cases' \subseteq CaseRows
      <3>1. head[s] # 0 /\ head[t] # 0
        BY <2>1 DEF Reaches, InsertRelation, RelationAdmitted, TypeOK
      <3>2. Assessment(s, t, head, NextCommitSeq) \in CaseRows
        BY <1>0, <3>1, AssessmentType DEF TypeOK
      <3> QED BY <1>7, <3>2 DEF RelationContradicts, OpenAssessments, TypeOK
    <2>3. /\ status' \in [Claims -> Statuses]
          /\ \A d \in Claims : status'[d] = "absent" <=> status[d] = "absent"
      <3>1. status' = RecomputeClaimStatuses(status, {s, t}, cases', head)
        BY <1>7 DEF RelationContradicts
      <3> QED BY <3>1, RecomputeKeepsLife DEF TypeOK, Live, Statuses
    <2> QED BY <1>5, <2>1, <2>2, <2>3 DEF TypeOK, Exists, Kinds
  <1>8. ASSUME NEW ambient \in Contexts, NEW key \in OptionalKeys,
               NEW s \in Claims, NEW t \in Claims,
               RelationOther(s, t, ambient, key)
        PROVE  TypeOK'
    <2>1. InsertRelation(s, "other", t, ambient, key) /\ UNCHANGED <<status, cases>>
      BY <1>8 DEF RelationOther
    <2> QED BY <1>5, <2>1 DEF TypeOK, Exists, Kinds
  <1>9. CASE UNCHANGED vars
    BY <1>9 DEF vars, TypeOK, Exists
  <1> QED
    BY <1>1, <1>2, <1>3, <1>4, <1>6, <1>7, <1>8, <1>9 DEF Next, Call

\* The tables hold what the schema admits after every sequence of mutations.
THEOREM TypeCorrect == Spec => []TypeOK
  BY InitType, StepType, PTL DEF Spec

-----------------------------------------------------------------------------
(* The inductive invariant.                                                *)

\* Where the open cases compare current revisions, recomputing the statuses
\* of the affected claims makes every status agree with the open cases,
\* provided those of the other claims already did.
LEMMA DerivedStatus ==
  ASSUME NEW st \in [Claims -> Statuses], NEW affected, NEW cs, NEW heads,
         \A case \in OpenCases(cs) : /\ case.sourceRev = heads[case.source]
                                    /\ case.targetRev = heads[case.target],
         \A d \in Claims : d \notin affected /\ st[d] \in Live =>
           (st[d] = "conflicted" <=> \E case \in OpenCases(cs) : d \in Ends(case))
  PROVE  LET new == RecomputeClaimStatuses(st, affected, cs, heads) IN
         \A d \in Claims : new[d] \in Live =>
           (new[d] = "conflicted" <=> \E case \in OpenCases(cs) : d \in Ends(case))
  <1> DEFINE new == RecomputeClaimStatuses(st, affected, cs, heads)
  <1> SUFFICES ASSUME NEW d \in Claims, new[d] \in Live
               PROVE  new[d] = "conflicted" <=>
                        \E case \in OpenCases(cs) : d \in Ends(case)
    OBVIOUS
  <1>1. st[d] \in Live
    BY RecomputeKeepsLife
  <1>2. CASE d \in affected
    <2>1. new[d] = "conflicted" <=> HasOpenCase(d, cs, heads)
      BY <1>1, <1>2, RecomputeKeepsLife
    <2> QED BY <2>1 DEF HasOpenCase, Ends
  <1>3. CASE d \notin affected
    <2>1. new[d] = st[d]
      BY <1>3, RecomputeKeepsLife
    <2> QED BY <1>1, <1>3, <2>1
  <1> QED BY <1>2, <1>3

\* What retracting or superseding a claim does to the conflict cases: all of
\* them close, and nothing the open cases of other claims rely on changes.
LEMMA ClosingStep ==
  ASSUME IndInv, NEW c \in Claims, NEW v \in Terminal, NEW affected,
         cases' = TransitionOpenConflicts(cases, c, "resolved", NextCommitSeq),
         status' = RecomputeClaimStatuses([status EXCEPT ![c] = v],
                                          affected, cases', head),
         \A case \in Touching(cases, c) : Ends(case) \subseteq affected,
         head' = head,
         relations \subseteq relations',
         \A r \in relations' \ relations : r.kind # "contradicts"
  PROVE  /\ OpenMatchesHeads' /\ LiveContradictionAssessed' /\ ConflictedIffOpen'
         /\ CasesDistinct' /\ CasesGrounded' /\ StaleHasSuccessor'
  <1> DEFINE st == [status EXCEPT ![c] = v]
  <1>0. NextCommitSeq \in Nat /\ cases \in SUBSET CaseRows
    BY LedgerAssumption DEF IndInv, TypeOK, NextCommitSeq
  <1>1. OpenCases(cases') = {case \in OpenCases(cases) : c \notin Ends(case)}
    BY <1>0, TransitionOpen
  <1>a. \A p \in cases' : \E x \in cases :
          ComesFrom(p, x, x \in Touching(cases, c), "resolved", NextCommitSeq)
    BY <1>0, TransitionOrigin
  <1>b. \A x \in cases : \E p \in cases' : SameOpening(p, x)
    BY <1>0, TransitionKeeps
  <1>2. st \in [Claims -> Statuses]
    BY DEF IndInv, TypeOK, Statuses
  <1>3. \A d \in Claims : /\ status'[d] \in Live <=> d # c /\ status[d] \in Live
    <2>1. \A d \in Claims : status'[d] \in Live <=> st[d] \in Live
      BY <1>2, RecomputeKeepsLife
    <2> QED BY <2>1 DEF IndInv, TypeOK, Live, Terminal
  <1>4. OpenMatchesHeads'
    BY <1>0, <1>1, <1>3
    DEF IndInv, OpenMatchesHeads, OpenCases, Ends, CaseRows
  <1>5. LiveContradictionAssessed'
    <2> SUFFICES ASSUME NEW r \in relations', r.kind = "contradicts",
                        status'[r.source] \in Live, status'[r.target] \in Live
                 PROVE  \E case \in OpenCases(cases') : SameRelation(case, r)
      BY DEF LiveContradictionAssessed
    <2>1. r \in relations /\ r.source \in Claims /\ r.target \in Claims
      BY DEF IndInv, TypeOK, RelationRows
    <2>2. r.source # c /\ r.target # c
          /\ status[r.source] \in Live /\ status[r.target] \in Live
      BY <2>1, <1>3
    <2>3. PICK case \in OpenCases(cases) : SameRelation(case, r)
      BY <2>1, <2>2 DEF IndInv, LiveContradictionAssessed
    <2> QED BY <1>1, <2>2, <2>3 DEF SameRelation, Ends
  <1>6. ConflictedIffOpen'
    <2>1. \A case \in OpenCases(cases') : /\ case.sourceRev = head[case.source]
                                         /\ case.targetRev = head[case.target]
      BY <1>1 DEF IndInv, OpenMatchesHeads
    <2>2. ASSUME NEW d \in Claims, d \notin affected, st[d] \in Live
          PROVE  st[d] = "conflicted" <=>
                   \E case \in OpenCases(cases') : d \in Ends(case)
      <3>1. d # c /\ st[d] = status[d]
        BY <2>2 DEF IndInv, TypeOK, Live, Terminal
      <3>2. \A case \in OpenCases(cases) : d \in Ends(case) => c \notin Ends(case)
        BY <2>2 DEF Touching
      <3> QED BY <1>1, <2>2, <3>1, <3>2 DEF IndInv, ConflictedIffOpen
    <2>3. status' = RecomputeClaimStatuses(st, affected, cases', head)
      OBVIOUS
    <2> HIDE DEF st
    <2>4. \A d \in Claims : status'[d] \in Live =>
            (status'[d] = "conflicted" <=>
               \E case \in OpenCases(cases') : d \in Ends(case))
      BY <1>2, <2>1, <2>2, <2>3, DerivedStatus
    <2> QED BY <2>4 DEF ConflictedIffOpen
  <1>7. CasesDistinct'
    <2> SUFFICES ASSUME NEW p \in cases', NEW q \in cases',
                        \/ SameAssessment(p, q)
                        \/ SameRelation(p, q) /\ p.state = "open" /\ q.state = "open"
                 PROVE  p = q
      BY DEF CasesDistinct
    <2>1. CASE SameAssessment(p, q)
      <3>1. \A x, y \in cases : SameAssessment(x, y) => x = y
        BY DEF IndInv, CasesDistinct
      <3>2. \A x, y \in cases' : SameAssessment(x, y) => x = y
        BY <1>0, <3>1, TransitionDistinct
      <3> QED BY <2>1, <3>2
    <2>2. CASE SameRelation(p, q) /\ p.state = "open" /\ q.state = "open"
      <3>1. p \in OpenCases(cases) /\ q \in OpenCases(cases)
        BY <1>1, <2>2 DEF OpenCases
      <3> QED BY <2>2, <3>1 DEF IndInv, CasesDistinct, OpenCases
    <2> QED BY <2>1, <2>2
  <1>8. CasesGrounded'
    <2> SUFFICES ASSUME NEW p \in cases'
                 PROVE  /\ \E r \in relations' : r.kind = "contradicts" /\ SameRelation(r, p)
                        /\ p.sourceRev <= head[p.source]
                        /\ p.targetRev <= head[p.target]
      BY DEF CasesGrounded
    <2>1. PICK x \in cases : SameAssessment(p, x)
      BY <1>a DEF ComesFrom, SameOpening
    <2>2. /\ \E r \in relations : r.kind = "contradicts" /\ SameRelation(r, x)
          /\ x.sourceRev <= head[x.source]
          /\ x.targetRev <= head[x.target]
      BY DEF IndInv, CasesGrounded
    <2> QED BY <2>1, <2>2 DEF SameAssessment, SameRelation
  <1>9. StaleHasSuccessor'
    <2> SUFFICES ASSUME NEW p \in cases', p.state = "stale"
                 PROVE  \E next \in cases' : SameRelation(p, next) /\ next.opened = p.closed
      BY DEF StaleHasSuccessor
    <2>1. p \in cases
      BY <1>a DEF ComesFrom, SameOpening
    <2>2. PICK next \in cases : SameRelation(p, next) /\ next.opened = p.closed
      BY <2>1 DEF IndInv, StaleHasSuccessor
    <2>3. PICK after \in cases' : SameRelation(after, next) /\ after.opened = next.opened
      BY <1>b DEF SameOpening
    <2> QED BY <2>2, <2>3 DEF SameRelation
  <1> QED BY <1>4, <1>5, <1>6, <1>7, <1>8, <1>9

\* New assessments that no row anticipates are inserted as they are.
LEMMA OpeningCases ==
  ASSUME NEW cs, NEW news,
         \A new \in news : new.state = "open",
         \A new \in news, case \in cs : ~SameAssessment(case, new)
  PROVE  /\ OpenAssessments(cs, news) = cs \cup news
         /\ OpenCases(OpenAssessments(cs, news)) = OpenCases(cs) \cup news
  BY DEF OpenAssessments, OpenCases

\* A contradiction opens exactly one case and touches no other.
LEMMA ContradictStep ==
  ASSUME IndInv, TypeOK', NEW ambient \in Contexts, NEW key \in OptionalKeys,
         NEW s \in Claims, NEW t \in Claims, RelationContradicts(s, t, ambient, key)
  PROVE  /\ OpenMatchesHeads' /\ LiveContradictionAssessed' /\ ConflictedIffOpen'
         /\ CasesDistinct' /\ CasesGrounded' /\ StaleHasSuccessor'
  <1> DEFINE new == Assessment(s, t, head, NextCommitSeq)
             row == [source |-> s, kind |-> "contradicts", target |-> t,
                     seq |-> NextCommitSeq]
  <1>1. /\ InsertRelation(s, "contradicts", t, ambient, key)
        /\ cases' = OpenAssessments(cases, {new})
        /\ status' = RecomputeClaimStatuses(status, {s, t}, cases', head)
    BY DEF RelationContradicts
  <1>2. /\ Edge(s, "contradicts", t) = {}
        /\ status[s] \in Live /\ status[t] \in Live
        /\ relations' = relations \cup {row}
        /\ head' = head
    BY <1>1 DEF InsertRelation
  <1>3. /\ new.source = s /\ new.target = t /\ new.state = "open"
        /\ new.sourceRev = head[s] /\ new.targetRev = head[t]
    BY DEF Assessment
  <1>4. \A case \in cases : ~SameRelation(case, new)
    <2> SUFFICES ASSUME NEW case \in cases, SameRelation(case, new) PROVE FALSE
      OBVIOUS
    <2>1. PICK r \in relations : r.kind = "contradicts" /\ SameRelation(r, case)
      BY DEF IndInv, CasesGrounded
    <2> QED BY <1>2, <1>3, <2>1 DEF Edge, SameRelation
  <1>5. /\ cases' = cases \cup {new}
        /\ OpenCases(cases') = OpenCases(cases) \cup {new}
    <2>1. \A case \in cases : ~SameAssessment(case, new)
      BY <1>4 DEF SameAssessment, SameRelation
    <2> HIDE DEF new
    <2> QED BY <1>1, <1>3, <2>1, OpeningCases
  <1>6. \A d \in Claims : status'[d] \in Live <=> status[d] \in Live
    BY <1>1, RecomputeKeepsLife DEF IndInv, TypeOK
  <1> HIDE DEF new
  <1>7. OpenMatchesHeads'
    BY <1>2, <1>3, <1>5, <1>6
    DEF IndInv, TypeOK, OpenMatchesHeads, OpenCases, CaseRows
  <1>8. LiveContradictionAssessed'
    <2> SUFFICES ASSUME NEW r \in relations', r.kind = "contradicts",
                        status'[r.source] \in Live, status'[r.target] \in Live
                 PROVE  \E case \in OpenCases(cases') : SameRelation(case, r)
      BY DEF LiveContradictionAssessed
    <2>1. CASE r \in relations
      <3>1. status[r.source] \in Live /\ status[r.target] \in Live
        BY <1>6, <2>1 DEF IndInv, TypeOK, RelationRows
      <3> QED BY <1>5, <2>1, <3>1 DEF IndInv, LiveContradictionAssessed
    <2>2. CASE r = row
      BY <1>3, <1>5, <2>2 DEF SameRelation
    <2> QED BY <1>2, <2>1, <2>2
  <1>9. ConflictedIffOpen'
    <2>1. \A case \in OpenCases(cases') : /\ case.sourceRev = head[case.source]
                                         /\ case.targetRev = head[case.target]
      BY <1>3, <1>5 DEF IndInv, OpenMatchesHeads
    <2>2. ASSUME NEW d \in Claims, d \notin {s, t}, status[d] \in Live
          PROVE  status[d] = "conflicted" <=>
                   \E case \in OpenCases(cases') : d \in Ends(case)
      BY <1>3, <1>5, <2>2 DEF IndInv, ConflictedIffOpen, Ends
    <2>3. \A d \in Claims : status'[d] \in Live =>
            (status'[d] = "conflicted" <=>
               \E case \in OpenCases(cases') : d \in Ends(case))
      <3>1. status \in [Claims -> Statuses]
        BY DEF IndInv, TypeOK
      <3>2. status' = RecomputeClaimStatuses(status, {s, t}, cases', head)
        BY <1>1
      <3> QED BY <2>1, <2>2, <3>1, <3>2, DerivedStatus
    <2> QED BY <2>3 DEF ConflictedIffOpen
  <1>10. CasesDistinct'
    BY <1>4, <1>5 DEF IndInv, CasesDistinct, SameAssessment, SameRelation
  <1>11. CasesGrounded'
    <2>1. head[s] \in Nat /\ head[t] \in Nat
      BY DEF IndInv, TypeOK
    <2>2. row \in relations' /\ row.kind = "contradicts" /\ SameRelation(row, new)
      BY <1>2, <1>3 DEF SameRelation
    <2> HIDE DEF row
    <2> QED BY <1>2, <1>3, <1>5, <2>1, <2>2 DEF IndInv, CasesGrounded
  <1>12. StaleHasSuccessor'
    BY <1>3, <1>5 DEF IndInv, StaleHasSuccessor
  <1> QED BY <1>7, <1>8, <1>9, <1>10, <1>11, <1>12

\* The assessments of a revision: one for each contradiction between live
\* claims that the revised claim takes part in, at the given heads.
LEMMA FreshShape ==
  ASSUME IndInv, NEW c \in Claims, NEW heads, NEW seq,
         NEW new \in FreshAssessments(c, heads, seq)
  PROVE  /\ new = Assessment(new.source, new.target, heads, seq)
         /\ new.state = "open" /\ new.opened = seq
         /\ new.source \in Claims /\ new.target \in Claims
         /\ new.sourceRev = heads[new.source] /\ new.targetRev = heads[new.target]
         /\ c \in Ends(new)
         /\ status[new.source] \in Live /\ status[new.target] \in Live
         /\ \E r \in relations : r.kind = "contradicts" /\ SameRelation(r, new)
  <1>1. PICK r \in LiveContradictions(c, relations, status) :
          new = Assessment(r.source, r.target, heads, seq)
    BY DEF FreshAssessments
  <1>2. /\ r \in relations /\ r.kind = "contradicts"
        /\ r.source \in Claims /\ r.target \in Claims
        /\ c \in {r.source, r.target}
        /\ status[r.source] \in Live /\ status[r.target] \in Live
    BY DEF LiveContradictions, IndInv, TypeOK, RelationRows
  <1>3. new.source = r.source /\ new.target = r.target
    BY <1>1 DEF Assessment
  <1>4. /\ new.state = "open" /\ new.opened = seq
        /\ new.sourceRev = heads[r.source] /\ new.targetRev = heads[r.target]
    BY <1>1 DEF Assessment
  <1>5. SameRelation(r, new)
    BY <1>3 DEF SameRelation
  <1> QED BY <1>1, <1>2, <1>3, <1>4, <1>5 DEF Ends

\* No case can have compared a revision that does not exist yet.
LEMMA FreshUnanticipated ==
  ASSUME IndInv, NEW c \in Claims, NEW seq \in Nat, NEW heads,
         heads[c] = head[c] + 1,
         NEW new \in FreshAssessments(c, heads, seq),
         NEW p \in TransitionOpenConflicts(cases, c, "stale", seq)
  PROVE  ~SameAssessment(p, new)
  <1> SUFFICES ASSUME SameAssessment(p, new) PROVE FALSE
    OBVIOUS
  <1>0. cases \in SUBSET CaseRows /\ head[c] \in Nat
    BY ClaimsAssumption DEF IndInv, TypeOK
  <1>1. PICK x \in cases : SameAssessment(p, x)
    BY <1>0, TransitionOrigin DEF ComesFrom, SameOpening
  <1>2. x.sourceRev <= head[x.source] /\ x.targetRev <= head[x.target]
    BY DEF IndInv, CasesGrounded
  <1>a. new.sourceRev = heads[new.source] /\ new.targetRev = heads[new.target]
    BY FreshShape
  <1>3. x.source = new.source /\ x.target = new.target
        /\ x.sourceRev = heads[new.source] /\ x.targetRev = heads[new.target]
    BY <1>1, <1>a DEF SameAssessment
  <1>4. c = new.source \/ c = new.target
    BY FreshShape DEF Ends
  <1> QED BY <1>0, <1>2, <1>3, <1>4

\* A revision moves every dispute of the claim to the new revision: what was
\* open goes stale, and each contradiction between live claims is open again.
LEMMA ReviseStep ==
  ASSUME IndInv, NEW ambient \in Contexts, NEW key \in OptionalKeys,
         NEW c \in Claims, NEW ifRevision, ClaimRevise(c, ifRevision, ambient, key)
  PROVE  /\ OpenMatchesHeads' /\ LiveContradictionAssessed' /\ ConflictedIffOpen'
         /\ CasesDistinct' /\ CasesGrounded' /\ StaleHasSuccessor'
  <1> DEFINE seq == NextCommitSeq
             heads == [head EXCEPT ![c] = head[c] + 1]
             staled == TransitionOpenConflicts(cases, c, "stale", seq)
             fresh == FreshAssessments(c, heads, seq)
             affected == {c} \cup UNION {Ends(case) : case \in Touching(cases, c) \cup fresh}
  <1>1. /\ head' = heads
        /\ cases' = OpenAssessments(staled, fresh)
        /\ status' = RecomputeClaimStatuses(status, affected, cases', heads)
        /\ relations' = relations
        /\ status[c] \in Live
    BY DEF Reaches, ClaimRevise, IndInv, TypeOK, Statuses, Exists
  <1>2. /\ seq \in Nat /\ cases \in SUBSET CaseRows
        /\ status \in [Claims -> Statuses]
        /\ \A d \in Claims : head[d] \in Nat
        /\ heads[c] = head[c] + 1
        /\ \A d \in Claims : d # c => heads[d] = head[d]
    BY LedgerAssumption, ClaimsAssumption DEF IndInv, TypeOK, NextCommitSeq
  <1>3. OpenCases(staled) = {case \in OpenCases(cases) : c \notin Ends(case)}
    BY <1>2, TransitionOpen
  <1>4. \A p \in staled : \E x \in cases :
          ComesFrom(p, x, x \in Touching(cases, c), "stale", seq)
    BY <1>2, TransitionOrigin
  <1>5. ASSUME NEW r \in LiveContradictions(c, relations, status)
        PROVE  LET new == Assessment(r.source, r.target, heads, seq) IN
               /\ new \in fresh
               /\ SameRelation(new, r) /\ new.opened = seq
    BY DEF FreshAssessments, Assessment, SameRelation
  <1>6. ASSUME NEW new \in fresh
        PROVE  /\ new = Assessment(new.source, new.target, heads, seq)
               /\ new.state = "open" /\ new.opened = seq
               /\ new.source \in Claims /\ new.target \in Claims
               /\ new.sourceRev = heads[new.source] /\ new.targetRev = heads[new.target]
               /\ c \in Ends(new)
               /\ status[new.source] \in Live /\ status[new.target] \in Live
               /\ \E r \in relations : r.kind = "contradicts" /\ SameRelation(r, new)
    BY FreshShape
  <1>7. \A new \in fresh, p \in staled : ~SameAssessment(p, new)
    BY <1>2, FreshUnanticipated
  <1> HIDE DEF seq, heads, staled, fresh, affected
  <1>8. /\ cases' = staled \cup fresh
        /\ OpenCases(cases') = OpenCases(staled) \cup fresh
    BY <1>1, <1>6, <1>7, OpeningCases
  <1>9. \A d \in Claims : status'[d] \in Live <=> status[d] \in Live
    BY <1>1, <1>2, RecomputeKeepsLife
  <1>10. ASSUME NEW case \in OpenCases(cases')
         PROVE  /\ case.sourceRev = heads[case.source] /\ status[case.source] \in Live
                /\ case.targetRev = heads[case.target] /\ status[case.target] \in Live
                /\ case.source \in Claims /\ case.target \in Claims
    <2>1. CASE case \in OpenCases(staled)
      <3>1. /\ case \in OpenCases(cases) /\ case.source # c /\ case.target # c
            /\ case.source \in Claims /\ case.target \in Claims
        BY <1>2, <1>3, <2>1 DEF Ends, OpenCases, CaseRows
      <3> QED BY <1>2, <3>1 DEF IndInv, OpenMatchesHeads
    <2>2. CASE case \in fresh
      BY <1>6, <2>2
    <2> QED BY <1>8, <2>1, <2>2
  <1>11. OpenMatchesHeads'
    BY <1>1, <1>9, <1>10 DEF OpenMatchesHeads
  <1>12. LiveContradictionAssessed'
    <2> SUFFICES ASSUME NEW r \in relations, r.kind = "contradicts",
                        status'[r.source] \in Live, status'[r.target] \in Live
                 PROVE  \E case \in OpenCases(cases') : SameRelation(case, r)
      BY <1>1 DEF LiveContradictionAssessed
    <2>1. status[r.source] \in Live /\ status[r.target] \in Live
      BY <1>9 DEF IndInv, TypeOK, RelationRows
    <2>2. CASE c \in {r.source, r.target}
      <3>1. r \in LiveContradictions(c, relations, status)
        BY <2>1, <2>2 DEF LiveContradictions
      <3> QED BY <1>5, <1>8, <3>1
    <2>3. CASE c \notin {r.source, r.target}
      <3>1. PICK case \in OpenCases(cases) : SameRelation(case, r)
        BY <2>1 DEF IndInv, LiveContradictionAssessed
      <3>2. c \notin Ends(case)
        BY <2>3, <3>1 DEF SameRelation, Ends
      <3> QED BY <1>3, <1>8, <3>1, <3>2
    <2> QED BY <2>2, <2>3
  <1>13. ConflictedIffOpen'
    <2>1. \A case \in OpenCases(cases') : /\ case.sourceRev = heads[case.source]
                                         /\ case.targetRev = heads[case.target]
      BY <1>10
    <2>2. ASSUME NEW d \in Claims, d \notin affected, status[d] \in Live
          PROVE  status[d] = "conflicted" <=>
                   \E case \in OpenCases(cases') : d \in Ends(case)
      <3>1. \A case \in Touching(cases, c) \cup fresh : d \notin Ends(case)
        BY <2>2 DEF affected
      <3>2. \A case \in OpenCases(cases) : d \in Ends(case) => c \notin Ends(case)
        BY <3>1 DEF Touching
      <3> QED BY <1>3, <1>8, <2>2, <3>1, <3>2 DEF IndInv, ConflictedIffOpen
    <2>3. \A d \in Claims : status'[d] \in Live =>
            (status'[d] = "conflicted" <=>
               \E case \in OpenCases(cases') : d \in Ends(case))
      BY <1>1, <1>2, <2>1, <2>2, DerivedStatus
    <2> QED BY <2>3 DEF ConflictedIffOpen
  <1>14. CasesDistinct'
    <2>0. \A p, q \in staled : SameAssessment(p, q) => p = q
      <3>1. \A p, q \in cases : SameAssessment(p, q) => p = q
        BY DEF IndInv, CasesDistinct
      <3> QED BY <1>2, <3>1, TransitionDistinct DEF staled
    <2> SUFFICES ASSUME NEW p \in cases', NEW q \in cases',
                        \/ SameAssessment(p, q)
                        \/ SameRelation(p, q) /\ p.state = "open" /\ q.state = "open"
                 PROVE  p = q
      BY DEF CasesDistinct
    <2>1. CASE p \in staled /\ q \in staled
      <3>1. CASE SameAssessment(p, q)
        BY <2>0, <2>1, <3>1
      <3>2. CASE SameRelation(p, q) /\ p.state = "open" /\ q.state = "open"
        <4>1. p \in OpenCases(cases) /\ q \in OpenCases(cases)
          BY <1>3, <2>1, <3>2 DEF OpenCases
        <4> QED BY <3>2, <4>1 DEF IndInv, CasesDistinct, OpenCases
      <3> QED BY <3>1, <3>2
    <2>2. CASE p \in fresh /\ q \in fresh
      <3>1. p.source = q.source /\ p.target = q.target
        BY DEF SameAssessment, SameRelation
      <3> QED BY <1>6, <2>2, <3>1
    <2>3. ASSUME NEW x \in staled, NEW y \in fresh, x.state = "open"
          PROVE  ~SameRelation(x, y)
      <3>1. c \notin Ends(x) /\ c \in Ends(y)
        BY <1>3, <1>6, <2>3 DEF OpenCases
      <3> QED BY <3>1 DEF SameRelation, Ends
    <2>4. ASSUME NEW x, NEW y, SameAssessment(x, y) \/ SameRelation(x, y)
          PROVE  /\ SameAssessment(x, y) => SameAssessment(y, x)
                 /\ SameRelation(x, y) => SameRelation(y, x)
      BY DEF SameAssessment, SameRelation
    <2>5. CASE p \in staled /\ q \in fresh
      BY <1>7, <2>3, <2>5
    <2>6. CASE p \in fresh /\ q \in staled
      BY <1>7, <2>3, <2>4, <2>6
    <2> QED BY <1>8, <2>1, <2>2, <2>5, <2>6
  <1>15. CasesGrounded'
    <2> SUFFICES ASSUME NEW p \in cases'
                 PROVE  /\ \E r \in relations : r.kind = "contradicts" /\ SameRelation(r, p)
                        /\ p.sourceRev <= heads[p.source]
                        /\ p.targetRev <= heads[p.target]
      BY <1>1 DEF CasesGrounded
    <2>1. CASE p \in staled
      <3>1. PICK x \in cases : SameAssessment(p, x)
        BY <1>4, <2>1 DEF ComesFrom, SameOpening
      <3>2. /\ x.source \in Claims /\ x.target \in Claims
            /\ x.sourceRev \in Nat /\ x.targetRev \in Nat
        BY <1>2, ClaimsAssumption DEF CaseRows
      <3>3. /\ \E r \in relations : r.kind = "contradicts" /\ SameRelation(r, x)
            /\ x.sourceRev <= head[x.source]
            /\ x.targetRev <= head[x.target]
        BY DEF IndInv, CasesGrounded
      <3>4. x.sourceRev <= heads[x.source] /\ x.targetRev <= heads[x.target]
        BY <1>2, <3>2, <3>3
      <3> QED BY <3>1, <3>3, <3>4 DEF SameAssessment, SameRelation
    <2>2. CASE p \in fresh
      BY <1>2, <1>6, <2>2
    <2> QED BY <1>8, <2>1, <2>2
  <1>16. StaleHasSuccessor'
    <2> SUFFICES ASSUME NEW p \in cases', p.state = "stale"
                 PROVE  \E next \in cases' : SameRelation(p, next) /\ next.opened = p.closed
      BY DEF StaleHasSuccessor
    <2>1. p \in staled
      BY <1>6, <1>8
    <2>2. PICK x \in cases : ComesFrom(p, x, x \in Touching(cases, c), "stale", seq)
      BY <1>4, <2>1
    <2>3. CASE x \notin Touching(cases, c)
      <3>1. p \in cases
        BY <2>2, <2>3 DEF ComesFrom, SameOpening
      <3>2. PICK next \in cases : SameRelation(p, next) /\ next.opened = p.closed
        BY <3>1 DEF IndInv, StaleHasSuccessor
      <3>3. PICK after \in staled : SameOpening(after, next)
        BY <1>2, TransitionKeeps DEF staled
      <3> QED BY <1>8, <3>2, <3>3 DEF SameOpening, SameRelation
    <2>4. CASE x \in Touching(cases, c)
      <3>1. SameRelation(p, x) /\ p.closed = seq
        BY <2>2, <2>4 DEF ComesFrom, SameOpening
      <3>2. x \in OpenCases(cases) /\ c \in Ends(x)
        BY <2>4 DEF Touching
      <3>3. PICK r \in relations : r.kind = "contradicts" /\ SameRelation(r, x)
        BY DEF IndInv, CasesGrounded
      <3>4. r \in LiveContradictions(c, relations, status)
        BY <3>2, <3>3 DEF IndInv, OpenMatchesHeads, LiveContradictions, SameRelation, Ends
      <3>5. PICK new \in fresh : SameRelation(new, r) /\ new.opened = seq
        BY <1>5, <3>4
      <3>6. new \in cases'
        BY <1>8
      <3>7. SameRelation(p, new)
        BY <3>1, <3>3, <3>5 DEF SameRelation
      <3> QED BY <3>1, <3>5, <3>6, <3>7
    <2> QED BY <2>3, <2>4
  <1> QED BY <1>11, <1>12, <1>13, <1>14, <1>15, <1>16

\* The edges stay grounded and their supersessions descend in every step: an
\* edge is only inserted between live claims, with the commit it is made by.
LEMMA RelationsStep ==
  ASSUME IndInv, TypeOK', [Next]_vars
  PROVE  EdgesGrounded' /\ SupersessionDescends'
  <1> DEFINE Kept == /\ relations' = relations
                     /\ commitSeq' \in Nat /\ commitSeq <= commitSeq'
                     /\ \A d \in Claims : Exists(d) => Exists(d)'
                     /\ \A d \in Claims : status[d] \in Terminal => status'[d] \in Terminal
  <1>0. /\ commitSeq \in Nat /\ commitSeq' \in Nat
        /\ \A r \in relations : /\ r.source \in Claims /\ r.target \in Claims
                                /\ r.seq \in Nat
        /\ status \in [Claims -> Statuses]
    BY LedgerAssumption DEF IndInv, TypeOK, RelationRows
  <1>1. ASSUME Kept PROVE EdgesGrounded' /\ SupersessionDescends'
    <2>1. EdgesGrounded'
      BY <1>0, <1>1 DEF IndInv, EdgesGrounded
    <2> QED BY <1>1, <2>1 DEF IndInv, SupersessionDescends
  <1>2. ASSUME NEW affected, NEW st \in [Claims -> Statuses],
               status' = RecomputeClaimStatuses(st, affected, cases', head'),
               \A d \in Claims : Exists(d) => st[d] # "absent",
               \A d \in Claims : status[d] \in Terminal => st[d] \in Terminal
        PROVE  /\ \A d \in Claims : Exists(d) => Exists(d)'
               /\ \A d \in Claims : status[d] \in Terminal => status'[d] \in Terminal
               /\ \A d \in Claims : st[d] \in Terminal => status'[d] \in Terminal
    <2>1. /\ \A d \in Claims : status'[d] \in Live <=> st[d] \in Live
          /\ \A d \in Claims : st[d] \notin Live => status'[d] = st[d]
      BY <1>2, RecomputeKeepsLife
    <2> QED BY <1>2, <2>1 DEF Exists, Live, Terminal
  <1>3. ASSUME NEW ambient \in Contexts, NEW key \in OptionalKeys,
               NEW s \in Claims, NEW t \in Claims, NEW kind \in Kinds,
               InsertRelation(s, kind, t, ambient, key),
               \A d \in Claims : Exists(d) => Exists(d)',
               \A d \in Claims : status[d] \in Terminal => status'[d] \in Terminal,
               kind = "supersedes" => status'[t] \in Terminal
        PROVE  EdgesGrounded' /\ SupersessionDescends'
    <2> DEFINE row == [source |-> s, kind |-> kind, target |-> t, seq |-> NextCommitSeq]
    <2>1. /\ relations' = relations \cup {row} /\ commitSeq' = commitSeq + 1
          /\ s # t /\ Exists(s) /\ Exists(t)
          /\ kind = "supersedes" => status[s] \in Live /\ status[t] \in Live
      BY <1>3 DEF Reaches, InsertRelation, RelationAdmitted, Commit, NextCommitSeq
    <2>2. row.source = s /\ row.target = t /\ row.kind = kind /\ row.seq = commitSeq + 1
      BY DEF NextCommitSeq
    <2> HIDE DEF row
    <2>3. EdgesGrounded'
      BY <1>0, <1>3, <2>1, <2>2 DEF IndInv, EdgesGrounded
    <2>4. SupersessionDescends'
      <3> SUFFICES ASSUME NEW p \in relations', NEW q \in relations',
                          p.kind = "supersedes", q.kind = "supersedes",
                          p.target = q.source
                   PROVE  q.seq < p.seq
        BY DEF SupersessionDescends
      <3>1. CASE p \in relations /\ q \in relations
        BY <3>1 DEF IndInv, SupersessionDescends
      <3>2. CASE p \in relations /\ q = row
        <4>1. status[s] \in Terminal
          BY <2>2, <3>2 DEF IndInv, EdgesGrounded
        <4> QED BY <2>1, <2>2, <3>2, <4>1 DEF Live, Terminal
      <3>3. CASE p = row /\ q \in relations
        <4>1. q.seq <= commitSeq
          BY <3>3 DEF IndInv, EdgesGrounded
        <4> QED BY <1>0, <2>2, <3>3, <4>1
      <3>4. CASE p = row /\ q = row
        BY <2>1, <2>2, <3>4
      <3> QED BY <2>1, <3>1, <3>2, <3>3, <3>4
    <2> QED BY <2>3, <2>4
  <1>4. ASSUME NEW ambient \in Contexts, NEW key \in OptionalKeys,
               NEW c \in Claims, ClaimAssert(c, ambient, key)
        PROVE  Kept
    BY <1>0, <1>4 DEF ClaimAssert, Commit, NextCommitSeq, Exists, Terminal
  <1>5. ASSUME NEW ambient \in Contexts, NEW key \in OptionalKeys,
               NEW c \in Claims, NEW ifRevision, ClaimRevise(c, ifRevision, ambient, key)
        PROVE  Kept
    <2>1. /\ relations' = relations /\ commitSeq' = commitSeq + 1
          /\ \E affected : status' = RecomputeClaimStatuses(status, affected, cases', head')
      BY <1>5 DEF ClaimRevise, Commit, NextCommitSeq
    <2> QED BY <1>0, <1>2, <2>1 DEF Exists
  <1>6. ASSUME NEW ambient \in Contexts, NEW key \in OptionalKeys,
               NEW c \in Claims, ClaimRetract(c, ambient, key)
        PROVE  Kept
    <2> DEFINE st == [status EXCEPT ![c] = "retracted"]
    <2>1. /\ relations' = relations /\ commitSeq' = commitSeq + 1
          /\ \E affected : status' = RecomputeClaimStatuses(st, affected, cases', head')
      BY <1>6 DEF ClaimRetract, Commit, NextCommitSeq
    <2>2. /\ st \in [Claims -> Statuses]
          /\ \A d \in Claims : Exists(d) => st[d] # "absent"
          /\ \A d \in Claims : status[d] \in Terminal => st[d] \in Terminal
      BY <1>0 DEF Exists, Statuses, Terminal
    <2> HIDE DEF st
    <2> QED BY <1>0, <1>2, <2>1, <2>2
  <1>7. ASSUME NEW ambient \in Contexts, NEW key \in OptionalKeys,
               NEW s \in Claims, NEW t \in Claims, NEW kind \in Kinds,
               RelationExists(s, kind, t, ambient, key)
        PROVE  Kept
    BY <1>0, <1>7 DEF RelationExists, Exists
  <1>8. ASSUME NEW ambient \in Contexts, NEW key \in OptionalKeys,
               NEW s \in Claims, NEW t \in Claims,
               RelationSupersedes(s, t, ambient, key)
        PROVE  EdgesGrounded' /\ SupersessionDescends'
    <2> DEFINE st == [status EXCEPT ![t] = "superseded"]
    <2>1. /\ InsertRelation(s, "supersedes", t, ambient, key)
          /\ head' = head
          /\ \E affected : status' = RecomputeClaimStatuses(st, affected, cases', head')
      BY <1>8 DEF RelationSupersedes, InsertRelation
    <2>2. /\ st \in [Claims -> Statuses]
          /\ \A d \in Claims : Exists(d) => st[d] # "absent"
          /\ \A d \in Claims : status[d] \in Terminal => st[d] \in Terminal
          /\ st[t] \in Terminal
      BY <1>0 DEF Exists, Statuses, Terminal
    <2> HIDE DEF st
    <2> QED BY <1>2, <1>3, <2>1, <2>2 DEF Kinds
  <1>9. ASSUME NEW ambient \in Contexts, NEW key \in OptionalKeys,
               NEW s \in Claims, NEW t \in Claims,
               RelationContradicts(s, t, ambient, key)
        PROVE  EdgesGrounded' /\ SupersessionDescends'
    <2>1. /\ InsertRelation(s, "contradicts", t, ambient, key)
          /\ head' = head
          /\ \E affected : status' = RecomputeClaimStatuses(status, affected, cases', head')
      BY <1>9 DEF RelationContradicts, InsertRelation
    <2> QED BY <1>0, <1>2, <1>3, <2>1 DEF Kinds, Exists
  <1>10. ASSUME NEW ambient \in Contexts, NEW key \in OptionalKeys,
                NEW s \in Claims, NEW t \in Claims,
                RelationOther(s, t, ambient, key)
         PROVE  EdgesGrounded' /\ SupersessionDescends'
    BY <1>3, <1>10 DEF RelationOther, Kinds, Exists
  <1>11. CASE UNCHANGED vars
    <2>1. Kept
      BY <1>0, <1>11 DEF vars, Exists
    <2> QED BY <1>1, <2>1
  <1> HIDE DEF Kept
  <1> QED
    BY <1>1, <1>4, <1>5, <1>6, <1>7, <1>8, <1>9, <1>10, <1>11 DEF Next, Call

\* Every other mutation leaves the conflict cases and their claims alone.
LEMMA QuietStep ==
  ASSUME IndInv, cases' = cases,
         \A d \in Claims : Exists(d) => status'[d] = status[d] /\ head'[d] = head[d],
         \A d \in Claims : ~Exists(d) => status'[d] # "conflicted",
         relations \subseteq relations',
         \A r \in relations' \ relations : r.kind # "contradicts"
  PROVE  /\ OpenMatchesHeads' /\ LiveContradictionAssessed' /\ ConflictedIffOpen'
         /\ CasesDistinct' /\ CasesGrounded' /\ StaleHasSuccessor'
  <1>1. /\ \A r \in relations : /\ r.source \in Claims /\ r.target \in Claims
                                /\ Exists(r.source) /\ Exists(r.target)
        /\ OpenCases(cases)' = OpenCases(cases)
    BY DEF IndInv, TypeOK, RelationRows, EdgesGrounded, OpenCases
  <1>2. \A case \in cases : /\ case.source \in Claims /\ case.target \in Claims
                           /\ Exists(case.source) /\ Exists(case.target)
    <2> SUFFICES ASSUME NEW case \in cases
                 PROVE  /\ case.source \in Claims /\ case.target \in Claims
                        /\ Exists(case.source) /\ Exists(case.target)
      OBVIOUS
    <2>1. PICK r \in relations : SameRelation(r, case)
      BY DEF IndInv, CasesGrounded
    <2> QED BY <1>1, <2>1 DEF SameRelation
  <1>3. OpenMatchesHeads'
    BY <1>1, <1>2 DEF IndInv, OpenMatchesHeads, OpenCases
  <1>4. LiveContradictionAssessed'
    BY <1>1 DEF IndInv, LiveContradictionAssessed
  <1>5. ConflictedIffOpen'
    <2> SUFFICES ASSUME NEW d \in Claims, status'[d] \in Live
                 PROVE  status'[d] = "conflicted" <=>
                          \E case \in OpenCases(cases) : d \in Ends(case)
      BY <1>1 DEF ConflictedIffOpen
    <2>1. CASE Exists(d)
      BY <2>1 DEF IndInv, ConflictedIffOpen
    <2>2. CASE ~Exists(d)
      BY <1>2, <2>2 DEF OpenCases, Ends
    <2> QED BY <2>1, <2>2
  <1>6. CasesDistinct' /\ StaleHasSuccessor'
    BY DEF IndInv, CasesDistinct, StaleHasSuccessor
  <1>7. CasesGrounded'
    BY <1>2 DEF IndInv, CasesGrounded
  <1> QED BY <1>3, <1>4, <1>5, <1>6, <1>7

\* The tables of the empty store agree.
LEMMA InitInv == Init => IndInv
  BY InitType
  DEF Init, LedgerInit, IndInv, OpenMatchesHeads, LiveContradictionAssessed,
      ConflictedIffOpen, CasesDistinct, EdgesGrounded, CasesGrounded,
      StaleHasSuccessor, SupersessionDescends, OpenCases, Live

\* Every handler re-establishes the agreement of the tables.
LEMMA StepInv == IndInv /\ [Next]_vars => IndInv'
  <1> SUFFICES ASSUME IndInv, [Next]_vars PROVE IndInv'
    OBVIOUS
  <1> DEFINE Goal == /\ OpenMatchesHeads' /\ LiveContradictionAssessed'
                     /\ ConflictedIffOpen' /\ CasesDistinct' /\ CasesGrounded'
                     /\ StaleHasSuccessor'
  <1>0. TypeOK'
    BY StepType DEF IndInv
  <1>1. ASSUME NEW ambient \in Contexts, NEW key \in OptionalKeys,
               NEW c \in Claims, ClaimAssert(c, ambient, key)
        PROVE  Goal
    <2>1. /\ cases' = cases /\ relations' = relations
          /\ \A d \in Claims : Exists(d) => status'[d] = status[d] /\ head'[d] = head[d]
          /\ \A d \in Claims : ~Exists(d) => status'[d] # "conflicted"
      BY <1>1 DEF ClaimAssert, Exists, IndInv, TypeOK
    <2> QED BY <2>1, QuietStep
  <1>2. ASSUME NEW ambient \in Contexts, NEW key \in OptionalKeys,
               NEW c \in Claims, NEW ifRevision, ClaimRevise(c, ifRevision, ambient, key)
        PROVE  Goal
    BY <1>2, ReviseStep
  <1>3. ASSUME NEW ambient \in Contexts, NEW key \in OptionalKeys,
               NEW c \in Claims, ClaimRetract(c, ambient, key)
        PROVE  Goal
    <2> DEFINE affected == UNION {Ends(case) : case \in Touching(cases, c)}
    <2>1. /\ cases' = TransitionOpenConflicts(cases, c, "resolved", NextCommitSeq)
          /\ status' = RecomputeClaimStatuses([status EXCEPT ![c] = "retracted"],
                                              affected, cases', head)
          /\ head' = head /\ relations' = relations
          /\ "retracted" \in Terminal
      BY <1>3 DEF ClaimRetract, Terminal
    <2>2. \A case \in Touching(cases, c) : Ends(case) \subseteq affected
      OBVIOUS
    <2> HIDE DEF affected
    <2> QED BY <2>1, <2>2, ClosingStep
  <1>4. ASSUME NEW ambient \in Contexts, NEW key \in OptionalKeys,
               NEW s \in Claims, NEW t \in Claims, NEW kind \in Kinds,
               RelationExists(s, kind, t, ambient, key)
        PROVE  Goal
    <2>1. UNCHANGED <<head, status, relations, cases>>
      BY <1>4 DEF RelationExists
    <2> QED BY <2>1, QuietStep DEF Exists
  <1>5. ASSUME NEW ambient \in Contexts, NEW key \in OptionalKeys,
               NEW s \in Claims, NEW t \in Claims,
               RelationSupersedes(s, t, ambient, key)
        PROVE  Goal
    <2> DEFINE affected == {s, t} \cup UNION {Ends(case) : case \in Touching(cases, t)}
    <2>1. /\ cases' = TransitionOpenConflicts(cases, t, "resolved", NextCommitSeq)
          /\ status' = RecomputeClaimStatuses([status EXCEPT ![t] = "superseded"],
                                              affected, cases', head)
          /\ head' = head /\ relations \subseteq relations'
          /\ \A r \in relations' \ relations : r.kind # "contradicts"
          /\ "superseded" \in Terminal
      BY <1>5 DEF RelationSupersedes, InsertRelation, Terminal
    <2>2. \A case \in Touching(cases, t) : Ends(case) \subseteq affected
      OBVIOUS
    <2> HIDE DEF affected
    <2> QED BY <2>1, <2>2, ClosingStep
  <1>6. ASSUME NEW ambient \in Contexts, NEW key \in OptionalKeys,
               NEW s \in Claims, NEW t \in Claims,
               RelationContradicts(s, t, ambient, key)
        PROVE  Goal
    BY <1>0, <1>6, ContradictStep
  <1>7. ASSUME NEW ambient \in Contexts, NEW key \in OptionalKeys,
               NEW s \in Claims, NEW t \in Claims,
               RelationOther(s, t, ambient, key)
        PROVE  Goal
    <2>1. /\ UNCHANGED <<head, status, cases>> /\ relations \subseteq relations'
          /\ \A r \in relations' \ relations : r.kind # "contradicts"
      BY <1>7 DEF RelationOther, InsertRelation
    <2> QED BY <2>1, QuietStep DEF Exists
  <1>8. ASSUME UNCHANGED vars PROVE Goal
    <2>1. /\ cases' = cases /\ relations' = relations
          /\ status' = status /\ head' = head
      BY <1>8 DEF vars
    <2>2. \A d \in Claims : ~Exists(d) => status'[d] # "conflicted"
      BY <2>1 DEF Exists
    <2> QED BY <2>1, <2>2, QuietStep
  <1> HIDE DEF Goal
  <1>9. Goal
    <2> SUFFICES ASSUME Next PROVE Goal
      BY <1>8
    <2> QED BY <1>1, <1>2, <1>3, <1>4, <1>5, <1>6, <1>7 DEF Next, Call
  <1>10. EdgesGrounded' /\ SupersessionDescends'
    BY <1>0, RelationsStep
  <1> QED BY <1>0, <1>9, <1>10 DEF IndInv, Goal

\* The tables agree after every sequence of mutations.
THEOREM TablesAgree == Spec => []IndInv
  BY InitInv, StepInv, PTL DEF Spec

-----------------------------------------------------------------------------
(* What follows from it.                                                   *)

\* An open case compares current revisions of live claims (verify's
\* open_revision_drift is always zero).
THEOREM OpenCasesCurrent == Spec => []OpenMatchesHeads
  <1>1. IndInv => OpenMatchesHeads
    BY DEF IndInv
  <1> QED BY <1>1, TablesAgree, PTL

\* No dispute between live claims is lost (missing_live_assessments is zero).
THEOREM DisputesNeverLost == Spec => []LiveContradictionAssessed
  <1>1. IndInv => LiveContradictionAssessed
    BY DEF IndInv
  <1> QED BY <1>1, TablesAgree, PTL

\* The stored status is the derived one (wrong_conflicted_presentation is zero).
THEOREM StatusDerived == Spec => []ConflictedIffOpen
  <1>1. IndInv => ConflictedIffOpen
    BY DEF IndInv
  <1> QED BY <1>1, TablesAgree, PTL

\* History has no gap, and supersession no cycle.
THEOREM HistoryConnected == Spec => [](StaleHasSuccessor /\ SupersessionDescends)
  <1>1. IndInv => StaleHasSuccessor /\ SupersessionDescends
    BY DEF IndInv
  <1> QED BY <1>1, TablesAgree, PTL

\* The internal errors of open_conflict_assessment are unreachable: a claim
\* that is not terminal can always be revised.
THEOREM RevisionAlwaysPossible == Spec => []RevisionNeverBlocked
  <1>1. ASSUME IndInv, NEW c \in Claims,
               NEW new \in FreshAssessments(c, [head EXCEPT ![c] = head[c] + 1], NextCommitSeq)
        PROVE  ~AssessmentBlocked(TransitionOpenConflicts(cases, c, "stale", NextCommitSeq), new)
    <2> DEFINE heads == [head EXCEPT ![c] = head[c] + 1]
               staled == TransitionOpenConflicts(cases, c, "stale", NextCommitSeq)
    <2>1. NextCommitSeq \in Nat /\ cases \in SUBSET CaseRows /\ heads[c] = head[c] + 1
      BY <1>1, LedgerAssumption DEF IndInv, TypeOK, NextCommitSeq
    <2>2. \A p \in staled : ~SameAssessment(p, new)
      BY <1>1, <2>1, FreshUnanticipated
    <2>3. c \in Ends(new)
      BY <1>1, FreshShape
    <2>4. \A p \in OpenCases(staled) : c \notin Ends(p)
      BY <2>1, TransitionOpen
    <2> HIDE DEF heads, staled
    <2>5. \A p \in staled : p.state = "open" => ~SameRelation(p, new)
      BY <2>3, <2>4 DEF OpenCases, SameRelation, Ends
    <2> QED BY <2>2, <2>5 DEF AssessmentBlocked, staled
  <1>2. IndInv => RevisionNeverBlocked
    BY <1>1 DEF RevisionNeverBlocked
  <1> QED BY <1>2, TablesAgree, PTL

\* What one step may do to a row of conflict_cases.
CaseKept(case) ==
  \/ case \in cases'
  \/ /\ case.state = "open"
     /\ \E state \in {"stale", "resolved"} : Close(case, state, commitSeq') \in cases'

\* The transition keeps what is closed and only closes what is open.
LEMMA TransitionFreezes ==
  ASSUME NEW c \in Claims, NEW state \in {"stale", "resolved"},
         commitSeq' = NextCommitSeq,
         TransitionOpenConflicts(cases, c, state, NextCommitSeq) \subseteq cases',
         NEW case \in cases
  PROVE  CaseKept(case)
  <1>1. CASE case \in Touching(cases, c)
    <2>1. Close(case, state, NextCommitSeq)
            \in TransitionOpenConflicts(cases, c, state, NextCommitSeq)
      BY <1>1 DEF TransitionOpenConflicts
    <2>2. Close(case, state, commitSeq') \in cases'
      BY <2>1
    <2>3. case.state = "open"
      BY <1>1 DEF Touching, OpenCases
    <2> QED BY <2>2, <2>3 DEF CaseKept
  <1>2. CASE case \notin Touching(cases, c)
    BY <1>2 DEF TransitionOpenConflicts, CaseKept
  <1> QED BY <1>1, <1>2

\* No step loses a case or changes one that is closed.
LEMMA CaseStays ==
  ASSUME [Next]_vars, NEW case \in cases
  PROVE  CaseKept(case)
  <1>1. ASSUME cases \subseteq cases' PROVE CaseKept(case)
    BY <1>1 DEF CaseKept
  <1>2. ASSUME NEW ambient, NEW key, NEW c \in Claims, NEW ifRevision,
               ClaimRevise(c, ifRevision, ambient, key)
        PROVE  CaseKept(case)
    <2>1. /\ commitSeq' = NextCommitSeq
          /\ TransitionOpenConflicts(cases, c, "stale", NextCommitSeq) \subseteq cases'
      BY <1>2 DEF ClaimRevise, Commit, OpenAssessments
    <2> QED BY <2>1, TransitionFreezes
  <1>3. ASSUME NEW ambient, NEW key, NEW c \in Claims, ClaimRetract(c, ambient, key)
        PROVE  CaseKept(case)
    <2>1. /\ commitSeq' = NextCommitSeq
          /\ TransitionOpenConflicts(cases, c, "resolved", NextCommitSeq) \subseteq cases'
      BY <1>3 DEF ClaimRetract, Commit
    <2> QED BY <2>1, TransitionFreezes
  <1>4. ASSUME NEW ambient, NEW key, NEW s \in Claims, NEW t \in Claims,
               RelationSupersedes(s, t, ambient, key)
        PROVE  CaseKept(case)
    <2>1. /\ commitSeq' = NextCommitSeq
          /\ TransitionOpenConflicts(cases, t, "resolved", NextCommitSeq) \subseteq cases'
      BY <1>4 DEF RelationSupersedes, InsertRelation, Commit
    <2> QED BY <2>1, TransitionFreezes
  <1>5. ASSUME NEW ambient, NEW key, NEW c \in Claims, ClaimAssert(c, ambient, key)
        PROVE  cases \subseteq cases'
    BY <1>5 DEF ClaimAssert
  <1>6. ASSUME NEW ambient, NEW key, NEW s \in Claims, NEW t \in Claims, NEW kind,
               \/ RelationExists(s, kind, t, ambient, key)
               \/ RelationContradicts(s, t, ambient, key)
               \/ RelationOther(s, t, ambient, key)
        PROVE  cases \subseteq cases'
    BY <1>6 DEF RelationExists, RelationContradicts, RelationOther, OpenAssessments
  <1>7. ASSUME UNCHANGED vars PROVE cases \subseteq cases'
    BY <1>7 DEF vars
  <1> QED BY <1>1, <1>2, <1>3, <1>4, <1>5, <1>6, <1>7 DEF Next, Call

\* The case history is append-only in every step of every behaviour.
THEOREM HistoryAppendOnly == Spec => HistoryFrozen
  <1>1. [Next]_vars => [\A case \in cases : CaseKept(case)]_vars
    BY CaseStays
  <1> QED BY <1>1, PTL DEF Spec, HistoryFrozen, CaseKept

\* A case has the event of its closing exactly when it is closed.
Recorded(cs) == \A case \in cs : case.state = "open" <=> case.closed = 0

LEMMA TransitionRecords ==
  ASSUME NEW cs \in SUBSET CaseRows, Recorded(cs), NEW c \in Claims,
         NEW state \in {"stale", "resolved"}, NEW seq \in Nat \ {0}
  PROVE  Recorded(TransitionOpenConflicts(cs, c, state, seq))
  <1>1. \A case \in CaseRows :
          Close(case, state, seq).state = state /\ Close(case, state, seq).closed = seq
    BY DEF Close, CaseRows
  <1>2. Touching(cs, c) \subseteq CaseRows
    BY DEF Touching, OpenCases
  <1> QED BY <1>1, <1>2 DEF TransitionOpenConflicts, Recorded

LEMMA OpeningRecords ==
  ASSUME NEW cs, Recorded(cs), NEW news,
         \A new \in news : new.state = "open" /\ new.closed = 0
  PROVE  Recorded(OpenAssessments(cs, news))
  BY DEF OpenAssessments, Recorded

\* Every handler writes the event of what it does to a case.
LEMMA StepRecords == TypeOK /\ Recorded(cases) /\ [Next]_vars => Recorded(cases)'
  <1> SUFFICES ASSUME TypeOK, Recorded(cases), [Next]_vars PROVE Recorded(cases')
    BY DEF Recorded
  <1>0. cases \in SUBSET CaseRows /\ NextCommitSeq \in Nat \ {0}
    BY LedgerAssumption DEF TypeOK, NextCommitSeq
  <1>1. \A s, t, heads, seq : /\ Assessment(s, t, heads, seq).state = "open"
                              /\ Assessment(s, t, heads, seq).closed = 0
    BY DEF Assessment
  <1>2. ASSUME NEW ambient, NEW key, NEW c \in Claims, NEW ifRevision,
               ClaimRevise(c, ifRevision, ambient, key)
        PROVE  Recorded(cases')
    <2> DEFINE staled == TransitionOpenConflicts(cases, c, "stale", NextCommitSeq)
               fresh == FreshAssessments(c, [head EXCEPT ![c] = head[c] + 1], NextCommitSeq)
    <2>1. Recorded(staled)
      BY <1>0, TransitionRecords
    <2>2. \A new \in fresh : new.state = "open" /\ new.closed = 0
      BY <1>1 DEF FreshAssessments
    <2>3. cases' = OpenAssessments(staled, fresh)
      BY <1>2 DEF ClaimRevise
    <2> HIDE DEF staled, fresh
    <2> QED BY <2>1, <2>2, <2>3, OpeningRecords
  <1>3. ASSUME NEW ambient, NEW key, NEW c \in Claims, ClaimRetract(c, ambient, key)
        PROVE  Recorded(cases')
    <2>1. cases' = TransitionOpenConflicts(cases, c, "resolved", NextCommitSeq)
      BY <1>3 DEF ClaimRetract
    <2> QED BY <1>0, <2>1, TransitionRecords
  <1>4. ASSUME NEW ambient, NEW key, NEW s \in Claims, NEW t \in Claims,
               RelationSupersedes(s, t, ambient, key)
        PROVE  Recorded(cases')
    <2>1. cases' = TransitionOpenConflicts(cases, t, "resolved", NextCommitSeq)
      BY <1>4 DEF RelationSupersedes
    <2> QED BY <1>0, <2>1, TransitionRecords
  <1>5. ASSUME NEW ambient, NEW key, NEW s \in Claims, NEW t \in Claims,
               RelationContradicts(s, t, ambient, key)
        PROVE  Recorded(cases')
    <2> DEFINE new == Assessment(s, t, head, NextCommitSeq)
    <2>1. cases' = OpenAssessments(cases, {new})
      BY <1>5 DEF RelationContradicts
    <2>2. \A row \in {new} : row.state = "open" /\ row.closed = 0
      BY <1>1
    <2> QED BY <2>1, <2>2, OpeningRecords
  <1>6. ASSUME NEW ambient, NEW key, NEW s \in Claims, NEW t \in Claims, NEW kind,
               \/ ClaimAssert(s, ambient, key)
               \/ RelationExists(s, kind, t, ambient, key)
               \/ RelationOther(s, t, ambient, key)
        PROVE  cases' = cases
    BY <1>6 DEF ClaimAssert, RelationExists, RelationOther
  <1>7. UNCHANGED vars => cases' = cases
    BY DEF vars
  <1> QED BY <1>2, <1>3, <1>4, <1>5, <1>6, <1>7 DEF Next, Call

\* Where the invariants hold, no query of verify finds a row.
LEMMA Accepted == IndInv /\ Recorded(cases) => VerifyAccepts
  <1> SUFFICES ASSUME IndInv, Recorded(cases) PROVE VerifyAccepts
    OBVIOUS
  <1>1. BrokenRelations = {}
    BY DEF IndInv, EdgesGrounded, BrokenRelations
  <1>2. ASSUME NEW case \in cases
        PROVE  /\ \E r \in relations : r.kind = "contradicts" /\ SameRelation(case, r)
               /\ case.sourceRev \in 1 .. head[case.source]
               /\ case.targetRev \in 1 .. head[case.target]
    <2>1. /\ case \in CaseRows
          /\ head[case.source] \in Nat /\ head[case.target] \in Nat
      BY ClaimsAssumption DEF IndInv, TypeOK, CaseRows
    <2>2. /\ case.sourceRev \in Nat /\ case.sourceRev >= 1
          /\ case.targetRev \in Nat /\ case.targetRev >= 1
      BY <2>1, ClaimsAssumption DEF CaseRows
    <2>3. /\ case.sourceRev <= head[case.source] /\ case.targetRev <= head[case.target]
          /\ \E r \in relations : r.kind = "contradicts" /\ SameRelation(r, case)
      BY DEF IndInv, CasesGrounded
    <2>4. \E r \in relations : r.kind = "contradicts" /\ SameRelation(case, r)
      BY <2>3 DEF SameRelation
    <2> QED BY <2>1, <2>2, <2>3, <2>4
  <1>3. BrokenCases = {}
    BY <1>2 DEF BrokenCases
  <1>4. OpenRevisionDrift = {}
    BY DEF IndInv, OpenMatchesHeads, OpenRevisionDrift, Live, Terminal
  <1>5. MissingLiveAssessments = {}
    BY DEF IndInv, LiveContradictionAssessed, OpenMatchesHeads, SameRelation,
           MissingLiveAssessments
  <1>6. MismatchedEvents = {}
    BY DEF Recorded, EventTypes, MismatchedEvents
  <1>7. ASSUME NEW c \in Claims, status[c] \in Live
        PROVE  (status[c] = "conflicted") = NamedByOpenCase(c)
    <2>1. NamedByOpenCase(c) <=> \E case \in OpenCases(cases) : c \in Ends(case)
      BY DEF IndInv, OpenMatchesHeads, NamedByOpenCase, Ends
    <2>2. NamedByOpenCase(c) \in BOOLEAN
      BY DEF NamedByOpenCase
    <2> QED BY <1>7, <2>1, <2>2 DEF IndInv, ConflictedIffOpen
  <1>8. WrongPresentation = {}
    BY <1>7 DEF WrongPresentation
  <1> QED BY <1>1, <1>3, <1>4, <1>5, <1>6, <1>8 DEF VerifyAccepts

\* verify accepts every store the handlers can write, so a backup is never
\* refused for its claims.
THEOREM VerifyAlwaysAccepts == Spec => []VerifyAccepts
  <1>1. Init => Recorded(cases)
    BY DEF Init, Recorded
  <1>2. Spec => []Recorded(cases)
    BY <1>1, TypeCorrect, StepRecords, PTL DEF Spec
  <1> QED BY <1>2, TablesAgree, Accepted, PTL

\* Conversely, whatever wrote the tables: what verify accepts shows every
\* dispute between live claims, at their current revisions, and marks exactly
\* the claims in dispute.
THEOREM VerifyIsEnough ==
  ASSUME VerifyAccepts, \A c \in Claims : status[c] \in Statuses,
         \A case \in cases : case.source \in Claims /\ case.target \in Claims,
         \A r \in relations : r.source \in Claims /\ r.target \in Claims
  PROVE  OpenMatchesHeads /\ LiveContradictionAssessed /\ ConflictedIffOpen
  <1>1. ASSUME NEW case \in OpenCases(cases)
        PROVE  /\ case.sourceRev = head[case.source] /\ status[case.source] \in Live
               /\ case.targetRev = head[case.target] /\ status[case.target] \in Live
    <2>1. /\ case.sourceRev = head[case.source] /\ case.targetRev = head[case.target]
          /\ status[case.source] \notin Terminal /\ status[case.target] \notin Terminal
      BY DEF VerifyAccepts, OpenRevisionDrift
    <2>2. \E r \in relations : SameRelation(case, r)
      BY DEF VerifyAccepts, BrokenCases, OpenCases
    <2>3. Exists(case.source) /\ Exists(case.target)
      BY <2>2 DEF VerifyAccepts, BrokenRelations, SameRelation
    <2>4. case.source \in Claims /\ case.target \in Claims
      BY DEF OpenCases
    <2> QED BY <2>1, <2>3, <2>4 DEF Exists, Statuses, Live, Terminal
  <1>2. OpenMatchesHeads
    BY <1>1 DEF OpenMatchesHeads
  <1>3. LiveContradictionAssessed
    BY DEF VerifyAccepts, MissingLiveAssessments, LiveContradictionAssessed
  <1>4. ASSUME NEW c \in Claims, status[c] \in Live
        PROVE  status[c] = "conflicted" <=> \E case \in OpenCases(cases) : c \in Ends(case)
    <2>1. (status[c] = "conflicted") = NamedByOpenCase(c)
      BY <1>4 DEF VerifyAccepts, WrongPresentation
    <2>2. NamedByOpenCase(c) <=> \E case \in OpenCases(cases) : c \in Ends(case)
      BY <1>1 DEF NamedByOpenCase, Ends
    <2> QED BY <2>1, <2>2
  <1> QED BY <1>2, <1>3, <1>4 DEF ConflictedIffOpen

\* A terminal claim does not change.
Finality ==
  \A c \in Claims :
    /\ status[c] \in Terminal => status'[c] \in Terminal /\ head'[c] = head[c]
    /\ status[c] = "retracted" => status'[c] = "retracted"

LEMMA TerminalStep == TypeOK /\ [Next]_vars => Finality
  <1> USE DEF Finality
  <1>1. ASSUME TypeOK, NEW st \in [Claims -> Statuses], NEW affected,
               status' = RecomputeClaimStatuses(st, affected, cases', head'),
               \A d \in Claims :
                 /\ status[d] \in Terminal => st[d] \in Terminal /\ head'[d] = head[d]
                 /\ status[d] = "retracted" => st[d] = "retracted"
        PROVE  Finality
    <2>1. \A d \in Claims : st[d] \notin Live => status'[d] = st[d]
      BY <1>1, RecomputeKeepsLife
    <2> QED BY <1>1, <2>1 DEF Live, Terminal
  <1>2. ASSUME TypeOK, NEW ambient, NEW key, NEW c \in Claims, ClaimAssert(c, ambient, key)
        PROVE  Finality
    BY <1>2 DEF ClaimAssert, Exists, Terminal, TypeOK
  <1>3. ASSUME TypeOK, NEW ambient, NEW key, NEW c \in Claims, NEW ifRevision,
               ClaimRevise(c, ifRevision, ambient, key)
        PROVE  Finality
    <2>1. /\ \E affected : status' = RecomputeClaimStatuses(status, affected, cases', head')
          /\ \A d \in Claims : status[d] \in Terminal => head'[d] = head[d]
          /\ status \in [Claims -> Statuses]
      BY <1>3 DEF ClaimRevise, TypeOK
    <2> QED BY <1>1, <1>3, <2>1
  <1>4. ASSUME TypeOK, NEW c \in Claims, NEW v \in Terminal, NEW affected,
               status' = RecomputeClaimStatuses([status EXCEPT ![c] = v],
                                                affected, cases', head'),
               head' = head, status[c] = "retracted" => v = "retracted"
        PROVE  Finality
    <2> DEFINE st == [status EXCEPT ![c] = v]
    <2>1. /\ st \in [Claims -> Statuses]
          /\ \A d \in Claims :
               /\ status[d] \in Terminal => st[d] \in Terminal /\ head'[d] = head[d]
               /\ status[d] = "retracted" => st[d] = "retracted"
      BY <1>4 DEF TypeOK, Statuses
    <2>2. status' = RecomputeClaimStatuses(st, affected, cases', head')
      BY <1>4
    <2> HIDE DEF st
    <2> QED BY <1>1, <1>4, <2>1, <2>2
  <1>5. ASSUME TypeOK, NEW ambient, NEW key, NEW c \in Claims, ClaimRetract(c, ambient, key)
        PROVE  Finality
    <2>1. /\ \E affected : status' = RecomputeClaimStatuses([status EXCEPT ![c] = "retracted"],
                                                            affected, cases', head')
          /\ head' = head /\ "retracted" \in Terminal
      BY <1>5 DEF ClaimRetract, Terminal
    <2> QED BY <1>4, <1>5, <2>1
  <1>6. ASSUME TypeOK, NEW ambient, NEW key, NEW s \in Claims, NEW t \in Claims,
               RelationSupersedes(s, t, ambient, key)
        PROVE  Finality
    <2>1. /\ \E affected : status' = RecomputeClaimStatuses([status EXCEPT ![t] = "superseded"],
                                                            affected, cases', head')
          /\ head' = head /\ "superseded" \in Terminal
          /\ status[t] # "retracted"
      BY <1>6 DEF RelationSupersedes, InsertRelation, Terminal, Live
    <2> QED BY <1>4, <1>6, <2>1
  <1>7. ASSUME TypeOK, NEW ambient, NEW key, NEW s \in Claims, NEW t \in Claims,
               RelationContradicts(s, t, ambient, key)
        PROVE  Finality
    <2>1. /\ \E affected : status' = RecomputeClaimStatuses(status, affected, cases', head')
          /\ head' = head
          /\ status \in [Claims -> Statuses]
      BY <1>7 DEF RelationContradicts, InsertRelation, TypeOK
    <2> QED BY <1>1, <1>7, <2>1
  <1>8. ASSUME NEW ambient, NEW key, NEW s, NEW t, NEW kind,
               \/ RelationExists(s, kind, t, ambient, key)
               \/ RelationOther(s, t, ambient, key)
        PROVE  Finality
    BY <1>8 DEF RelationExists, RelationOther, InsertRelation
  <1>9. UNCHANGED vars => Finality
    BY DEF vars
  <1> HIDE DEF Finality
  <1> QED BY <1>2, <1>3, <1>5, <1>6, <1>7, <1>8, <1>9 DEF Next, Call

\* A terminal claim is final in every step of every behaviour.
THEOREM TerminalIsFinal == Spec => TerminalStays
  <1>1. TypeOK /\ [Next]_vars =>
          [\A c \in Claims :
             /\ status[c] \in Terminal => status'[c] \in Terminal /\ head'[c] = head[c]
             /\ status[c] = "retracted" => status'[c] = "retracted"]_vars
    BY TerminalStep DEF Finality
  <1> QED BY <1>1, TypeCorrect, PTL DEF Spec, TerminalStays

-----------------------------------------------------------------------------
(* The recorded answers.                                                   *)

\* The edge a request asks for is in the table, inserted by the given commit.
Inserted(request, seq) ==
  \E r \in relations :
    RelationRequest(r.source, r.kind, r.target) = request /\ r.seq = seq

\* What a row of the key table says, strengthened to an invariant: the caller
\* reaches the claims its request names, and the commit that answers a
\* relation.put inserted the edge.
AnsweredWith(ambient, request, seq) ==
  IF request.op = "relation.put"
  THEN /\ request.source \in Claims /\ Reaches(ambient, request.source)
       /\ request.target \in Claims /\ Reaches(ambient, request.target)
       /\ Inserted(request, seq)
  ELSE request.claim \in Claims /\ Reaches(ambient, request.claim)

AllAnswered ==
  \A scoped \in ScopedKeys :
    idempotency[scoped] # NoRecord =>
      AnsweredWith(scoped[1], idempotency[scoped].request, idempotency[scoped].seq)

\* No mutation takes a claim out of the reach of a caller, or removes an edge.
LEMMA ReachStep ==
  ASSUME TypeOK, [Next]_vars
  PROVE  /\ \A ambient \in Contexts, c \in Claims :
              Reaches(ambient, c) => Reaches(ambient, c)'
         /\ relations \subseteq relations'
  <1> DEFINE Kept == /\ \A c \in Claims : Exists(c) => owner'[c] = owner[c]
                     /\ relations \subseteq relations'
  <1>1. ASSUME NEW ambient, NEW key, NEW c \in Claims, ClaimAssert(c, ambient, key)
        PROVE  Kept
    BY <1>1 DEF ClaimAssert, TypeOK
  <1>2. ASSUME NEW ambient, NEW key, NEW c, NEW ifRevision,
               \/ ClaimRevise(c, ifRevision, ambient, key)
               \/ ClaimRetract(c, ambient, key)
        PROVE  Kept
    BY <1>2 DEF ClaimRevise, ClaimRetract
  <1>3. ASSUME NEW ambient, NEW key, NEW s, NEW t, NEW kind,
               \/ RelationExists(s, kind, t, ambient, key)
               \/ RelationSupersedes(s, t, ambient, key)
               \/ RelationContradicts(s, t, ambient, key)
               \/ RelationOther(s, t, ambient, key)
        PROVE  Kept
    BY <1>3 DEF RelationExists, RelationSupersedes, RelationContradicts,
                RelationOther, InsertRelation
  <1>4. ASSUME UNCHANGED vars PROVE Kept
    BY <1>4 DEF vars
  <1>5. Kept
    <2> HIDE DEF Kept
    <2> QED BY <1>1, <1>2, <1>3, <1>4 DEF Next, Call
  <1>6. TypeOK'
    BY StepType
  <1>7. \A c \in Claims : Exists(c) => Exists(c)' /\ owner'[c] = owner[c]
    BY <1>5, <1>6 DEF TypeOK
  <1> QED BY <1>5, <1>7 DEF Reaches, InWriteScope

\* A row that is answered stays so: it only asks for claims that stay in reach
\* and for an edge that stays in the table.
LEMMA AnsweredStays ==
  ASSUME TypeOK, [Next]_vars, NEW ambient \in Contexts, NEW request, NEW seq,
         AnsweredWith(ambient, request, seq)
  PROVE  AnsweredWith(ambient, request, seq)'
  <1>1. Inserted(request, seq) => Inserted(request, seq)'
    BY ReachStep DEF Inserted
  <1> QED BY <1>1, ReachStep DEF AnsweredWith

\* A handler that records an answered row keeps all rows answered.
LEMMA RecordingStep ==
  ASSUME TypeOK, [Next]_vars, AllAnswered,
         NEW ambient \in Contexts, NEW key \in OptionalKeys, NEW request, NEW seq,
         RecordIdempotency(ambient, key, request, seq),
         AnsweredWith(ambient, request, seq)'
  PROVE  AllAnswered'
  <1> SUFFICES ASSUME NEW scoped \in ScopedKeys, NEW row,
                      row = idempotency'[scoped], row # NoRecord
               PROVE  AnsweredWith(scoped[1], row.request, row.seq)'
    BY DEF AllAnswered
  <1>1. scoped[1] \in Contexts
    BY DEF ScopedKeys
  <1>2. CASE row = idempotency[scoped]
    <2>1. AnsweredWith(scoped[1], row.request, row.seq)
      BY <1>2 DEF AllAnswered
    <2> QED BY <1>1, <2>1, AnsweredStays
  <1>3. CASE row # idempotency[scoped]
    <2>1. scoped = <<ambient, key>> /\ row = [request |-> request, seq |-> seq]
      BY <1>3 DEF RecordIdempotency, TypeOK
    <2>2. scoped[1] = ambient /\ row.request = request /\ row.seq = seq
      BY <2>1
    <2> QED BY <2>2
  <1> QED BY <1>2, <1>3

\* The row of each handler is answered the moment it is recorded.
LEMMA AnswersStep == TypeOK /\ AllAnswered /\ [Next]_vars => AllAnswered'
  <1> SUFFICES ASSUME TypeOK, AllAnswered, [Next]_vars PROVE AllAnswered'
    OBVIOUS
  <1>1. ASSUME NEW ambient \in Contexts, NEW key \in OptionalKeys,
               NEW c \in Claims, NEW request, request.op # "relation.put",
               request.claim = c, Reaches(ambient, c)',
               RecordIdempotency(ambient, key, request, NextCommitSeq)
        PROVE  AllAnswered'
    <2>1. PICK seq : seq = NextCommitSeq
      OBVIOUS
    <2>2. AnsweredWith(ambient, request, seq)'
      BY <1>1 DEF AnsweredWith
    <2>3. RecordIdempotency(ambient, key, request, seq)
      BY <1>1, <2>1
    <2> QED BY <2>2, <2>3, RecordingStep
  <1>2. ASSUME NEW ambient \in Contexts, NEW key \in OptionalKeys,
               NEW c \in Claims, ClaimAssert(c, ambient, key)
        PROVE  AllAnswered'
    <2> DEFINE request == [op |-> "claim.assert", claim |-> c]
    <2>1. RecordIdempotency(ambient, key, request, NextCommitSeq)
      BY <1>2 DEF ClaimAssert, Commit
    <2>2. owner' = [owner EXCEPT ![c] = ambient] /\ status'[c] # "absent"
      BY <1>2 DEF ClaimAssert, TypeOK
    <2>3. owner'[c] = ambient
      BY <2>2 DEF TypeOK
    <2>4. Reaches(ambient, c)'
      BY <2>2, <2>3 DEF Reaches, Exists, InWriteScope
    <2>5. request.op # "relation.put" /\ request.claim = c
      OBVIOUS
    <2> HIDE DEF request
    <2> QED BY <1>1, <2>1, <2>4, <2>5
  <1>3. ASSUME NEW ambient \in Contexts, NEW key \in OptionalKeys,
               NEW c \in Claims, NEW ifRevision, ClaimRevise(c, ifRevision, ambient, key)
        PROVE  AllAnswered'
    <2> DEFINE request == [op |-> "claim.revise", claim |-> c, if_revision |-> ifRevision]
    <2>1. RecordIdempotency(ambient, key, request, NextCommitSeq)
      BY <1>3 DEF ClaimRevise, Commit
    <2>2. Reaches(ambient, c)
      BY <1>3 DEF ClaimRevise
    <2>3. Reaches(ambient, c)'
      BY <2>2, ReachStep
    <2>4. request.op # "relation.put" /\ request.claim = c
      OBVIOUS
    <2> HIDE DEF request
    <2> QED BY <1>1, <2>1, <2>3, <2>4
  <1>4. ASSUME NEW ambient \in Contexts, NEW key \in OptionalKeys,
               NEW c \in Claims, ClaimRetract(c, ambient, key)
        PROVE  AllAnswered'
    <2> DEFINE request == [op |-> "claim.retract", claim |-> c]
    <2>1. RecordIdempotency(ambient, key, request, NextCommitSeq)
      BY <1>4 DEF ClaimRetract, Commit
    <2>2. Reaches(ambient, c)
      BY <1>4 DEF ClaimRetract
    <2>3. Reaches(ambient, c)'
      BY <2>2, ReachStep
    <2>4. request.op # "relation.put" /\ request.claim = c
      OBVIOUS
    <2> HIDE DEF request
    <2> QED BY <1>1, <2>1, <2>3, <2>4
  <1>5. ASSUME NEW ambient \in Contexts, NEW key \in OptionalKeys,
               NEW s \in Claims, NEW t \in Claims, NEW kind, NEW seq,
               RelationAdmitted(s, t, ambient, key),
               RecordIdempotency(ambient, key, RelationRequest(s, kind, t), seq),
               Inserted(RelationRequest(s, kind, t), seq)'
        PROVE  AllAnswered'
    <2> DEFINE request == RelationRequest(s, kind, t)
    <2>1. Reaches(ambient, s)' /\ Reaches(ambient, t)'
      BY <1>5, ReachStep DEF RelationAdmitted
    <2>2. request.op = "relation.put" /\ request.source = s /\ request.target = t
      BY DEF RelationRequest
    <2>3. RecordIdempotency(ambient, key, request, seq) /\ Inserted(request, seq)'
      BY <1>5
    <2> HIDE DEF request
    <2>4. AnsweredWith(ambient, request, seq)'
      BY <2>1, <2>2, <2>3 DEF AnsweredWith
    <2> QED BY <2>3, <2>4, RecordingStep
  <1>6. ASSUME NEW ambient \in Contexts, NEW key \in OptionalKeys,
               NEW s \in Claims, NEW t \in Claims, NEW kind \in Kinds,
               RelationExists(s, kind, t, ambient, key)
        PROVE  AllAnswered'
    <2>1. PICK r \in Edge(s, kind, t) :
            RecordIdempotency(ambient, key, RelationRequest(s, kind, t), r.seq)
      BY <1>6 DEF RelationExists
    <2>2. r \in relations /\ RelationRequest(r.source, r.kind, r.target)
                               = RelationRequest(s, kind, t)
      BY <2>1 DEF Edge
    <2>3. Inserted(RelationRequest(s, kind, t), r.seq)'
      BY <2>2, ReachStep DEF Inserted
    <2>4. RelationAdmitted(s, t, ambient, key)
      BY <1>6 DEF RelationExists
    <2> QED BY <1>5, <2>1, <2>3, <2>4
  <1>7. ASSUME NEW ambient \in Contexts, NEW key \in OptionalKeys,
               NEW s \in Claims, NEW t \in Claims, NEW kind,
               InsertRelation(s, kind, t, ambient, key)
        PROVE  AllAnswered'
    <2>1. PICK seq : seq = NextCommitSeq
      OBVIOUS
    <2>2. PICK r : r = [source |-> s, kind |-> kind, target |-> t, seq |-> seq]
      OBVIOUS
    <2>3. r \in relations' /\ RelationAdmitted(s, t, ambient, key)
          /\ RecordIdempotency(ambient, key, RelationRequest(s, kind, t), seq)
      BY <1>7, <2>1, <2>2 DEF InsertRelation, Commit
    <2>4. Inserted(RelationRequest(s, kind, t), seq)'
      BY <2>2, <2>3 DEF Inserted
    <2> QED BY <1>5, <2>3, <2>4
  <1>8. CASE UNCHANGED vars
    <2> SUFFICES ASSUME NEW scoped \in ScopedKeys, NEW row,
                        row = idempotency'[scoped], row # NoRecord
                 PROVE  AnsweredWith(scoped[1], row.request, row.seq)'
      BY DEF AllAnswered
    <2>1. row = idempotency[scoped] /\ scoped[1] \in Contexts
      BY <1>8 DEF vars, ScopedKeys
    <2> QED BY <2>1, AnsweredStays DEF AllAnswered
  <1>9. ASSUME NEW ambient \in Contexts, NEW key \in OptionalKeys,
               NEW s \in Claims, NEW t \in Claims,
               \/ RelationSupersedes(s, t, ambient, key)
               \/ RelationContradicts(s, t, ambient, key)
               \/ RelationOther(s, t, ambient, key)
        PROVE  AllAnswered'
    <2>1. \E kind : InsertRelation(s, kind, t, ambient, key)
      BY <1>9 DEF RelationSupersedes, RelationContradicts, RelationOther
    <2> QED BY <1>7, <2>1
  <1> QED BY <1>2, <1>3, <1>4, <1>6, <1>8, <1>9 DEF Next, Call

\* Every key stays good for its request, and a key for relation.put names the
\* commit that inserted the edge, whoever inserted it.
THEOREM AnswersStand == Spec => [](AnswersStayReachable /\ AnswerNamesItsEdge)
  <1>1. Init => AllAnswered
    BY DEF Init, LedgerInit, AllAnswered
  <1>2. AllAnswered => AnswersStayReachable /\ AnswerNamesItsEdge
    <2> SUFFICES ASSUME AllAnswered, NEW scoped \in ScopedKeys, NEW row,
                        row = idempotency[scoped], row # NoRecord
                 PROVE  AnsweredWith(scoped[1], row.request, row.seq)
      BY DEF AnswersStayReachable, AnswerNamesItsEdge, AnsweredWith, Inserted
    <2> QED BY DEF AllAnswered
  <1> QED BY <1>1, <1>2, AnswersStep, TypeCorrect, PTL DEF Spec

-----------------------------------------------------------------------------
(* The refinement of Disputes: the tables, read as ClaimsVerify reads      *)
(* them, are what a recomputation from the claims and their declared       *)
(* contradictions gives.                                                   *)

\* The claims of a case have a status, and the case names its own ends.
LEMMA CaseShape ==
  ASSUME TypeOK, NEW case \in cases
  PROVE  /\ case \in CaseRows
         /\ case.source \in Claims /\ case.target \in Claims
         /\ Compared(case)[1] = case.source /\ Compared(case)[3] = case.target
         /\ Compared(case)[2] = case.sourceRev /\ Compared(case)[4] = case.targetRev
  BY DEF TypeOK, CaseRows, Compared

\* A claim is live in the abstract state exactly when its status is.
LEMMA LivesFacts ==
  ASSUME TypeOK, NEW c \in Claims
  PROVE  /\ Lives[c] = "live" <=> status[c] \in Live
         /\ status[c] \notin Live => Lives[c] = status[c]
  BY DEF TypeOK, Lives, Live, Statuses, Terminal

\* The open cases are the current comparisons of the live contradictions.
LEMMA OpenIsCurrent ==
  IndInv => OpenComparisons = Promise!Current(DeclaredPairs, head, Lives)
  <1> SUFFICES ASSUME IndInv
               PROVE  OpenComparisons = Promise!Current(DeclaredPairs, head, Lives)
    OBVIOUS
  <1> USE DEF IndInv
  <1>1. ASSUME NEW case \in OpenCases(cases)
        PROVE  Compared(case) \in Promise!Current(DeclaredPairs, head, Lives)
    <2> DEFINE pair == <<case.source, case.target>>
    <2>1. case \in cases
      BY DEF OpenCases
    <2>2. pair \in DeclaredPairs
      BY <2>1 DEF CasesGrounded, DeclaredPairs, SameRelation
    <2>3. /\ case.sourceRev = head[case.source] /\ status[case.source] \in Live
          /\ case.targetRev = head[case.target] /\ status[case.target] \in Live
      BY DEF OpenMatchesHeads
    <2>4. Promise!BothLive(pair, Lives)
      BY <2>1, <2>3, CaseShape, LivesFacts DEF Promise!BothLive
    <2>5. Compared(case) = Promise!Comparison(pair, head)
      BY <2>3 DEF Compared, Promise!Comparison
    <2> HIDE DEF pair
    <2> QED BY <2>2, <2>4, <2>5 DEF Promise!Current
  <1>2. ASSUME NEW pair \in DeclaredPairs, Promise!BothLive(pair, Lives)
        PROVE  Promise!Comparison(pair, head) \in OpenComparisons
    <2>1. PICK r \in relations : r.kind = "contradicts" /\ pair = <<r.source, r.target>>
      BY DEF DeclaredPairs
    <2>2. /\ r.source \in Claims /\ r.target \in Claims
          /\ pair[1] = r.source /\ pair[2] = r.target
      BY <2>1 DEF TypeOK, RelationRows
    <2>3. status[r.source] \in Live /\ status[r.target] \in Live
      BY <1>2, <2>2, LivesFacts DEF Promise!BothLive
    <2>4. PICK case \in OpenCases(cases) : SameRelation(case, r)
      BY <2>1, <2>3 DEF LiveContradictionAssessed
    <2>5. Compared(case) = Promise!Comparison(pair, head)
      BY <2>2, <2>4 DEF OpenMatchesHeads, SameRelation, Compared, Promise!Comparison
    <2> QED BY <2>5 DEF OpenComparisons
  <1> QED BY <1>1, <1>2 DEF OpenComparisons, Promise!Current

\* The claims shown as conflicted are the ends of the open comparisons.
LEMMA ConflictedAreEnds ==
  IndInv => ConflictedClaims = {comparison[1] : comparison \in OpenComparisons}
                                 \cup {comparison[3] : comparison \in OpenComparisons}
  <1> SUFFICES ASSUME IndInv
               PROVE  ConflictedClaims = {comparison[1] : comparison \in OpenComparisons}
                                           \cup {comparison[3] : comparison \in OpenComparisons}
    OBVIOUS
  <1>1. \A case \in OpenCases(cases) :
          /\ case.source \in Claims /\ case.target \in Claims
          /\ Compared(case)[1] = case.source /\ Compared(case)[3] = case.target
          /\ status[case.source] \in Live /\ status[case.target] \in Live
    BY CaseShape DEF IndInv, OpenCases, OpenMatchesHeads
  <1>2. ASSUME NEW c \in Claims
        PROVE  c \in ConflictedClaims <=> \E case \in OpenCases(cases) : c \in Ends(case)
    <2>1. CASE status[c] \in Live
      BY <2>1 DEF IndInv, ConflictedIffOpen, ConflictedClaims
    <2>2. CASE status[c] \notin Live
      BY <1>1, <2>2 DEF ConflictedClaims, Live, Ends
    <2> QED BY <2>1, <2>2
  <1>3. ConflictedClaims \subseteq Claims
    BY DEF ConflictedClaims
  <1> QED BY <1>1, <1>2, <1>3 DEF OpenComparisons, Ends

\* What closing the cases of one claim, and opening others, adds to the past:
\* the comparisons that are no longer open, each with its verdict.
LEMMA PastGrows ==
  ASSUME TypeOK, NEW c \in Claims, NEW state \in {"stale", "resolved"}, NEW seq \in Nat,
         NEW fresh, \A new \in fresh : new.state = "open",
         cases' = OpenAssessments(TransitionOpenConflicts(cases, c, state, seq), fresh),
         \A case \in Touching(cases, c) :
           /\ Compared(case) \notin OpenComparisons'
           /\ Promise!Verdict(Compared(case), Lives') = state
  PROVE  PastComparisons' =
           PastComparisons \cup {<<comparison, Promise!Verdict(comparison, Lives')>> :
                                   comparison \in OpenComparisons \ OpenComparisons'}
  <1> DEFINE kept == TransitionOpenConflicts(cases, c, state, seq)
             left == {<<comparison, Promise!Verdict(comparison, Lives')>> :
                        comparison \in OpenComparisons \ OpenComparisons'}
  <1>1. kept \subseteq cases' /\ \A case \in cases' \ kept : case.state = "open"
    BY DEF OpenAssessments
  <1>2. ASSUME NEW case \in Touching(cases, c)
        PROVE  /\ case \in cases /\ case.state = "open"
               /\ Compared(Close(case, state, seq)) = Compared(case)
               /\ Close(case, state, seq).state = state
               /\ <<Compared(case), state>> \in left
    <2>1. case \in cases /\ case.state = "open" /\ case \in CaseRows
      BY DEF Touching, OpenCases, TypeOK
    <2>2. /\ Compared(Close(case, state, seq)) = Compared(case)
          /\ Close(case, state, seq).state = state
      BY <2>1 DEF Close, Compared, CaseRows
    <2>3. Compared(case) \in OpenComparisons \ OpenComparisons'
      BY <2>1 DEF OpenComparisons, OpenCases
    <2> QED BY <2>1, <2>2, <2>3
  <1>3. ASSUME NEW case \in cases', case.state # "open"
        PROVE  <<Compared(case), case.state>> \in PastComparisons \cup left
    <2>1. case \in kept
      BY <1>1, <1>3
    <2>2. CASE case \in cases \ Touching(cases, c)
      BY <1>3, <2>2 DEF PastComparisons, OpenCases
    <2>3. CASE case \notin cases \ Touching(cases, c)
      <3>1. PICK x \in Touching(cases, c) : case = Close(x, state, seq)
        BY <2>1, <2>3 DEF TransitionOpenConflicts
      <3> QED BY <1>2, <3>1
    <2> QED BY <2>2, <2>3
  <1>4. ASSUME NEW case \in cases, case.state # "open"
        PROVE  <<Compared(case), case.state>> \in PastComparisons'
    <2>1. case \in cases'
      BY <1>1, <1>4 DEF TransitionOpenConflicts, Touching, OpenCases
    <2> QED BY <1>4, <2>1 DEF PastComparisons, OpenCases
  <1>5. ASSUME NEW comparison \in OpenComparisons \ OpenComparisons'
        PROVE  <<comparison, Promise!Verdict(comparison, Lives')>> \in PastComparisons'
    <2>1. PICK x \in OpenCases(cases) : comparison = Compared(x)
      BY DEF OpenComparisons
    <2>2. x \in Touching(cases, c)
      <3> SUFFICES ASSUME x \notin Touching(cases, c) PROVE FALSE
        OBVIOUS
      <3>1. x \in cases' /\ x.state = "open"
        BY <1>1 DEF TransitionOpenConflicts, OpenCases
      <3> QED BY <1>5, <2>1, <3>1 DEF OpenComparisons, OpenCases
    <2>3. Close(x, state, seq) \in cases'
      BY <1>1, <2>2 DEF TransitionOpenConflicts
    <2>4. Close(x, state, seq) \in cases' \ OpenCases(cases')
      BY <1>2, <2>2, <2>3 DEF OpenCases
    <2>5. <<Compared(Close(x, state, seq)), Close(x, state, seq).state>> \in PastComparisons'
      BY <2>4 DEF PastComparisons
    <2> QED BY <1>2, <2>1, <2>2, <2>5
  <1>6. PastComparisons' = {<<Compared(case), case.state>> :
                              case \in {k \in cases' : k.state # "open"}}
    BY DEF PastComparisons, OpenCases
  <1>7. PastComparisons = {<<Compared(case), case.state>> :
                             case \in {k \in cases : k.state # "open"}}
    BY DEF PastComparisons, OpenCases
  <1> HIDE DEF kept
  <1> QED BY <1>3, <1>4, <1>5, <1>6, <1>7

\* Where no case is closed, the past is as it was and nothing leaves the open.
LEMMA PastStays ==
  ASSUME NEW news, \A new \in news : new.state = "open", cases' = cases \cup news
  PROVE  /\ OpenComparisons \subseteq OpenComparisons'
         /\ PastComparisons' = PastComparisons
  <1>1. cases' \ OpenCases(cases') = cases \ OpenCases(cases)
    BY DEF OpenCases
  <1>2. OpenCases(cases) \subseteq OpenCases(cases')
    BY DEF OpenCases
  <1> QED BY <1>1, <1>2 DEF OpenComparisons, PastComparisons

\* What every step owes beside its own change: the open comparisons, the past
\* and the conflicted claims follow.
LEMMA Settles ==
  ASSUME IndInv, IndInv',
         PastComparisons' =
           PastComparisons \cup {<<comparison, Promise!Verdict(comparison, Lives')>> :
                                   comparison \in OpenComparisons \ OpenComparisons'}
  PROVE  Promise!Settle
  <1>1. OpenComparisons' = Promise!Current(DeclaredPairs', head', Lives')
    <2>1. (IndInv => OpenComparisons = Promise!Current(DeclaredPairs, head, Lives))'
      BY OpenIsCurrent, PTL
    <2> QED BY <2>1 DEF Promise!Current, Promise!BothLive, Promise!Comparison
  <1>2. (IndInv => ConflictedClaims = {comparison[1] : comparison \in OpenComparisons}
                                        \cup {comparison[3] : comparison \in OpenComparisons})'
    BY ConflictedAreEnds, PTL
  <1> QED BY <1>1, <1>2 DEF Promise!Settle

\* The life of a claim in the next state.
LEMMA LivesNext ==
  ASSUME TypeOK', NEW c \in Claims
  PROVE  /\ Lives'[c] = IF status'[c] \in Live THEN "live" ELSE status'[c]
         /\ Lives'[c] = "live" <=> status'[c] \in Live
  BY DEF TypeOK, Lives, Live, Statuses, Terminal

\* A claim that became terminal takes its cases out of the open comparisons,
\* and none of them is stale.
LEMMA TerminalResolves ==
  ASSUME TypeOK, IndInv', NEW c \in Claims, status'[c] \notin Live,
         NEW case \in Touching(cases, c)
  PROVE  /\ Compared(case) \notin OpenComparisons'
         /\ Promise!Verdict(Compared(case), Lives') = "resolved"
  <1>1. /\ case \in cases /\ c \in {case.source, case.target}
        /\ case.source \in Claims /\ case.target \in Claims
        /\ Compared(case)[1] = case.source /\ Compared(case)[3] = case.target
    BY CaseShape DEF Touching, OpenCases, Ends
  <1>2. Compared(case) \notin OpenComparisons'
    <2> SUFFICES ASSUME NEW k \in OpenCases(cases'), Compared(case) = Compared(k) PROVE FALSE
      BY DEF OpenComparisons
    <2>1. k.source = case.source /\ k.target = case.target
      BY DEF Compared
    <2>2. status'[k.source] \in Live /\ status'[k.target] \in Live
      BY DEF IndInv, OpenMatchesHeads
    <2> QED BY <1>1, <2>1, <2>2
  <1>3. Lives'[c] # "live"
    BY LivesNext DEF IndInv
  <1> QED BY <1>1, <1>2, <1>3 DEF Promise!Verdict

\* A claim that is revised takes its cases out of the open comparisons, which
\* are stale while both ends are live.
LEMMA RevisionStales ==
  ASSUME IndInv, IndInv', NEW c \in Claims, head'[c] = head[c] + 1,
         \A d \in Claims : status[d] \in Live => status'[d] \in Live,
         NEW case \in Touching(cases, c)
  PROVE  /\ Compared(case) \notin OpenComparisons'
         /\ Promise!Verdict(Compared(case), Lives') = "stale"
  <1>1. /\ case \in OpenCases(cases) /\ c \in {case.source, case.target}
        /\ case.source \in Claims /\ case.target \in Claims
        /\ Compared(case)[1] = case.source /\ Compared(case)[3] = case.target
    BY CaseShape DEF Touching, OpenCases, Ends, IndInv
  <1>2. /\ case.sourceRev = head[case.source] /\ status[case.source] \in Live
        /\ case.targetRev = head[case.target] /\ status[case.target] \in Live
    BY <1>1 DEF IndInv, OpenMatchesHeads
  <1>3. Compared(case) \notin OpenComparisons'
    <2> SUFFICES ASSUME NEW k \in OpenCases(cases'), Compared(case) = Compared(k) PROVE FALSE
      BY DEF OpenComparisons
    <2>1. /\ k.source = case.source /\ k.target = case.target
          /\ k.sourceRev = case.sourceRev /\ k.targetRev = case.targetRev
      BY DEF Compared
    <2>2. k.sourceRev = head'[k.source] /\ k.targetRev = head'[k.target]
      BY DEF IndInv, OpenMatchesHeads
    <2>3. head[c] \in Nat
      BY ClaimsAssumption DEF IndInv, TypeOK
    <2>4. head'[c] # head[c]
      BY <2>3
    <2>5. head'[case.source] = head[case.source] /\ head'[case.target] = head[case.target]
      BY <1>2, <2>1, <2>2
    <2> QED BY <1>1, <2>4, <2>5
  <1>4. Lives'[case.source] = "live" /\ Lives'[case.target] = "live"
    BY <1>1, <1>2, LivesNext DEF IndInv
  <1> QED BY <1>1, <1>3, <1>4 DEF Promise!Verdict

\* Recomputing statuses leaves the lives of the claims alone.
LEMMA RecomputeLives ==
  ASSUME NEW st \in [Claims -> Statuses], NEW affected, NEW cs, NEW heads,
         NEW c \in Claims
  PROVE  /\ RecomputeClaimStatuses(st, affected, cs, heads)[c] \in Live <=> st[c] \in Live
         /\ st[c] \notin Live => RecomputeClaimStatuses(st, affected, cs, heads)[c] = st[c]
  BY DEF RecomputeClaimStatuses, Live

\* A mutation that only recomputes what a live status shows ends no claim.
LEMMA LivesStay ==
  ASSUME \A c \in Claims : /\ status'[c] \in Live <=> status[c] \in Live
                           /\ status[c] \notin Live => status'[c] = status[c]
  PROVE  Lives' = Lives
  <1>1. \A c \in Claims : (IF status'[c] \in Live THEN "live" ELSE status'[c])
                            = IF status[c] \in Live THEN "live" ELSE status[c]
    OBVIOUS
  <1> QED BY <1>1 DEF Lives

\* claim.assert is Assert.
LEMMA AssertRefines ==
  ASSUME IndInv, IndInv', NEW c \in Claims, NEW ambient, NEW key,
         ClaimAssert(c, ambient, key)
  PROVE  Promise!DisputesNext
  <1>1. /\ head' = [head EXCEPT ![c] = 1] /\ status' = [status EXCEPT ![c] = "active"]
        /\ relations' = relations /\ cases' = cases /\ status[c] = "absent"
    BY DEF ClaimAssert, Exists
  <1>2. Lives' = [Lives EXCEPT ![c] = "live"] /\ Lives[c] = "absent"
    BY <1>1 DEF IndInv, TypeOK, Lives, Live
  <1>3. DeclaredPairs' = DeclaredPairs
    BY <1>1 DEF DeclaredPairs
  <1>4. OpenComparisons \subseteq OpenComparisons' /\ PastComparisons' = PastComparisons
    <2> DEFINE none == {new \in cases : FALSE}
    <2>1. cases' = cases \cup none /\ \A new \in none : new.state = "open"
      BY <1>1
    <2> HIDE DEF none
    <2> QED BY <2>1, PastStays
  <1>5. Promise!Settle
    BY <1>4, Settles
  <1> QED BY <1>1, <1>2, <1>3, <1>5 DEF Promise!DisputesNext, Promise!Assert

\* claim.revise is Revise.
LEMMA ReviseRefines ==
  ASSUME IndInv, IndInv', NEW c \in Claims, NEW ifRevision, NEW ambient, NEW key,
         ClaimRevise(c, ifRevision, ambient, key)
  PROVE  Promise!DisputesNext
  <1> DEFINE heads == [head EXCEPT ![c] = head[c] + 1]
             fresh == FreshAssessments(c, heads, NextCommitSeq)
             staled == TransitionOpenConflicts(cases, c, "stale", NextCommitSeq)
             affected == {c} \cup UNION {Ends(case) : case \in Touching(cases, c) \cup fresh}
  <1>1. /\ head' = heads /\ relations' = relations
        /\ cases' = OpenAssessments(staled, fresh)
        /\ status' = RecomputeClaimStatuses(status, affected, cases', heads)
        /\ status[c] \in Live /\ head[c] < MaxRevision
    BY DEF Reaches, ClaimRevise, IndInv, TypeOK, Statuses, Exists
  <1>2. status \in [Claims -> Statuses] /\ NextCommitSeq \in Nat /\ head \in [Claims -> 0 .. MaxRevision]
    BY LedgerAssumption DEF IndInv, TypeOK, NextCommitSeq
  <1>3. \A d \in Claims : /\ status'[d] \in Live <=> status[d] \in Live
                          /\ status[d] \notin Live => status'[d] = status[d]
    <2> HIDE DEF affected
    <2> QED BY <1>1, <1>2, RecomputeKeepsLife
  <1>4. Lives' = Lives /\ Lives[c] = "live"
    <2>1. Lives' = Lives
      BY <1>3, LivesStay
    <2>2. Lives[c] = "live"
      BY <1>1 DEF Lives
    <2> QED BY <2>1, <2>2
  <1>5. DeclaredPairs' = DeclaredPairs
    BY <1>1 DEF DeclaredPairs
  <1>6. \A new \in fresh : new.state = "open"
    BY FreshShape
  <1>7. head'[c] = head[c] + 1
    BY <1>1, <1>2
  <1>8. \A case \in Touching(cases, c) :
          /\ Compared(case) \notin OpenComparisons'
          /\ Promise!Verdict(Compared(case), Lives') = "stale"
    <2>1. \A d \in Claims : status[d] \in Live => status'[d] \in Live
      BY <1>3
    <2> HIDE DEF heads, fresh, staled, affected
    <2> QED BY <2>1, <1>7, RevisionStales
  <1>9. Promise!Settle
    <2> HIDE DEF fresh
    <2> QED BY <1>1, <1>2, <1>6, <1>8, PastGrows, Settles DEF IndInv
  <1> QED BY <1>1, <1>4, <1>5, <1>9 DEF Promise!DisputesNext, Promise!Revise

\* What the two mutations that end a claim have in common.
LEMMA EndingSettles ==
  ASSUME IndInv, IndInv', NEW c \in Claims, NEW state \in Terminal, NEW affected,
         cases' = TransitionOpenConflicts(cases, c, "resolved", NextCommitSeq),
         status' = RecomputeClaimStatuses([status EXCEPT ![c] = state], affected, cases', head)
  PROVE  Lives' = [Lives EXCEPT ![c] = state] /\ Promise!Settle
  <1>1. /\ status \in [Claims -> Statuses] /\ NextCommitSeq \in Nat
        /\ state \notin Live /\ state \in Statuses
    BY LedgerAssumption DEF IndInv, TypeOK, NextCommitSeq, Terminal, Live, Statuses
  <1>2. /\ status'[c] = state
        /\ \A d \in Claims \ {c} : /\ status'[d] \in Live <=> status[d] \in Live
                                   /\ status[d] \notin Live => status'[d] = status[d]
    <2> DEFINE st == [status EXCEPT ![c] = state]
    <2>1. /\ st \in [Claims -> Statuses] /\ st[c] = state
          /\ \A d \in Claims \ {c} : st[d] = status[d]
          /\ status' = RecomputeClaimStatuses(st, affected, cases', head)
      BY <1>1
    <2> HIDE DEF st
    <2>2. ASSUME NEW d \in Claims
          PROVE  /\ status'[d] \in Live <=> st[d] \in Live
                 /\ st[d] \notin Live => status'[d] = st[d]
      BY <2>1, RecomputeLives
    <2> QED BY <1>1, <2>1, <2>2
  <1>3. Lives' = [Lives EXCEPT ![c] = state]
    BY <1>1, <1>2 DEF Lives
  <1>4. \A case \in Touching(cases, c) :
          /\ Compared(case) \notin OpenComparisons'
          /\ Promise!Verdict(Compared(case), Lives') = "resolved"
    BY <1>1, <1>2, TerminalResolves DEF IndInv
  <1>5. cases' = OpenAssessments(TransitionOpenConflicts(cases, c, "resolved", NextCommitSeq), {})
    BY DEF OpenAssessments
  <1>6. Promise!Settle
    BY <1>1, <1>4, <1>5, PastGrows, Settles DEF IndInv
  <1> QED BY <1>3, <1>6

\* claim.retract is Retract.
LEMMA RetractRefines ==
  ASSUME IndInv, IndInv', NEW c \in Claims, NEW ambient, NEW key,
         ClaimRetract(c, ambient, key)
  PROVE  Promise!DisputesNext
  <1>1. /\ head' = head /\ relations' = relations
        /\ cases' = TransitionOpenConflicts(cases, c, "resolved", NextCommitSeq)
        /\ status' = RecomputeClaimStatuses([status EXCEPT ![c] = "retracted"],
                       UNION {Ends(case) : case \in Touching(cases, c)}, cases', head)
        /\ status[c] \in Live \cup {"superseded"} /\ "retracted" \in Terminal
    BY DEF ClaimRetract, Reaches, Exists, IndInv, TypeOK, Statuses, Terminal
  <1>2. Lives' = [Lives EXCEPT ![c] = "retracted"] /\ Promise!Settle
    BY <1>1, EndingSettles
  <1>3. Lives[c] \in {"live", "superseded"} /\ DeclaredPairs' = DeclaredPairs
    BY <1>1 DEF Lives, DeclaredPairs, Live
  <1> QED BY <1>1, <1>2, <1>3 DEF Promise!DisputesNext, Promise!Retract

\* relation.put of a supersession is Supersede.
LEMMA SupersedeRefines ==
  ASSUME IndInv, IndInv', NEW s \in Claims, NEW t \in Claims, NEW ambient, NEW key,
         RelationSupersedes(s, t, ambient, key)
  PROVE  Promise!DisputesNext
  <1> DEFINE affected == {s, t} \cup UNION {Ends(case) : case \in Touching(cases, t)}
  <1>1. /\ head' = head /\ s # t /\ status[s] \in Live /\ status[t] \in Live
        /\ relations' = relations \cup {[source |-> s, kind |-> "supersedes", target |-> t,
                                         seq |-> NextCommitSeq]}
        /\ cases' = TransitionOpenConflicts(cases, t, "resolved", NextCommitSeq)
        /\ status' = RecomputeClaimStatuses([status EXCEPT ![t] = "superseded"],
                                            affected, cases', head)
        /\ "superseded" \in Terminal
    BY DEF RelationSupersedes, InsertRelation, RelationAdmitted, Terminal
  <1>2. Lives' = [Lives EXCEPT ![t] = "superseded"] /\ Promise!Settle
    <2> HIDE DEF affected
    <2> QED BY <1>1, EndingSettles
  <1>3. Lives[s] = "live" /\ Lives[t] = "live"
    BY <1>1 DEF Lives
  <1>4. DeclaredPairs' = DeclaredPairs
    BY <1>1 DEF DeclaredPairs
  <1> QED BY <1>1, <1>2, <1>3, <1>4 DEF Promise!DisputesNext, Promise!Supersede

\* relation.put of a contradiction is Contradict.
LEMMA ContradictRefines ==
  ASSUME IndInv, IndInv', NEW s \in Claims, NEW t \in Claims, NEW ambient, NEW key,
         RelationContradicts(s, t, ambient, key)
  PROVE  Promise!DisputesNext
  <1> DEFINE row == [source |-> s, kind |-> "contradicts", target |-> t, seq |-> NextCommitSeq]
             new == Assessment(s, t, head, NextCommitSeq)
  <1>1. /\ head' = head /\ s # t /\ status[s] \in Live /\ status[t] \in Live
        /\ Edge(s, "contradicts", t) = {} /\ relations' = relations \cup {row}
        /\ cases' = OpenAssessments(cases, {new})
        /\ status' = RecomputeClaimStatuses(status, {s, t}, cases', head)
    BY DEF RelationContradicts, InsertRelation, RelationAdmitted
  <1>2. \A d \in Claims : /\ status'[d] \in Live <=> status[d] \in Live
                          /\ status[d] \notin Live => status'[d] = status[d]
    <2>1. status \in [Claims -> Statuses]
      BY DEF IndInv, TypeOK
    <2> QED BY <1>1, <2>1, RecomputeLives
  <1>3. Lives' = Lives /\ Lives[s] = "live" /\ Lives[t] = "live"
    <2>1. Lives' = Lives
      BY <1>2, LivesStay
    <2>2. Lives[s] = "live" /\ Lives[t] = "live"
      BY <1>1 DEF Lives
    <2> QED BY <2>1, <2>2
  <1>4. <<s, t>> \notin DeclaredPairs
    BY <1>1 DEF DeclaredPairs, Edge
  <1>5. DeclaredPairs' = DeclaredPairs \cup {<<s, t>>}
    <2>1. {r \in relations' : r.kind = "contradicts"}
            = {r \in relations : r.kind = "contradicts"} \cup {row}
      BY <1>1
    <2>2. <<row.source, row.target>> = <<s, t>>
      OBVIOUS
    <2> HIDE DEF row
    <2> QED BY <2>1, <2>2 DEF DeclaredPairs
  <1>6. new.state = "open"
    BY DEF Assessment
  <1>7. OpenComparisons \subseteq OpenComparisons' /\ PastComparisons' = PastComparisons
    <2> DEFINE news == {n \in {new} : ~\E case \in cases : SameAssessment(case, n)}
    <2>1. cases' = cases \cup news /\ \A n \in news : n.state = "open"
      BY <1>1, <1>6 DEF OpenAssessments
    <2> HIDE DEF news
    <2> QED BY <2>1, PastStays
  <1>8. Promise!Settle
    BY <1>7, Settles
  <1> QED BY <1>1, <1>3, <1>4, <1>5, <1>8 DEF Promise!DisputesNext, Promise!Contradict

\* Every other call leaves everything the promise speaks of as it is.
LEMMA QuietRefines ==
  ASSUME head' = head, status' = status, cases' = cases, DeclaredPairs' = DeclaredPairs
  PROVE  UNCHANGED Promise!disputeVars
  BY DEF Promise!disputeVars, Lives, OpenComparisons, PastComparisons, ConflictedClaims

\* Every step of the tables is a step of the promise, or changes nothing of it.
LEMMA StepRefines ==
  IndInv /\ IndInv' /\ [Next]_vars => [Promise!DisputesNext]_Promise!disputeVars
  <1> SUFFICES ASSUME IndInv, IndInv', [Next]_vars
               PROVE  Promise!DisputesNext \/ UNCHANGED Promise!disputeVars
    OBVIOUS
  <1>1. ASSUME NEW s \in Claims, NEW t \in Claims, NEW kind \in Kinds, NEW ambient, NEW key,
               RelationExists(s, kind, t, ambient, key)
        PROVE  UNCHANGED Promise!disputeVars
    BY <1>1, QuietRefines DEF RelationExists, DeclaredPairs
  <1>2. ASSUME NEW s \in Claims, NEW t \in Claims, NEW ambient, NEW key,
               RelationOther(s, t, ambient, key)
        PROVE  UNCHANGED Promise!disputeVars
    <2>1. /\ head' = head /\ status' = status /\ cases' = cases
          /\ relations' = relations \cup {[source |-> s, kind |-> "other", target |-> t,
                                           seq |-> NextCommitSeq]}
      BY <1>2 DEF RelationOther, InsertRelation
    <2>2. DeclaredPairs' = DeclaredPairs
      BY <2>1 DEF DeclaredPairs
    <2> QED BY <2>1, <2>2, QuietRefines
  <1>3. ASSUME UNCHANGED vars PROVE UNCHANGED Promise!disputeVars
    BY <1>3, QuietRefines DEF vars, DeclaredPairs
  <1> QED BY <1>1, <1>2, <1>3, AssertRefines, ReviseRefines, RetractRefines,
             SupersedeRefines, ContradictRefines DEF Next, Call

\* The empty store is the empty promise.
LEMMA InitRefines == Init => Promise!DisputesInit
  BY DEF Init, Promise!DisputesInit, Lives, Live, DeclaredPairs, OpenComparisons,
         OpenCases, PastComparisons, ConflictedClaims

\* The three tables, maintained incrementally by four handlers, implement the
\* promise that disputes are recomputed from the claims at every moment, and
\* that each comparison left behind is kept with its reason.
THEOREM TablesImplementDisputes == Spec => ImplementsDisputes
  BY InitRefines, StepRefines, TablesAgree, PTL
  DEF Spec, ImplementsDisputes, Promise!DisputesSpec


-----------------------------------------------------------------------------
(* Migration: what the cases of a store have to do with the commits of its *)
(* revisions and relations.                                                *)

\* A case that is opened by the step of a handler.
JustOpened(p) ==
  /\ p.opened = commitSeq' /\ p.opened = commitSeq + 1
  /\ p.source \in Claims /\ p.target \in Claims
  /\ p.sourceRev = head'[p.source] /\ p.targetRev = head'[p.target]

\* A handler keeps the rows of cases but for their closing, or opens cases of
\* current revisions.
LEMMA CasesFrom ==
  IndInv /\ [Next]_vars =>
    \A p \in cases' : (\E x \in cases : SameOpening(p, x)) \/ JustOpened(p)
  <1> SUFFICES ASSUME IndInv, [Next]_vars
               PROVE  \A p \in cases' : (\E x \in cases : SameOpening(p, x)) \/ JustOpened(p)
    OBVIOUS
  <1>0. cases \in SUBSET CaseRows /\ NextCommitSeq = commitSeq + 1 /\ NextCommitSeq \in Nat
    BY LedgerAssumption DEF IndInv, TypeOK, NextCommitSeq
  <1>1. ASSUME NEW c \in Claims, NEW state \in {"stale", "resolved"},
               NEW p \in TransitionOpenConflicts(cases, c, state, NextCommitSeq)
        PROVE  \E x \in cases : SameOpening(p, x)
    <2>1. \E x \in cases : ComesFrom(p, x, x \in Touching(cases, c), state, NextCommitSeq)
      BY <1>0, <1>1, TransitionOrigin
    <2> QED BY <2>1 DEF ComesFrom
  <1>2. ASSUME NEW ambient, NEW key, NEW c \in Claims, NEW ifRevision,
               ClaimRevise(c, ifRevision, ambient, key)
        PROVE  \A p \in cases' : (\E x \in cases : SameOpening(p, x)) \/ JustOpened(p)
    <2> DEFINE heads == [head EXCEPT ![c] = head[c] + 1]
               staled == TransitionOpenConflicts(cases, c, "stale", NextCommitSeq)
               fresh == FreshAssessments(c, heads, NextCommitSeq)
    <2>1. cases' \subseteq staled \cup fresh
      BY <1>2 DEF ClaimRevise, OpenAssessments
    <2>2. head' = heads /\ commitSeq' = NextCommitSeq
      BY <1>2 DEF ClaimRevise, Commit
    <2> HIDE DEF heads
    <2>3. ASSUME NEW p \in fresh PROVE JustOpened(p)
      <3>1. /\ p.opened = NextCommitSeq /\ p.source \in Claims /\ p.target \in Claims
            /\ p.sourceRev = heads[p.source] /\ p.targetRev = heads[p.target]
        BY FreshShape
      <3> QED BY <1>0, <2>2, <3>1 DEF JustOpened
    <2> HIDE DEF fresh
    <2> QED BY <1>1, <2>1, <2>3
  <1>3. ASSUME NEW ambient, NEW key, NEW c \in Claims, ClaimRetract(c, ambient, key)
        PROVE  \A p \in cases' : (\E x \in cases : SameOpening(p, x)) \/ JustOpened(p)
    BY <1>1, <1>3 DEF ClaimRetract
  <1>4. ASSUME NEW ambient, NEW key, NEW s \in Claims, NEW t \in Claims,
               RelationSupersedes(s, t, ambient, key)
        PROVE  \A p \in cases' : (\E x \in cases : SameOpening(p, x)) \/ JustOpened(p)
    BY <1>1, <1>4 DEF RelationSupersedes
  <1>5. ASSUME NEW ambient, NEW key, NEW s \in Claims, NEW t \in Claims,
               RelationContradicts(s, t, ambient, key)
        PROVE  \A p \in cases' : (\E x \in cases : SameOpening(p, x)) \/ JustOpened(p)
    <2> DEFINE new == Assessment(s, t, head, NextCommitSeq)
    <2>1. cases' \subseteq cases \cup {new}
      BY <1>5 DEF RelationContradicts, OpenAssessments
    <2>2. head' = head /\ commitSeq' = NextCommitSeq
      BY <1>5 DEF RelationContradicts, InsertRelation, Commit
    <2>3. JustOpened(new)
      BY <1>0, <2>2 DEF JustOpened, Assessment
    <2>4. \A x \in cases : SameOpening(x, x)
      BY DEF SameOpening, SameAssessment, SameRelation
    <2> HIDE DEF new
    <2> QED BY <2>1, <2>3, <2>4
  <1>6. ASSUME cases' = cases
        PROVE  \A p \in cases' : (\E x \in cases : SameOpening(p, x)) \/ JustOpened(p)
    BY <1>6 DEF SameOpening, SameAssessment, SameRelation
  <1>7. ASSUME NEW ambient, NEW key, NEW s \in Claims, NEW t \in Claims, NEW kind,
               \/ ClaimAssert(s, ambient, key)
               \/ RelationExists(s, kind, t, ambient, key)
               \/ RelationOther(s, t, ambient, key)
        PROVE  cases' = cases
    BY <1>7 DEF ClaimAssert, RelationExists, RelationOther
  <1>8. UNCHANGED vars => cases' = cases
    BY DEF vars
  <1> QED BY <1>2, <1>3, <1>4, <1>5, <1>6, <1>7, <1>8 DEF Next, Call

\* A handler makes at most one revision of a claim, with a commit of its own.
LEMMA HeadsFrom ==
  IndInv /\ [Next]_vars =>
    /\ commitSeq' = commitSeq \/ commitSeq' = commitSeq + 1
    /\ \A c \in Claims : \/ head'[c] = head[c]
                         \/ head'[c] = head[c] + 1 /\ commitSeq' = commitSeq + 1
  <1> SUFFICES ASSUME IndInv, [Next]_vars
               PROVE  /\ commitSeq' = commitSeq \/ commitSeq' = commitSeq + 1
                      /\ \A c \in Claims :
                           \/ head'[c] = head[c]
                           \/ head'[c] = head[c] + 1 /\ commitSeq' = commitSeq + 1
    OBVIOUS
  <1> USE DEF Commit, NextCommitSeq
  <1>0. head \in [Claims -> 0 .. MaxRevision] /\ \A c \in Claims : ~Exists(c) => head[c] = 0
    BY DEF IndInv, TypeOK
  <1>1. ASSUME NEW ambient, NEW key, NEW c \in Claims, ClaimAssert(c, ambient, key)
        PROVE  /\ commitSeq' = commitSeq + 1
               /\ \A d \in Claims : head'[d] \in {head[d], head[d] + 1}
    BY <1>0, <1>1 DEF ClaimAssert
  <1>2. ASSUME NEW ambient, NEW key, NEW c \in Claims, NEW ifRevision,
               ClaimRevise(c, ifRevision, ambient, key)
        PROVE  /\ commitSeq' = commitSeq + 1
               /\ \A d \in Claims : head'[d] \in {head[d], head[d] + 1}
    BY <1>0, <1>2 DEF ClaimRevise
  <1>3. ASSUME NEW ambient, NEW key, NEW c \in Claims, ClaimRetract(c, ambient, key)
        PROVE  commitSeq' = commitSeq + 1 /\ head' = head
    BY <1>3 DEF ClaimRetract
  <1>4. ASSUME NEW ambient, NEW key, NEW s \in Claims, NEW t \in Claims,
               \/ RelationSupersedes(s, t, ambient, key)
               \/ RelationContradicts(s, t, ambient, key)
               \/ RelationOther(s, t, ambient, key)
        PROVE  commitSeq' = commitSeq + 1 /\ head' = head
    BY <1>4 DEF InsertRelation, RelationSupersedes, RelationContradicts, RelationOther
  <1>5. ASSUME NEW ambient, NEW key, NEW s \in Claims, NEW t \in Claims, NEW kind,
               RelationExists(s, kind, t, ambient, key)
        PROVE  commitSeq' = commitSeq /\ head' = head
    BY <1>5 DEF RelationExists
  <1>6. UNCHANGED vars => commitSeq' = commitSeq /\ head' = head
    BY DEF vars
  <1>7. \/ commitSeq' = commitSeq /\ head' = head
        \/ commitSeq' = commitSeq + 1 /\ \A d \in Claims : head'[d] \in {head[d], head[d] + 1}
    <2> USE <1>1, <1>2, <1>3, <1>4, <1>5, <1>6
    <2>1. CASE Next
      <3>1. PICK ambient \in Contexts, key \in OptionalKeys : Call(ambient, key)
        BY <2>1 DEF Next
      <3> QED BY <3>1 DEF Call
    <2> QED BY <2>1
  <1> QED BY <1>7

LEMMA EdgesStayDistinct ==
  IndInv /\ EdgesDistinct /\ [Next]_vars => EdgesDistinct'
  <1> SUFFICES ASSUME IndInv, EdgesDistinct, [Next]_vars PROVE EdgesDistinct'
    OBVIOUS
  <1>1. ASSUME NEW ambient, NEW key, NEW s, NEW t, NEW kind,
               InsertRelation(s, kind, t, ambient, key)
        PROVE  EdgesDistinct'
    <2> DEFINE row == [source |-> s, kind |-> kind, target |-> t, seq |-> NextCommitSeq]
    <2>1. /\ relations' = relations \cup {row}
          /\ ~\E r \in relations : r.source = s /\ r.kind = kind /\ r.target = t
      BY <1>1 DEF InsertRelation, Edge
    <2>2. row.source = s /\ row.kind = kind /\ row.target = t
      OBVIOUS
    <2> HIDE DEF row
    <2> QED BY <2>1, <2>2 DEF EdgesDistinct
  <1>2. ASSUME NEW ambient, NEW key, NEW s, NEW t, NEW kind, NEW ifRevision,
               \/ ClaimAssert(s, ambient, key) \/ ClaimRevise(s, ifRevision, ambient, key)
               \/ ClaimRetract(s, ambient, key) \/ RelationExists(s, kind, t, ambient, key)
        PROVE  relations' = relations
    BY <1>2 DEF ClaimAssert, ClaimRevise, ClaimRetract, RelationExists
  <1>3. UNCHANGED vars => relations' = relations
    BY DEF vars
  <1>4. ASSUME relations' = relations PROVE EdgesDistinct'
    BY <1>4 DEF EdgesDistinct
  <1> QED BY <1>1, <1>2, <1>3, <1>4
          DEF Next, Call, RelationSupersedes, RelationContradicts, RelationOther

\* What WriteRevision leaves of the commits of revisions.
LEMMA WrittenFrom ==
  ASSUME IndInv, RevisionsWritten, [Next]_vars, WriteRevision
  PROVE  /\ RevisionsWritten'
         /\ \A c \in Claims : \A i \in 1 .. head[c] : written'[c][i] = written[c][i]
         /\ \A c \in Claims : head'[c] > head[c] => written'[c][head'[c]] = commitSeq'
  <1>1. /\ head \in [Claims -> Nat] /\ commitSeq \in Nat /\ commitSeq' \in Nat
        /\ written \in [Claims -> Seq(Nat)]
    BY LedgerAssumption, HeadsFrom DEF IndInv, TypeOK, RevisionsWritten
  <1>2. written' \in [Claims -> Seq(Nat)]
    BY <1>1 DEF WriteRevision
  <1>3. ASSUME NEW c \in Claims
        PROVE  /\ Len(written'[c]) = head'[c]
               /\ \A i \in 1 .. head[c] : written'[c][i] = written[c][i]
               /\ head'[c] > head[c] => written'[c][head'[c]] = commitSeq'
               /\ \A i \in 1 .. head'[c] : written'[c][i] <= commitSeq'
               /\ \A i, j \in 1 .. head'[c] : i < j => written'[c][i] < written'[c][j]
    <2> DEFINE w == written[c]
    <2>1. /\ w \in Seq(Nat) /\ Len(w) = head[c] /\ head[c] \in Nat
          /\ \A i \in 1 .. head[c] : w[i] <= commitSeq /\ w[i] \in Nat
          /\ \A i, j \in 1 .. head[c] : i < j => w[i] < w[j]
      BY <1>1 DEF RevisionsWritten
    <2>2. CASE head'[c] = head[c]
      <3>1. written'[c] = w
        BY <1>1, <2>2 DEF WriteRevision
      <3>2. \A i \in 1 .. head[c] : written'[c][i] = written[c][i]
        BY <3>1
      <3> HIDE DEF w
      <3>3. commitSeq' >= commitSeq
        BY <1>1, HeadsFrom
      <3>4. \A i \in 1 .. head'[c] : written'[c][i] <= commitSeq'
        BY <1>1, <2>1, <2>2, <3>1, <3>3
      <3> QED BY <2>1, <2>2, <3>1, <3>2, <3>4
    <2>3. CASE head'[c] = head[c] + 1 /\ commitSeq' = commitSeq + 1
      <3>1. written'[c] = Append(w, commitSeq')
        BY <1>1, <2>3 DEF WriteRevision
      <3> HIDE DEF w
      <3>2. /\ Len(written'[c]) = head[c] + 1
            /\ \A i \in 1 .. head[c] : written'[c][i] = w[i]
            /\ written'[c][head[c] + 1] = commitSeq'
        BY <1>1, <2>1, <3>1
      <3>3. \A i \in 1 .. head'[c] : i \in 1 .. head[c] \/ i = head[c] + 1
        BY <2>1, <2>3
      <3>4. \A i \in 1 .. head'[c] : written'[c][i] <= commitSeq'
        BY <1>1, <2>1, <2>3, <3>2, <3>3
      <3>5. ASSUME NEW i \in 1 .. head'[c], NEW j \in 1 .. head'[c], i < j
            PROVE  written'[c][i] < written'[c][j]
        <4>1. i \in 1 .. head[c]
          BY <2>1, <2>3, <3>5
        <4>2. CASE j \in 1 .. head[c]
          BY <2>1, <3>2, <3>5, <4>1, <4>2
        <4>3. CASE j = head[c] + 1
          BY <1>1, <2>1, <2>3, <3>2, <4>1, <4>3
        <4> QED BY <3>3, <4>2, <4>3
      <3>6. \A i \in 1 .. head[c] : written'[c][i] = written[c][i]
        BY <3>2 DEF w
      <3> QED BY <2>3, <3>2, <3>4, <3>5, <3>6
    <2> QED BY <2>2, <2>3, HeadsFrom
  <1>4. RevisionsWritten'
    BY <1>2, <1>3 DEF RevisionsWritten
  <1> QED BY <1>3, <1>4


\* What was current at a commit stays what was current at it.
LEMMA CurrentStays ==
  ASSUME IndInv, RevisionsWritten, [Next]_vars, WriteRevision,
         NEW c \in Claims, NEW rev \in 1 .. head[c], NEW seq \in Nat, seq <= commitSeq,
         CurrentAt(c, rev, seq)
  PROVE  CurrentAt(c, rev, seq)'
  <1>1. /\ head[c] \in Nat /\ commitSeq \in Nat /\ written'[c][rev] = written[c][rev]
        /\ head'[c] = head[c] \/ (head'[c] = head[c] + 1 /\ commitSeq' = commitSeq + 1)
    BY LedgerAssumption, WrittenFrom, HeadsFrom DEF IndInv, TypeOK
  <1>2. ASSUME rev < head'[c] PROVE seq < written'[c][rev + 1]
    <2>1. CASE rev < head[c]
      <3>1. rev + 1 \in 1 .. head[c]
        BY <1>1, <2>1
      <3>2. written'[c][rev + 1] = written[c][rev + 1]
        BY <3>1, WrittenFrom
      <3> QED BY <2>1, <3>2 DEF CurrentAt
    <2>2. CASE ~(rev < head[c])
      <3>1. rev + 1 = head'[c] /\ head'[c] > head[c] /\ commitSeq' = commitSeq + 1
        BY <1>1, <1>2, <2>2
      <3>2. written'[c][rev + 1] = commitSeq'
        BY <3>1, WrittenFrom
      <3> QED BY <1>1, <3>1, <3>2
    <2> QED BY <2>1, <2>2
  <1> QED BY <1>1, <1>2 DEF CurrentAt

\* A handler keeps the history and what the cases compare of it.
LEMMA MigrationStepInv ==
  MigrationInv /\ [Next /\ WriteRevision]_migrationVars => MigrationInv'
  <1> SUFFICES ASSUME MigrationInv, [Next /\ WriteRevision]_migrationVars PROVE MigrationInv'
    OBVIOUS
  <1>1. CASE Next /\ WriteRevision
    <2>1. IndInv /\ RevisionsWritten /\ [Next]_vars /\ WriteRevision
      BY <1>1 DEF MigrationInv
    <2>2. IndInv' /\ RevisionsWritten' /\ EdgesDistinct'
      BY <2>1, StepInv, WrittenFrom, EdgesStayDistinct DEF MigrationInv
    <2>3. ASSUME NEW p \in cases'
          PROVE  /\ p.opened <= commitSeq'
                 /\ CurrentAt(p.source, p.sourceRev, p.opened)'
                 /\ CurrentAt(p.target, p.targetRev, p.opened)'
      <3>1. CASE \E x \in cases : SameOpening(p, x)
        <4>1. PICK x \in cases : SameOpening(p, x)
          BY <3>1
        <4>2. /\ x.source = p.source /\ x.sourceRev = p.sourceRev
              /\ x.target = p.target /\ x.targetRev = p.targetRev /\ x.opened = p.opened
          BY <4>1 DEF SameOpening, SameAssessment
        <4>3. /\ x.source \in Claims /\ x.sourceRev \in 1 .. head[x.source]
              /\ x.target \in Claims /\ x.targetRev \in 1 .. head[x.target]
              /\ x.opened \in Nat
          BY DEF MigrationInv, IndInv, TypeOK, CaseRows, CasesGrounded
        <4>4. /\ x.opened <= commitSeq /\ CurrentAt(x.source, x.sourceRev, x.opened)
              /\ CurrentAt(x.target, x.targetRev, x.opened)
          BY DEF MigrationInv, OpenedCurrent
        <4>5. x.opened <= commitSeq'
          BY <2>1, <4>3, <4>4, HeadsFrom, LedgerAssumption DEF IndInv, TypeOK
        <4>6. /\ CurrentAt(p.source, p.sourceRev, p.opened)'
              /\ CurrentAt(p.target, p.targetRev, p.opened)'
          BY <2>1, <4>2, <4>3, <4>4, CurrentStays
        <4> QED BY <4>2, <4>5, <4>6
      <3>2. CASE JustOpened(p)
        <4>1. /\ p.opened = commitSeq' /\ p.source \in Claims /\ p.target \in Claims
              /\ p.sourceRev = head'[p.source] /\ p.targetRev = head'[p.target]
              /\ p.sourceRev # 0 /\ p.targetRev # 0 /\ commitSeq' \in Nat
          BY <2>2, <3>2, LedgerAssumption DEF JustOpened, IndInv, TypeOK, CaseRows
        <4>2. /\ CurrentAt(p.source, p.sourceRev, p.opened)'
              /\ CurrentAt(p.target, p.targetRev, p.opened)'
          <5>1. ASSUME NEW c \in Claims, head'[c] # 0
                PROVE  /\ written'[c][head'[c]] <= commitSeq'
                       /\ head'[c] \in Nat
            BY <2>2, <5>1 DEF RevisionsWritten, IndInv, TypeOK
          <5> QED BY <4>1, <5>1 DEF CurrentAt
        <4> QED BY <4>1, <4>2
      <3> QED BY <2>1, <3>1, <3>2, CasesFrom
    <2>4. OpenedCurrent'
      BY <2>3 DEF OpenedCurrent
    <2> QED BY <2>2, <2>4 DEF MigrationInv
  <1>2. CASE UNCHANGED migrationVars
    <2>1. UNCHANGED vars /\ written' = written
      BY <1>2 DEF migrationVars
    <2>2. IndInv'
      BY <2>1, StepInv DEF MigrationInv
    <2>3. UNCHANGED <<head, relations, cases, commitSeq>>
      BY <2>1 DEF vars
    <2> QED BY <2>1, <2>2, <2>3
            DEF MigrationInv, RevisionsWritten, OpenedCurrent, CurrentAt, EdgesDistinct
  <1> QED BY <1>1, <1>2

LEMMA MigrationInitInv == MigrationInit => MigrationInv
  <1> SUFFICES ASSUME MigrationInit PROVE MigrationInv
    OBVIOUS
  <1>1. IndInv
    BY InitInv DEF MigrationInit
  <1>2. /\ \A c \in Claims : head[c] = 0 /\ written[c] = <<>>
        /\ written \in [Claims -> Seq(Nat)] /\ cases = {} /\ relations = {}
    BY DEF MigrationInit, Init
  <1> QED BY <1>1, <1>2 DEF MigrationInv, RevisionsWritten, OpenedCurrent, EdgesDistinct

-----------------------------------------------------------------------------
(* What the two INSERTs of a migration make of the history.                *)

\* The row the second INSERT makes of a contradiction.
Reassessment(r) ==
  Assessment(r.source, r.target, head,
             Max({written[r.source][head[r.source]], written[r.target][head[r.target]]}))

\* A case is in the state its revisions and its claims ask for.
InState(p) ==
  p.state = "open" <=>
    /\ p.sourceRev = head[p.source] /\ status[p.source] \in Live
    /\ p.targetRev = head[p.target] /\ status[p.target] \in Live

\* Cases with which the second INSERT works: they belong to contradictions and
\* are in the state these ask for, and no two meet a unique key.
Orderly(cs) ==
  /\ \A p \in cs : InState(p) /\ \E r \in Contradictions : SameRelation(p, r)
  /\ \A p, q \in cs :
       \/ SameAssessment(p, q)
       \/ SameRelation(p, q) /\ p.state = "open" /\ q.state = "open"
       => p = q

\* The claims of a contradiction exist, so that they are live or terminal.
LEMMA ContradictionEnds ==
  IndInv =>
    \A r \in Contradictions :
      /\ r \in relations /\ r.kind = "contradicts"
      /\ r.source \in Claims /\ r.target \in Claims
      /\ ~AnyTerminal(r) <=> status[r.source] \in Live /\ status[r.target] \in Live
  <1> SUFFICES ASSUME IndInv, NEW r \in Contradictions
               PROVE  /\ r \in relations /\ r.kind = "contradicts"
                      /\ r.source \in Claims /\ r.target \in Claims
                      /\ ~AnyTerminal(r) <=> /\ status[r.source] \in Live
                                             /\ status[r.target] \in Live
    OBVIOUS
  <1>1. /\ r \in relations /\ r.kind = "contradicts"
        /\ r.source \in Claims /\ r.target \in Claims
    BY DEF Contradictions, IndInv, TypeOK, RelationRows
  <1>2. /\ Exists(r.source) /\ Exists(r.target)
        /\ status[r.source] \in Statuses /\ status[r.target] \in Statuses
    BY <1>1 DEF IndInv, EdgesGrounded, TypeOK
  <1> QED BY <1>1, <1>2 DEF AnyTerminal, Exists, Statuses, Live, Terminal

\* What a row of the second INSERT is.
LEMMA ReassessmentIs ==
  ASSUME IndInv, NEW cs, NEW p \in Reassessments(cs)
  PROVE  /\ p.state = "open" /\ p.sourceRev = head[p.source] /\ p.targetRev = head[p.target]
         /\ \E r \in Contradictions :
              /\ SameRelation(p, r) /\ ~AnyTerminal(r) /\ p = Reassessment(r)
         /\ ~\E case \in OpenCases(cs) : SameAssessment(case, p)
  <1>1. PICK r \in Contradictions :
          /\ ~AnyTerminal(r) /\ p = Reassessment(r)
          /\ ~\E case \in OpenCases(cs) : SameAssessment(case, Reassessment(r))
    BY DEF Reassessments, Reassessment
  <1> QED BY <1>1 DEF Reassessment, Assessment, SameRelation

\* A row of the second INSERT depends on the ends of its contradiction only.
LEMMA ReassessmentOfEnds ==
  ASSUME NEW r, NEW x, SameRelation(r, x)
  PROVE  Reassessment(r) = Reassessment(x)
  BY DEF SameRelation, Reassessment

\* After the second INSERT the open cases compare what those of the handlers
\* compare.
LEMMA ReassessedOpen ==
  ASSUME IndInv, NEW cs, Orderly(cs)
  PROVE  {Compared(p) : p \in OpenCases(cs \cup Reassessments(cs))} = OpenComparisons
  <1> DEFINE all == cs \cup Reassessments(cs)
  <1>1. ASSUME NEW p \in OpenCases(all) PROVE Compared(p) \in OpenComparisons
    <2>1. PICK r \in Contradictions :
            /\ SameRelation(p, r) /\ ~AnyTerminal(r)
            /\ p.sourceRev = head[p.source] /\ p.targetRev = head[p.target]
      <3>1. CASE p \in cs
        <4>1. p.state = "open"
          BY DEF OpenCases
        <4>2. PICK r \in Contradictions : SameRelation(p, r)
          BY <3>1 DEF Orderly
        <4>3. ~AnyTerminal(r)
          BY <3>1, <4>1, <4>2, ContradictionEnds DEF Orderly, InState, SameRelation
        <4> QED BY <3>1, <4>1, <4>2, <4>3 DEF Orderly, InState
      <3>2. CASE p \in Reassessments(cs)
        BY <3>2, ReassessmentIs
      <3> QED BY <3>1, <3>2 DEF OpenCases
    <2>2. PICK x \in OpenCases(cases) : SameRelation(x, r)
      <3>1. /\ r \in relations /\ r.kind = "contradicts"
            /\ status[r.source] \in Live /\ status[r.target] \in Live
        BY <2>1, ContradictionEnds
      <3> QED BY <3>1 DEF IndInv, LiveContradictionAssessed
    <2>3. Compared(x) = Compared(p)
      BY <2>1, <2>2 DEF IndInv, OpenMatchesHeads, SameRelation, Compared
    <2> QED BY <2>3 DEF OpenComparisons
  <1>2. ASSUME NEW x \in OpenCases(cases)
        PROVE  \E p \in OpenCases(all) : Compared(p) = Compared(x)
    <2>1. PICK r \in Contradictions : SameRelation(r, x)
      BY DEF IndInv, CasesGrounded, OpenCases, Contradictions
    <2>2. /\ x.sourceRev = head[x.source] /\ x.targetRev = head[x.target]
          /\ ~AnyTerminal(r)
      BY <2>1, ContradictionEnds DEF IndInv, OpenMatchesHeads, SameRelation
    <2>3. CASE \E p \in OpenCases(cs) : SameAssessment(p, Reassessment(r))
      <3>1. PICK p \in OpenCases(cs) : SameAssessment(p, Reassessment(r))
        BY <2>3
      <3>2. Compared(p) = Compared(x)
        BY <2>1, <2>2, <3>1 DEF Reassessment, Assessment, SameAssessment, SameRelation,
                                Compared
      <3> QED BY <3>1, <3>2 DEF OpenCases
    <2>4. CASE ~\E p \in OpenCases(cs) : SameAssessment(p, Reassessment(r))
      <3>1. Reassessment(r) \in Reassessments(cs)
        BY <2>2, <2>4 DEF Reassessments, Reassessment
      <3>2. Compared(Reassessment(r)) = Compared(x) /\ Reassessment(r).state = "open"
        BY <2>1, <2>2 DEF Reassessment, Assessment, SameRelation, Compared
      <3> QED BY <3>1, <3>2 DEF OpenCases
    <2> QED BY <2>3, <2>4
  <1> QED BY <1>1, <1>2 DEF OpenComparisons

\* The second INSERT meets no unique key.
LEMMA ReassessedDistinct ==
  ASSUME IndInv, NEW cs, Orderly(cs)
  PROVE  \A p, q \in cs \cup Reassessments(cs) :
           \/ SameAssessment(p, q)
           \/ SameRelation(p, q) /\ p.state = "open" /\ q.state = "open"
           => p = q
  <1>1. ASSUME NEW p \in cs, NEW q \in Reassessments(cs), SameRelation(p, q),
               SameAssessment(p, q) \/ p.state = "open"
        PROVE  FALSE
    <2>1. PICK r \in Contradictions : SameRelation(q, r) /\ ~AnyTerminal(r)
      BY ReassessmentIs
    <2>2. q.sourceRev = head[q.source] /\ q.targetRev = head[q.target]
      BY ReassessmentIs
    <2>3. status[p.source] \in Live /\ status[p.target] \in Live
      BY <1>1, <2>1, ContradictionEnds DEF SameRelation
    <2>4. p.state = "open" /\ SameAssessment(p, q)
      BY <1>1, <2>2, <2>3 DEF Orderly, InState, SameRelation, SameAssessment
    <2> QED BY <2>4, ReassessmentIs DEF OpenCases
  <1>2. ASSUME NEW p \in Reassessments(cs), NEW q \in Reassessments(cs), SameRelation(p, q)
        PROVE  p = q
    <2>1. PICK r \in Contradictions : SameRelation(p, r) /\ p = Reassessment(r)
      BY ReassessmentIs
    <2>2. PICK x \in Contradictions : SameRelation(q, x) /\ q = Reassessment(x)
      BY ReassessmentIs
    <2>3. SameRelation(r, x)
      BY <1>2, <2>1, <2>2 DEF SameRelation
    <2> QED BY <2>1, <2>2, <2>3, ReassessmentOfEnds
  <1>3. ASSUME NEW p, NEW q PROVE SameAssessment(p, q) => SameRelation(p, q)
    BY DEF SameAssessment, SameRelation
  <1>4. ASSUME NEW p, NEW q
        PROVE  /\ SameAssessment(p, q) => SameAssessment(q, p)
               /\ SameRelation(p, q) => SameRelation(q, p)
    BY DEF SameAssessment, SameRelation
  <1>5. \A p, q \in cs :
           \/ SameAssessment(p, q)
           \/ SameRelation(p, q) /\ p.state = "open" /\ q.state = "open"
           => p = q
    BY DEF Orderly
  <1> QED BY <1>1, <1>2, <1>3, <1>4, <1>5

\* The UPDATE of the statuses finds them as they are.
LEMMA StatusFollows ==
  ASSUME IndInv, NEW cs, {Compared(p) : p \in OpenCases(cs)} = OpenComparisons
  PROVE  MigratedStatus(cs) = status
  <1>1. ASSUME NEW c \in Claims, status[c] \in Live
        PROVE  HasOpenCase(c, cs, head) <=> \E x \in OpenCases(cases) : c \in Ends(x)
    <2>1. ASSUME NEW p \in OpenCases(cs), c \in Ends(p)
          PROVE  \E x \in OpenCases(cases) : c \in Ends(x)
      <3>1. PICK x \in OpenCases(cases) : Compared(x) = Compared(p)
        BY DEF OpenComparisons
      <3> QED BY <2>1, <3>1 DEF Compared, Ends
    <2>2. ASSUME NEW x \in OpenCases(cases), c \in Ends(x)
          PROVE  HasOpenCase(c, cs, head)
      <3>1. Compared(x) \in {Compared(p) : p \in OpenCases(cs)}
        BY DEF OpenComparisons
      <3>2. PICK p \in OpenCases(cs) : Compared(x) = Compared(p)
        BY <3>1
      <3>3. /\ p.source = x.source /\ p.sourceRev = head[x.source]
            /\ p.target = x.target /\ p.targetRev = head[x.target]
        BY <3>2 DEF IndInv, OpenMatchesHeads, Compared
      <3> QED BY <2>2, <3>3 DEF HasOpenCase, Ends
    <2> QED BY <2>1, <2>2 DEF HasOpenCase, Ends
  <1>2. \A c \in Claims : MigratedStatus(cs)[c] = status[c]
    BY <1>1 DEF MigratedStatus, RecomputeClaimStatuses, IndInv, ConflictedIffOpen, Live
  <1>3. /\ MigratedStatus(cs) = [c \in Claims |-> MigratedStatus(cs)[c]]
        /\ status = [c \in Claims |-> status[c]]
    BY DEF MigratedStatus, RecomputeClaimStatuses, IndInv, TypeOK
  <1> QED BY <1>2, <1>3

\* A case is in the state its revisions ask for, whatever the handlers did.
LEMMA CasesInState ==
  IndInv => \A p \in cases : InState(p)
  <1> SUFFICES ASSUME IndInv, NEW p \in cases PROVE InState(p)
    OBVIOUS
  <1>1. ASSUME p.state = "open"
        PROVE  /\ p.sourceRev = head[p.source] /\ status[p.source] \in Live
               /\ p.targetRev = head[p.target] /\ status[p.target] \in Live
    BY <1>1 DEF IndInv, OpenMatchesHeads, OpenCases
  <1>2. ASSUME p.sourceRev = head[p.source], status[p.source] \in Live,
               p.targetRev = head[p.target], status[p.target] \in Live
        PROVE  p.state = "open"
    <2>1. PICK r \in relations : r.kind = "contradicts" /\ SameRelation(r, p)
      BY DEF IndInv, CasesGrounded
    <2>2. PICK x \in OpenCases(cases) : SameRelation(x, r)
      BY <1>2, <2>1 DEF IndInv, LiveContradictionAssessed, SameRelation
    <2>3. SameAssessment(x, p)
      BY <1>2, <2>1, <2>2 DEF IndInv, OpenMatchesHeads, SameRelation, SameAssessment
    <2>4. x = p
      BY <2>2, <2>3 DEF IndInv, CasesDistinct, OpenCases
    <2> QED BY <2>2, <2>4 DEF OpenCases
  <1> QED BY <1>1, <1>2 DEF InState

\* The cases of a store of schema 2 are rows of the handlers.
LEMMA FirstsOrderly == IndInv => Orderly(CasesV2)
  BY CasesInState DEF IndInv, CasesDistinct, CasesV2, Orderly

\* So are those of the first INSERT, in all that matters to the second.
LEMMA FrozenOrderly ==
  IndInv /\ EdgesDistinct => Orderly({FrozenAssessment(r) : r \in Contradictions})
  <1> SUFFICES ASSUME IndInv, EdgesDistinct
               PROVE  Orderly({FrozenAssessment(r) : r \in Contradictions})
    OBVIOUS
  <1>1. ASSUME NEW r \in Contradictions
        PROVE  SameRelation(FrozenAssessment(r), r) /\ InState(FrozenAssessment(r))
    <2> DEFINE p == FrozenAssessment(r)
    <2>1. SameRelation(p, r)
      BY DEF FrozenAssessment, SameRelation
    <2>2. p.state = "open" <=> /\ ~AnyTerminal(r)
                               /\ p.sourceRev = head[r.source]
                               /\ p.targetRev = head[r.target]
      BY DEF FrozenAssessment
    <2>3. InState(p)
      <3> HIDE DEF p
      <3> QED BY <2>1, <2>2, ContradictionEnds DEF SameRelation, InState
    <2> QED BY <2>1, <2>3
  <1>2. ASSUME NEW r \in Contradictions, NEW x \in Contradictions, SameRelation(r, x)
        PROVE  r = x
    BY <1>2 DEF Contradictions, EdgesDistinct, SameRelation
  <1>3. ASSUME NEW p, NEW q PROVE SameAssessment(p, q) => SameRelation(p, q)
    BY DEF SameAssessment, SameRelation
  <1>4. ASSUME NEW r \in Contradictions, NEW x \in Contradictions,
               SameRelation(FrozenAssessment(r), FrozenAssessment(x))
        PROVE  FrozenAssessment(r) = FrozenAssessment(x)
    <2>1. SameRelation(r, x)
      BY <1>1, <1>4 DEF SameRelation
    <2> QED BY <1>2, <2>1
  <1> QED BY <1>1, <1>3, <1>4 DEF Orderly

\* A revision that was current at a commit is the one the migration finds.
LEMMA RevisionFound ==
  ASSUME IndInv, RevisionsWritten, NEW c \in Claims, NEW rev \in 1 .. head[c],
         NEW seq \in Nat, CurrentAt(c, rev, seq)
  PROVE  RevisionAt(c, seq) = rev
  <1> DEFINE until == {i \in 1 .. head[c] : written[c][i] <= seq}
  <1>1. /\ head[c] \in Nat /\ \A i \in 1 .. head[c] : written[c][i] \in Nat
        /\ \A i, j \in 1 .. head[c] : i < j => written[c][i] < written[c][j]
    BY DEF IndInv, TypeOK, RevisionsWritten
  <1>2. rev \in until
    BY DEF CurrentAt
  <1>3. ASSUME NEW i \in until PROVE i <= rev
    <2>1. SUFFICES ASSUME i > rev PROVE FALSE
      BY <1>1
    <2>2. rev + 1 \in 1 .. head[c] /\ rev < head[c] /\ seq < written[c][rev + 1]
      BY <1>1, <2>1 DEF CurrentAt
    <2>3. written[c][rev + 1] <= written[c][i]
      BY <1>1, <2>1, <2>2
    <2> QED BY <1>1, <2>2, <2>3
  <1>4. /\ until \subseteq Nat /\ RevisionAt(c, seq) = Max(until)
    BY DEF RevisionAt
  <1> HIDE DEF until
  <1>5. Max(until) \in until /\ \A y \in until : Max(until) >= y
    <2>1. \E x \in until : \A y \in until : x >= y
      BY <1>1, <1>2, <1>3, <1>4
    <2>2. Max(until) = CHOOSE x \in until : \A y \in until : x >= y
      BY Zenon DEF Max
    <2> QED BY <2>1, <2>2, Zenon
  <1>6. Max(until) \in Nat /\ rev \in Nat /\ Max(until) <= rev /\ Max(until) >= rev
    BY <1>2, <1>3, <1>4, <1>5
  <1> QED BY <1>4, <1>6

\* The first INSERT finds the revisions the first case of a contradiction
\* compared.
LEMMA FirstsFound ==
  MigrationInv =>
    \A first \in CasesV2 :
      \E r \in Contradictions : SameAssessment(FrozenAssessment(r), first)
  <1> SUFFICES ASSUME MigrationInv, NEW first \in CasesV2
               PROVE  \E r \in Contradictions : SameAssessment(FrozenAssessment(r), first)
    OBVIOUS
  <1>1. PICK r \in Contradictions : SameRelation(first, r) /\ first.opened = r.seq
    BY DEF CasesV2
  <1>2. /\ first \in cases
        /\ first.source \in Claims /\ first.sourceRev \in 1 .. head[first.source]
        /\ first.target \in Claims /\ first.targetRev \in 1 .. head[first.target]
        /\ first.opened \in Nat
    BY DEF CasesV2, MigrationInv, IndInv, TypeOK, CaseRows, CasesGrounded
  <1>3. /\ RevisionAt(first.source, first.opened) = first.sourceRev
        /\ RevisionAt(first.target, first.opened) = first.targetRev
    BY <1>2, RevisionFound DEF MigrationInv, OpenedCurrent
  <1>4. /\ RevisionAt(r.source, r.seq) = first.sourceRev
        /\ RevisionAt(r.target, r.seq) = first.targetRev
    BY <1>1, <1>3 DEF SameRelation
  <1>5. SameAssessment(FrozenAssessment(r), first)
    BY <1>1, <1>4 DEF FrozenAssessment, SameAssessment, SameRelation
  <1> QED BY <1>5

\* Either migration reconstructs what the handlers maintain.
LEMMA InvReconstructs == MigrationInv => MigrationReconstructs
  <1> SUFFICES ASSUME MigrationInv PROVE MigrationReconstructs
    OBVIOUS
  <1>1. ASSUME NEW cs, Orderly(cs),
               \A first \in CasesV2 : \E case \in cs : SameAssessment(case, first)
        PROVE  Reconstructs(cs \cup Reassessments(cs))
    <2> DEFINE all == cs \cup Reassessments(cs)
    <2>1. {Compared(p) : p \in OpenCases(all)} = OpenComparisons
      BY <1>1, ReassessedOpen DEF MigrationInv
    <2>2. MigratedStatus(all) = status
      BY <2>1, StatusFollows DEF MigrationInv
    <2>3. \A first \in CasesV2 : \E case \in all : SameAssessment(case, first)
      BY <1>1
    <2>4. \A p, q \in all :
             \/ SameAssessment(p, q)
             \/ SameRelation(p, q) /\ p.state = "open" /\ q.state = "open"
             => p = q
      BY <1>1, ReassessedDistinct DEF MigrationInv
    <2>5. Reconstructs(all)
      <3> HIDE DEF all
      <3> QED BY <2>1, <2>2, <2>3, <2>4 DEF Reconstructs
    <2> QED BY <2>5
  <1>2. Reconstructs(MigratedFromV2)
    <2>1. \A first \in CasesV2 : \E case \in CasesV2 : SameAssessment(case, first)
      BY DEF SameAssessment
    <2> QED BY <1>1, <2>1, FirstsOrderly DEF MigrationInv, MigratedFromV2
  <1>3. Reconstructs(MigratedFromV1)
    <2> DEFINE frozen == {FrozenAssessment(r) : r \in Contradictions}
    <2>1. Orderly(frozen)
      BY FrozenOrderly DEF MigrationInv
    <2>2. \A first \in CasesV2 : \E case \in frozen : SameAssessment(case, first)
      BY FirstsFound
    <2>3. MigratedFromV1 = frozen \cup Reassessments(frozen)
      BY DEF MigratedFromV1
    <2> HIDE DEF frozen
    <2> QED BY <1>1, <2>1, <2>2, <2>3
  <1> QED BY <1>2, <1>3 DEF MigrationReconstructs

\* The commits of revisions, the openings of cases and the tables stay in the
\* relation from which the migrations are right.
THEOREM MigrationInvHolds == MigrationSpec => []MigrationInv
  BY MigrationInitInv, MigrationStepInv, PTL DEF MigrationSpec

\* At every commit, the migrations from schema 1 and from schema 2 make of the
\* relations and the revisions the disputes the handlers would have shown,
\* keep the first comparison of each, and meet no unique key.
THEOREM MigrationsReconstruct == MigrationSpec => []MigrationReconstructs
  BY MigrationInvHolds, InvReconstructs, PTL
=============================================================================
