---------------------------- MODULE ClaimsVerify -----------------------------
(***************************************************************************)
(* The three tables of Claims, read from outside.  First as what the store *)
(* promises about contradictions (Disputes), then as Store::verify reads   *)
(* them (src/src/store.rs): one query per table, each for the rows that    *)
(* break its rule.  A backup of a store with such a row is refused.        *)
(***************************************************************************)
EXTENDS Claims

Lives == [c \in Claims |-> IF status[c] \in Live THEN "live" ELSE status[c]]

Compared(case) == <<case.source, case.sourceRev, case.target, case.targetRev>>

DeclaredPairs ==
  {<<r.source, r.target>> : r \in {row \in relations : row.kind = "contradicts"}}

OpenComparisons == {Compared(case) : case \in OpenCases(cases)}

PastComparisons == {<<Compared(case), case.state>> : case \in cases \ OpenCases(cases)}

ConflictedClaims == {c \in Claims : status[c] = "conflicted"}

Promise == INSTANCE Disputes WITH
  revision <- head, life <- Lives, contradictions <- DeclaredPairs,
  open <- OpenComparisons, past <- PastComparisons, disputed <- ConflictedClaims

\* The three tables, maintained incrementally by four handlers, always show
\* the open cases, the closed cases and the conflicted claims that a
\* recomputation from scratch would show.
ImplementsDisputes == Promise!DisputesSpec

-----------------------------------------------------------------------------
BrokenRelations == {r \in relations : ~Exists(r.source) \/ ~Exists(r.target)}

\* A case belongs to a contradiction between the claims whose revisions it names.
BrokenCases ==
  {case \in cases :
     ~ /\ \E r \in relations : r.kind = "contradicts" /\ SameRelation(case, r)
       /\ case.sourceRev \in 1 .. head[case.source]
       /\ case.targetRev \in 1 .. head[case.target]}

OpenRevisionDrift ==
  {case \in OpenCases(cases) :
     \/ case.sourceRev # head[case.source] \/ case.targetRev # head[case.target]
     \/ status[case.source] \in Terminal \/ status[case.target] \in Terminal}

MissingLiveAssessments ==
  {r \in relations :
     /\ r.kind = "contradicts"
     /\ status[r.source] \in Live /\ status[r.target] \in Live
     /\ ~\E case \in OpenCases(cases) :
           /\ SameRelation(case, r)
           /\ case.sourceRev = head[r.source] /\ case.targetRev = head[r.target]}

\* The conflict_events of a case, by type.
EventTypes(case) == {"opened"} \cup (IF case.closed = 0 THEN {} ELSE {case.state})

MismatchedEvents ==
  {case \in cases :
     (IF case.state = "open" THEN "opened" ELSE case.state) \notin EventTypes(case)}

NamedByOpenCase(c) ==
  \E case \in OpenCases(cases) :
    \/ case.source = c /\ case.sourceRev = head[c]
    \/ case.target = c /\ case.targetRev = head[c]

WrongPresentation ==
  {c \in Claims : status[c] \in Live /\ (status[c] = "conflicted") # NamedByOpenCase(c)}

\* verify raises no alarm over what the handlers wrote, in whatever order they
\* ran: no legal history makes a store that cannot be backed up.
VerifyAccepts ==
  /\ BrokenRelations = {}
  /\ BrokenCases = {}
  /\ OpenRevisionDrift = {}
  /\ MissingLiveAssessments = {}
  /\ MismatchedEvents = {}
  /\ WrongPresentation = {}
=============================================================================
