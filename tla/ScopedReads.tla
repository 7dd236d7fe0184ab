----------------------------- MODULE ScopedReads -----------------------------
(***************************************************************************)
(* What every read of the store adds to the tables of Claims: the context  *)
(* a relation was recorded in, which decides who may look at it, and the   *)
(* order in which conflict cases were inserted (src/src/store.rs).  The    *)
(* readers, Recall and Pages, take several steps, between which            *)
(* `Mutate` commits the mutations of other callers.                        *)
(***************************************************************************)
EXTENDS Claims, SequencesExt

VARIABLES
  recordedIn,  \* <<source, kind, target, context>>: the context columns of relations
  caseOrder    \* the assessments of conflict_cases in order of case_sequence

storeVars == <<vars, recordedIn, caseOrder>>

Horizons == {"ambient", "workspace"}

\* horizon_filter_sql: the ambient horizon of a task sees the rows of the task
\* and of the project; a caller without a task sees every row of its project.
InHorizon(ambient, horizon, row) ==
  \/ horizon = "workspace"
  \/ /\ row.project = ambient.project
     /\ ambient.task = NoTask \/ row.task \in {NoTask, ambient.task}

\* The relation between two claims was recorded where the caller may look.
EdgeInHorizon(ambient, horizon, source, kind, target) ==
  \E row \in recordedIn :
    /\ row[1] = source /\ row[2] = kind /\ row[3] = target
    /\ InHorizon(ambient, horizon, row[4])

\* The columns of a case that never change.
AssessmentOf(case) ==
  [source |-> case.source, target |-> case.target,
   sourceRev |-> case.sourceRev, targetRev |-> case.targetRev]

\* Cases that a commit inserts get the next sequence numbers, in some order.
OrderNewCases ==
  \E order \in SetToSeqs({AssessmentOf(case) : case \in cases'} \ ToSet(caseOrder)) :
    caseOrder' = caseOrder \o order

\* A relation is recorded in the context of its caller.  Those without
\* lifecycle meaning are left out: no read but their own list sees them.
RelationPut(s, kind, t, ambient) ==
  /\ \/ kind = "supersedes" /\ RelationSupersedes(s, t, ambient, NoKey)
     \/ kind = "contradicts" /\ RelationContradicts(s, t, ambient, NoKey)
  /\ recordedIn' = recordedIn \cup {<<s, kind, t, ambient>>}

\* The mutations of other callers, each under a key of its own.
Mutate ==
  \E ambient \in Contexts :
    /\ \/ \E c \in Claims :
            /\ \/ ClaimAssert(c, ambient, NoKey)
               \/ ClaimRevise(c, head[c], ambient, NoKey)
               \/ ClaimRetract(c, ambient, NoKey)
            /\ UNCHANGED recordedIn
       \/ \E s, t \in Claims, kind \in Kinds : RelationPut(s, kind, t, ambient)
    /\ OrderNewCases

StoreInit == Init /\ recordedIn = {} /\ caseOrder = <<>>
=============================================================================
