------------------------------- MODULE Pages -------------------------------
(***************************************************************************)
(* Lists read page by page (src/src/store.rs): the relations of a claim,   *)
(* conflict cases, the revisions of a claim and retrieval feedback.  A     *)
(* page is one read under the connection mutex and ends in a cursor, the   *)
(* sort key of its last row; the next page takes the rows below it.        *)
(* Between two pages rows are inserted above and cases change their state. *)
(*                                                                         *)
(* Abstractions: a row is its sort key, which is unique in its list; where *)
(* the cap on the encoded bytes of a page falls is chosen, after at least  *)
(* one row, since a row of the greatest size fits.                         *)
(***************************************************************************)
EXTENDS ScopedReads

CONSTANT MaxPage  \* the greatest limit a caller passes (MAX_*_ITEMS)

ASSUME PagesAssumption == MaxPage \in Nat

VARIABLES
  feedback,  \* rows of retrieval_feedback
  reading    \* a caller's progress through one list

pageVars == <<storeVars, feedback, reading>>

ScopedLists == {"relations", "conflicts"}
Lists == ScopedLists \cup {"history", "feedback", "export"}

-----------------------------------------------------------------------------
(* The rows of each list, as the sort keys of what its query selects.      *)

RelationRowsOf(r) ==
  {row.seq : row \in {e \in relations :
     /\ r.about \in {e.source, e.target}
     /\ EdgeInHorizon(r.ambient, r.horizon, e.source, e.kind, e.target)}}

CaseAt(i) == CHOOSE case \in cases : AssessmentOf(case) = caseOrder[i]

ListedStates(r) == IF r.includeStale THEN {"open", "stale"} ELSE {"open"}

ConflictRowsOf(r) ==
  {i \in DOMAIN caseOrder :
     /\ CaseAt(i).state \in ListedStates(r)
     /\ EdgeInHorizon(r.ambient, r.horizon, CaseAt(i).source, "contradicts", CaseAt(i).target)}

HistoryRowsOf(r) == 1 .. head[r.about]

\* Feedback of the project, under a task that of the task or of no task;
\* feedback_get asks the same of one row.
FeedbackRowsOf(r) == {f.seq : f \in {g \in feedback : InWriteScope(r.ambient, g.recordedBy)}}

\* What is exported has kept its query.
ExportRowsOf(r) ==
  {f.seq : f \in {g \in feedback : g.retained /\ InWriteScope(r.ambient, g.recordedBy)}}

RowsOf(r) ==
  CASE r.list = "relations" -> RelationRowsOf(r)
    [] r.list = "conflicts" -> ConflictRowsOf(r)
    [] r.list = "history" -> HistoryRowsOf(r)
    [] r.list = "feedback" -> FeedbackRowsOf(r)
    [] r.list = "export" -> ExportRowsOf(r)

-----------------------------------------------------------------------------
(* Reading.                                                                *)

\* The i-th row is the one with i - 1 rows above it.
Descending(keys) ==
  [i \in 1 .. Cardinality(keys) |->
     CHOOSE k \in keys : Cardinality({x \in keys : x > k}) = i - 1]

\* Faulty variant: the next page starts below the row that was cut off.
CursorPastCut(page, rest) == Max(rest \ ToSet(page))

\* The cursor of a truncated page.
NextCursor(page, rest) == Last(page)

\* The rows below the cursor; without a cursor, all of them.
Below(keys, cursor) == {k \in keys : cursor = 0 \/ k < cursor}

\* The first n of the rows that are left, with the cursor of the next page.
PageOf(r, n) ==
  LET rest == Below(RowsOf(r), r.cursor)
      page == SubSeq(Descending(rest), 1, n)
  IN [r EXCEPT !.got = @ \o page,
               !.cursor = IF n < Cardinality(rest) THEN NextCursor(page, rest) ELSE 0,
               !.stage = IF n < Cardinality(rest) THEN "next" ELSE "done"]

\* ensure_entity_in_read_scope for the claim whose relations are listed, that
\* the claim exists for its history; the other lists ask nothing.
MayRead(r) ==
  /\ r.list \in {"relations", "history"} => Exists(r.about)
  /\ r.list = "relations" => InHorizon(r.ambient, r.horizon, owner[r.about])

\* The rows are fetched to one more than the limit; a byte cap may end the
\* page of a scoped list earlier.
ReadPage(r, limit) ==
  LET left == Cardinality(Below(RowsOf(r), r.cursor))
      full == Min({limit, left})
  IN
  /\ MayRead(r)
  /\ \E n \in IF r.list \in ScopedLists /\ full > 1 THEN 1 .. full ELSE {full} :
       reading' = PageOf(r, n)
  /\ UNCHANGED <<storeVars, feedback>>

FirstPage ==
  /\ reading.stage = "idle"
  /\ \E list \in Lists, about \in Claims, ambient \in Contexts, horizon \in Horizons,
        includeStale \in BOOLEAN, limit \in 1 .. MaxPage :
       LET r == [stage |-> "next", list |-> list, about |-> about, ambient |-> ambient,
                 horizon |-> IF list \in ScopedLists THEN horizon ELSE "ambient",
                 includeStale |-> list = "conflicts" /\ includeStale,
                 limit |-> limit, cursor |-> 0, got |-> <<>>, atFirst |-> {}, since |-> commitSeq]
       IN ReadPage([r EXCEPT !.atFirst = RowsOf(r)], limit)

NextPage == reading.stage = "next" /\ ReadPage(reading, reading.limit)

\* feedback.record: a row of its own under the context of its caller.
FeedbackRecord ==
  /\ reading.stage # "done"
  /\ MaySpendSeq
  /\ \E ambient \in Contexts, retained \in BOOLEAN :
       /\ feedback' = feedback \cup {[seq |-> NextCommitSeq, recordedBy |-> ambient,
                                      retained |-> retained]}
       /\ Commit(ambient, NoKey, [op |-> "feedback.record"])
  /\ UNCHANGED <<claimVars, recordedIn, caseOrder, reading>>

MutateDuringReading ==
  reading.stage # "done" /\ Mutate /\ UNCHANGED <<feedback, reading>>

PagesInit == StoreInit /\ feedback = {} /\ reading = [stage |-> "idle"]

PagesNext == FirstPage \/ NextPage \/ FeedbackRecord \/ MutateDuringReading

PagesSpec == PagesInit /\ [][PagesNext]_pageVars

-----------------------------------------------------------------------------
\* The contradictions that were live and in sight from the first page on.
DisputedThroughout ==
  {<<e.source, e.target>> : e \in {f \in relations :
     /\ f.kind = "contradicts" /\ f.seq <= reading.since
     /\ {status[f.source], status[f.target]} \subseteq Live
     /\ EdgeInHorizon(reading.ambient, reading.horizon, f.source, f.kind, f.target)}}

DisputesRead ==
  {<<CaseAt(i).source, CaseAt(i).target>> : i \in ToSet(reading.got)}

\* Following the cursors to the end misses nothing and repeats nothing,
\* whatever is committed between the pages: every row that matched the list
\* from the first page on is reported once, newest first, and a reading that
\* includes stale assessments meets every dispute that was live all along,
\* also one that a revision assessed afresh above the first page.
ReadingComplete ==
  reading.stage = "done" =>
    /\ \A i, j \in DOMAIN reading.got : i < j => reading.got[i] > reading.got[j]
    /\ reading.atFirst \cap RowsOf(reading) \subseteq ToSet(reading.got)
    /\ reading.list = "conflicts" /\ reading.includeStale =>
         DisputedThroughout \subseteq DisputesRead

-----------------------------------------------------------------------------
(* The invariant from which it follows.                                    *)

Readings ==
  [stage : {"next", "done"}, list : Lists, about : Claims, ambient : Contexts,
   horizon : Horizons, includeStale : BOOLEAN, limit : 1 .. MaxPage, cursor : Nat,
   got : Seq(Nat), atFirst : SUBSET Nat, since : Nat]

\* The greatest sort key that the rows of a list have by now.
Newest(r) ==
  CASE r.list = "conflicts" -> Len(caseOrder)
    [] r.list = "history" -> head[r.about]
    [] OTHER -> commitSeq

\* Every row has its number, and every assessment its place in the order.
RowsNumbered ==
  /\ \A r \in relations : r.seq \in 1 .. commitSeq
  /\ \A f \in feedback : f.seq \in 1 .. commitSeq
  /\ caseOrder \in Seq({AssessmentOf(case) : case \in cases})
  /\ \A case \in cases : \E i \in DOMAIN caseOrder : caseOrder[i] = AssessmentOf(case)

\* What was listed from the first page on is got or below the cursor, and each
\* dispute of that time still has a row among it.
ReadingOnCourse ==
  reading.stage # "idle" =>
    /\ reading \in Readings /\ reading.since <= commitSeq
    /\ reading.atFirst \subseteq 1 .. Newest(reading)
    /\ \A i, j \in DOMAIN reading.got : i < j => reading.got[i] > reading.got[j]
    /\ reading.stage = "next" =>
         /\ reading.cursor # 0
         /\ \A i \in DOMAIN reading.got : reading.got[i] >= reading.cursor
    /\ \A k \in reading.atFirst \cap RowsOf(reading) :
         reading.stage = "done" \/ k >= reading.cursor => k \in ToSet(reading.got)
    /\ reading.list = "conflicts" /\ reading.includeStale =>
         \A pair \in DisputedThroughout : \E i \in reading.atFirst \cap RowsOf(reading) :
           pair = <<caseOrder[i].source, caseOrder[i].target>>

PagesInv ==
  /\ IndInv /\ IsFiniteSet({c \in Claims : Exists(c)})
  /\ RowsNumbered /\ ReadingOnCourse
=============================================================================
