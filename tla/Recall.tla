------------------------------- MODULE Recall -------------------------------
(***************************************************************************)
(* memory.recall and context.build (src/src/service.rs) over the claims of *)
(* Claims.  Both read the store several times, each time under the         *)
(* connection mutex, and any mutation may commit between two reads: the    *)
(* search that finds the claims, the conflicts of the slate, which exempt  *)
(* claims from redundancy collapse, and the conflicts of what is returned. *)
(*                                                                         *)
(* Abstractions: a statement is the text a claim revision has, texts that  *)
(* differ in a few words that carry no value are `Alike`; which claims     *)
(* match the query and how they rank is chosen; the byte budget of a       *)
(* bundle leaves out any of its claims.  One caller is enough: readers     *)
(* change nothing.  Artifact references and excerpts are in Probe and      *)
(* Excerpts.                                                               *)
(***************************************************************************)
EXTENDS ScopedReads

CONSTANTS
  Text,             \* Text[c][n]: the statement of revision n of claim c
  Alike,            \* pairs of texts that are near-duplicates of each other
  SourceOf,         \* the artifact that is the first evidence of a claim
  SlateMultiplier,  \* CLAIM_SLATE_MULTIPLIER
  MaxRecallClaims,  \* MAX_RECALL_CLAIMS
  MaxPerSource      \* MAX_CLAIMS_PER_SOURCE

ASSUME RecallAssumption == SlateMultiplier \in Nat /\ MaxRecallClaims \in Nat

VARIABLE call  \* the call under way: its parameters and local variables

recallVars == <<storeVars, call>>

-----------------------------------------------------------------------------
(* The reads.                                                              *)

Searchable ==
  {c \in Claims : status[c] \in Live /\ InHorizon(call.ambient, call.horizon, owner[c])}

Hit(c) == [claim |-> c, text |-> Text[c][head[c]], status |-> status[c]]

ClaimsOf(hits) == {hit.claim : hit \in ToSet(hits)}

\* conflicts_for_claims: the open contradictions of these claims between
\* current revisions, where the relation was recorded inside the horizon.
ConflictsForClaims(claims) ==
  {<<case.source, case.target>> : case \in
     {k \in OpenCases(cases) :
        /\ k.sourceRev = head[k.source] /\ k.targetRev = head[k.target]
        /\ Ends(k) \cap claims # {}
        /\ EdgeInHorizon(call.ambient, call.horizon, k.source, "contradicts", k.target)}}

EndsOfPairs(pairs) == UNION {{pair[1], pair[2]} : pair \in pairs}

-----------------------------------------------------------------------------
(* select_claim_window: what of the slate the caller sees.                 *)

\* Faulty variant: the claims of a dispute are collapsed like any other.
CollapsedRegardless(slate, exempt) ==
  FoldLeft(LAMBDA acc, hit :
             IF hit.text \in acc.seen \/ \E kept \in acc.shapes : {kept, hit.text} \in Alike
             THEN [acc EXCEPT !.seen = @ \cup {hit.text}]
             ELSE [seen |-> acc.seen \cup {hit.text}, shapes |-> acc.shapes \cup {hit.text},
                   kept |-> Append(acc.kept, hit)],
           [seen |-> {}, shapes |-> {}, kept |-> <<>>], slate).kept

\* In ranked order, a text seen before or close to a kept one is dropped.  An
\* exempt claim is always kept; others do not collapse onto it for being
\* close, only for having its very words.
Collapse(acc, hit, exempt) ==
  LET free == hit.claim \in exempt
      redundant == \/ hit.text \in acc.seen
                   \/ \E kept \in acc.shapes : {kept, hit.text} \in Alike
  IN [seen |-> acc.seen \cup {hit.text},
      shapes |-> IF free \/ redundant THEN acc.shapes ELSE acc.shapes \cup {hit.text},
      kept |-> IF free \/ ~redundant THEN Append(acc.kept, hit) ELSE acc.kept]

NothingKept == [seen |-> {}, shapes |-> {}, kept |-> <<>>]

Collapsed(slate, exempt) ==
  FoldLeft(LAMBDA acc, hit : Collapse(acc, hit, exempt), NothingKept, slate).kept

TakenOf(selected, source) ==
  Cardinality({i \in DOMAIN selected : SourceOf[selected[i].claim] = source})

\* One source gets MaxPerSource slots before another is offered one; what is
\* deferred takes the slots that are left.
Diversified(hits, window) ==
  LET split == FoldLeft(LAMBDA acc, hit :
                 IF /\ TakenOf(acc.selected, SourceOf[hit.claim]) < MaxPerSource
                    /\ Len(acc.selected) < window
                 THEN [acc EXCEPT !.selected = Append(@, hit)]
                 ELSE [acc EXCEPT !.deferred = Append(@, hit)],
                 [selected |-> <<>>, deferred |-> <<>>], hits)
      free == window - Len(split.selected)
  IN split.selected \o SubSeq(split.deferred, 1, Min({free, Len(split.deferred)}))

SelectClaimWindow(slate, window, exempt) ==
  LET distinct == Collapsed(slate, exempt)
  IN IF Len(distinct) <= window THEN distinct ELSE Diversified(distinct, window)

-----------------------------------------------------------------------------
(* The calls.                                                              *)

Idle == [stage |-> "idle"]

\* build_recall deepens the slate, context.build asks for what it shows.
SlateLimit(kind, window) ==
  IF kind = "recall" THEN Min({SlateMultiplier * window, MaxRecallClaims}) ELSE window

\* A request with its window; the search has not run.
Ask(kind, ambient, horizon, window) ==
  /\ call.stage = "idle"
  /\ call' = [stage |-> "asked", kind |-> kind, ambient |-> ambient,
              horizon |-> horizon, window |-> window]
  /\ UNCHANGED storeVars

\* search_entity_qualified (or search_qualified): some of the searchable
\* claims qualify, in some order, and the first of them are the slate.
SearchClaims ==
  /\ call.stage = "asked"
  /\ \E matched \in SUBSET Searchable : \E ranked \in SetToSeqs(matched) :
       LET limit == SlateLimit(call.kind, call.window)
           slate == SubSeq(ranked, 1, Min({limit, Len(ranked)}))
       IN call' = [stage |-> IF call.kind = "recall" THEN "slate" ELSE "window",
                   kind |-> call.kind, ambient |-> call.ambient,
                   horizon |-> call.horizon, window |-> call.window,
                   since |-> commitSeq, matched |-> matched,
                   truncated |-> Len(ranked) > limit,
                   hits |-> [i \in DOMAIN slate |-> Hit(slate[i])]]
  /\ UNCHANGED storeVars

\* The conflicts of the slate are read and the window selected at once: the
\* selection works on what was read.
SelectWindow ==
  LET exempt == EndsOfPairs(ConflictsForClaims(ClaimsOf(call.hits)))
  IN
  /\ call.stage = "slate"
  /\ call' = [call EXCEPT !.stage = "window",
                !.hits = SelectClaimWindow(@, call.window, exempt),
                !.truncated = @ \/ Len(Collapsed(call.hits, exempt)) > call.window]
  /\ UNCHANGED storeVars

\* The label of a claim in a RecallResult.
Label(hit, conflicts) ==
  IF hit.status = "conflicted" \/ hit.claim \in EndsOfPairs(conflicts)
  THEN "disputed" ELSE "current"

\* The conflicts of what is returned are read again, and label it.
AnswerRecall ==
  LET conflicts == ConflictsForClaims(ClaimsOf(call.hits))
  IN
  /\ call.stage = "window" /\ call.kind = "recall"
  /\ call' = [stage |-> "answered", kind |-> "recall", ambient |-> call.ambient,
              horizon |-> call.horizon, since |-> call.since,
              matched |-> call.matched, truncated |-> call.truncated,
              shown |-> [c \in ClaimsOf(call.hits) |->
                           Label(CHOOSE hit \in ToSet(call.hits) : hit.claim = c, conflicts)],
              conflicts |-> conflicts]
  /\ UNCHANGED storeVars

\* context.build reads the conflicts and renders the bundle; a claim that does
\* not fit is left out whole and counted.
AnswerContext ==
  /\ call.stage = "window" /\ call.kind = "context"
  /\ \E fitting \in SUBSET ClaimsOf(call.hits) :
       call' = [stage |-> "answered", kind |-> "context", ambient |-> call.ambient,
                horizon |-> call.horizon, since |-> call.since,
                matched |-> call.matched,
                truncated |-> call.truncated \/ fitting # ClaimsOf(call.hits),
                shown |-> [c \in fitting |->
                             (CHOOSE hit \in ToSet(call.hits) : hit.claim = c).status],
                conflicts |-> ConflictsForClaims(ClaimsOf(call.hits))]
  /\ UNCHANGED storeVars

\* Other callers commit between the reads, until the answer is there.
MutateDuringRecall == call.stage # "answered" /\ Mutate /\ UNCHANGED call

RecallInit == StoreInit /\ call = Idle

RecallNext ==
  \/ \E kind \in {"recall", "context"}, ambient \in Contexts, horizon \in Horizons,
        window \in 1 .. MaxRecallClaims : Ask(kind, ambient, horizon, window)
  \/ SearchClaims \/ SelectWindow \/ AnswerRecall \/ AnswerContext
  \/ MutateDuringRecall

RecallSpec == RecallInit /\ [][RecallNext]_recallVars

-----------------------------------------------------------------------------
\* The contradictions between live claims that were open at every moment of
\* the answered call and recorded where its caller may look.
OpenThroughout ==
  {<<r.source, r.target>> : r \in
     {r \in relations :
        /\ r.kind = "contradicts" /\ r.seq <= call.since
        /\ status[r.source] \in Live /\ status[r.target] \in Live
        /\ EdgeInHorizon(call.ambient, call.horizon, r.source, r.kind, r.target)}}

Answered == call.stage = "answered"

\* A side of a disagreement is never hidden: where both sides qualified and
\* one is shown, the answer shows the other too, however alike they read and
\* whatever was revised in the meantime, or says that it left something out;
\* it names the contradiction, and recall labels its sides as disputed.
NoSideHidden ==
  Answered =>
    \A pair \in OpenThroughout :
      LET sides == {pair[1], pair[2]}
      IN sides \subseteq call.matched /\ sides \cap DOMAIN call.shown # {} =>
           /\ sides \subseteq DOMAIN call.shown \/ call.truncated
           /\ pair \in call.conflicts
           /\ call.kind = "recall" =>
                \A c \in sides \cap DOMAIN call.shown : call.shown[c] = "disputed"

-----------------------------------------------------------------------------
(* The invariant from which it follows.                                    *)

HitRows ==
  [claim : Claims, text : {Text[c][n] : c \in Claims, n \in 1 .. MaxRevision},
   status : Live]

AskedCalls ==
  [stage : {"asked"}, kind : {"recall", "context"}, ambient : Contexts,
   horizon : Horizons, window : 1 .. MaxRecallClaims]

SlateCalls ==
  [stage : {"slate"}, kind : {"recall"}, ambient : Contexts, horizon : Horizons,
   window : 1 .. MaxRecallClaims, since : Nat, matched : SUBSET Claims,
   truncated : BOOLEAN, hits : Seq(HitRows)]

\* The fields of a call at each stage; what it holds was read before now.
CallOK ==
  /\ call.stage = "asked" => call \in AskedCalls
  /\ call.stage = "slate" => call \in SlateCalls
  /\ call.stage \in {"slate", "window"} => call.since \in 0 .. commitSeq

\* As long as nothing was cut, a dispute that matched is carried with both of
\* its sides.
SidesCarried ==
  call.stage \in {"slate", "window"} /\ ~call.truncated =>
    \A pair \in OpenThroughout :
      {pair[1], pair[2]} \subseteq call.matched =>
        {pair[1], pair[2]} \subseteq ClaimsOf(call.hits)

RecallInv ==
  /\ IndInv /\ IsFiniteSet({c \in Claims : Exists(c)})
  /\ CallOK /\ SidesCarried /\ NoSideHidden
=============================================================================
