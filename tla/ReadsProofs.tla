----------------------------- MODULE ReadsProofs -----------------------------
(***************************************************************************)
(* Proofs about the reads of the service, which take several steps while   *)
(* others commit: recall and context.build hide no side of a dispute, and  *)
(* a list that is read page by page is read completely, for any claims,    *)
(* texts, windows, limits and interleaved mutations; and about what they   *)
(* show: a citation begins and ends between characters and gives back the  *)
(* text that was shown, a probe keeps leads for raw passages, a bundle     *)
(* accounts for every hit within its budget, and the chunks of a revision  *)
(* and the windows of its chunks cover it, for any texts, limits, hits and *)
(* sizes.                                                                  *)
(***************************************************************************)
EXTENDS Recall, Pages, Excerpts, Probe, Chunks, Bundle, ClaimsProofs, ListLemmas

-----------------------------------------------------------------------------
(* What the collapse of a slate keeps.                                     *)

\* The rows of a slate, as far as the collapse looks at them.
Kept(T, H) == [seen : SUBSET T, shapes : SUBSET T, kept : Seq(H)]

HaveTexts(T, H) == \A hit \in H : hit.text \in T

\* What the collapse carries from row to row, and each of its steps.
LEMMA CollapseType ==
  ASSUME NEW T, NEW H, NEW exempt, NEW acc \in Kept(T, H), NEW hit \in H, hit.text \in T
  PROVE  /\ Collapse(acc, hit, exempt) \in Kept(T, H)
         /\ ToSet(acc.kept) \subseteq ToSet(Collapse(acc, hit, exempt).kept)
         /\ hit.claim \in exempt => hit \in ToSet(Collapse(acc, hit, exempt).kept)
  <1>1. acc.kept \in Seq(H)
    BY DEF Kept
  <1>2. /\ Append(acc.kept, hit) \in Seq(H)
        /\ ToSet(acc.kept) \subseteq ToSet(Append(acc.kept, hit))
        /\ hit \in ToSet(Append(acc.kept, hit))
    <2>1. /\ Len(acc.kept) \in Nat /\ Len(Append(acc.kept, hit)) = Len(acc.kept) + 1
          /\ DOMAIN acc.kept = 1 .. Len(acc.kept)
          /\ DOMAIN Append(acc.kept, hit) = 1 .. (Len(acc.kept) + 1)
          /\ \A i \in 1 .. Len(acc.kept) : Append(acc.kept, hit)[i] = acc.kept[i]
          /\ Append(acc.kept, hit)[Len(acc.kept) + 1] = hit
          /\ Append(acc.kept, hit) \in Seq(H)
      BY <1>1
    <2>2. \A i \in 1 .. Len(acc.kept) : i \in 1 .. (Len(acc.kept) + 1)
      BY <2>1
    <2>3. Len(acc.kept) + 1 \in 1 .. (Len(acc.kept) + 1)
      BY <2>1
    <2> QED BY <2>1, <2>2, <2>3 DEF ToSet
  <1> QED BY <1>1, <1>2 DEF Kept, Collapse

\* The accumulators of a collapse.
Collapses(acc, T, H, slate, exempt) ==
  /\ acc \in [0 .. Len(slate) -> Kept(T, H)]
  /\ \A i \in 1 .. Len(slate) : acc[i] = Collapse(acc[i - 1], slate[i], exempt)
  /\ Collapsed(slate, exempt) = acc[Len(slate)].kept

\* The collapse is the last of its accumulators.
LEMMA CollapseAccumulates ==
  ASSUME NEW T, NEW H, HaveTexts(T, H), NEW exempt, NEW slate \in Seq(H)
  PROVE  \E acc : Collapses(acc, T, H, slate, exempt)
  <1> DEFINE A == Kept(T, H)
             D == DOMAIN slate
             step == [p \in A \X H |-> Collapse(p[1], p[2], exempt)]
             iter[S \in SUBSET D] ==
               IF S = {} THEN NothingKept
               ELSE Collapse(iter[S \ {Max(S)}], slate[Max(S)], exempt)
  <1>1. D = 1 .. Len(slate) /\ Len(slate) \in Nat /\ \A i \in D : slate[i] \in H
    OBVIOUS
  <1>2. NothingKept \in A
    BY DEF Kept, NothingKept
  <1>3. step \in [A \X H -> A]
    BY CollapseType DEF HaveTexts
  <1>4. PICK f \in [SUBSET D -> A] : Folds(f, Len(slate), step, NothingKept, slate)
    <2> HIDE DEF step, A
    <2> QED BY <1>2, <1>3, FoldExists
  <1>5. f = [S \in SUBSET D |->
               IF S = {} THEN NothingKept
               ELSE Collapse(f[S \ {Max(S)}], slate[Max(S)], exempt)]
    <2>1. ASSUME NEW S \in SUBSET D, S # {}
          PROVE  f[S] = Collapse(f[S \ {Max(S)}], slate[Max(S)], exempt)
      <3>1. f[S] = step[<<f[S \ {Max(S)}], slate[Max(S)]>>]
        BY <1>1, <1>4, <2>1 DEF Folds
      <3>2. Max(S) \in S
        <4>1. S \in SUBSET Nat /\ \A i \in S : i <= Len(slate)
          BY <1>1
        <4> QED BY <1>1, <2>1, <4>1, Greatest
      <3>3. f[S \ {Max(S)}] \in A /\ slate[Max(S)] \in H
        BY <1>1, <1>4, <3>2
      <3> HIDE DEF A
      <3> QED BY <3>1, <3>3
    <2>2. f[{}] = NothingKept
      BY <1>1, <1>4 DEF Folds
    <2> QED BY <1>4, <2>1, <2>2
  <1>6. iter = [S \in SUBSET D |->
                  IF S = {} THEN NothingKept
                  ELSE Collapse(iter[S \ {Max(S)}], slate[Max(S)], exempt)]
    BY <1>5, Zenon
  <1>7. Collapsed(slate, exempt) = iter[D].kept
    BY Zenon DEF Collapsed, FoldLeft, MapThenFoldSet
  <1> HIDE DEF iter, step, A
  <1> DEFINE n == Len(slate)
             acc == [i \in 0 .. n |-> iter[1 .. i]]
             Good == {i \in 0 .. n : acc[i] \in A}
  <1>8. /\ acc[0] = iter[{}]
        /\ \A i \in 1 .. n : /\ 1 .. i \in SUBSET D /\ 1 .. i # {} /\ Max(1 .. i) = i
                             /\ acc[i] = iter[1 .. i]
                             /\ acc[i - 1] = iter[(1 .. i) \ {Max(1 .. i)}]
    <2>1. n \in Nat
      OBVIOUS
    <2>2. Samples(acc, iter, n)
      BY DEF Samples
    <2> HIDE DEF n, acc
    <2>3. FoldSteps(acc, iter, n)
      BY <2>1, <2>2, FoldAccumulates
    <2> QED BY <1>1, <2>3 DEF FoldSteps, n
  <1> HIDE DEF acc
  <1>9. acc[0] = NothingKept
    <2>1. {} \in SUBSET D
      OBVIOUS
    <2> QED BY <1>6, <1>8, <2>1
  <1>10. ASSUME NEW i \in 1 .. n PROVE acc[i] = Collapse(acc[i - 1], slate[i], exempt)
    BY <1>6, <1>8
  <1>11. 0 .. n \subseteq Good
    <2>1. 0 \in Good
      BY <1>1, <1>2, <1>9
    <2>2. ASSUME NEW i \in 1 .. n, i - 1 \in Good PROVE i \in Good
      <3>1. acc[i - 1] \in A /\ slate[i] \in H /\ slate[i].text \in T /\ i \in 0 .. n
        BY <1>1, <2>2 DEF HaveTexts
      <3>2. Collapse(acc[i - 1], slate[i], exempt) \in A
        BY <3>1, CollapseType DEF A
      <3> QED BY <1>10, <3>1, <3>2
    <2> HIDE DEF Good
    <2> QED BY <1>1, <2>1, <2>2, Climb
  <1>12. acc \in [0 .. n -> A]
    <2>1. acc = [i \in 0 .. n |-> acc[i]]
      BY DEF acc
    <2> QED BY <1>11, <2>1
  <1>13. acc[n] = iter[D]
    BY <1>1 DEF acc
  <1> QED BY <1>7, <1>10, <1>12, <1>13 DEF A, Collapses

\* What the collapse leaves is some of the rows it was given.
LEMMA CollapsedType ==
  ASSUME NEW T, NEW H, HaveTexts(T, H), NEW exempt, NEW slate \in Seq(H)
  PROVE  Collapsed(slate, exempt) \in Seq(H)
  <1>1. PICK acc : Collapses(acc, T, H, slate, exempt)
    BY CollapseAccumulates
  <1>2. Len(slate) \in 0 .. Len(slate)
    OBVIOUS
  <1>3. acc[Len(slate)] \in Kept(T, H)
    BY <1>1, <1>2 DEF Collapses
  <1> QED BY <1>1, <1>3 DEF Collapses, Kept

\* An exempt claim of the slate survives the collapse.
LEMMA ExemptKept ==
  ASSUME NEW T, NEW H, HaveTexts(T, H), NEW exempt, NEW slate \in Seq(H),
         NEW k \in DOMAIN slate, slate[k].claim \in exempt
  PROVE  slate[k] \in ToSet(Collapsed(slate, exempt))
  <1>0. PICK acc : Collapses(acc, T, H, slate, exempt)
    BY CollapseAccumulates
  <1>1. /\ acc \in [0 .. Len(slate) -> Kept(T, H)]
        /\ \A i \in 1 .. Len(slate) : acc[i] = Collapse(acc[i - 1], slate[i], exempt)
        /\ Collapsed(slate, exempt) = acc[Len(slate)].kept
    BY <1>0 DEF Collapses
  <1> DEFINE Good == {i \in 0 .. Len(slate) : i >= k => slate[k] \in ToSet(acc[i].kept)}
  <1>2. Len(slate) \in Nat /\ k \in 1 .. Len(slate)
    OBVIOUS
  <1>3. ASSUME NEW i \in 1 .. Len(slate)
        PROVE  /\ ToSet(acc[i - 1].kept) \subseteq ToSet(acc[i].kept)
               /\ slate[i].claim \in exempt => slate[i] \in ToSet(acc[i].kept)
    <2>1. slate[i] \in H /\ slate[i].text \in T
      BY DEF HaveTexts
    <2>2. i - 1 \in 0 .. Len(slate)
      BY <1>2
    <2>3. acc[i - 1] \in Kept(T, H)
      BY <1>1, <2>2
    <2>4. acc[i] = Collapse(acc[i - 1], slate[i], exempt)
      BY <1>1
    <2> QED BY <2>1, <2>3, <2>4, CollapseType
  <1>4. 0 \in Good
    BY <1>2
  <1>5. ASSUME NEW i \in 1 .. Len(slate), i - 1 \in Good PROVE i \in Good
    <2>1. i \in 0 .. Len(slate) /\ i \in Nat /\ k \in Nat
      BY <1>2
    <2>2. CASE i = k
      BY <1>3, <2>1, <2>2
    <2>3. CASE i # k
      <3>1. i >= k => i - 1 >= k
        BY <2>1, <2>3
      <3> QED BY <1>3, <1>5, <2>1, <3>1
    <2> QED BY <2>2, <2>3
  <1>6. 0 .. Len(slate) \subseteq Good
    <2> HIDE DEF Good
    <2> QED BY <1>2, <1>4, <1>5, Climb
  <1>7. Len(slate) \in 0 .. Len(slate) /\ Len(slate) >= k
    BY <1>2
  <1> QED BY <1>1, <1>6, <1>7


-----------------------------------------------------------------------------
(* Disputes while a call is under way.                                     *)

\* The readers' mutations are those of Claims.
LEMMA MutateIsNext == TypeOK /\ Mutate => Next
  <1> SUFFICES ASSUME TypeOK, Mutate PROVE Next
    OBVIOUS
  <1>1. NoKey \in OptionalKeys
    BY DEF OptionalKeys
  <1>2. ASSUME NEW ambient \in Contexts, NEW c \in Claims, ClaimRevise(c, head[c], ambient, NoKey)
        PROVE  head[c] \in 1 .. MaxRevision
    BY <1>2, ClaimsAssumption DEF ClaimRevise, Reaches, TypeOK
  <1>3. PICK ambient \in Contexts : Call(ambient, NoKey)
    BY <1>2 DEF Mutate, Call, RelationPut
  <1> QED BY <1>1, <1>3 DEF Next

\* A step makes at most one claim exist.
LEMMA ExistingGrows ==
  ASSUME TypeOK, TypeOK', Next
  PROVE  \E c : {d \in Claims : Exists(d)}' \subseteq {d \in Claims : Exists(d)} \cup {c}
  <1>1. ASSUME NEW ambient, NEW key, NEW c \in Claims, NEW ifRevision,
               \/ ClaimAssert(c, ambient, key)
               \/ ClaimRevise(c, ifRevision, ambient, key)
        PROVE  \A d \in Claims : d # c => head'[d] = head[d]
    BY <1>1 DEF ClaimAssert, ClaimRevise, TypeOK
  <1>2. ASSUME NEW ambient, NEW key, NEW s, NEW t, NEW kind,
               \/ ClaimRetract(s, ambient, key) \/ RelationExists(s, kind, t, ambient, key)
               \/ RelationSupersedes(s, t, ambient, key)
               \/ RelationContradicts(s, t, ambient, key)
               \/ RelationOther(s, t, ambient, key)
        PROVE  head' = head
    BY <1>2 DEF ClaimRetract, RelationExists, RelationSupersedes, RelationContradicts,
                RelationOther, InsertRelation
  <1>3. \E c : \A d \in Claims : d # c => head'[d] = head[d]
    BY <1>1, <1>2 DEF Next, Call
  <1>4. \A d \in Claims : (Exists(d) <=> head[d] # 0) /\ (Exists(d)' <=> head'[d] # 0)
    BY DEF TypeOK
  <1> QED BY <1>3, <1>4

\* A mutation keeps the invariant of the tables, and only finitely many
\* claims exist.
LEMMA MutateStore ==
  ASSUME IndInv, IsFiniteSet({c \in Claims : Exists(c)}), Mutate
  PROVE  /\ TypeOK /\ Next /\ commitSeq \in Nat /\ IndInv' /\ TypeOK'
         /\ commitSeq' \in {commitSeq, commitSeq + 1}
         /\ IsFiniteSet({c \in Claims : Exists(c)})'
  <1>0. TypeOK /\ commitSeq \in Nat /\ Next
    BY MutateIsNext, LedgerAssumption DEF IndInv, TypeOK
  <1>1. IndInv' /\ TypeOK'
    BY <1>0, StepInv DEF IndInv
  <1>2. commitSeq' \in {commitSeq, commitSeq + 1}
    BY <1>0, HeadsFrom
  <1> DEFINE before == {c \in Claims : Exists(c)}
             after == {c \in Claims : Exists(c)}'
  <1>3. PICK c : after \subseteq before \cup {c}
    BY <1>0, <1>1, ExistingGrows
  <1>4. IsFiniteSet(before)
    OBVIOUS
  <1> HIDE DEF before, after
  <1>5. IsFiniteSet(before \cup {c})
    BY <1>4, FS_AddElement
  <1>6. IsFiniteSet(after)
    BY <1>3, <1>5, FS_Subset
  <1> QED BY <1>0, <1>1, <1>2, <1>6 DEF after

\* The row a step adds to the relations has the commit of the step.
LEMMA RelationsFrom ==
  ASSUME Next
  PROVE  \A r \in relations' : r \in relations \/ r.seq = commitSeq + 1
  <1>1. ASSUME NEW ambient, NEW key, NEW s, NEW t, NEW kind,
               InsertRelation(s, kind, t, ambient, key)
        PROVE  \A r \in relations' : r \in relations \/ r.seq = commitSeq + 1
    BY <1>1 DEF InsertRelation, NextCommitSeq
  <1>2. ASSUME NEW ambient, NEW key, NEW s, NEW t, NEW kind, NEW ifRevision,
               \/ ClaimAssert(s, ambient, key) \/ ClaimRevise(s, ifRevision, ambient, key)
               \/ ClaimRetract(s, ambient, key) \/ RelationExists(s, kind, t, ambient, key)
        PROVE  relations' = relations
    BY <1>2 DEF ClaimAssert, ClaimRevise, ClaimRetract, RelationExists
  <1> QED BY <1>1, <1>2
          DEF Next, Call, RelationSupersedes, RelationContradicts, RelationOther

\* A relation that is there is not recorded a second time, in another context.
LEMMA RecordedFrom ==
  ASSUME Mutate, NEW r \in relations,
         NEW row \in recordedIn', row[1] = r.source, row[2] = r.kind, row[3] = r.target
  PROVE  row \in recordedIn
  <1>1. CASE recordedIn' = recordedIn
    BY <1>1
  <1>2. CASE recordedIn' # recordedIn
    <2>1. PICK ambient \in Contexts, s \in Claims, t \in Claims, kind \in Kinds :
            RelationPut(s, kind, t, ambient)
      BY <1>2 DEF Mutate
    <2>2. InsertRelation(s, kind, t, ambient, NoKey)
      BY <2>1 DEF RelationPut, RelationSupersedes, RelationContradicts
    <2>3. ~(r.source = s /\ r.kind = kind /\ r.target = t)
      BY <2>2 DEF InsertRelation, Edge
    <2>4. recordedIn' = recordedIn \cup {<<s, kind, t, ambient>>}
      BY <2>1 DEF RelationPut
    <2> QED BY <2>3, <2>4
  <1> QED BY <1>1, <1>2

\* A dispute that is open throughout the call with this mutation was open
\* throughout the call before it.
LEMMA DisputesWere ==
  ASSUME IndInv, Mutate, UNCHANGED call, call.since \in 0 .. commitSeq
  PROVE  OpenThroughout' \subseteq OpenThroughout
  <1> SUFFICES ASSUME NEW pair \in OpenThroughout' PROVE pair \in OpenThroughout
    OBVIOUS
  <1>0. TypeOK /\ commitSeq \in Nat /\ Next
    BY MutateIsNext, LedgerAssumption DEF IndInv, TypeOK
  <1>1. PICK r \in relations' :
          /\ pair = <<r.source, r.target>>
          /\ r.kind = "contradicts" /\ r.seq <= call.since
          /\ status'[r.source] \in Live /\ status'[r.target] \in Live
          /\ \E row \in recordedIn' :
               /\ row[1] = r.source /\ row[2] = r.kind /\ row[3] = r.target
               /\ InHorizon(call.ambient, call.horizon, row[4])
    BY DEF OpenThroughout, EdgeInHorizon, InHorizon
  <1>2. r \in relations
    BY <1>0, <1>1, RelationsFrom
  <1>3. /\ r.source \in Claims /\ r.target \in Claims
        /\ Exists(r.source) /\ Exists(r.target)
    BY <1>2 DEF IndInv, TypeOK, RelationRows, EdgesGrounded
  <1>4. Finality
    BY <1>0, TerminalStep
  <1>5. status[r.source] \in Live /\ status[r.target] \in Live
    BY <1>0, <1>1, <1>3, <1>4 DEF Finality, TypeOK, Statuses, Exists, Live, Terminal
  <1>6. EdgeInHorizon(call.ambient, call.horizon, r.source, r.kind, r.target)
    BY <1>1, <1>2, RecordedFrom DEF EdgeInHorizon
  <1> QED BY <1>1, <1>2, <1>5, <1>6 DEF OpenThroughout

\* A dispute that is open throughout is among the conflicts of either side.
LEMMA DisputeIsRead ==
  ASSUME IndInv, NEW pair \in OpenThroughout, NEW claims, {pair[1], pair[2]} \cap claims # {}
  PROVE  pair \in ConflictsForClaims(claims)
  <1>1. PICK r \in relations :
          /\ pair = <<r.source, r.target>> /\ r.kind = "contradicts"
          /\ status[r.source] \in Live /\ status[r.target] \in Live
          /\ EdgeInHorizon(call.ambient, call.horizon, r.source, r.kind, r.target)
    BY DEF OpenThroughout
  <1>2. PICK case \in OpenCases(cases) : SameRelation(case, r)
    BY <1>1 DEF IndInv, LiveContradictionAssessed
  <1>3. /\ case.sourceRev = head[case.source] /\ case.targetRev = head[case.target]
        /\ case.source = r.source /\ case.target = r.target
    BY <1>2 DEF IndInv, OpenMatchesHeads, SameRelation
  <1>4. Ends(case) \cap claims # {}
    BY <1>1, <1>3 DEF Ends
  <1> QED BY <1>1, <1>2, <1>3, <1>4 DEF ConflictsForClaims

\* Who keeps the tables and the parameters of the call keeps its disputes.
LEMMA SameDisputes ==
  ASSUME UNCHANGED storeVars, call'.since = call.since,
         call'.ambient = call.ambient, call'.horizon = call.horizon
  PROVE  OpenThroughout' = OpenThroughout
  BY DEF OpenThroughout, EdgeInHorizon, InHorizon, storeVars, vars

-----------------------------------------------------------------------------
(* The steps of a call.                                                    *)

Sliced(hits, ranked, limit) ==
  LET slate == SubSeq(ranked, 1, Min({limit, Len(ranked)}))
  IN hits = [i \in DOMAIN slate |-> Hit(slate[i])]

\* What a search of the store returns.
LEMMA SlateIs ==
  ASSUME TypeOK, IsFiniteSet({c \in Claims : Exists(c)}),
         NEW matched \in SUBSET Searchable, NEW ranked \in SetToSeqs(matched),
         NEW limit \in Nat, NEW hits, Sliced(hits, ranked, limit)
  PROVE  /\ hits \in Seq(HitRows)
         /\ ~(Len(ranked) > limit) => matched \subseteq ClaimsOf(hits)
  <1>1. /\ Searchable \subseteq {c \in Claims : Exists(c)}
        /\ \A c \in Searchable : status[c] \in Live /\ head[c] \in 1 .. MaxRevision
    BY ClaimsAssumption DEF Searchable, Exists, Live, TypeOK
  <1>2. IsFiniteSet(matched)
    BY <1>1, FS_Subset
  <1>3. ranked \in Seq(matched) /\ \A c \in matched : \E i \in DOMAIN ranked : ranked[i] = c
    BY <1>2, Permuted
  <1>4. Len(ranked) \in Nat /\ DOMAIN ranked = 1 .. Len(ranked)
    BY <1>3
  <1> DEFINE m == Min({limit, Len(ranked)})
             slate == SubSeq(ranked, 1, m)
  <1>5. m = IF limit <= Len(ranked) THEN limit ELSE Len(ranked)
    BY <1>4, MinOfTwo
  <1>6. m \in 0 .. Len(ranked)
    BY <1>4, <1>5
  <1>7. /\ slate \in Seq(matched) /\ Len(slate) = m /\ DOMAIN slate = 1 .. m
        /\ \A i \in 1 .. m : slate[i] = ranked[i] /\ ranked[i] \in matched
    <2> HIDE DEF m
    <2>1. m \in Nat /\ m <= Len(ranked)
      BY <1>4, <1>6
    <2>2. \A i \in 1 .. m : i \in 1 .. Len(ranked) /\ ranked[i] \in matched
      BY <1>3, <1>4, <2>1
    <2>3. slate = [i \in 1 .. m |-> ranked[i]]
      BY <1>3, <1>4, <2>1
    <2> HIDE DEF slate
    <2>4. slate \in [1 .. m -> matched]
      BY <2>2, <2>3
    <2>5. slate \in Seq(matched)
      BY <2>1, <2>4
    <2> QED BY <2>1, <2>2, <2>3, <2>4, <2>5
  <1>8. ASSUME NEW c \in matched PROVE Hit(c) \in HitRows /\ Hit(c).claim = c
    <2>1. c \in Claims /\ status[c] \in Live /\ head[c] \in 1 .. MaxRevision
      BY <1>1
    <2> QED BY <2>1 DEF Hit, HitRows
  <1>9. hits = [i \in 1 .. m |-> Hit(ranked[i])]
    BY <1>7 DEF Sliced
  <1>10. hits \in Seq(HitRows)
    <2>1. hits \in [1 .. m -> HitRows]
      BY <1>7, <1>8, <1>9
    <2>2. m \in Nat
      BY <1>4, <1>6
    <2> HIDE DEF m
    <2> QED BY <2>1, <2>2
  <1>11. ASSUME ~(Len(ranked) > limit) PROVE matched \subseteq ClaimsOf(hits)
    <2>1. m = Len(ranked)
      BY <1>4, <1>5, <1>11
    <2> SUFFICES ASSUME NEW c \in matched PROVE c \in ClaimsOf(hits)
      OBVIOUS
    <2>2. PICK i \in 1 .. m : ranked[i] = c
      BY <1>3, <1>4, <2>1
    <2>3. hits[i] = Hit(c) /\ i \in DOMAIN hits
      BY <1>9, <2>2
    <2>4. Hit(c) \in ToSet(hits)
      BY <2>3 DEF ToSet
    <2> QED BY <1>8, <2>4 DEF ClaimsOf
  <1> QED BY <1>10, <1>11

\* A limit is a number of rows.
LEMMA LimitNat ==
  ASSUME NEW kind, NEW window \in 1 .. MaxRecallClaims
  PROVE  SlateLimit(kind, window) \in Nat
  <1>1. SlateMultiplier * window \in Nat /\ MaxRecallClaims \in Nat /\ window \in Nat
    BY RecallAssumption
  <1>2. Min({SlateMultiplier * window, MaxRecallClaims}) \in Nat
    <2> DEFINE deep == SlateMultiplier * window
    <2>1. deep \in Nat
      BY <1>1
    <2> HIDE DEF deep
    <2>2. Min({deep, MaxRecallClaims}) \in Nat
      BY <1>1, <2>1, MinOfTwo
    <2> QED BY <2>2 DEF deep
  <1> QED BY <1>1, <1>2 DEF SlateLimit

\* Readers change nothing in the store.
LEMMA StoreStays ==
  ASSUME IndInv, IsFiniteSet({c \in Claims : Exists(c)}), UNCHANGED storeVars
  PROVE  IndInv' /\ IsFiniteSet({c \in Claims : Exists(c)})' /\ commitSeq' = commitSeq
  <1>1. UNCHANGED vars /\ status' = status /\ commitSeq' = commitSeq
    BY DEF storeVars, vars
  <1>2. IndInv'
    BY <1>1, StepInv
  <1>3. {c \in Claims : Exists(c)}' = {c \in Claims : Exists(c)}
    BY <1>1 DEF Exists
  <1> QED BY <1>1, <1>2, <1>3

\* The steps of a recall, one lemma for each.
LEMMA AskKeeps ==
  ASSUME RecallInv, NEW kind \in {"recall", "context"}, NEW ambient \in Contexts,
         NEW horizon \in Horizons, NEW window \in 1 .. MaxRecallClaims,
         Ask(kind, ambient, horizon, window)
  PROVE  RecallInv'
  <1>1. call' = [stage |-> "asked", kind |-> kind, ambient |-> ambient,
                 horizon |-> horizon, window |-> window]
    BY DEF Ask
  <1>2. call'.stage = "asked" /\ call' \in AskedCalls
    BY <1>1 DEF AskedCalls
  <1>3. CallOK' /\ SidesCarried' /\ NoSideHidden'
    BY <1>2 DEF CallOK, SidesCarried, NoSideHidden, Answered
  <1> QED BY <1>3, StoreStays DEF RecallInv, Ask

LEMMA SearchKeeps == RecallInv /\ SearchClaims => RecallInv'
  <1> SUFFICES ASSUME RecallInv, SearchClaims PROVE RecallInv'
    OBVIOUS
  <1>0. TypeOK /\ commitSeq \in Nat /\ call \in AskedCalls /\ UNCHANGED storeVars
    BY LedgerAssumption DEF RecallInv, IndInv, TypeOK, SearchClaims, CallOK
  <1>12. PICK matched \in SUBSET Searchable : \E ranked \in SetToSeqs(matched) :
          LET limit == SlateLimit(call.kind, call.window)
              slate == SubSeq(ranked, 1, Min({limit, Len(ranked)}))
          IN call' = [stage |-> IF call.kind = "recall" THEN "slate" ELSE "window",
                      kind |-> call.kind, ambient |-> call.ambient,
                      horizon |-> call.horizon, window |-> call.window,
                      since |-> commitSeq, matched |-> matched,
                      truncated |-> Len(ranked) > limit,
                      hits |-> [i \in DOMAIN slate |-> Hit(slate[i])]]
    BY DEF SearchClaims
  <1>1. PICK ranked \in SetToSeqs(matched) :
          LET limit == SlateLimit(call.kind, call.window)
              slate == SubSeq(ranked, 1, Min({limit, Len(ranked)}))
          IN call' = [stage |-> IF call.kind = "recall" THEN "slate" ELSE "window",
                      kind |-> call.kind, ambient |-> call.ambient,
                      horizon |-> call.horizon, window |-> call.window,
                      since |-> commitSeq, matched |-> matched,
                      truncated |-> Len(ranked) > limit,
                      hits |-> [i \in DOMAIN slate |-> Hit(slate[i])]]
    BY <1>12
  <1> DEFINE limit == SlateLimit(call.kind, call.window)
             slate == SubSeq(ranked, 1, Min({limit, Len(ranked)}))
             hits == [i \in DOMAIN slate |-> Hit(slate[i])]
             cut == Len(ranked) > limit
  <1>2. limit \in Nat
    BY <1>0, LimitNat DEF AskedCalls
  <1>3. call' = [stage |-> IF call.kind = "recall" THEN "slate" ELSE "window",
                 kind |-> call.kind, ambient |-> call.ambient,
                 horizon |-> call.horizon, window |-> call.window,
                 since |-> commitSeq, matched |-> matched,
                 truncated |-> cut, hits |-> hits]
    BY <1>1
  <1>4. hits \in Seq(HitRows) /\ (~cut => matched \subseteq ClaimsOf(hits))
    <2>1. Sliced(hits, ranked, limit)
      BY DEF Sliced
    <2>2. IsFiniteSet({c \in Claims : Exists(c)})
      BY DEF RecallInv
    <2> HIDE DEF limit, slate, hits
    <2> QED BY <1>0, <1>2, <2>1, <2>2, SlateIs
  <1>5. matched \subseteq Claims /\ cut \in BOOLEAN
    BY DEF Searchable
  <1> HIDE DEF limit, slate, hits, cut
  <1>6. /\ call'.stage = IF call.kind = "recall" THEN "slate" ELSE "window"
        /\ call'.since = commitSeq /\ call'.matched = matched
        /\ call'.truncated = cut /\ call'.hits = hits
    BY <1>3
  <1>7. call'.stage = "slate" => call' \in SlateCalls
    BY <1>0, <1>3, <1>4, <1>5 DEF AskedCalls, SlateCalls
  <1>8. commitSeq' = commitSeq /\ IndInv' /\ IsFiniteSet({c \in Claims : Exists(c)})'
    BY <1>0, StoreStays DEF RecallInv
  <1>9. CallOK'
    BY <1>0, <1>6, <1>7, <1>8 DEF CallOK
  <1>10. SidesCarried'
    <2>1. ~call'.truncated => call'.matched \subseteq ClaimsOf(call'.hits)
      BY <1>4, <1>6
    <2> QED BY <2>1 DEF SidesCarried, ClaimsOf
  <1>11. NoSideHidden'
    BY <1>6 DEF NoSideHidden, Answered
  <1> QED BY <1>8, <1>9, <1>10, <1>11 DEF RecallInv

LEMMA SelectKeeps == RecallInv /\ SelectWindow => RecallInv'
  <1> SUFFICES ASSUME RecallInv, SelectWindow PROVE RecallInv'
    OBVIOUS
  <1> DEFINE exempt == EndsOfPairs(ConflictsForClaims(ClaimsOf(call.hits)))
             distinct == Collapsed(call.hits, exempt)
             texts == {Text[c][n] : c \in Claims, n \in 1 .. MaxRevision}
  <1>0. /\ IndInv /\ call \in SlateCalls /\ call.stage = "slate"
        /\ call.since \in 0 .. commitSeq /\ UNCHANGED storeVars
    BY DEF RecallInv, SelectWindow, CallOK
  <1>1. call.hits \in Seq(HitRows) /\ HaveTexts(texts, HitRows)
    BY <1>0 DEF SlateCalls, HaveTexts, HitRows
  <1>2. distinct \in Seq(HitRows)
    <2> HIDE DEF exempt, texts
    <2> QED BY <1>1, CollapsedType
  <1>3. call' = [call EXCEPT !.stage = "window",
                   !.hits = SelectClaimWindow(call.hits, call.window, exempt),
                   !.truncated = call.truncated \/ Len(distinct) > call.window]
    BY DEF SelectWindow
  <1> HIDE DEF exempt
  <1>4. /\ call'.stage = "window"
        /\ call'.hits = SelectClaimWindow(call.hits, call.window, exempt)
        /\ call'.truncated = (call.truncated \/ Len(distinct) > call.window)
        /\ call'.matched = call.matched /\ call'.since = call.since
        /\ call'.ambient = call.ambient /\ call'.horizon = call.horizon
    BY <1>0, <1>3 DEF SlateCalls
  <1>5. OpenThroughout' = OpenThroughout
    BY <1>0, <1>4, SameDisputes
  <1>6. SidesCarried'
    <2> SUFFICES ASSUME ~call'.truncated, NEW pair \in OpenThroughout,
                        {pair[1], pair[2]} \subseteq call.matched, NEW c \in {pair[1], pair[2]}
                 PROVE  c \in ClaimsOf(call'.hits)
      BY <1>4, <1>5 DEF SidesCarried, ClaimsOf
    <2>1. {pair[1], pair[2]} \subseteq ClaimsOf(call.hits)
      BY <1>0, <1>4 DEF RecallInv, SidesCarried
    <2>2. pair \in ConflictsForClaims(ClaimsOf(call.hits))
      BY <1>0, <2>1, DisputeIsRead
    <2>3. c \in exempt
      BY <2>2 DEF exempt, EndsOfPairs
    <2>4. PICK k \in DOMAIN call.hits : call.hits[k].claim = c
      BY <2>1 DEF ClaimsOf, ToSet
    <2>5. call.hits[k] \in ToSet(distinct)
      <3> HIDE DEF texts
      <3> QED BY <1>1, <2>3, <2>4, ExemptKept
    <2> HIDE DEF distinct
    <2>6. Len(distinct) \in Nat /\ call.window \in Nat /\ call.truncated \in BOOLEAN
      BY <1>0, <1>2, RecallAssumption DEF SlateCalls
    <2>7. Len(distinct) <= call.window
      <3>1. ~(call.truncated \/ Len(distinct) > call.window)
        BY <1>4
      <3> QED BY <2>6, <3>1
    <2>8. call'.hits = distinct
      BY <1>4, <2>7 DEF SelectClaimWindow, distinct
    <2> QED BY <2>4, <2>5, <2>8 DEF ClaimsOf
  <1>7. commitSeq' = commitSeq /\ IndInv' /\ IsFiniteSet({d \in Claims : Exists(d)})'
    BY <1>0, StoreStays DEF RecallInv
  <1>8. CallOK' /\ NoSideHidden'
    BY <1>0, <1>4, <1>7 DEF CallOK, NoSideHidden, Answered
  <1> QED BY <1>6, <1>7, <1>8 DEF RecallInv

\* What both answers have in common: the conflicts of the hits have every
\* dispute with a side among them.
LEMMA AnswerRecallKeeps == RecallInv /\ AnswerRecall => RecallInv'
  <1> SUFFICES ASSUME RecallInv, AnswerRecall PROVE RecallInv'
    OBVIOUS
  <1> DEFINE conflicts == ConflictsForClaims(ClaimsOf(call.hits))
             labels == [c \in ClaimsOf(call.hits) |->
                         Label(CHOOSE hit \in ToSet(call.hits) : hit.claim = c, conflicts)]
  <1>0. IndInv /\ call.stage = "window" /\ UNCHANGED storeVars
    BY DEF RecallInv, AnswerRecall
  <1>1. call' = [stage |-> "answered", kind |-> "recall", ambient |-> call.ambient,
                 horizon |-> call.horizon, since |-> call.since,
                 matched |-> call.matched, truncated |-> call.truncated,
                 shown |-> labels, conflicts |-> conflicts]
    BY DEF AnswerRecall
  <1>2. /\ DOMAIN labels = ClaimsOf(call.hits)
        /\ \A c \in ClaimsOf(call.hits) :
             labels[c] = Label(CHOOSE hit \in ToSet(call.hits) : hit.claim = c, conflicts)
    OBVIOUS
  <1>3. ASSUME NEW c \in ClaimsOf(call.hits), c \in EndsOfPairs(conflicts)
        PROVE  labels[c] = "disputed"
    <2> DEFINE chosen == CHOOSE hit \in ToSet(call.hits) : hit.claim = c
    <2>1. \E hit \in ToSet(call.hits) : hit.claim = c
      BY DEF ClaimsOf
    <2>2. chosen.claim = c
      BY <2>1, Zenon
    <2>3. labels[c] = Label(chosen, conflicts)
      BY <1>2
    <2> HIDE DEF chosen, labels, conflicts
    <2> QED BY <1>3, <2>2, <2>3 DEF Label
  <1>4. ASSUME NEW pair \in OpenThroughout, {pair[1], pair[2]} \cap ClaimsOf(call.hits) # {}
        PROVE  pair \in conflicts
    BY <1>0, <1>4, DisputeIsRead
  <1> HIDE DEF labels, conflicts
  <1>5. /\ call'.stage = "answered" /\ call'.kind = "recall" /\ call'.shown = labels
        /\ call'.truncated = call.truncated /\ call'.matched = call.matched
        /\ call'.conflicts = conflicts /\ call'.since = call.since
        /\ call'.ambient = call.ambient /\ call'.horizon = call.horizon
    BY <1>1
  <1>6. OpenThroughout' = OpenThroughout
    BY <1>0, <1>5, SameDisputes
  <1>7. NoSideHidden'
    <2> SUFFICES ASSUME NEW pair \in OpenThroughout, {pair[1], pair[2]} \subseteq call.matched,
                        {pair[1], pair[2]} \cap DOMAIN labels # {}
                 PROVE  /\ {pair[1], pair[2]} \subseteq DOMAIN labels \/ call.truncated
                        /\ pair \in conflicts
                        /\ \A c \in {pair[1], pair[2]} \cap DOMAIN labels : labels[c] = "disputed"
      BY <1>5, <1>6 DEF NoSideHidden, Answered
    <2>1. {pair[1], pair[2]} \subseteq DOMAIN labels \/ call.truncated
      BY <1>0, <1>2 DEF RecallInv, SidesCarried
    <2>2. pair \in conflicts
      BY <1>2, <1>4
    <2>3. {pair[1], pair[2]} \subseteq EndsOfPairs(conflicts)
      BY <2>2 DEF EndsOfPairs
    <2> QED BY <1>2, <1>3, <2>1, <2>2, <2>3
  <1>8. CallOK' /\ SidesCarried'
    BY <1>5 DEF CallOK, SidesCarried
  <1> QED BY <1>0, <1>7, <1>8, StoreStays DEF RecallInv

LEMMA AnswerContextKeeps == RecallInv /\ AnswerContext => RecallInv'
  <1> SUFFICES ASSUME RecallInv, AnswerContext PROVE RecallInv'
    OBVIOUS
  <1>0. IndInv /\ call.stage = "window" /\ UNCHANGED storeVars
    BY DEF RecallInv, AnswerContext
  <1>1. PICK fitting \in SUBSET ClaimsOf(call.hits) :
          call' = [stage |-> "answered", kind |-> "context", ambient |-> call.ambient,
                   horizon |-> call.horizon, since |-> call.since,
                   matched |-> call.matched,
                   truncated |-> call.truncated \/ fitting # ClaimsOf(call.hits),
                   shown |-> [c \in fitting |->
                                (CHOOSE hit \in ToSet(call.hits) : hit.claim = c).status],
                   conflicts |-> ConflictsForClaims(ClaimsOf(call.hits))]
    BY DEF AnswerContext
  <1> DEFINE labels == [c \in fitting |->
                         (CHOOSE hit \in ToSet(call.hits) : hit.claim = c).status]
             conflicts == ConflictsForClaims(ClaimsOf(call.hits))
             left == fitting # ClaimsOf(call.hits)
  <1>2. DOMAIN labels = fitting
    OBVIOUS
  <1>3. call' = [stage |-> "answered", kind |-> "context", ambient |-> call.ambient,
                 horizon |-> call.horizon, since |-> call.since, matched |-> call.matched,
                 truncated |-> call.truncated \/ left,
                 shown |-> labels, conflicts |-> conflicts]
    BY <1>1
  <1>4. ASSUME NEW pair \in OpenThroughout, {pair[1], pair[2]} \cap ClaimsOf(call.hits) # {}
        PROVE  pair \in conflicts
    BY <1>0, <1>4, DisputeIsRead
  <1> HIDE DEF labels, conflicts
  <1>5. /\ call'.stage = "answered" /\ call'.kind = "context" /\ call'.shown = labels
        /\ call'.truncated = (call.truncated \/ left) /\ call'.matched = call.matched
        /\ call'.conflicts = conflicts /\ call'.since = call.since
        /\ call'.ambient = call.ambient /\ call'.horizon = call.horizon
    BY <1>3
  <1>6. OpenThroughout' = OpenThroughout
    BY <1>0, <1>5, SameDisputes
  <1>7. NoSideHidden'
    <2> SUFFICES ASSUME NEW pair \in OpenThroughout, {pair[1], pair[2]} \subseteq call.matched,
                        {pair[1], pair[2]} \cap DOMAIN labels # {}
                 PROVE  /\ {pair[1], pair[2]} \subseteq DOMAIN labels \/ call'.truncated
                        /\ pair \in conflicts
      BY <1>5, <1>6 DEF NoSideHidden, Answered
    <2>1. ~call'.truncated => {pair[1], pair[2]} \subseteq DOMAIN labels
      BY <1>0, <1>2, <1>5 DEF RecallInv, SidesCarried
    <2>2. pair \in conflicts
      BY <1>2, <1>4
    <2> QED BY <2>1, <2>2
  <1>8. CallOK' /\ SidesCarried'
    BY <1>5 DEF CallOK, SidesCarried
  <1> QED BY <1>0, <1>7, <1>8, StoreStays DEF RecallInv

\* What others commit between the reads.
LEMMA MutateKeeps == RecallInv /\ MutateDuringRecall => RecallInv'
  <1> SUFFICES ASSUME RecallInv, MutateDuringRecall PROVE RecallInv'
    OBVIOUS
  <1>0. /\ IndInv /\ Mutate /\ UNCHANGED call /\ call.stage # "answered"
        /\ IsFiniteSet({c \in Claims : Exists(c)})
    BY DEF RecallInv, MutateDuringRecall
  <1>1. /\ commitSeq \in Nat /\ IndInv' /\ commitSeq' \in {commitSeq, commitSeq + 1}
        /\ IsFiniteSet({c \in Claims : Exists(c)})'
    BY <1>0, MutateStore
  <1>2. CallOK'
    BY <1>0, <1>1 DEF RecallInv, CallOK
  <1>3. SidesCarried'
    <2> SUFFICES ASSUME call.stage \in {"slate", "window"}, ~call.truncated,
                        NEW pair \in OpenThroughout', {pair[1], pair[2]} \subseteq call.matched
                 PROVE  {pair[1], pair[2]} \subseteq ClaimsOf(call.hits)
      BY <1>0 DEF SidesCarried, ClaimsOf
    <2>1. pair \in OpenThroughout
      BY <1>0, DisputesWere DEF RecallInv, CallOK
    <2> QED BY <2>1 DEF RecallInv, SidesCarried
  <1>4. NoSideHidden'
    BY <1>0 DEF NoSideHidden, Answered
  <1> QED BY <1>1, <1>2, <1>3, <1>4 DEF RecallInv

\* A recall that was not asked yet carries nothing.
LEMMA RecallStarts == RecallInit => RecallInv
  <1> SUFFICES ASSUME RecallInit PROVE RecallInv
    OBVIOUS
  <1>1. Init /\ call.stage = "idle"
    BY DEF RecallInit, StoreInit, Idle
  <1>2. IndInv
    BY <1>1, InitInv
  <1>3. {c \in Claims : Exists(c)} = {}
    BY <1>1 DEF Init, Exists
  <1> QED BY <1>1, <1>2, <1>3, FS_EmptySet
          DEF RecallInv, CallOK, SidesCarried, NoSideHidden, Answered

\* Every step of a recall, and of the store it reads, keeps the invariant.
LEMMA RecallStep == RecallInv /\ [RecallNext]_recallVars => RecallInv'
  <1> SUFFICES ASSUME RecallInv, [RecallNext]_recallVars PROVE RecallInv'
    OBVIOUS
  <1>1. CASE UNCHANGED recallVars
    <2>1. UNCHANGED storeVars /\ call' = call
      BY <1>1 DEF recallVars
    <2>2. commitSeq' = commitSeq /\ OpenThroughout' = OpenThroughout
          /\ IndInv' /\ IsFiniteSet({c \in Claims : Exists(c)})'
      BY <2>1, SameDisputes, StoreStays DEF RecallInv
    <2>3. CallOK' /\ SidesCarried' /\ NoSideHidden'
      BY <2>1, <2>2 DEF RecallInv, CallOK, SidesCarried, NoSideHidden, Answered, ClaimsOf
    <2> QED BY <2>2, <2>3 DEF RecallInv
  <1>2. CASE RecallNext
    BY <1>2, AskKeeps, SearchKeeps, SelectKeeps, AnswerRecallKeeps, AnswerContextKeeps,
       MutateKeeps DEF RecallNext
  <1> QED BY <1>1, <1>2

\* The inductive invariant of a call: while nothing was cut, a dispute that
\* matched is carried with both of its sides.
THEOREM SidesStayTogether == RecallSpec => []RecallInv
  <1> QED BY RecallStarts, RecallStep, PTL DEF RecallSpec

\* Neither recall nor context.build hides a side of a dispute that was open
\* throughout the call, for any claims, texts, windows and mutations between
\* its reads.
THEOREM SidesAreShown == RecallSpec => []NoSideHidden
  <1>1. RecallInv => NoSideHidden
    BY DEF RecallInv
  <1> QED BY <1>1, SidesStayTogether, PTL

-----------------------------------------------------------------------------
(* Lists: the order of their rows and what a page is.                      *)

\* How many rows are above a row tells the rows apart.
LEMMA RanksDistinct ==
  ASSUME NEW m \in Nat, NEW keys \in SUBSET (1 .. m), NEW k \in keys
  PROVE  /\ Cardinality({x \in keys : x > k}) \in 0 .. Cardinality(keys) - 1
         /\ \A l \in keys : k > l =>
              Cardinality({x \in keys : x > k}) < Cardinality({x \in keys : x > l})
  <1> DEFINE above(y) == {x \in keys : x > y}
  <1>0. \A x \in keys : x \in Int
    OBVIOUS
  <1>1. IsFiniteSet(keys) /\ \A y : IsFiniteSet(above(y)) /\ Cardinality(above(y)) \in Nat
    BY BoundedFinite, FS_Subset, FS_CardinalityType
  <1>2. above(k) \subseteq keys /\ k \notin above(k)
    BY <1>0
  <1>3. ASSUME NEW l \in keys, k > l
        PROVE  above(k) \subseteq above(l) /\ k \in above(l)
    <2>1. k \in Int /\ l \in Int /\ \A x \in keys : x \in Int /\ (x > k => x > l)
      BY <1>0, <1>3
    <2> QED BY <1>3, <2>1
  <1> HIDE DEF above
  <1>4. Cardinality(above(k)) <= Cardinality(keys) /\ Cardinality(above(k)) # Cardinality(keys)
    BY <1>1, <1>2, FS_Subset
  <1>5. ASSUME NEW l \in keys, k > l
        PROVE  Cardinality(above(k)) <= Cardinality(above(l))
               /\ Cardinality(above(k)) # Cardinality(above(l))
    BY <1>1, <1>2, <1>3, <1>5, FS_Subset
  <1>6. Cardinality(keys) \in Nat
    BY <1>1, FS_CardinalityType
  <1>7. /\ Cardinality(above(k)) \in 0 .. Cardinality(keys) - 1
        /\ \A l \in keys : k > l => Cardinality(above(k)) < Cardinality(above(l))
    BY <1>1, <1>4, <1>5, <1>6
  <1> QED BY <1>7 DEF above

\* The rows of a list in descending order: each has a place, the greater the
\* earlier.
LEMMA DescendingIs ==
  ASSUME NEW m \in Nat, NEW keys \in SUBSET (1 .. m)
  PROVE  /\ Descending(keys) \in Seq(keys) /\ Len(Descending(keys)) = Cardinality(keys)
         /\ \A k \in keys : \E i \in DOMAIN Descending(keys) : Descending(keys)[i] = k
         /\ \A i, j \in DOMAIN Descending(keys) :
              i < j => Descending(keys)[i] > Descending(keys)[j]
  <1> DEFINE n == Cardinality(keys)
             ahead == [k \in keys |-> Cardinality({x \in keys : x > k})]
             at(i) == CHOOSE k \in keys : Cardinality({x \in keys : x > k}) = i - 1
  <1>1. IsFiniteSet(keys) /\ n \in Nat
    BY BoundedFinite
  <1>2. \A k, l \in keys : k > l => ahead[k] < ahead[l]
    BY RanksDistinct
  <1>3. \A k \in keys : ahead[k] \in 0 .. n - 1
    BY RanksDistinct
  <1>4. \A k, l \in keys : k # l => k > l \/ l > k
    OBVIOUS
  <1> HIDE DEF ahead
  <1>5. ahead \in Injection(keys, 0 .. n - 1)
    <2>1. ahead \in [keys -> 0 .. n - 1]
      BY <1>3 DEF ahead
    <2>2. \A k, l \in keys : k # l => ahead[k] # ahead[l]
      BY <1>1, <1>2, <1>3, <1>4
    <2> QED BY <2>1, <2>2, Zenon DEF Injection, IsInjective
  <1>6. ahead \in Surjection(keys, 0 .. n - 1)
    <2>1. IsFiniteSet(0 .. n - 1) /\ Cardinality(0 .. n - 1) = n
      BY <1>1, FS_Interval
    <2> QED BY <1>5, <2>1, FS_Injection
  <1>7. \A i \in 1 .. n : \E k \in keys : ahead[k] = i - 1
    <2>1. \A i \in 1 .. n : i - 1 \in 0 .. n - 1
      BY <1>1
    <2> QED BY <1>6, <2>1 DEF Surjection
  <1>8. \A i \in 1 .. n : at(i) \in keys /\ ahead[at(i)] = i - 1
    BY <1>7 DEF ahead
  <1>9. Descending(keys) = [i \in 1 .. n |-> at(i)]
    BY DEF Descending
  <1> HIDE DEF at
  <1>10. \A k \in keys : ahead[k] + 1 \in 1 .. n /\ at(ahead[k] + 1) = k
    <2> TAKE k \in keys
    <2>1. ahead[k] + 1 \in 1 .. n /\ ahead[k] + 1 - 1 = ahead[k]
      BY <1>1, <1>3
    <2> DEFINE i == ahead[k] + 1
    <2>2. i \in 1 .. n /\ i - 1 = ahead[k]
      BY <1>3, <2>1
    <2> HIDE DEF i
    <2>3. at(i) \in keys /\ ahead[at(i)] = ahead[k]
      BY <1>8, <2>2
    <2>4. ASSUME at(i) # k PROVE FALSE
      <3>1. ahead[at(i)] < ahead[k] \/ ahead[k] < ahead[at(i)]
        BY <1>2, <1>4, <2>3, <2>4
      <3>2. ahead[k] \in Int
        BY <1>3, <1>1
      <3> QED BY <2>3, <3>1, <3>2
    <2> QED BY <2>2, <2>4 DEF i
  <1>11. \A i, j \in 1 .. n : i < j => at(i) > at(j)
    <2> TAKE i, j \in 1 .. n
    <2> HAVE i < j
    <2>1. /\ at(i) \in keys /\ at(j) \in keys
          /\ ahead[at(i)] = i - 1 /\ ahead[at(j)] = j - 1
      BY <1>8
    <2> DEFINE x == at(i)
               y == at(j)
    <2>2. x \in keys /\ y \in keys /\ ahead[x] = i - 1 /\ ahead[y] = j - 1
      BY <2>1
    <2>3. i \in Int /\ j \in Int /\ i - 1 < j - 1
      BY <1>1
    <2> HIDE DEF x, y
    <2>4. ~(y > x) /\ x # y
      BY <1>2, <2>2, <2>3
    <2>5. x > y
      BY <1>4, <2>2, <2>4
    <2> QED BY <2>5 DEF x, y
  <1>12. Descending(keys) \in [1 .. n -> keys]
    BY <1>8, <1>9
  <1> HIDE DEF n
  <1>13. Descending(keys) \in Seq(keys) /\ Len(Descending(keys)) = n
         /\ DOMAIN Descending(keys) = 1 .. n
    BY <1>1, <1>12
  <1>14. \A i \in 1 .. n : Descending(keys)[i] = at(i)
    BY <1>9
  <1>15. \A k \in keys : \E i \in 1 .. n : Descending(keys)[i] = k
    BY <1>10, <1>14
  <1>16. \A i, j \in 1 .. n : i < j => Descending(keys)[i] > Descending(keys)[j]
    BY <1>11, <1>14
  <1> QED BY <1>13, <1>15, <1>16 DEF n

\* A page is the first rows of a list: all of them, or those from its last up.
IsPage(page, rest, whole) ==
  /\ page \in Seq(rest)
  /\ \A i, j \in DOMAIN page : i < j => page[i] > page[j]
  /\ whole => rest \subseteq ToSet(page)
  /\ ~whole =>
       /\ Last(page) \in rest
       /\ \A i \in DOMAIN page : page[i] >= Last(page)
       /\ \A k \in rest : k >= Last(page) => k \in ToSet(page)

\* What a page of a list holds, and when it is the last.
LEMMA PageIs ==
  ASSUME NEW m \in Nat, NEW rest \in SUBSET (1 .. m), NEW n \in 0 .. Cardinality(rest),
         n = 0 => Cardinality(rest) = 0
  PROVE  IsPage(SubSeq(Descending(rest), 1, n), rest, ~(n < Cardinality(rest)))
  <1> DEFINE page == SubSeq(Descending(rest), 1, n)
  <1> DEFINE d == Descending(rest)
             size == Cardinality(rest)
  <1>1. size \in Nat
    BY BoundedFinite
  <1>2. /\ d \in Seq(rest) /\ Len(d) = size
        /\ \A k \in rest : \E i \in DOMAIN d : d[i] = k
        /\ \A i, j \in DOMAIN d : i < j => d[i] > d[j]
    BY DescendingIs
  <1>3. \A k \in rest : k \in Int
    OBVIOUS
  <1> HIDE DEF d, size
  <1>4. DOMAIN d = 1 .. size /\ n \in 0 .. size /\ n \in Nat
    BY <1>1, <1>2 DEF size
  <1>5. page = [i \in 1 .. n |-> d[i]]
    BY <1>1, <1>2, <1>4 DEF d
  <1> HIDE DEF page
  <1>6. \A i \in 1 .. n : d[i] \in rest /\ i \in 1 .. size
    BY <1>1, <1>2, <1>4
  <1>7. page \in [1 .. n -> rest]
    BY <1>5, <1>6
  <1>8. page \in Seq(rest) /\ Len(page) = n /\ DOMAIN page = 1 .. n
    BY <1>4, <1>7, FunctionIsSeq
  <1>9. \A i \in 1 .. n : page[i] = d[i]
    BY <1>5
  <1>10. \A i, j \in DOMAIN page : i < j => page[i] > page[j]
    BY <1>2, <1>4, <1>6, <1>8, <1>9
  <1>11. \A i \in 1 .. n : d[i] \in ToSet(page)
    BY <1>8, <1>9 DEF ToSet
  <1>12. ASSUME ~(n < size) PROVE rest \subseteq ToSet(page)
    <2>1. n = size
      BY <1>1, <1>4, <1>12
    <2> QED BY <1>2, <1>4, <1>11, <2>1
  <1>13. ASSUME n < size
         PROVE  /\ Last(page) \in rest
                /\ \A i \in DOMAIN page : page[i] >= Last(page)
                /\ \A k \in rest : k >= Last(page) => k \in ToSet(page)
    <2>1. n \in 1 .. size /\ n \in 1 .. n
      BY <1>1, <1>4, <1>13 DEF size
    <2>2. Last(page) = d[n]
      BY <1>8, <1>9, <2>1 DEF Last
    <2>3. d[n] \in rest
      BY <1>6, <2>1
    <2>4. \A i \in 1 .. n : page[i] >= d[n]
      <3> TAKE i \in 1 .. n
      <3>1. i \in 1 .. size /\ d[i] \in Int /\ d[n] \in Int /\ page[i] = d[i]
        BY <1>3, <1>6, <1>9, <2>3
      <3>2. CASE i = n
        BY <3>1, <3>2
      <3>3. CASE i # n
        <4>1. i < n
          BY <1>4, <3>3
        <4> QED BY <1>2, <1>4, <2>1, <3>1, <4>1
      <3> QED BY <3>2, <3>3
    <2>5. ASSUME NEW k \in rest, k >= d[n] PROVE k \in ToSet(page)
      <3>1. PICK i \in 1 .. size : d[i] = k
        BY <1>2, <1>4
      <3>2. ~(n < i)
        <4>1. n < i => d[n] > d[i]
          BY <1>2, <1>4, <2>1, <3>1
        <4>2. d[n] \in Int /\ d[i] = k /\ k \in Int /\ k >= d[n]
          BY <1>3, <2>3, <2>5, <3>1
        <4> HIDE DEF d
        <4> QED BY <4>1, <4>2
      <3>3. i \in 1 .. n
        BY <1>1, <1>4, <3>1, <3>2
      <3> QED BY <1>11, <3>1, <3>3
    <2> QED BY <1>8, <2>2, <2>3, <2>4, <2>5
  <1> QED BY <1>8, <1>10, <1>12, <1>13 DEF size, page, IsPage

\* A page continues the reading: what is got stays descending, and what was
\* listed first and is still listed is got or below the new cursor.
LEMMA PageContinues ==
  ASSUME NEW m \in Nat, NEW r \in Readings, RowsOf(r) \in SUBSET (1 .. m),
         NEW n \in 0 .. Cardinality(Below(RowsOf(r), r.cursor)),
         n = 0 => Cardinality(Below(RowsOf(r), r.cursor)) = 0,
         \A i, j \in DOMAIN r.got : i < j => r.got[i] > r.got[j],
         r.cursor = 0 => r.got = <<>>,
         \A i \in DOMAIN r.got : r.got[i] >= r.cursor,
         \A k \in r.atFirst \cap RowsOf(r) : r.cursor # 0 /\ k >= r.cursor => k \in ToSet(r.got),
         NEW next, next = PageOf(r, n)
  PROVE  /\ next = [r EXCEPT !.got = next.got, !.cursor = next.cursor, !.stage = next.stage]
         /\ next \in Readings
         /\ \A i, j \in DOMAIN next.got : i < j => next.got[i] > next.got[j]
         /\ next.stage = "next" =>
              next.cursor # 0 /\ \A i \in DOMAIN next.got : next.got[i] >= next.cursor
         /\ \A k \in r.atFirst \cap RowsOf(r) :
              next.stage = "done" \/ k >= next.cursor => k \in ToSet(next.got)
  <1> DEFINE kept == RowsOf(r)
             rest == Below(kept, r.cursor)
             page == SubSeq(Descending(rest), 1, n)
             more == n < Cardinality(rest)
  <1>1. /\ r.got \in Seq(Nat) /\ r.cursor \in Nat
    BY DEF Readings
  <1>2. rest \in SUBSET (1 .. m) /\ \A k \in rest : r.cursor # 0 => k < r.cursor
    BY DEF Below
  <1>3. /\ next.got = r.got \o page
        /\ next.cursor = IF more THEN Last(page) ELSE 0
        /\ next.stage = IF more THEN "next" ELSE "done"
        /\ next = [r EXCEPT !.got = next.got, !.cursor = next.cursor, !.stage = next.stage]
    BY DEF PageOf, NextCursor, Readings
  <1>4. /\ page \in Seq(rest)
        /\ \A i, j \in DOMAIN page : i < j => page[i] > page[j]
        /\ ~more => rest \subseteq ToSet(page)
        /\ more =>
              /\ Last(page) \in rest
              /\ \A i \in DOMAIN page : page[i] >= Last(page)
              /\ \A k \in rest : k >= Last(page) => k \in ToSet(page)
    <2> HIDE DEF rest
    <2>1. n \in 0 .. Cardinality(rest) /\ (n = 0 => Cardinality(rest) = 0)
      BY DEF rest
    <2>2. rest \in SUBSET (1 .. m)
      BY <1>2
    <2>3. IsPage(page, rest, ~more)
      BY <2>1, <2>2, PageIs, Zenon
    <2> HIDE DEF page, more
    <2> QED BY <2>3 DEF IsPage
  <1>5. kept \in SUBSET (1 .. m) /\ rest = {k \in kept : r.cursor = 0 \/ k < r.cursor}
    BY DEF Below
  <1> HIDE DEF kept, rest, page, more
  <1>6. \A k \in rest : k \in Nat /\ k # 0
    BY <1>2
  <1>7. page \in Seq(Nat) /\ next.got \in Seq(Nat) /\ next.cursor \in Nat
        /\ Len(next.got) = Len(r.got) + Len(page)
    <2>1. page \in Seq(Nat)
      BY <1>4, <1>6
    <2> QED BY <1>1, <1>3, <1>4, <1>6, <2>1, ConcatIs
  <1>8. /\ \A i \in 1 .. Len(r.got) : next.got[i] = r.got[i]
        /\ \A i \in 1 .. Len(next.got) : i > Len(r.got) =>
             /\ next.got[i] = page[i - Len(r.got)]
             /\ i - Len(r.got) \in 1 .. Len(page)
    <2>1. r.got \in Seq(Nat) /\ page \in Seq(Nat) /\ next.got = r.got \o page
      BY <1>1, <1>3, <1>7
    <2> QED BY <2>1, ConcatIs
  <1>9. /\ DOMAIN next.got = 1 .. Len(next.got) /\ DOMAIN r.got = 1 .. Len(r.got)
        /\ DOMAIN page = 1 .. Len(page) /\ Len(r.got) \in Nat /\ Len(page) \in Nat
    BY <1>1, <1>7
  <1>10. /\ \A i \in 1 .. Len(page) : page[i] \in rest
         /\ \A i \in 1 .. Len(r.got) : r.got[i] \in Nat
    BY <1>1, <1>4
  <1>11. ASSUME NEW i \in 1 .. Len(next.got), NEW j \in 1 .. Len(next.got), i < j
         PROVE  next.got[i] > next.got[j]
    <2>1. CASE j <= Len(r.got)
      <3>1. i \in 1 .. Len(r.got) /\ j \in 1 .. Len(r.got)
        BY <1>9, <1>11, <2>1
      <3> QED BY <1>8, <1>9, <1>11, <3>1
    <2>2. CASE i > Len(r.got)
      <3> DEFINE p == i - Len(r.got)
                 q == j - Len(r.got)
      <3>1. p \in 1 .. Len(page) /\ q \in 1 .. Len(page) /\ p < q
            /\ next.got[i] = page[p] /\ next.got[j] = page[q]
        <4>1. i \in Int /\ j \in Int /\ j > Len(r.got) /\ p < q
          BY <1>7, <1>9, <1>11, <2>2
        <4> QED BY <1>8, <2>2, <4>1
      <3> HIDE DEF p, q
      <3> QED BY <1>4, <1>9, <3>1
    <2>3. CASE i <= Len(r.got) /\ j > Len(r.got)
      <3>1. i \in 1 .. Len(r.got)
        BY <1>9, <2>3
      <3> DEFINE q == j - Len(r.got)
      <3>2. q \in 1 .. Len(page) /\ next.got[j] = page[q] /\ next.got[i] = r.got[i]
        BY <1>8, <2>3, <3>1
      <3> HIDE DEF q
      <3>3. page[q] \in rest /\ r.cursor # 0
        BY <1>9, <1>10, <3>1, <3>2
      <3>4. page[q] \in Nat /\ page[q] < r.cursor /\ r.got[i] >= r.cursor /\ r.got[i] \in Nat
        BY <1>2, <1>6, <1>9, <1>10, <3>1, <3>3
      <3> QED BY <1>1, <3>2, <3>4
    <2> QED BY <1>7, <1>9, <2>1, <2>2, <2>3
  <1>12. ASSUME more
         PROVE  /\ next.cursor # 0
                /\ \A i \in 1 .. Len(next.got) : next.got[i] >= next.cursor
    <2>1. next.cursor = Last(page) /\ next.cursor \in rest /\ next.cursor \in Nat
      BY <1>3, <1>4, <1>7, <1>12
    <2>2. next.cursor # 0
      BY <1>6, <2>1
    <2>3. ASSUME NEW i \in 1 .. Len(next.got) PROVE next.got[i] >= next.cursor
      <3>1. CASE i > Len(r.got)
        BY <1>4, <1>8, <1>9, <1>12, <2>1, <3>1
      <3>2. CASE i <= Len(r.got)
        <4>1. i \in 1 .. Len(r.got)
          BY <1>9, <3>2
        <4>2. r.cursor # 0 /\ next.got[i] = r.got[i] /\ r.got[i] >= r.cursor /\ r.got[i] \in Nat
          BY <1>8, <1>9, <1>10, <4>1
        <4>3. next.cursor < r.cursor
          BY <1>2, <2>1, <4>2
        <4> QED BY <1>1, <2>1, <4>2, <4>3
      <3> QED BY <1>9, <3>1, <3>2
    <2> QED BY <2>2, <2>3
  <1>13. ToSet(page) \subseteq ToSet(next.got) /\ ToSet(r.got) \subseteq ToSet(next.got)
    <2>1. ASSUME NEW i \in 1 .. Len(page) PROVE page[i] \in ToSet(next.got)
      <3> DEFINE j == i + Len(r.got)
      <3>1. j \in 1 .. Len(next.got) /\ j > Len(r.got) /\ j - Len(r.got) = i
        BY <1>7, <1>9
      <3> HIDE DEF j
      <3>2. next.got[j] = page[i]
        BY <1>8, <3>1
      <3> QED BY <1>9, <3>1, <3>2 DEF ToSet
    <2>2. ASSUME NEW i \in 1 .. Len(r.got) PROVE r.got[i] \in ToSet(next.got)
      <3>1. i \in 1 .. Len(next.got)
        BY <1>7, <1>9
      <3> QED BY <1>8, <1>9, <3>1 DEF ToSet
    <2> QED BY <1>9, <2>1, <2>2 DEF ToSet
  <1>14. ASSUME NEW k \in r.atFirst \cap kept, next.stage = "done" \/ k >= next.cursor
         PROVE  k \in ToSet(next.got)
    <2>1. k \in Nat /\ (k \in rest \/ (r.cursor # 0 /\ k >= r.cursor))
      <3>1. k \in kept
        OBVIOUS
      <3>2. k \in 1 .. m
        BY <1>5, <3>1, Zenon
      <3>3. k \in Nat
        BY <3>2
      <3> QED BY <1>1, <1>5, <3>1, <3>3
    <2>2. CASE k \in rest
      BY <1>3, <1>4, <1>13, <1>14, <2>2
    <2>3. CASE r.cursor # 0 /\ k >= r.cursor
      BY <1>13, <2>3 DEF kept
    <2> QED BY <2>1, <2>2, <2>3
  <1>15. next \in Readings
    BY <1>3, <1>7 DEF Readings
  <1> QED BY <1>3, <1>9, <1>11, <1>12, <1>14, <1>15 DEF kept

-----------------------------------------------------------------------------
(* What a mutation does to the rows.                                       *)

\* A case that is resolved has an end that is terminal.
LEMMA ResolvedEnds ==
  ASSUME IndInv, [Next]_vars, NEW case \in cases, case.state = "open",
         NEW p \in cases', SameAssessment(p, case), p.state = "resolved"
  PROVE  status'[case.source] \in Terminal \/ status'[case.target] \in Terminal
  <1>0. /\ cases \in SUBSET CaseRows /\ NextCommitSeq \in Nat
        /\ status \in [Claims -> Statuses]
        /\ \A x \in cases : SameAssessment(x, case) => x = case
    BY LedgerAssumption DEF IndInv, TypeOK, NextCommitSeq, CasesDistinct
  <1>1. \A x : SameAssessment(p, x) => SameAssessment(x, case)
    BY DEF SameAssessment
  <1>2. ASSUME NEW c \in Claims, NEW state \in {"stale", "resolved"},
               p \in TransitionOpenConflicts(cases, c, state, NextCommitSeq)
        PROVE  state = "resolved" /\ c \in Ends(case)
    <2>1. PICK x \in cases : ComesFrom(p, x, x \in Touching(cases, c), state, NextCommitSeq)
      BY <1>0, <1>2, TransitionOrigin
    <2>2. x = case
      BY <1>0, <1>1, <2>1 DEF ComesFrom, SameOpening
    <2> QED BY <2>1, <2>2 DEF ComesFrom, Touching
  <1>3. ASSUME NEW ambient, NEW key, NEW c \in Claims, NEW ifRevision,
               ClaimRevise(c, ifRevision, ambient, key)
        PROVE  FALSE
    <2>1. \A new \in FreshAssessments(c, [head EXCEPT ![c] = head[c] + 1], NextCommitSeq) :
            new.state = "open"
      BY DEF FreshAssessments, Assessment
    <2>2. p \in TransitionOpenConflicts(cases, c, "stale", NextCommitSeq)
      BY <1>3, <2>1 DEF ClaimRevise, OpenAssessments
    <2> QED BY <1>2, <2>2
  <1>4. ASSUME NEW c \in Claims, NEW to \in Terminal, NEW affected,
               cases' = TransitionOpenConflicts(cases, c, "resolved", NextCommitSeq),
               status' = RecomputeClaimStatuses([status EXCEPT ![c] = to], affected, cases', head)
        PROVE  status'[case.source] \in Terminal \/ status'[case.target] \in Terminal
    <2> DEFINE st == [status EXCEPT ![c] = to]
    <2>1. st \in [Claims -> Statuses] /\ st[c] = to /\ to \notin Live
          /\ status' = RecomputeClaimStatuses(st, affected, cases', head)
      BY <1>0, <1>4 DEF Statuses, Terminal, Live
    <2> HIDE DEF st
    <2>2. status'[c] = to
      BY <2>1, RecomputeKeepsLife
    <2>3. c \in Ends(case)
      BY <1>2, <1>4
    <2> QED BY <2>2, <2>3 DEF Ends
  <1>5. ASSUME NEW ambient, NEW key, NEW c \in Claims, ClaimRetract(c, ambient, key)
        PROVE  status'[case.source] \in Terminal \/ status'[case.target] \in Terminal
    BY <1>4, <1>5 DEF ClaimRetract, Terminal
  <1>6. ASSUME NEW ambient, NEW key, NEW s \in Claims, NEW t \in Claims,
               RelationSupersedes(s, t, ambient, key)
        PROVE  status'[case.source] \in Terminal \/ status'[case.target] \in Terminal
    BY <1>4, <1>6 DEF RelationSupersedes, Terminal
  <1>7. ASSUME NEW ambient, NEW key, NEW s \in Claims, NEW t \in Claims,
               RelationContradicts(s, t, ambient, key)
        PROVE  FALSE
    <2>1. Assessment(s, t, head, NextCommitSeq).state = "open"
      BY DEF Assessment
    <2>2. p \in cases
      BY <1>7, <2>1 DEF RelationContradicts, OpenAssessments
    <2> QED BY <1>0, <2>2
  <1>8. ASSUME cases' = cases PROVE FALSE
    BY <1>0, <1>8
  <1>9. ASSUME NEW ambient, NEW key, NEW s \in Claims, NEW t \in Claims, NEW kind,
               \/ ClaimAssert(s, ambient, key) \/ RelationExists(s, kind, t, ambient, key)
               \/ RelationOther(s, t, ambient, key) \/ UNCHANGED vars
        PROVE  cases' = cases
    BY <1>9 DEF ClaimAssert, RelationExists, RelationOther, vars
  <1> QED BY <1>3, <1>5, <1>6, <1>7, <1>8, <1>9 DEF Next, Call, vars

\* The assessments of finitely many claims are finitely many.
LEMMA AssessmentsFinite ==
  ASSUME NEW E, IsFiniteSet(E), NEW n \in Nat
  PROVE  IsFiniteSet([source : E, target : E, sourceRev : 1 .. n, targetRev : 1 .. n])
  <1> DEFINE T == [source : E, target : E, sourceRev : 1 .. n, targetRev : 1 .. n]
             S == (E \X E) \X ((1 .. n) \X (1 .. n))
             f == [x \in S |-> [source |-> x[1][1], target |-> x[1][2],
                                sourceRev |-> x[2][1], targetRev |-> x[2][2]]]
  <1>1. IsFiniteSet(S)
    <2>1. IsFiniteSet(1 .. n)
      BY FS_Interval
    <2>2. IsFiniteSet(E \X E) /\ IsFiniteSet((1 .. n) \X (1 .. n))
      BY <2>1, FS_Product
    <2> QED BY <2>2, FS_Product
  <1>2. f \in [S -> T]
    OBVIOUS
  <1>3. ASSUME NEW y \in T PROVE \E x \in S : f[x] = y
    <2> DEFINE x == <<<<y.source, y.target>>, <<y.sourceRev, y.targetRev>>>>
    <2>1. x \in S
      OBVIOUS
    <2>2. f[x] = y
      BY <2>1
    <2> QED BY <2>1, <2>2
  <1> HIDE DEF S, T, f
  <1>4. f \in Surjection(S, T)
    BY <1>2, <1>3 DEF Surjection
  <1>5. IsFiniteSet(T)
    BY <1>1, <1>4, FS_Surjection
  <1> QED BY <1>5 DEF T

\* Which case an assessment belongs to.
LEMMA CaseChosen ==
  ASSUME NEW cs, NEW case \in cs, \A p, q \in cs : SameAssessment(p, q) => p = q
  PROVE  (CHOOSE p \in cs : AssessmentOf(p) = AssessmentOf(case)) = case
  <1>1. \A p \in cs : AssessmentOf(p) = AssessmentOf(case) => SameAssessment(p, case)
    BY DEF AssessmentOf, SameAssessment
  <1> QED BY <1>1

\* The rows keep their numbers, and the order of the cases grows at its end.
LEMMA MutateNumbers ==
  ASSUME IndInv, IsFiniteSet({c \in Claims : Exists(c)}), RowsNumbered, Mutate,
         UNCHANGED feedback
  PROVE  /\ RowsNumbered'
         /\ Len(caseOrder) \in Nat /\ Len(caseOrder') \in Nat /\ Len(caseOrder) <= Len(caseOrder')
         /\ \A i \in DOMAIN caseOrder : i \in DOMAIN caseOrder' /\ caseOrder'[i] = caseOrder[i]
  <1> DEFINE A == {AssessmentOf(case) : case \in cases}
             B == {AssessmentOf(case) : case \in cases'}
             E == {c \in Claims : Exists(c)}'
             fresh == B \ ToSet(caseOrder)
  <1>1. /\ TypeOK /\ Next /\ commitSeq \in Nat /\ IndInv' /\ TypeOK'
        /\ commitSeq' \in {commitSeq, commitSeq + 1} /\ IsFiniteSet(E)
    BY MutateStore
  <1>2. B \subseteq [source : E, target : E, sourceRev : 1 .. MaxRevision, targetRev : 1 .. MaxRevision]
    <2> SUFFICES ASSUME NEW case \in cases'
                 PROVE  /\ case.source \in E /\ case.target \in E
                        /\ case.sourceRev \in 1 .. MaxRevision /\ case.targetRev \in 1 .. MaxRevision
      BY DEF AssessmentOf
    <2>1. case \in CaseRows
      BY <1>1 DEF TypeOK
    <2>2. PICK r \in relations' : SameRelation(r, case)
      BY <1>1 DEF IndInv, CasesGrounded
    <2>3. Exists(r.source)' /\ Exists(r.target)'
      BY <1>1, <2>2 DEF IndInv, EdgesGrounded
    <2> QED BY <2>1, <2>2, <2>3 DEF CaseRows, SameRelation, Exists
  <1>3. A \subseteq B
    <2> SUFFICES ASSUME NEW case \in cases
                 PROVE  \E p \in cases' : AssessmentOf(p) = AssessmentOf(case)
      OBVIOUS
    <2>1. CaseKept(case) /\ case \in CaseRows
      BY <1>1, CaseStays DEF TypeOK
    <2>2. \A state, seq : AssessmentOf(Close(case, state, seq)) = AssessmentOf(case)
      BY <2>1 DEF AssessmentOf, Close, CaseRows
    <2> QED BY <2>1, <2>2 DEF CaseKept
  <1>4. PICK order \in SetToSeqs(fresh) : caseOrder' = caseOrder \o order
    BY DEF Mutate, OrderNewCases
  <1>5. caseOrder \in Seq(A) /\ \A case \in cases : \E i \in DOMAIN caseOrder : caseOrder[i] = AssessmentOf(case)
    BY DEF RowsNumbered
  <1>6. \A case \in cases' : AssessmentOf(case) \in B
    OBVIOUS
  <1> HIDE DEF A, B, E
  <1>7. IsFiniteSet(fresh)
    <2>1. MaxRevision \in Nat
      BY ClaimsAssumption
    <2>2. IsFiniteSet(B)
      BY <1>1, <1>2, <2>1, AssessmentsFinite, FS_Subset
    <2> QED BY <2>2, FS_Subset
  <1>8. order \in Seq(B) /\ \A x \in fresh : \E i \in DOMAIN order : order[i] = x
    <2> HIDE DEF fresh
    <2>1. order \in Seq(fresh) /\ \A x \in fresh : \E i \in DOMAIN order : order[i] = x
      BY <1>4, <1>7, Permuted
    <2>2. fresh \subseteq B
      BY DEF fresh
    <2> QED BY <2>1, <2>2
  <1>9. caseOrder \in Seq(B)
    BY <1>3, <1>5
  <1>10. /\ caseOrder' \in Seq(B) /\ Len(caseOrder') = Len(caseOrder) + Len(order)
         /\ \A i \in 1 .. Len(caseOrder) : caseOrder'[i] = caseOrder[i]
         /\ \A i \in 1 .. Len(caseOrder') : i > Len(caseOrder) =>
              caseOrder'[i] = order[i - Len(caseOrder)]
    BY <1>4, <1>8, <1>9, ConcatIs
  <1>11. /\ Len(caseOrder) \in Nat /\ Len(order) \in Nat
         /\ DOMAIN caseOrder = 1 .. Len(caseOrder) /\ DOMAIN order = 1 .. Len(order)
         /\ DOMAIN caseOrder' = 1 .. Len(caseOrder')
    BY <1>8, <1>9, <1>10
  <1>12. ASSUME NEW x \in B PROVE \E i \in DOMAIN caseOrder' : caseOrder'[i] = x
    <2>1. CASE x \in ToSet(caseOrder)
      <3>1. PICK i \in 1 .. Len(caseOrder) : caseOrder[i] = x
        BY <1>11, <2>1 DEF ToSet
      <3>2. i \in 1 .. Len(caseOrder') /\ caseOrder'[i] = x
        BY <1>10, <1>11, <3>1
      <3> QED BY <1>11, <3>2
    <2>2. CASE x \notin ToSet(caseOrder)
      <3>1. PICK i \in 1 .. Len(order) : order[i] = x
        BY <1>8, <1>11, <2>2
      <3> DEFINE j == i + Len(caseOrder)
      <3>2. j \in 1 .. Len(caseOrder') /\ j > Len(caseOrder) /\ j - Len(caseOrder) = i
        BY <1>10, <1>11, <3>1
      <3> HIDE DEF j
      <3> QED BY <1>10, <1>11, <3>1, <3>2
    <2> QED BY <2>1, <2>2
  <1>13. ASSUME NEW r \in relations' PROVE r.seq \in 1 .. commitSeq'
    <2>1. r.seq \in Nat /\ r.seq <= commitSeq'
      BY <1>1 DEF IndInv, TypeOK, RelationRows, EdgesGrounded
    <2>2. r.seq >= 1
      <3>1. r \in relations \/ r.seq = commitSeq + 1
        BY <1>1, RelationsFrom
      <3> QED BY <1>1, <3>1 DEF RowsNumbered
    <2> QED BY <1>1, <2>1, <2>2
  <1>14. \A f \in feedback' : f.seq \in 1 .. commitSeq'
    BY <1>1 DEF RowsNumbered
  <1>15. RowsNumbered'
    <2>1. caseOrder' \in Seq({AssessmentOf(case) : case \in cases'})
      BY <1>10 DEF B
    <2> QED BY <1>6, <1>12, <1>13, <1>14, <2>1 DEF RowsNumbered, AssessmentOf
  <1> QED BY <1>10, <1>11, <1>15

\* The case at a place of the order, before and after a mutation.
LEMMA CaseAtPlace ==
  ASSUME IndInv, IndInv', RowsNumbered, Next, NEW i \in DOMAIN caseOrder,
         caseOrder'[i] = caseOrder[i]
  PROVE  /\ CaseAt(i) \in cases /\ AssessmentOf(CaseAt(i)) = caseOrder[i]
         /\ CaseAt(i)' \in cases' /\ AssessmentOf(CaseAt(i)') = caseOrder[i]
         /\ \/ CaseAt(i)' = CaseAt(i)
            \/ CaseAt(i).state = "open" /\ CaseAt(i)'.state \in {"stale", "resolved"}
  <1>1. PICK case \in cases : caseOrder[i] = AssessmentOf(case)
    <2>1. caseOrder \in Seq({AssessmentOf(case) : case \in cases})
      BY DEF RowsNumbered
    <2>2. caseOrder[i] \in {AssessmentOf(case) : case \in cases}
      BY <2>1
    <2> QED BY <2>2
  <1>2. /\ \A p, q \in cases : SameAssessment(p, q) => p = q
        /\ \A p, q \in cases' : SameAssessment(p, q) => p = q
    BY DEF IndInv, CasesDistinct
  <1>3. CaseKept(case) /\ case \in CaseRows
    BY CaseStays DEF IndInv, TypeOK
  <1>4. ASSUME NEW p \in cases', AssessmentOf(p) = AssessmentOf(case)
        PROVE  CaseAt(i)' = p
    <2>1. (CHOOSE q \in cases' : AssessmentOf(q) = AssessmentOf(p)) = p
      BY <1>2, CaseChosen
    <2> QED BY <1>1, <1>4, <2>1, Zenon DEF CaseAt
  <1>5. CaseAt(i) = case
    <2>1. (CHOOSE q \in cases : AssessmentOf(q) = AssessmentOf(case)) = case
      BY <1>2, CaseChosen
    <2> QED BY <1>1, <2>1, Zenon DEF CaseAt
  <1>6. ASSUME NEW state \in {"stale", "resolved"}, NEW seq, Close(case, state, seq) \in cases'
        PROVE  /\ CaseAt(i)' = Close(case, state, seq) /\ CaseAt(i)'.state = state
               /\ AssessmentOf(CaseAt(i)') = AssessmentOf(case)
    <2>1. /\ AssessmentOf(Close(case, state, seq)) = AssessmentOf(case)
          /\ Close(case, state, seq).state = state
      BY <1>3 DEF AssessmentOf, Close, CaseRows
    <2> QED BY <1>4, <1>6, <2>1
  <1> QED BY <1>1, <1>3, <1>4, <1>5, <1>6 DEF CaseKept

-----------------------------------------------------------------------------
(* The rows a reading lists.                                               *)

\* What tells two readings' rows apart.
SameList(q, r) ==
  /\ q.list = r.list /\ q.about = r.about /\ q.ambient = r.ambient
  /\ q.horizon = r.horizon /\ q.includeStale = r.includeStale

\* What a list answers depends on nothing of its reading but which list it is.
LEMMA ListDecides ==
  ASSUME NEW q, NEW r, SameList(q, r)
  PROVE  RowsOf(q) = RowsOf(r) /\ Newest(q) = Newest(r)
  <1>1. ConflictRowsOf(q) = ConflictRowsOf(r)
    BY DEF SameList, ConflictRowsOf, ListedStates
  <1>2. /\ RelationRowsOf(q) = RelationRowsOf(r) /\ HistoryRowsOf(q) = HistoryRowsOf(r)
        /\ FeedbackRowsOf(q) = FeedbackRowsOf(r) /\ ExportRowsOf(q) = ExportRowsOf(r)
    BY DEF SameList, RelationRowsOf, HistoryRowsOf, FeedbackRowsOf, ExportRowsOf
  <1> QED BY <1>1, <1>2 DEF SameList, RowsOf, Newest

\* The disputes that were there at a commit and are still in sight.
DisputedSince(since, ambient, horizon) ==
  {<<e.source, e.target>> : e \in {f \in relations :
     /\ f.kind = "contradicts" /\ f.seq <= since
     /\ {status[f.source], status[f.target]} \subseteq Live
     /\ EdgeInHorizon(ambient, horizon, f.source, f.kind, f.target)}}

\* A page changes no row.
LEMMA RowsUnchanged ==
  ASSUME UNCHANGED <<storeVars, feedback>>, NEW r, SameList(reading', r), reading'.since = r.since
  PROVE  /\ RowsOf(reading)' = RowsOf(r) /\ Newest(reading)' = Newest(r)
         /\ DisputedThroughout' = DisputedSince(r.since, r.ambient, r.horizon)
  <1>1. /\ UNCHANGED <<head, status, owner, relations, cases, commitSeq, recordedIn, caseOrder>>
        /\ UNCHANGED feedback
    BY DEF storeVars, vars
  <1>2. ConflictRowsOf(reading)' = ConflictRowsOf(r)
    <2>1. \A i : CaseAt(i)' = CaseAt(i)
      BY <1>1 DEF CaseAt
    <2> QED BY <1>1, <2>1 DEF SameList, ConflictRowsOf, ListedStates, EdgeInHorizon, InHorizon
  <1>3. RelationRowsOf(reading)' = RelationRowsOf(r)
    BY <1>1 DEF SameList, RelationRowsOf, EdgeInHorizon, InHorizon
  <1>4. /\ HistoryRowsOf(reading)' = HistoryRowsOf(r)
        /\ FeedbackRowsOf(reading)' = FeedbackRowsOf(r) /\ ExportRowsOf(reading)' = ExportRowsOf(r)
    BY <1>1 DEF SameList, HistoryRowsOf, FeedbackRowsOf, ExportRowsOf, InWriteScope
  <1>5. RowsOf(reading)' = RowsOf(r)
    BY <1>2, <1>3, <1>4 DEF SameList, RowsOf
  <1>6. Newest(reading)' = Newest(r)
    BY <1>1 DEF SameList, Newest
  <1>7. DisputedThroughout' = DisputedSince(r.since, r.ambient, r.horizon)
    BY <1>1 DEF SameList, DisputedThroughout, DisputedSince, EdgeInHorizon, InHorizon
  <1> QED BY <1>5, <1>6, <1>7

\* Rows are numbered from one up to the newest of their list.
LEMMA RowsBounded ==
  ASSUME IndInv, RowsNumbered, NEW r \in Readings
  PROVE  Newest(r) \in Nat /\ RowsOf(r) \in SUBSET (1 .. Newest(r))
  <1>1. /\ commitSeq \in Nat /\ r.about \in Claims /\ head[r.about] \in Nat
        /\ r.list \in {"relations", "conflicts", "history", "feedback", "export"}
    BY LedgerAssumption, ClaimsAssumption
       DEF IndInv, TypeOK, Readings, Lists, ScopedLists
  <1>2. Len(caseOrder) \in Nat /\ DOMAIN caseOrder = 1 .. Len(caseOrder)
    BY DEF RowsNumbered
  <1>3. RelationRowsOf(r) \subseteq 1 .. commitSeq
    BY DEF RelationRowsOf, RowsNumbered
  <1>4. FeedbackRowsOf(r) \subseteq 1 .. commitSeq /\ ExportRowsOf(r) \subseteq 1 .. commitSeq
    BY DEF FeedbackRowsOf, ExportRowsOf, RowsNumbered
  <1>5. ConflictRowsOf(r) \subseteq 1 .. Len(caseOrder)
    BY <1>2 DEF ConflictRowsOf
  <1> QED BY <1>1, <1>2, <1>3, <1>4, <1>5 DEF RowsOf, Newest, HistoryRowsOf

\* A relation that was there was in sight of who sees it now.
LEMMA InSightBefore ==
  ASSUME Mutate, NEW r \in relations, NEW ambient, NEW horizon,
         \E row \in recordedIn' :
           /\ row[1] = r.source /\ row[2] = r.kind /\ row[3] = r.target
           /\ InHorizon(ambient, horizon, row[4])
  PROVE  EdgeInHorizon(ambient, horizon, r.source, r.kind, r.target)
  BY RecordedFrom DEF EdgeInHorizon

\* A mutation lists rows only above those that were there; what it takes from
\* a list does not come back.
LEMMA RowsWere ==
  ASSUME IndInv, IsFiniteSet({c \in Claims : Exists(c)}), RowsNumbered, Mutate,
         UNCHANGED <<feedback, reading>>, reading \in Readings
  PROVE  /\ Newest(reading)' \in Nat /\ Newest(reading) <= Newest(reading)'
         /\ \A k \in RowsOf(reading)' : k <= Newest(reading) => k \in RowsOf(reading)
  <1>1. /\ TypeOK /\ Next /\ commitSeq \in Nat /\ IndInv' /\ TypeOK'
        /\ commitSeq' \in {commitSeq, commitSeq + 1}
    BY MutateStore
  <1>2. /\ Len(caseOrder) \in Nat /\ Len(caseOrder') \in Nat /\ Len(caseOrder) <= Len(caseOrder')
        /\ DOMAIN caseOrder = 1 .. Len(caseOrder)
        /\ \A i \in DOMAIN caseOrder : i \in DOMAIN caseOrder' /\ caseOrder'[i] = caseOrder[i]
        /\ DOMAIN caseOrder' = 1 .. Len(caseOrder')
    BY MutateNumbers DEF RowsNumbered
  <1>3. /\ reading.about \in Claims /\ head[reading.about] \in Nat /\ head'[reading.about] \in Nat
        /\ head[reading.about] <= head'[reading.about]
        /\ reading.list \in {"relations", "conflicts", "history", "feedback", "export"}
    BY <1>1, HeadsFrom, ClaimsAssumption DEF TypeOK, Readings, Lists, ScopedLists
  <1>4. reading' = reading /\ feedback' = feedback
    OBVIOUS
  <1>5. Newest(reading)' \in Nat /\ Newest(reading) <= Newest(reading)'
    BY <1>1, <1>2, <1>3, <1>4 DEF Newest
  <1>6. ASSUME NEW k \in RelationRowsOf(reading)', k <= commitSeq
        PROVE  k \in RelationRowsOf(reading)
    <2>1. PICK r \in relations' :
            /\ k = r.seq /\ reading.about \in {r.source, r.target}
            /\ \E row \in recordedIn' :
                 /\ row[1] = r.source /\ row[2] = r.kind /\ row[3] = r.target
                 /\ InHorizon(reading.ambient, reading.horizon, row[4])
      BY <1>4, <1>6 DEF RelationRowsOf, EdgeInHorizon, InHorizon
    <2>2. r \in relations
      BY <1>1, <1>6, <2>1, RelationsFrom
    <2>3. EdgeInHorizon(reading.ambient, reading.horizon, r.source, r.kind, r.target)
      BY <2>1, <2>2, InSightBefore
    <2> QED BY <2>1, <2>2, <2>3 DEF RelationRowsOf
  <1>7. ASSUME NEW i \in ConflictRowsOf(reading)', i <= Len(caseOrder)
        PROVE  i \in ConflictRowsOf(reading)
    <2> DEFINE case == CaseAt(i)'
    <2>1. /\ i \in DOMAIN caseOrder' /\ case.state \in ListedStates(reading)
          /\ \E row \in recordedIn' :
               /\ row[1] = case.source /\ row[2] = "contradicts" /\ row[3] = case.target
               /\ InHorizon(reading.ambient, reading.horizon, row[4])
      BY <1>4, <1>7 DEF ConflictRowsOf, EdgeInHorizon, InHorizon, ListedStates
    <2>2. i \in DOMAIN caseOrder
      BY <1>2, <1>7, <2>1
    <2>3. /\ CaseAt(i) \in cases /\ AssessmentOf(CaseAt(i)) = AssessmentOf(case)
          /\ case = CaseAt(i) \/ CaseAt(i).state = "open"
      BY <1>1, <1>2, <2>2, CaseAtPlace
    <2> HIDE DEF case
    <2>4. CaseAt(i).source = case.source /\ CaseAt(i).target = case.target
      BY <2>3 DEF AssessmentOf
    <2>5. PICK r \in relations : r.kind = "contradicts" /\ SameRelation(r, CaseAt(i))
      BY <2>3 DEF IndInv, CasesGrounded
    <2>6. EdgeInHorizon(reading.ambient, reading.horizon, CaseAt(i).source, "contradicts", CaseAt(i).target)
      BY <2>1, <2>4, <2>5, InSightBefore DEF SameRelation
    <2>7. CaseAt(i).state \in ListedStates(reading)
      BY <2>1, <2>3 DEF ListedStates
    <2> QED BY <2>2, <2>6, <2>7 DEF ConflictRowsOf
  <1>8. ASSUME NEW k \in HistoryRowsOf(reading)', k <= head[reading.about]
        PROVE  k \in HistoryRowsOf(reading)
    BY <1>3, <1>4, <1>8 DEF HistoryRowsOf
  <1>9. FeedbackRowsOf(reading)' = FeedbackRowsOf(reading) /\ ExportRowsOf(reading)' = ExportRowsOf(reading)
    BY <1>4 DEF FeedbackRowsOf, ExportRowsOf, InWriteScope
  <1> QED BY <1>3, <1>4, <1>5, <1>6, <1>7, <1>8, <1>9 DEF RowsOf, Newest

\* A dispute that lasts keeps its row, although the case of the row may have
\* gone stale.
LEMMA DisputesKeepRows ==
  ASSUME IndInv, IsFiniteSet({c \in Claims : Exists(c)}), RowsNumbered, Mutate,
         UNCHANGED <<feedback, reading>>, reading \in Readings, reading.since <= commitSeq,
         reading.list = "conflicts", reading.includeStale,
         \A pair \in DisputedThroughout : \E i \in reading.atFirst \cap RowsOf(reading) :
           pair = <<caseOrder[i].source, caseOrder[i].target>>
  PROVE  \A pair \in DisputedThroughout' : \E i \in reading.atFirst \cap RowsOf(reading)' :
           pair = <<caseOrder'[i].source, caseOrder'[i].target>>
  <1> SUFFICES ASSUME NEW pair \in DisputedThroughout'
               PROVE  \E i \in reading.atFirst \cap RowsOf(reading)' :
                        pair = <<caseOrder'[i].source, caseOrder'[i].target>>
    OBVIOUS
  <1>0. reading' = reading
    OBVIOUS
  <1>1. /\ TypeOK /\ Next /\ commitSeq \in Nat /\ IndInv' /\ TypeOK'
    BY MutateStore
  <1>2. \A i \in DOMAIN caseOrder : i \in DOMAIN caseOrder' /\ caseOrder'[i] = caseOrder[i]
    BY MutateNumbers
  <1>3. PICK r \in relations' :
          /\ pair = <<r.source, r.target>> /\ r.kind = "contradicts" /\ r.seq <= reading.since
          /\ status'[r.source] \in Live /\ status'[r.target] \in Live
          /\ \E row \in recordedIn' :
               /\ row[1] = r.source /\ row[2] = r.kind /\ row[3] = r.target
               /\ InHorizon(reading.ambient, reading.horizon, row[4])
    BY <1>0 DEF DisputedThroughout, EdgeInHorizon, InHorizon
  <1>4. r \in relations
    <2>1. reading.since \in Nat
      BY DEF Readings
    <2> QED BY <1>1, <1>3, <2>1, RelationsFrom
  <1>5. /\ r.source \in Claims /\ r.target \in Claims
        /\ Exists(r.source) /\ Exists(r.target)
    BY <1>4 DEF IndInv, TypeOK, RelationRows, EdgesGrounded
  <1>6. status[r.source] \in Live /\ status[r.target] \in Live
    <2>1. Finality
      BY <1>1, TerminalStep
    <2> QED BY <1>1, <1>3, <1>5, <2>1 DEF Finality, TypeOK, Statuses, Exists, Live, Terminal
  <1>7. EdgeInHorizon(reading.ambient, reading.horizon, r.source, r.kind, r.target)
    BY <1>3, <1>4, InSightBefore
  <1>8. pair \in DisputedThroughout
    BY <1>3, <1>4, <1>6, <1>7 DEF DisputedThroughout
  <1>9. PICK i \in reading.atFirst \cap RowsOf(reading) :
          pair = <<caseOrder[i].source, caseOrder[i].target>>
    BY <1>8
  <1>10. i \in DOMAIN caseOrder /\ CaseAt(i).state \in ListedStates(reading)
    BY <1>9 DEF RowsOf, ConflictRowsOf
  <1>11. i \in DOMAIN caseOrder' /\ caseOrder'[i] = caseOrder[i]
    BY <1>2, <1>10
  <1>12. /\ CaseAt(i) \in cases /\ AssessmentOf(CaseAt(i)) = caseOrder[i]
         /\ CaseAt(i)' \in cases' /\ AssessmentOf(CaseAt(i)') = caseOrder[i]
         /\ \/ CaseAt(i)' = CaseAt(i)
            \/ CaseAt(i).state = "open" /\ CaseAt(i)'.state \in {"stale", "resolved"}
    BY <1>1, <1>10, <1>11, CaseAtPlace
  <1> DEFINE case == CaseAt(i)
             after == CaseAt(i)'
  <1>13. /\ case.source = r.source /\ case.target = r.target
         /\ after.source = r.source /\ after.target = r.target
         /\ SameAssessment(after, case)
    BY <1>3, <1>9, <1>12 DEF AssessmentOf, SameAssessment
  <1>14. after.state \in {"open", "stale"}
    <2>1. CASE after = case
      BY <1>10, <2>1 DEF ListedStates
    <2>2. CASE after # case
      <3> HIDE DEF case, after
      <3>1. case \in cases /\ after \in cases' /\ case.state = "open" /\ after.state \in {"stale", "resolved"}
        BY <1>12, <2>2 DEF case, after
      <3>2. ~(status'[case.source] \in Terminal \/ status'[case.target] \in Terminal)
        BY <1>3, <1>13 DEF Live, Terminal
      <3>3. after.state # "resolved"
        BY <1>1, <1>13, <3>1, <3>2, ResolvedEnds
      <3> QED BY <3>1, <3>3
    <2> QED BY <2>1, <2>2
  <1>15. i \in RowsOf(reading)'
    <2>1. reading'.list = "conflicts" /\ reading'.includeStale
      BY <1>0
    <2>2. \E row \in recordedIn' :
           /\ row[1] = after.source /\ row[2] = "contradicts" /\ row[3] = after.target
           /\ InHorizon(reading.ambient, reading.horizon, row[4])
      BY <1>3, <1>13
    <2>3. i \in ConflictRowsOf(reading)'
      BY <1>0, <1>11, <1>14, <2>1, <2>2 DEF ConflictRowsOf, ListedStates, EdgeInHorizon, InHorizon
    <2> QED BY <2>1, <2>3 DEF RowsOf
  <1> QED BY <1>9, <1>11, <1>15

-----------------------------------------------------------------------------
(* The steps of a reading.                                                 *)

\* A reading that has not begun is on course.
LEMMA PagesStart == PagesInit => PagesInv
  <1> SUFFICES ASSUME PagesInit PROVE PagesInv
    OBVIOUS
  <1>1. Init /\ caseOrder = <<>> /\ feedback = {} /\ reading.stage = "idle"
    BY DEF PagesInit, StoreInit
  <1>2. IndInv
    BY <1>1, InitInv
  <1>3. {c \in Claims : Exists(c)} = {}
    BY <1>1 DEF Init, Exists
  <1>4. RowsNumbered
    BY <1>1 DEF RowsNumbered, Init
  <1> QED BY <1>1, <1>2, <1>3, <1>4, FS_EmptySet DEF PagesInv, ReadingOnCourse

\* What others commit between the pages.
LEMMA MutateKeepsCourse == PagesInv /\ MutateDuringReading => PagesInv'
  <1> SUFFICES ASSUME PagesInv, MutateDuringReading PROVE PagesInv'
    OBVIOUS
  <1>0. /\ IndInv /\ IsFiniteSet({c \in Claims : Exists(c)}) /\ RowsNumbered /\ Mutate
        /\ UNCHANGED <<feedback, reading>> /\ reading' = reading
    BY DEF PagesInv, MutateDuringReading
  <1>1. /\ IndInv' /\ IsFiniteSet({c \in Claims : Exists(c)})' /\ RowsNumbered'
        /\ commitSeq \in Nat /\ commitSeq' \in {commitSeq, commitSeq + 1}
    BY <1>0, MutateStore, MutateNumbers
  <1>2. ASSUME reading.stage # "idle" PROVE ReadingOnCourse'
    <2>1. /\ reading \in Readings /\ reading.since <= commitSeq /\ reading.since \in Nat
          /\ reading.atFirst \subseteq 1 .. Newest(reading)
      BY <1>2 DEF PagesInv, ReadingOnCourse, Readings
    <2>2. /\ Newest(reading) \in Nat /\ Newest(reading)' \in Nat /\ Newest(reading) <= Newest(reading)'
          /\ \A k \in RowsOf(reading)' : k <= Newest(reading) => k \in RowsOf(reading)
      BY <1>0, <2>1, RowsWere, RowsBounded
    <2>3. reading'.since <= commitSeq' /\ reading'.atFirst \subseteq 1 .. Newest(reading)'
      BY <1>0, <1>1, <2>1, <2>2
    <2>4. reading.atFirst \cap RowsOf(reading)' \subseteq RowsOf(reading)
      BY <2>1, <2>2
    <2>5. reading.list = "conflicts" /\ reading.includeStale =>
            \A pair \in DisputedThroughout' : \E i \in reading.atFirst \cap RowsOf(reading)' :
              pair = <<caseOrder'[i].source, caseOrder'[i].target>>
      BY <1>0, <1>2, <2>1, DisputesKeepRows DEF PagesInv, ReadingOnCourse
    <2> QED BY <1>0, <1>2, <2>1, <2>3, <2>4, <2>5 DEF PagesInv, ReadingOnCourse
  <1>3. CASE reading.stage = "idle"
    BY <1>0, <1>1, <1>3 DEF PagesInv, ReadingOnCourse
  <1> QED BY <1>1, <1>2, <1>3 DEF PagesInv

\* Feedback spends a commit and touches no claim.
LEMMA FeedbackKeepsTables ==
  ASSUME IndInv, FeedbackRecord
  PROVE  IndInv' /\ commitSeq \in Nat /\ commitSeq' = commitSeq + 1
  <1>1. /\ UNCHANGED <<head, status, owner, relations, cases>>
        /\ commitSeq' = commitSeq + 1 /\ idempotency' = idempotency /\ commitSeq < MaxSeq
    BY DEF FeedbackRecord, claimVars, Commit, RecordIdempotency, MaySpendSeq, NextCommitSeq
  <1>2. commitSeq \in 0 .. MaxSeq /\ MaxSeq \in Nat /\ commitSeq' \in 0 .. MaxSeq
    BY <1>1, LedgerAssumption DEF IndInv, TypeOK
  <1>3. TypeOK'
    BY <1>1, <1>2 DEF IndInv, TypeOK, Exists
  <1>4. OpenMatchesHeads' /\ LiveContradictionAssessed' /\ ConflictedIffOpen' /\ CasesDistinct'
    BY <1>1 DEF IndInv, OpenMatchesHeads, LiveContradictionAssessed, ConflictedIffOpen,
                CasesDistinct, OpenCases
  <1>5. EdgesGrounded'
    <2>1. \A r \in relations : r.seq \in Nat /\ r.seq <= commitSeq'
      BY <1>1, <1>2 DEF IndInv, TypeOK, RelationRows, EdgesGrounded
    <2> QED BY <1>1, <2>1 DEF IndInv, EdgesGrounded, Exists
  <1>6. CasesGrounded' /\ StaleHasSuccessor' /\ SupersessionDescends'
    BY <1>1 DEF IndInv, CasesGrounded, StaleHasSuccessor, SupersessionDescends
  <1> QED BY <1>1, <1>2, <1>3, <1>4, <1>5, <1>6 DEF IndInv

\* The new row of feedback is above all that were listed.
LEMMA FeedbackKeepsCourse == PagesInv /\ FeedbackRecord => PagesInv'
  <1> SUFFICES ASSUME PagesInv, FeedbackRecord PROVE PagesInv'
    OBVIOUS
  <1>0. /\ IndInv /\ RowsNumbered /\ IsFiniteSet({c \in Claims : Exists(c)})
        /\ UNCHANGED <<head, status, owner, relations, cases, recordedIn, caseOrder, reading>>
        /\ reading' = reading /\ caseOrder' = caseOrder
    BY DEF PagesInv, FeedbackRecord, claimVars
  <1>1. IndInv' /\ commitSeq \in Nat /\ commitSeq' = commitSeq + 1
    BY <1>0, FeedbackKeepsTables
  <1>2. IsFiniteSet({c \in Claims : Exists(c)})'
    BY <1>0 DEF Exists
  <1>3. PICK ambient \in Contexts, retained \in BOOLEAN :
          feedback' = feedback \cup {[seq |-> commitSeq + 1, recordedBy |-> ambient,
                                     retained |-> retained]}
    BY DEF FeedbackRecord, NextCommitSeq
  <1>4. RowsNumbered'
    <2>1. \A r \in relations' : r.seq \in 1 .. commitSeq'
      BY <1>0, <1>1 DEF RowsNumbered
    <2>2. \A f \in feedback' : f.seq \in 1 .. commitSeq'
      BY <1>0, <1>1, <1>3 DEF RowsNumbered
    <2> QED BY <1>0, <2>1, <2>2 DEF RowsNumbered, AssessmentOf
  <1>5. ASSUME reading.stage # "idle" PROVE ReadingOnCourse'
    <2>1. /\ reading \in Readings /\ reading.since <= commitSeq /\ reading.since \in Nat
          /\ reading.atFirst \subseteq 1 .. Newest(reading)
          /\ reading.list \in {"relations", "conflicts", "history", "feedback", "export"}
          /\ head[reading.about] \in Nat
      BY <1>0, <1>5, ClaimsAssumption
         DEF PagesInv, ReadingOnCourse, Readings, Lists, ScopedLists, IndInv, TypeOK
    <2>2. Newest(reading) \in Nat /\ Newest(reading)' \in Nat /\ Newest(reading) <= Newest(reading)'
      <3>1. Newest(reading) \in Nat
        BY <1>0, <2>1, RowsBounded
      <3> QED BY <1>0, <1>1, <2>1, <3>1 DEF Newest
    <2>3. ConflictRowsOf(reading)' = ConflictRowsOf(reading)
      <3>1. \A i : CaseAt(i)' = CaseAt(i)
        BY <1>0 DEF CaseAt
      <3> QED BY <1>0, <3>1 DEF ConflictRowsOf, ListedStates, EdgeInHorizon, InHorizon
    <2>4. RelationRowsOf(reading)' = RelationRowsOf(reading) /\ HistoryRowsOf(reading)' = HistoryRowsOf(reading)
      BY <1>0 DEF RelationRowsOf, EdgeInHorizon, InHorizon, HistoryRowsOf
    <2>5. /\ \A k \in FeedbackRowsOf(reading)' : k <= commitSeq => k \in FeedbackRowsOf(reading)
          /\ \A k \in ExportRowsOf(reading)' : k <= commitSeq => k \in ExportRowsOf(reading)
      BY <1>0, <1>1, <1>3 DEF FeedbackRowsOf, ExportRowsOf, InWriteScope
    <2>6. \A k \in RowsOf(reading)' : k <= Newest(reading) => k \in RowsOf(reading)
      BY <1>0, <2>1, <2>3, <2>4, <2>5 DEF RowsOf, Newest
    <2>7. reading.atFirst \cap RowsOf(reading)' \subseteq RowsOf(reading)
      BY <2>1, <2>2, <2>6
    <2>8. DisputedThroughout' = DisputedThroughout
      BY <1>0 DEF DisputedThroughout, EdgeInHorizon, InHorizon
    <2>9. reading.list = "conflicts" => RowsOf(reading)' = RowsOf(reading)
      BY <1>0, <2>3 DEF RowsOf
    <2>10. reading.list = "conflicts" /\ reading.includeStale =>
             \A pair \in DisputedThroughout' : \E i \in reading.atFirst \cap RowsOf(reading)' :
               pair = <<caseOrder'[i].source, caseOrder'[i].target>>
      BY <1>0, <1>5, <2>8, <2>9 DEF PagesInv, ReadingOnCourse
    <2>11. reading'.since <= commitSeq' /\ reading'.atFirst \subseteq 1 .. Newest(reading)'
      BY <1>0, <1>1, <2>1, <2>2
    <2> QED BY <1>0, <1>5, <2>1, <2>7, <2>10, <2>11 DEF PagesInv, ReadingOnCourse
  <1>6. CASE reading.stage = "idle"
    <2>1. ~(reading'.stage # "idle")
      BY <1>0, <1>6
    <2> QED BY <1>2, <1>4, <1>1, <2>1 DEF PagesInv, ReadingOnCourse
  <1> QED BY <1>1, <1>2, <1>4, <1>5, <1>6 DEF PagesInv

\* A page keeps a reading on its course.
LEMMA PageKeepsCourse ==
  ASSUME PagesInv, NEW r \in Readings, NEW limit \in 1 .. MaxPage, ReadPage(r, limit),
         r.since <= commitSeq, r.atFirst \subseteq 1 .. Newest(r),
         \A i, j \in DOMAIN r.got : i < j => r.got[i] > r.got[j],
         r.cursor = 0 => r.got = <<>>,
         \A i \in DOMAIN r.got : r.got[i] >= r.cursor,
         \A k \in r.atFirst \cap RowsOf(r) : r.cursor # 0 /\ k >= r.cursor => k \in ToSet(r.got),
         r.list = "conflicts" /\ r.includeStale =>
           \A pair \in DisputedSince(r.since, r.ambient, r.horizon) :
             \E i \in r.atFirst \cap RowsOf(r) :
               pair = <<caseOrder[i].source, caseOrder[i].target>>
  PROVE  PagesInv'
  <1> DEFINE kept == RowsOf(r)
             rest == Below(kept, r.cursor)
             left == Cardinality(rest)
  <1>0. /\ IndInv /\ RowsNumbered /\ IsFiniteSet({c \in Claims : Exists(c)})
        /\ UNCHANGED <<storeVars, feedback>>
    BY DEF PagesInv, ReadPage
  <1>1. /\ UNCHANGED <<head, status, owner, relations, cases, commitSeq, idempotency,
                       recordedIn, caseOrder, feedback>>
        /\ UNCHANGED vars
    BY <1>0 DEF storeVars, vars
  <1>2. IndInv' /\ RowsNumbered' /\ IsFiniteSet({c \in Claims : Exists(c)})'
    <2>1. IndInv'
      BY <1>0, <1>1, StepInv
    <2> QED BY <1>0, <1>1, <2>1 DEF RowsNumbered, AssessmentOf, Exists
  <1>3. Newest(r) \in Nat /\ kept \in SUBSET (1 .. Newest(r))
    BY <1>0, RowsBounded
  <1>4. rest \in SUBSET (1 .. Newest(r)) /\ left \in Nat
    <2>1. rest \in SUBSET (1 .. Newest(r))
      BY <1>3 DEF Below
    <2> HIDE DEF rest
    <2> QED BY <1>3, <2>1, BoundedFinite
  <1>5. Min({limit, left}) = IF limit <= left THEN limit ELSE left
    <2> HIDE DEF left
    <2> QED BY <1>4, PagesAssumption, MinOfTwo
  <1>6. PICK n \in 0 .. left : reading' = PageOf(r, n) /\ (n = 0 => left = 0)
    <2> DEFINE full == Min({limit, left})
    <2>1. full \in 0 .. left /\ (full = 0 => left = 0)
      <3> HIDE DEF left
      <3> QED BY <1>4, <1>5, PagesAssumption
    <2>2. PICK n \in IF r.list \in ScopedLists /\ full > 1 THEN 1 .. full ELSE {full} :
            reading' = PageOf(r, n)
      BY DEF ReadPage
    <2> HIDE DEF full, left
    <2>3. n \in 0 .. left /\ (n = 0 => left = 0)
      BY <1>4, <2>1, <2>2
    <2> QED BY <2>2, <2>3
  <1>7. /\ reading' = [r EXCEPT !.got = reading'.got, !.cursor = reading'.cursor,
                                !.stage = reading'.stage]
        /\ reading' \in Readings
        /\ \A i, j \in DOMAIN reading'.got : i < j => reading'.got[i] > reading'.got[j]
        /\ reading'.stage = "next" =>
              reading'.cursor # 0 /\ \A i \in DOMAIN reading'.got : reading'.got[i] >= reading'.cursor
        /\ \A k \in r.atFirst \cap RowsOf(r) :
              reading'.stage = "done" \/ k >= reading'.cursor => k \in ToSet(reading'.got)
    BY <1>3, <1>6, PageContinues
  <1>8. SameList(reading', r) /\ reading'.since = r.since /\ reading'.atFirst = r.atFirst
    BY <1>7 DEF SameList, Readings
  <1>9. /\ RowsOf(reading)' = RowsOf(r) /\ Newest(reading)' = Newest(r)
        /\ DisputedThroughout' = DisputedSince(r.since, r.ambient, r.horizon)
    BY <1>0, <1>8, RowsUnchanged
  <1>10. reading'.list = r.list /\ reading'.includeStale = r.includeStale
    BY <1>8 DEF SameList
  <1>11. ReadingOnCourse'
    BY <1>1, <1>7, <1>8, <1>9, <1>10 DEF ReadingOnCourse
  <1> QED BY <1>2, <1>11 DEF PagesInv

\* The pages of a reading, one lemma for each.
LEMMA FirstPageStarts == PagesInv /\ FirstPage => PagesInv'
  <1> SUFFICES ASSUME PagesInv, FirstPage PROVE PagesInv'
    OBVIOUS
  <1>0. IndInv /\ RowsNumbered /\ commitSeq \in Nat
    BY LedgerAssumption DEF PagesInv, IndInv, TypeOK
  <1>1. PICK list \in Lists, about \in Claims, ambient \in Contexts, horizon \in Horizons,
             includeStale \in BOOLEAN, limit \in 1 .. MaxPage :
          LET r == [stage |-> "next", list |-> list, about |-> about, ambient |-> ambient,
                    horizon |-> IF list \in ScopedLists THEN horizon ELSE "ambient",
                    includeStale |-> list = "conflicts" /\ includeStale,
                    limit |-> limit, cursor |-> 0, got |-> <<>>, atFirst |-> {},
                    since |-> commitSeq]
          IN ReadPage([r EXCEPT !.atFirst = RowsOf(r)], limit)
    BY DEF FirstPage
  <1> DEFINE scope == IF list \in ScopedLists THEN horizon ELSE "ambient"
             stale == list = "conflicts" /\ includeStale
             At(kept) == [stage |-> "next", list |-> list, about |-> about, ambient |-> ambient,
                          horizon |-> scope, includeStale |-> stale, limit |-> limit,
                          cursor |-> 0, got |-> <<>>, atFirst |-> kept, since |-> commitSeq]
             first == RowsOf(At({}))
  <1>2. scope \in Horizons /\ stale \in BOOLEAN
    BY DEF Horizons
  <1>3. ReadPage(At(first), limit)
    <2>1. [At({}) EXCEPT !.atFirst = first] = At(first)
      OBVIOUS
    <2> QED BY <1>1, <2>1
  <1> HIDE DEF scope, stale, first
  <1>4. ASSUME NEW kept \in SUBSET Nat
        PROVE  At(kept) \in Readings /\ SameList(At(kept), At({}))
    <2>1. <<>> \in Seq(Nat)
      OBVIOUS
    <2> QED BY <1>0, <1>2, <1>4, <2>1 DEF Readings, SameList
  <1>5. At({}) \in Readings
    BY <1>4
  <1>6. Newest(At({})) \in Nat /\ first \in SUBSET (1 .. Newest(At({})))
    <2> HIDE DEF At
    <2> QED BY <1>0, <1>5, RowsBounded DEF first
  <1>7. first \in SUBSET Nat
    BY <1>6
  <1>8. At(first) \in Readings /\ SameList(At(first), At({}))
    BY <1>4, <1>7
  <1>9. RowsOf(At(first)) = first /\ Newest(At(first)) = Newest(At({}))
    <2> HIDE DEF At
    <2> QED BY <1>8, ListDecides DEF first
  <1>10. ASSUME list = "conflicts", stale, NEW pair \in DisputedSince(commitSeq, ambient, scope)
         PROVE  \E i \in first : pair = <<caseOrder[i].source, caseOrder[i].target>>
    <2>1. PICK r \in relations :
            /\ pair = <<r.source, r.target>> /\ r.kind = "contradicts"
            /\ status[r.source] \in Live /\ status[r.target] \in Live
            /\ EdgeInHorizon(ambient, scope, r.source, r.kind, r.target)
      BY <1>10 DEF DisputedSince
    <2>2. PICK case \in OpenCases(cases) : SameRelation(case, r)
      BY <1>0, <2>1 DEF IndInv, LiveContradictionAssessed
    <2>3. case \in cases /\ case.state = "open" /\ case.source = r.source /\ case.target = r.target
      BY <2>2 DEF OpenCases, SameRelation
    <2>4. PICK i \in DOMAIN caseOrder : caseOrder[i] = AssessmentOf(case)
      BY <1>0, <2>3 DEF RowsNumbered
    <2>5. CaseAt(i) = case
      <3>1. (CHOOSE p \in cases : AssessmentOf(p) = AssessmentOf(case)) = case
        BY <1>0, <2>3, CaseChosen DEF IndInv, CasesDistinct
      <3> QED BY <2>4, <3>1, Zenon DEF CaseAt
    <2>6. i \in ConflictRowsOf(At({}))
      BY <2>1, <2>3, <2>4, <2>5 DEF ConflictRowsOf, ListedStates
    <2>7. i \in first
      BY <1>10, <2>6 DEF RowsOf, first
    <2>8. caseOrder[i].source = r.source /\ caseOrder[i].target = r.target
      BY <2>3, <2>4 DEF AssessmentOf
    <2> QED BY <2>1, <2>7, <2>8
  <1> DEFINE r == At(first)
  <1>11. /\ r \in Readings /\ r.since = commitSeq /\ r.atFirst = first /\ r.got = <<>> /\ r.cursor = 0
         /\ r.ambient = ambient /\ r.horizon = scope /\ r.list = list /\ r.includeStale = stale
         /\ ReadPage(r, limit) /\ RowsOf(r) = first /\ first \subseteq 1 .. Newest(r)
    BY <1>3, <1>6, <1>8, <1>9
  <1> HIDE DEF At, r
  <1>12. /\ r.since <= commitSeq /\ DOMAIN r.got = {}
         /\ r.atFirst \subseteq 1 .. Newest(r)
         /\ \A k \in r.atFirst \cap RowsOf(r) : r.cursor # 0 /\ k >= r.cursor => k \in ToSet(r.got)
         /\ r.list = "conflicts" /\ r.includeStale =>
              \A pair \in DisputedSince(r.since, r.ambient, r.horizon) :
                \E i \in r.atFirst \cap RowsOf(r) :
                  pair = <<caseOrder[i].source, caseOrder[i].target>>
    BY <1>0, <1>10, <1>11
  <1> QED BY <1>11, <1>12, PageKeepsCourse

LEMMA NextPageContinues == PagesInv /\ NextPage => PagesInv'
  <1> SUFFICES ASSUME PagesInv, NextPage PROVE PagesInv'
    OBVIOUS
  <1>1. reading.stage = "next" /\ ReadPage(reading, reading.limit)
    BY DEF NextPage
  <1>2. /\ reading \in Readings /\ reading.limit \in 1 .. MaxPage /\ reading.since <= commitSeq
        /\ reading.atFirst \subseteq 1 .. Newest(reading)
        /\ \A i, j \in DOMAIN reading.got : i < j => reading.got[i] > reading.got[j]
        /\ reading.cursor # 0 /\ \A i \in DOMAIN reading.got : reading.got[i] >= reading.cursor
        /\ \A k \in reading.atFirst \cap RowsOf(reading) :
             k >= reading.cursor => k \in ToSet(reading.got)
        /\ reading.list = "conflicts" /\ reading.includeStale =>
             \A pair \in DisputedThroughout : \E i \in reading.atFirst \cap RowsOf(reading) :
               pair = <<caseOrder[i].source, caseOrder[i].target>>
    BY <1>1 DEF PagesInv, ReadingOnCourse, Readings
  <1>3. DisputedThroughout = DisputedSince(reading.since, reading.ambient, reading.horizon)
    BY DEF DisputedThroughout, DisputedSince
  <1> QED BY <1>1, <1>2, <1>3, PageKeepsCourse

\* Every step of a reading, and of the store it reads, keeps the invariant.
LEMMA PagesStep == PagesInv /\ [PagesNext]_pageVars => PagesInv'
  <1> SUFFICES ASSUME PagesInv, [PagesNext]_pageVars PROVE PagesInv'
    OBVIOUS
  <1>1. CASE UNCHANGED pageVars
    <2>1. /\ UNCHANGED <<storeVars, feedback>> /\ reading' = reading
          /\ UNCHANGED <<status, relations, cases, commitSeq, caseOrder, feedback>> /\ UNCHANGED vars
      BY <1>1 DEF pageVars, storeVars, vars
    <2>2. IndInv' /\ RowsNumbered' /\ IsFiniteSet({c \in Claims : Exists(c)})'
      <3>1. IndInv'
        BY <2>1, StepInv DEF PagesInv
      <3> QED BY <2>1, <3>1 DEF PagesInv, RowsNumbered, AssessmentOf, Exists
    <2>3. /\ RowsOf(reading)' = RowsOf(reading) /\ Newest(reading)' = Newest(reading)
          /\ DisputedThroughout' = DisputedSince(reading.since, reading.ambient, reading.horizon)
      BY <2>1, RowsUnchanged DEF SameList
    <2>4. DisputedThroughout = DisputedSince(reading.since, reading.ambient, reading.horizon)
      BY DEF DisputedThroughout, DisputedSince
    <2>5. ReadingOnCourse'
      BY <2>1, <2>3, <2>4 DEF PagesInv, ReadingOnCourse
    <2> QED BY <2>2, <2>5 DEF PagesInv
  <1>2. CASE PagesNext
    BY <1>2, FirstPageStarts, NextPageContinues, FeedbackKeepsCourse, MutateKeepsCourse
       DEF PagesNext
  <1> QED BY <1>1, <1>2

\* The inductive invariant of a paged reading.
THEOREM ReadingsStayOnCourse == PagesSpec => []PagesInv
  <1> QED BY PagesStart, PagesStep, PTL DEF PagesSpec

\* Following the cursors of a list to the end misses no row that was there
\* from the first page on, repeats none and meets every dispute that lasted,
\* for any claims, limits, cuts and commits between the pages.
THEOREM ReadingsAreComplete == PagesSpec => []ReadingComplete
  <1>1. PagesInv => ReadingComplete
    <2> SUFFICES ASSUME PagesInv, reading.stage = "done" PROVE ReadingComplete
      BY DEF ReadingComplete
    <2>1. /\ \A i, j \in DOMAIN reading.got : i < j => reading.got[i] > reading.got[j]
          /\ reading.atFirst \cap RowsOf(reading) \subseteq ToSet(reading.got)
      BY DEF PagesInv, ReadingOnCourse
    <2>2. ASSUME reading.list = "conflicts", reading.includeStale,
                 NEW pair \in DisputedThroughout
          PROVE  pair \in DisputesRead
      <3>1. PICK i \in reading.atFirst \cap RowsOf(reading) :
              pair = <<caseOrder[i].source, caseOrder[i].target>>
        BY <2>2 DEF PagesInv, ReadingOnCourse
      <3>2. i \in DOMAIN caseOrder
        BY <2>2, <3>1 DEF RowsOf, ConflictRowsOf
      <3>3. PICK case \in cases : caseOrder[i] = AssessmentOf(case)
        <4>1. caseOrder \in Seq({AssessmentOf(case) : case \in cases})
          BY DEF PagesInv, RowsNumbered
        <4>2. caseOrder[i] \in {AssessmentOf(case) : case \in cases}
          BY <3>2, <4>1
        <4> QED BY <4>2
      <3>4. CaseAt(i) = case
        <4>1. (CHOOSE p \in cases : AssessmentOf(p) = AssessmentOf(case)) = case
          BY CaseChosen DEF PagesInv, IndInv, CasesDistinct
        <4> QED BY <3>3, <4>1, Zenon DEF CaseAt
      <3>5. CaseAt(i).source = caseOrder[i].source /\ CaseAt(i).target = caseOrder[i].target
        BY <3>3, <3>4 DEF AssessmentOf
      <3> QED BY <2>1, <3>1, <3>5 DEF DisputesRead
    <2> QED BY <2>1, <2>2 DEF ReadingComplete
  <1> QED BY <1>1, ReadingsStayOnCourse, PTL

-----------------------------------------------------------------------------
(* Bytes and characters.                                                   *)

\* A character more is a byte or three more.
LEMMA NextOffset ==
  ASSUME NEW text, NEW n \in Nat \ {0}
  PROVE  /\ Offset(text, n - 1) \in Nat /\ Offset(text, n) \in Nat
         /\ Offset(text, n) = Offset(text, n - 1) + (IF text[n] = "w" THEN 3 ELSE 1)
  <1> DEFINE Wide(k) == {i \in 1 .. k : text[i] = "w"}
  <1>1. n - 1 \in Nat /\ n - 1 \in Int /\ n \in Int /\ 1 \in Int
    OBVIOUS
  <1>2. IsFiniteSet(Wide(n - 1)) /\ Cardinality(Wide(n - 1)) \in Nat
    <2>1. IsFiniteSet(1 .. (n - 1))
      BY <1>1, FS_Interval
    <2>2. Wide(n - 1) \in SUBSET (1 .. (n - 1))
      OBVIOUS
    <2> HIDE DEF Wide
    <2>3. IsFiniteSet(Wide(n - 1))
      BY <2>1, <2>2, FS_Subset
    <2> QED BY <2>3, FS_CardinalityType
  <1>3. Wide(n) = IF text[n] = "w" THEN Wide(n - 1) \cup {n} ELSE Wide(n - 1)
    OBVIOUS
  <1>4. n \notin Wide(n - 1)
    OBVIOUS
  <1>5. Cardinality(Wide(n)) = Cardinality(Wide(n - 1)) + (IF text[n] = "w" THEN 1 ELSE 0)
    <2> HIDE DEF Wide
    <2>1. CASE text[n] = "w"
      BY <1>2, <1>3, <1>4, <2>1, FS_AddElement
    <2>2. CASE text[n] # "w"
      BY <1>2, <1>3, <2>2
    <2> QED BY <2>1, <2>2
  <1>6. /\ Offset(text, n) = n + 2 * Cardinality(Wide(n))
        /\ Offset(text, n - 1) = (n - 1) + 2 * Cardinality(Wide(n - 1))
    BY DEF Offset
  <1> HIDE DEF Wide
  <1> QED BY <1>2, <1>5, <1>6

LEMMA OffsetNat ==
  ASSUME NEW text, NEW n \in Nat
  PROVE  Offset(text, n) \in Nat /\ Offset(text, 0) = 0
  <1>1. Offset(text, n + 1 - 1) \in Nat
    <2>1. n + 1 \in Nat \ {0}
      OBVIOUS
    <2> QED BY <2>1, NextOffset
  <1>2. n + 1 - 1 = n
    OBVIOUS
  <1>3. {i \in 1 .. 0 : text[i] = "w"} = {}
    OBVIOUS
  <1>4. Offset(text, 0) = 0 + 2 * Cardinality({})
    BY <1>3 DEF Offset
  <1> QED BY <1>1, <1>2, <1>4, FS_EmptySet

\* Later characters are at later bytes.
LEMMA OffsetGrows ==
  ASSUME NEW text, NEW m \in Nat, NEW n \in Nat, m <= n
  PROVE  Offset(text, m) + (n - m) <= Offset(text, n)
  <1> DEFINE Good == {k \in Nat : Offset(text, m) + k <= Offset(text, m + k)}
  <1>1. 0 \in Good
    BY OffsetNat
  <1>2. ASSUME NEW k \in 1 .. (n - m), k - 1 \in Good PROVE k \in Good
    <2>1. m + k \in Nat \ {0} /\ m + k - 1 = m + (k - 1) /\ k - 1 \in Nat /\ k \in Nat
      OBVIOUS
    <2>2. Offset(text, m + k) >= Offset(text, m + (k - 1)) + 1
          /\ Offset(text, m + (k - 1)) \in Nat /\ Offset(text, m + k) \in Nat
      BY <2>1, NextOffset
    <2> QED BY <1>2, <2>1, <2>2, OffsetNat
  <1>3. n - m \in Nat /\ n - m \in 0 .. (n - m) /\ m + (n - m) = n
    OBVIOUS
  <1>4. 0 .. (n - m) \subseteq Good
    <2> HIDE DEF Good
    <2> QED BY <1>1, <1>2, <1>3, Climb
  <1> QED BY <1>3, <1>4

LEMMA OffsetOrder ==
  ASSUME NEW text, NEW m \in Nat, NEW n \in Nat
  PROVE  /\ m < n <=> Offset(text, m) < Offset(text, n)
         /\ m = n <=> Offset(text, m) = Offset(text, n)
         /\ m <= n <=> Offset(text, m) <= Offset(text, n)
  <1>1. Offset(text, m) \in Nat /\ Offset(text, n) \in Nat
    BY OffsetNat
  <1>2. m <= n => Offset(text, m) + (n - m) <= Offset(text, n)
    BY OffsetGrows
  <1>3. n <= m => Offset(text, n) + (m - n) <= Offset(text, m)
    BY OffsetGrows
  <1> QED BY <1>1, <1>2, <1>3

\* A text of some characters has boundaries from 0 to its size.
IsText(text) == Len(text) \in Nat

LEMMA BoundariesIn ==
  ASSUME NEW text, IsText(text)
  PROVE  /\ Size(text) \in Nat /\ Boundaries(text) \in SUBSET (0 .. Size(text))
         /\ 0 \in Boundaries(text) /\ Size(text) \in Boundaries(text)
  <1>1. Len(text) \in Nat
    BY DEF IsText
  <1>2. ASSUME NEW n \in 0 .. Len(text) PROVE Offset(text, n) \in 0 .. Size(text)
    <2>1. n \in Nat /\ n <= Len(text)
      BY <1>1
    <2>2. Offset(text, n) + (Len(text) - n) <= Offset(text, Len(text))
      BY <1>1, <2>1, OffsetGrows
    <2> QED BY <1>1, <2>1, <2>2, OffsetNat DEF Size
  <1>3. 0 \in 0 .. Len(text) /\ Len(text) \in 0 .. Len(text) /\ Offset(text, 0) = 0
    BY <1>1, OffsetNat
  <1> QED BY <1>1, <1>2, <1>3, OffsetNat DEF Size, Boundaries

\* The head of a text up to a byte ends at its last boundary up to there.
LEMMA HeadIs ==
  ASSUME NEW text, IsText(text), NEW end \in Nat
  PROVE  /\ HeadBoundary(text, end) \in Boundaries(text)
         /\ HeadBoundary(text, end) \in 0 .. Size(text) /\ HeadBoundary(text, end) <= end
         /\ \A b \in Boundaries(text) : b <= end => b <= HeadBoundary(text, end)
  <1> DEFINE T == {b \in Boundaries(text) : b <= end}
  <1>1. T \in SUBSET Nat /\ 0 \in T /\ T # {} /\ \A b \in T : b <= end
    BY BoundariesIn
  <1>2. HeadBoundary(text, end) = Max(T)
    BY DEF HeadBoundary
  <1>3. Max(T) \in T /\ \A b \in T : b <= Max(T)
    <2> HIDE DEF T
    <2> QED BY <1>1, Greatest
  <1>4. HeadBoundary(text, end) \in T /\ \A b \in T : b <= HeadBoundary(text, end)
    <2> HIDE DEF T
    <2> QED BY <1>2, <1>3
  <1> QED BY <1>4, BoundariesIn

\* Three bytes further there is another one.
LEMMA HeadAdvances ==
  ASSUME NEW text, IsText(text), NEW b \in Boundaries(text), NEW c \in Boundaries(text), b < c,
         NEW end \in Nat, end = c \/ b + 3 <= end
  PROVE  HeadBoundary(text, end) > b
  <1>1. Len(text) \in Nat
    BY DEF IsText
  <1>2. PICK m \in 0 .. Len(text) : b = Offset(text, m)
    BY DEF Boundaries
  <1>3. PICK n \in 0 .. Len(text) : c = Offset(text, n)
    BY DEF Boundaries
  <1>4. m \in Nat /\ n \in Nat /\ m < n
    BY <1>1, <1>2, <1>3, OffsetOrder
  <1> DEFINE next == Offset(text, m + 1)
  <1>5. next \in Boundaries(text)
    BY <1>1, <1>3, <1>4 DEF Boundaries
  <1>6. b < next /\ next <= b + 3 /\ next \in Nat /\ b \in Nat /\ c \in Nat
    <2>1. m + 1 \in Nat \ {0} /\ m + 1 - 1 = m
      BY <1>4
    <2>2. next \in Nat /\ next = Offset(text, m) + (IF text[m + 1] = "w" THEN 3 ELSE 1)
      BY <2>1, NextOffset
    <2>3. b \in Nat /\ c \in Nat
      BY <1>2, <1>3, <1>4, OffsetNat
    <2> HIDE DEF next
    <2> QED BY <1>2, <2>2, <2>3
  <1> HIDE DEF next
  <1>7. CASE end = c
    BY <1>6, <1>7, HeadIs
  <1>8. CASE b + 3 <= end
    <2>1. next <= HeadBoundary(text, end) /\ HeadBoundary(text, end) \in 0 .. Size(text)
      BY <1>5, <1>6, <1>8, HeadIs
    <2>2. Size(text) \in Nat
      BY BoundariesIn
    <2> QED BY <1>6, <2>1, <2>2
  <1> QED BY <1>7, <1>8

\* What a span of a text names, where its ends are boundaries.
LEMMA SliceIs ==
  ASSUME NEW S, NEW text \in Seq(S), NEW p \in 0 .. Len(text), NEW q \in 0 .. Len(text), p < q,
         NEW body, body = Slice(text, Offset(text, p), Offset(text, q))
  PROVE  /\ body \in Seq(S) /\ Len(body) = q - p
         /\ \A i \in 1 .. (q - p) : body[i] = text[p + i]
  <1> DEFINE in == {i \in DOMAIN text : Offset(text, p) <= Offset(text, i - 1)
                                        /\ Offset(text, i) <= Offset(text, q)}
  <1>1. Len(text) \in Nat /\ DOMAIN text = 1 .. Len(text) /\ p \in Nat /\ q \in Nat
    OBVIOUS
  <1>2. in = (p + 1) .. q
    <2>1. ASSUME NEW i \in 1 .. Len(text)
          PROVE  i \in in <=> i \in (p + 1) .. q
      <3>1. i \in Nat /\ i - 1 \in Nat
        OBVIOUS
      <3>2. (p <= i - 1 <=> Offset(text, p) <= Offset(text, i - 1))
            /\ (i <= q <=> Offset(text, i) <= Offset(text, q))
        BY <1>1, <3>1, OffsetOrder
      <3> QED BY <1>1, <3>1, <3>2
    <2>2. in \subseteq 1 .. Len(text) /\ (p + 1) .. q \subseteq 1 .. Len(text)
      BY <1>1
    <2> HIDE DEF in
    <2> QED BY <2>1, <2>2
  <1>4. p + 1 \in (p + 1) .. q /\ q \in (p + 1) .. q
    BY <1>1
  <1>3. (p + 1) .. q # {} /\ \A x \in (p + 1) .. q : p + 1 <= x /\ x <= q /\ x \in Int
    <2>1. \A x \in (p + 1) .. q : p + 1 <= x /\ x <= q /\ x \in Int
      BY <1>1
    <2> QED BY <1>4, <2>1
  <1>5. Min((p + 1) .. q) = p + 1
    <2>1. Min((p + 1) .. q) = CHOOSE x \in (p + 1) .. q : \A y \in (p + 1) .. q : x <= y
      BY Zenon DEF Min
    <2>2. \E x \in (p + 1) .. q : \A y \in (p + 1) .. q : x <= y
      BY <1>3, <1>4
    <2> DEFINE x == Min((p + 1) .. q)
    <2>3. x \in (p + 1) .. q /\ \A y \in (p + 1) .. q : x <= y
      BY <2>1, <2>2, Zenon
    <2> HIDE DEF x
    <2>4. x = p + 1
      BY <1>1, <1>4, <2>3
    <2> QED BY <2>4 DEF x
  <1>6. Max((p + 1) .. q) = q
    <2>1. Max((p + 1) .. q) = CHOOSE x \in (p + 1) .. q : \A y \in (p + 1) .. q : x >= y
      BY Zenon DEF Max
    <2>2. \E x \in (p + 1) .. q : \A y \in (p + 1) .. q : x >= y
      BY <1>3, <1>4
    <2> DEFINE x == Max((p + 1) .. q)
    <2>3. x \in (p + 1) .. q /\ \A y \in (p + 1) .. q : x >= y
      BY <2>1, <2>2, Zenon
    <2> HIDE DEF x
    <2>4. x = q
      BY <1>1, <1>4, <2>3
    <2> QED BY <2>4 DEF x
  <1>7. body = IF in = {} THEN <<>> ELSE SubSeq(text, Min(in), Max(in))
    BY DEF Slice
  <1> HIDE DEF in
  <1>8. body = SubSeq(text, p + 1, q)
    BY <1>2, <1>3, <1>5, <1>6, <1>7
  <1>9. 1 <= p + 1 /\ q <= Len(text) /\ p + 1 \in Int /\ q \in Int
    BY <1>1
  <1> QED BY <1>1, <1>8, <1>9

LEMMA SliceOffsets ==
  ASSUME NEW S, NEW text \in Seq(S), NEW p \in 0 .. Len(text), NEW q \in 0 .. Len(text), p < q,
         NEW body, body = Slice(text, Offset(text, p), Offset(text, q))
  PROVE  /\ IsText(body) /\ Size(body) = Offset(text, q) - Offset(text, p)
         /\ \A b \in Boundaries(body) : Offset(text, p) + b \in Boundaries(text)
  <1>1. body \in Seq(S) /\ Len(body) = q - p /\ \A i \in 1 .. (q - p) : body[i] = text[p + i]
    <2>1. body \in Seq(S)
      BY SliceIs
    <2>2. Len(body) = q - p
      BY SliceIs
    <2>3. \A i \in 1 .. (q - p) : body[i] = text[p + i]
      BY SliceIs
    <2> QED BY <2>1, <2>2, <2>3
  <1>2. Len(text) \in Nat /\ p \in Nat /\ q \in Nat /\ q - p \in Nat
    OBVIOUS
  <1> DEFINE Good == {k \in 0 .. (q - p) : Offset(text, p + k) = Offset(text, p) + Offset(body, k)}
  <1>3. 0 \in Good
    BY <1>2, OffsetNat
  <1>4. ASSUME NEW k \in 1 .. (q - p), k - 1 \in Good PROVE k \in Good
    <2>1. k \in Nat \ {0} /\ p + k \in Nat \ {0} /\ p + k - 1 = p + (k - 1) /\ k - 1 \in Nat
          /\ p + (k - 1) \in Nat
      BY <1>2
    <2>2. /\ Offset(body, k) = Offset(body, k - 1) + (IF body[k] = "w" THEN 3 ELSE 1)
          /\ Offset(body, k - 1) \in Nat
      BY <2>1, NextOffset
    <2>3. /\ Offset(text, p + k)
               = Offset(text, p + (k - 1)) + (IF text[p + k] = "w" THEN 3 ELSE 1)
      BY <2>1, NextOffset
    <2>4. body[k] = text[p + k] /\ Offset(text, p) \in Nat
      BY <1>1, <1>2, OffsetNat
    <2> QED BY <1>4, <2>2, <2>3, <2>4
  <1>5. 0 .. (q - p) \subseteq Good
    <2> HIDE DEF Good
    <2> QED BY <1>2, <1>3, <1>4, Climb
  <1>6. IsText(body)
    BY <1>1, <1>2 DEF IsText
  <1>7. Size(body) = Offset(text, q) - Offset(text, p)
    <2>1. q - p \in 0 .. (q - p) /\ p + (q - p) = q
      BY <1>2
    <2>2. Offset(text, q) = Offset(text, p) + Offset(body, q - p)
      BY <1>5, <2>1
    <2>3. Size(body) = Offset(body, q - p)
      BY <1>1 DEF Size
    <2> QED BY <1>2, <2>2, <2>3, OffsetNat
  <1>8. ASSUME NEW b \in Boundaries(body) PROVE Offset(text, p) + b \in Boundaries(text)
    <2>1. PICK k \in 0 .. Len(body) : b = Offset(body, k)
      BY DEF Boundaries
    <2>2. k \in 0 .. (q - p) /\ p + k \in 0 .. Len(text)
      BY <1>1, <1>2
    <2>3. Offset(text, p + k) = Offset(text, p) + b
      BY <1>5, <2>1, <2>2
    <2> QED BY <2>2, <2>3 DEF Boundaries
  <1> QED BY <1>6, <1>7, <1>8

\* The same by the ends of the span.
LEMMA SpanOf ==
  ASSUME NEW S, NEW text \in Seq(S), NEW from \in Boundaries(text), NEW to \in Boundaries(text),
         from < to
  PROVE  /\ IsText(Slice(text, from, to)) /\ Size(Slice(text, from, to)) = to - from
         /\ Slice(text, from, to) \in Seq(S)
         /\ \A b \in Boundaries(Slice(text, from, to)) : from + b \in Boundaries(text)
  <1>1. PICK p \in 0 .. Len(text) : from = Offset(text, p)
    BY DEF Boundaries
  <1>2. PICK q \in 0 .. Len(text) : to = Offset(text, q)
    BY DEF Boundaries
  <1>3. p \in Nat /\ q \in Nat /\ p < q
    BY <1>1, <1>2, OffsetOrder
  <1> QED BY <1>1, <1>2, <1>3, SliceIs, SliceOffsets

LEMMA LeastIsMin ==
  ASSUME NEW T \in SUBSET Nat, T # {}
  PROVE  Min(T) \in T /\ \A x \in T : Min(T) <= x
  <1>1. Min(T) = CHOOSE x \in T : \A y \in T : x <= y
    BY Zenon DEF Min
  <1>2. \E x \in T : \A y \in T : x <= y
    BY Least
  <1> QED BY <1>1, <1>2, Zenon

-----------------------------------------------------------------------------
(* Windows.                                                                *)

\* What is known of the matches in a text.
MatchesIn(body, matches) ==
  \A m \in matches : m.at \in Boundaries(body) /\ m.term \in Terms

\* The best window starts at a match.
LEMMA BestIs ==
  ASSUME NEW body, IsText(body), NEW matches, matches # {}, MatchesIn(body, matches),
         NEW max \in Nat
  PROVE  BestStart(matches, max) \in Nat
  <1> DEFINE sizes == {Cardinality(Covered(matches, m.at, max)) : m \in matches}
             ats == {m.at : m \in {n \in matches : Cardinality(Covered(matches, n.at, max)) = Max(sizes)}}
  <1>1. ASSUME NEW at
        PROVE  /\ Cardinality(Covered(matches, at, max)) \in Nat
               /\ Cardinality(Covered(matches, at, max)) <= Cardinality(Terms)
    <2>1. Covered(matches, at, max) \in SUBSET Terms
      BY DEF Covered, MatchesIn
    <2>2. IsFiniteSet(Terms)
      BY ExcerptsAssumption
    <2> QED BY <2>1, <2>2, FS_Subset, FS_CardinalityType
  <1>2. sizes \in SUBSET Nat /\ sizes # {} /\ \A x \in sizes : x <= Cardinality(Terms)
    BY <1>1
  <1>3. Cardinality(Terms) \in Nat
    BY ExcerptsAssumption, FS_CardinalityType
  <1>4. Max(sizes) \in sizes
    <2> HIDE DEF sizes
    <2> QED BY <1>2, <1>3, Greatest
  <1>5. ats \in SUBSET Nat
    <2>1. \A m \in matches : m.at \in Nat
      BY BoundariesIn DEF MatchesIn
    <2> QED BY <2>1
  <1>6. ats # {}
    BY <1>4
  <1>7. BestStart(matches, max) = Min(ats)
    BY DEF BestStart
  <1> HIDE DEF ats, sizes
  <1> QED BY <1>5, <1>6, <1>7, LeastIsMin

\* The byte after a character that takes one.
LEMMA AfterSpace ==
  ASSUME NEW body, IsText(body), DOMAIN body = 1 .. Len(body), NEW s \in Spaces(body)
  PROVE  s \in Nat /\ s + 1 \in Boundaries(body)
  <1>1. PICK i \in 1 .. Len(body) : body[i] = "_" /\ s = Offset(body, i - 1)
    BY DEF Spaces, CharStarts
  <1>2. i \in 1 .. Len(body) /\ body[i] # "w"
    BY <1>1
  <1>4. i \in Nat \ {0} /\ i \in 0 .. Len(body)
    <2>1. Len(body) \in Nat
      BY DEF IsText
    <2> QED BY <2>1
  <1>3. Offset(body, i) = Offset(body, i - 1) + 1 /\ Offset(body, i - 1) \in Nat
    BY <1>2, <1>4, NextOffset
  <1> QED BY <1>1, <1>3, <1>4 DEF Boundaries

\* A window that was found has its ends between characters.
IsWindow(body, w) ==
  /\ w = <<w[1], w[2]>>
  /\ w[1] \in Boundaries(body) /\ w[2] \in Boundaries(body)
  /\ w[1] <= w[2]

LEMMA AroundIs ==
  ASSUME NEW body, IsText(body), DOMAIN body = 1 .. Len(body), NEW best \in Nat, NEW max \in Nat,
         WindowAround(body, best, max) # Panic
  PROVE  IsWindow(body, WindowAround(body, best, max))
  <1> DEFINE lead == max \div 4
             target == IF best > lead THEN best - lead ELSE 0
             start == HeadBoundary(body, target)
             sliceEnd == start + Min({lead, Size(body) - start})
             spaces == {s \in Spaces(body) : start <= s /\ s < sliceEnd}
             words == IF start > 0 /\ spaces # {} /\ Min(spaces) + 1 <= best
                      THEN Min(spaces) + 1 ELSE start
             end == HeadBoundary(body, Min({words + max, Size(body)}))
  <1>1. WindowAround(body, best, max)
          = IF start > 0 /\ sliceEnd \notin Boundaries(body) THEN Panic
            ELSE <<words, Max({end, words})>>
    BY DEF WindowAround
  <1>2. WindowAround(body, best, max) = <<words, Max({end, words})>>
    <2> HIDE DEF start, sliceEnd, words, end
    <2> QED BY <1>1
  <1>3. lead \in Nat /\ target \in Nat
    OBVIOUS
  <1>4. start \in Boundaries(body)
    <2> HIDE DEF target
    <2> QED BY <1>3, HeadIs
  <1>5. words \in Boundaries(body)
    <2>1. CASE spaces # {}
      <3>1. spaces \in SUBSET Nat /\ spaces \subseteq Spaces(body)
        <4> HIDE DEF start, sliceEnd
        <4> QED BY AfterSpace
      <3> HIDE DEF spaces
      <3>2. Min(spaces) \in spaces
        BY <2>1, <3>1, LeastIsMin
      <3>3. Min(spaces) + 1 \in Boundaries(body)
        BY <3>1, <3>2, AfterSpace
      <3> HIDE DEF start
      <3> QED BY <1>4, <3>3
    <2>2. CASE spaces = {}
      <3> HIDE DEF start
      <3> QED BY <1>4, <2>2
    <2> QED BY <2>1, <2>2
  <1>6. words \in Nat /\ Size(body) \in Nat
    <2> HIDE DEF words
    <2> QED BY <1>5, BoundariesIn
  <1>7. end \in Boundaries(body)
    <2> HIDE DEF words
    <2>1. Min({words + max, Size(body)}) \in Nat
      <3>1. words + max \in Nat
        BY <1>6
      <3> QED BY <1>6, <3>1, MinOfTwo
    <2> QED BY <2>1, HeadIs
  <1> HIDE DEF words, end
  <1>8. end \in Nat
    BY <1>7, BoundariesIn
  <1>9. Max({end, words}) \in {end, words} /\ words <= Max({end, words})
    <2>1. {end, words} \in SUBSET Nat /\ {end, words} # {} /\ words \in {end, words}
          /\ \A x \in {end, words} : x <= end + words
      BY <1>6, <1>8
    <2> HIDE DEF words
    <2>2. end + words \in Nat
      BY <1>6, <1>8
    <2> QED BY <2>1, <2>2, Greatest
  <1> QED BY <1>2, <1>5, <1>7, <1>9 DEF IsWindow

LEMMA WindowIs ==
  ASSUME NEW body, IsText(body), DOMAIN body = 1 .. Len(body), NEW matches,
         MatchesIn(body, matches), NEW max \in Nat, MatchedWindow(body, matches, max) # Panic
  PROVE  IsWindow(body, MatchedWindow(body, matches, max))
  <1>1. /\ Size(body) \in Nat /\ Size(body) \in Boundaries(body) /\ 0 \in Boundaries(body)
    BY BoundariesIn
  <1>2. CASE Size(body) <= max
    <2>1. MatchedWindow(body, matches, max) = <<0, Size(body)>>
      BY <1>2 DEF MatchedWindow
    <2> QED BY <1>1, <2>1 DEF IsWindow
  <1>3. CASE ~(Size(body) <= max) /\ matches = {}
    <2>1. MatchedWindow(body, matches, max) = <<0, HeadBoundary(body, max)>>
      BY <1>3 DEF MatchedWindow
    <2>2. HeadBoundary(body, max) \in Boundaries(body) /\ HeadBoundary(body, max) \in 0 .. Size(body)
      BY HeadIs
    <2> QED BY <1>1, <2>1, <2>2 DEF IsWindow
  <1>4. CASE ~(Size(body) <= max) /\ matches # {}
    <2>1. MatchedWindow(body, matches, max) = WindowAround(body, BestStart(matches, max), max)
      BY <1>4 DEF MatchedWindow
    <2>2. BestStart(matches, max) \in Nat
      BY <1>4, BestIs
    <2> QED BY <2>1, <2>2, AroundIs
  <1> QED BY <1>2, <1>3, <1>4

-----------------------------------------------------------------------------
(* What is shown and how it is cited.                                      *)

\* A citation that was made for a window names the bytes of the window.
LEMMA CitationIs ==
  ASSUME NEW a \in Nat, NEW b \in Nat, a < b, NEW start \in Nat, NEW end \in Nat, start <= end,
         NEW size, size = b - a, end <= size,
         WindowCitation(<<a, b>>, start, end, size) # NoSpan
  PROVE  WindowCitation(<<a, b>>, start, end, size) = <<a + start, a + end>> /\ start < end
  <1> DEFINE span == <<a, b>>
             c == WindowCitation(span, start, end, size)
  <1>1. span # NoSpan /\ span[1] = a /\ span[2] = b
    BY DEF NoSpan
  <1>2. CASE start = 0 /\ end >= size
    <2>1. c = span /\ end = size
      BY <1>2 DEF WindowCitation
    <2> QED BY <1>2, <2>1
  <1>3. CASE ~(start = 0 /\ end >= size)
    <2>1. Rewritten(span, start, end) # span /\ c = Rewritten(span, start, end)
      BY <1>3 DEF WindowCitation
    <2>2. Min({span[1] + end, span[2]}) = a + end
      <3>1. a + end \in Nat /\ a + end <= b
        OBVIOUS
      <3> HIDE DEF span
      <3> QED BY <1>1, <3>1, MinOfTwo
    <2>3. Rewritten(span, start, end)
            = IF a + start >= a + end THEN span ELSE <<a + start, a + end>>
      <3> HIDE DEF span
      <3> QED BY <1>1, <2>2 DEF Rewritten
    <2> QED BY <2>1, <2>3
  <1> QED BY <1>2, <1>3

LEMMA TextIs ==
  ASSUME NEW text \in Texts
  PROVE  /\ text \in Seq({"a", "_", "w"}) /\ IsText(text) /\ DOMAIN text = 1 .. Len(text)
  <1>1. text \in Seq({"a", "_", "w"})
    BY ExcerptsAssumption
  <1>2. Len(text) \in Nat /\ DOMAIN text = 1 .. Len(text)
    BY <1>1, SeqIs
  <1> QED BY <1>1, <1>2 DEF IsText

LEMMA ArtifactKeeps == ExcerptsInv /\ ShowArtifact => ExcerptsInv'
  <1> SUFFICES ASSUME ExcerptsInv, ShowArtifact PROVE ExcerptsInv'
    OBVIOUS
  <1>1. PICK text \in Texts, max \in MaxExcerpts : \E span \in Spans(text) :
          LET body == IF span = NoSpan THEN text ELSE Slice(text, span[1], span[2])
              starts == Boundaries(body) \ {Size(body)}
          IN \E matches \in UNION {kSubset(k, [at : starts, term : Terms]) : k \in 0 .. MaxMatches} :
            LET w == MatchedWindow(body, matches, max)
                from == IF span = NoSpan THEN 0 ELSE span[1]
            IN shown' =
                 IF w = Panic THEN [stage |-> "panicked", text |-> body, max |-> max]
                 ELSE [stage |-> "shown", text |-> text, from |-> from + w[1],
                       to |-> from + w[2],
                       citation |-> WindowCitation(span, w[1], w[2], Size(body))]
    BY DEF ShowArtifact
  <1>2. PICK span \in Spans(text) :
          LET body == IF span = NoSpan THEN text ELSE Slice(text, span[1], span[2])
              starts == Boundaries(body) \ {Size(body)}
          IN \E matches \in UNION {kSubset(k, [at : starts, term : Terms]) : k \in 0 .. MaxMatches} :
            LET w == MatchedWindow(body, matches, max)
                from == IF span = NoSpan THEN 0 ELSE span[1]
            IN shown' =
                 IF w = Panic THEN [stage |-> "panicked", text |-> body, max |-> max]
                 ELSE [stage |-> "shown", text |-> text, from |-> from + w[1],
                       to |-> from + w[2],
                       citation |-> WindowCitation(span, w[1], w[2], Size(body))]
    BY <1>1
  <1> DEFINE body == IF span = NoSpan THEN text ELSE Slice(text, span[1], span[2])
             starts == Boundaries(body) \ {Size(body)}
  <1>3. PICK matches \in UNION {kSubset(k, [at : starts, term : Terms]) : k \in 0 .. MaxMatches} :
            LET w == MatchedWindow(body, matches, max)
                from == IF span = NoSpan THEN 0 ELSE span[1]
            IN shown' =
                 IF w = Panic THEN [stage |-> "panicked", text |-> body, max |-> max]
                 ELSE [stage |-> "shown", text |-> text, from |-> from + w[1],
                       to |-> from + w[2],
                       citation |-> WindowCitation(span, w[1], w[2], Size(body))]
    BY <1>2
  <1> DEFINE w == MatchedWindow(body, matches, max)
             from == IF span = NoSpan THEN 0 ELSE span[1]
  <1>4. /\ shown.stage = "none" /\ pieces' = pieces /\ pieces = <<>> /\ max \in Nat
    BY ExcerptsAssumption DEF ShowArtifact, ExcerptsInv, PiecesInOrder, Cited
  <1>5. span = NoSpan \/ (/\ span \in Nat \X Nat /\ span[1] < span[2] /\ span # NoSpan
                          /\ span[1] \in Boundaries(text) /\ span[2] \in Boundaries(text))
    <2>1. Boundaries(text) \in SUBSET Nat
      <3>1. IsText(text)
        BY TextIs
      <3> QED BY <3>1, BoundariesIn
    <2> QED BY <2>1 DEF Spans, NoSpan
  <1>6. /\ IsText(body) /\ DOMAIN body = 1 .. Len(body)
        /\ span # NoSpan => /\ Size(body) = span[2] - span[1]
                            /\ \A b \in Boundaries(body) : span[1] + b \in Boundaries(text)
    <2>1. CASE span = NoSpan
      BY <2>1, TextIs
    <2>2. CASE span # NoSpan
      <3>1. body = Slice(text, span[1], span[2]) /\ text \in Seq({"a", "_", "w"})
        BY <2>2, TextIs
      <3> HIDE DEF body
      <3>2. span[1] \in Boundaries(text) /\ span[2] \in Boundaries(text) /\ span[1] < span[2]
        BY <1>5, <2>2
      <3>3. IsText(body) /\ Size(body) = span[2] - span[1] /\ body \in Seq({"a", "_", "w"})
            /\ \A b \in Boundaries(body) : span[1] + b \in Boundaries(text)
        BY <3>1, <3>2, SpanOf
      <3>4. DOMAIN body = 1 .. Len(body)
        BY <3>3, SeqIs
      <3> QED BY <3>3, <3>4
    <2> QED BY <2>1, <2>2
  <1>7. MatchesIn(body, matches)
    <2> HIDE DEF body
    <2> QED BY <1>3 DEF kSubset, MatchesIn
  <1>8. shown' = IF w = Panic THEN [stage |-> "panicked", text |-> body, max |-> max]
                 ELSE [stage |-> "shown", text |-> text, from |-> from + w[1], to |-> from + w[2],
                       citation |-> WindowCitation(span, w[1], w[2], Size(body))]
    BY <1>3
  <1> HIDE DEF body, w
  <1>9. CASE w = Panic
    <2>1. shown'.stage = "panicked"
      BY <1>8, <1>9
    <2> QED BY <1>4, <2>1 DEF ExcerptsInv, PiecesInOrder, Cited
  <1>10. CASE w # Panic
    <2>1. IsWindow(body, w)
      BY <1>4, <1>6, <1>7, <1>10, WindowIs DEF w
    <2>2. w[1] \in Boundaries(body) /\ w[2] \in Boundaries(body) /\ w[1] <= w[2]
          /\ w[1] \in Nat /\ w[2] \in Nat /\ w[2] <= Size(body) /\ Size(body) \in Nat
      BY <1>6, <2>1, BoundariesIn DEF IsWindow
    <2>3. /\ shown'.stage = "shown" /\ shown'.text = text /\ shown'.from = from + w[1]
          /\ shown'.to = from + w[2]
          /\ shown'.citation = WindowCitation(span, w[1], w[2], Size(body))
      BY <1>8, <1>10
    <2>4. ASSUME shown'.citation # NoSpan
          PROVE  CitedRight'
      <3>1. span # NoSpan
        BY <2>3, <2>4 DEF WindowCitation, Rewritten
      <3>2. span = <<span[1], span[2]>> /\ span[1] \in Nat /\ span[2] \in Nat /\ span[1] < span[2]
            /\ from = span[1] /\ Size(body) = span[2] - span[1]
        BY <1>5, <1>6, <3>1
      <3>3. WindowCitation(<<span[1], span[2]>>, w[1], w[2], Size(body)) # NoSpan
        BY <2>3, <2>4, <3>2
      <3>4. WindowCitation(<<span[1], span[2]>>, w[1], w[2], Size(body))
              = <<span[1] + w[1], span[1] + w[2]>> /\ w[1] < w[2]
        BY <2>2, <3>2, <3>3, CitationIs
      <3>5. shown'.citation = <<span[1] + w[1], span[1] + w[2]>>
        BY <2>3, <3>2, <3>4
      <3>6. /\ span[1] + w[1] \in Boundaries(text) /\ span[1] + w[2] \in Boundaries(text)
            /\ span[1] + w[1] \in Nat /\ span[1] + w[2] \in Nat /\ span[1] + w[1] < span[1] + w[2]
        BY <1>6, <2>2, <3>1, <3>2, <3>4
      <3>7. Within(text, <<span[1] + w[1], span[1] + w[2]>>)
        BY <3>6 DEF Within, ToSet
      <3> QED BY <2>3, <3>2, <3>5, <3>6, <3>7 DEF CitedRight
    <2> QED BY <1>4, <2>3, <2>4 DEF ExcerptsInv, PiecesInOrder, Cited
  <1> QED BY <1>9, <1>10

LEMMA EvidenceKeeps == ExcerptsInv /\ ShowEvidence => ExcerptsInv'
  <1> SUFFICES ASSUME ExcerptsInv, ShowEvidence PROVE ExcerptsInv'
    OBVIOUS
  <1>1. PICK text \in Texts, max \in MaxExcerpts : \E span \in EvidenceSpans(text) :
          LET body == Slice(text, span[1], span[2])
              end == HeadBoundary(body, Min({max, Size(body)}))
          IN shown' = [stage |-> "evidence", text |-> text, from |-> span[1],
                       to |-> span[1] + end, citation |-> span]
    BY DEF ShowEvidence
  <1>2. PICK span \in EvidenceSpans(text) :
          LET body == Slice(text, span[1], span[2])
              end == HeadBoundary(body, Min({max, Size(body)}))
          IN shown' = [stage |-> "evidence", text |-> text, from |-> span[1],
                       to |-> span[1] + end, citation |-> span]
    BY <1>1
  <1> DEFINE body == Slice(text, span[1], span[2])
             end == HeadBoundary(body, Min({max, Size(body)}))
  <1>3. /\ shown'.stage = "evidence" /\ shown'.text = text /\ shown'.from = span[1]
        /\ shown'.to = span[1] + end /\ shown'.citation = span
    BY <1>2
  <1>4. /\ pieces' = pieces /\ pieces = <<>> /\ max \in Nat
    BY ExcerptsAssumption DEF ShowEvidence, ExcerptsInv, PiecesInOrder, Cited
  <1>5. span \in Nat \X Nat /\ span[1] < span[2]
    <2>1. Size(text) \in Nat
      <3>1. IsText(text)
        BY TextIs
      <3> QED BY <3>1, BoundariesIn
    <2> QED BY <2>1 DEF EvidenceSpans
  <1> HIDE DEF end
  <1>6. ASSUME Within(text, span)
        PROVE  span[1] + end \in Nat /\ span[1] + end <= span[2]
    <2>1. span = <<span[1], span[2]>>
      BY <1>5
    <2>2. span[1] \in Boundaries(text) /\ span[2] \in Boundaries(text)
      BY <1>6, <2>1 DEF Within, ToSet
    <2>3. text \in Seq({"a", "_", "w"})
      BY TextIs
    <2> HIDE DEF body
    <2>4. IsText(body) /\ Size(body) = span[2] - span[1]
      <3>1. body = Slice(text, span[1], span[2])
        BY DEF body
      <3> QED BY <1>5, <2>2, <2>3, <3>1, SpanOf
    <2>5. Size(body) \in Nat
      BY <2>4, BoundariesIn
    <2>6. Min({max, Size(body)}) \in Nat
      BY <1>4, <2>5, MinOfTwo
    <2>7. end \in 0 .. Size(body)
      BY <2>4, <2>6, HeadIs DEF end
    <2> QED BY <1>5, <2>4, <2>5, <2>7
  <1> QED BY <1>3, <1>4, <1>5, <1>6 DEF ExcerptsInv, PiecesInOrder, Cited, CitedRight

LEMMA GetKeeps == ExcerptsInv /\ CitationGet => ExcerptsInv'
  <1> SUFFICES ASSUME ExcerptsInv, CitationGet PROVE ExcerptsInv'
    OBVIOUS
  <1> DEFINE text == shown.text
             last == Remaining[2]
  <1>1. /\ Cited /\ CitedRight /\ PiecesInOrder /\ text \in Texts
        /\ Remaining[1] < Remaining[2]
        /\ Remaining = <<IF pieces = <<>> THEN shown.citation[1] ELSE Last(pieces)[2],
                         shown.citation[2]>>
        /\ shown.stage # "refused"
    BY DEF CitationGet, Cited, ExcerptsInv, Remaining
  <1>2. IsText(text) /\ Size(text) \in Nat /\ Boundaries(text) \in SUBSET (0 .. Size(text))
    BY <1>1, TextIs, BoundariesIn
  <1>3. Within(text, shown.citation) =>
          Within(text, Remaining) /\ ~(Remaining[2] > Size(text))
    <2>1. shown.citation = <<shown.citation[1], shown.citation[2]>>
      BY <1>1 DEF CitedRight
    <2>2. Within(text, shown.citation) =>
            shown.citation[1] \in Boundaries(text) /\ shown.citation[2] \in Boundaries(text)
      BY <2>1 DEF Within, ToSet
    <2> HIDE DEF text
    <2>3. Within(text, shown.citation) => shown.citation[2] <= Size(text)
      BY <1>2, <2>2
    <2>4. pieces # <<>> => Last(pieces)[2] \in Boundaries(text)
      BY <1>1 DEF PiecesInOrder, text
    <2> QED BY <1>1, <1>2, <2>2, <2>3, <2>4 DEF Within, ToSet
  <1>4. CASE shown' = [stage |-> "refused", of |-> shown] /\ UNCHANGED pieces
             /\ (Remaining[2] > Size(text) \/ ~Within(text, Remaining))
    <2>1. ~Within(text, shown.citation)
      BY <1>3, <1>4
    <2>2. shown.stage = "evidence" /\ pieces = <<>>
      BY <1>1, <2>1 DEF CitedRight, Cited, PiecesInOrder
    <2>3. shown'.stage = "refused" /\ shown'.of = shown /\ pieces' = pieces
      BY <1>4
    <2> QED BY <2>1, <2>2, <2>3 DEF ExcerptsInv, Cited, PiecesInOrder
  <1>5. ASSUME NEW limit \in FetchLimits, UNCHANGED shown,
               pieces' = Append(pieces, <<Remaining[1],
                   HeadBoundary(text, Min({Remaining[2], Remaining[1] + limit}))>>),
               Within(text, Remaining)
        PROVE  ExcerptsInv'
    <2> DEFINE first == Remaining[1]
               end == Min({last, first + limit})
               piece == <<first, HeadBoundary(text, end)>>
    <2>1. first \in Boundaries(text) /\ last \in Boundaries(text) /\ first \in Nat /\ last \in Nat
          /\ first < last
      BY <1>1, <1>2, <1>5 DEF Within, ToSet
    <2>2. limit \in Nat /\ limit >= 4
      BY ExcerptsAssumption
    <2> HIDE DEF first, last, text
    <2>3. end \in Nat /\ end <= last /\ (end = last \/ first + 3 <= end)
      <3>1. first + limit \in Nat
        BY <2>1, <2>2
      <3>2. end = IF last <= first + limit THEN last ELSE first + limit
        BY <2>1, <3>1, MinOfTwo
      <3> QED BY <2>1, <2>2, <3>1, <3>2
    <2> HIDE DEF end
    <2>4. HeadBoundary(text, end) > first
      BY <1>2, <2>1, <2>3, HeadAdvances
    <2>5. HeadBoundary(text, end) \in Boundaries(text) /\ HeadBoundary(text, end) <= last
          /\ HeadBoundary(text, end) \in Nat
      BY <1>2, <2>1, <2>3, HeadIs
    <2>6. pieces' = Append(pieces, piece) /\ piece \in Nat \X Nat /\ piece[1] = first
          /\ piece[1] < piece[2] /\ piece[2] \in Boundaries(text) /\ piece[2] <= last
      BY <1>5, <2>1, <2>4, <2>5 DEF end, first, last, text
    <2> HIDE DEF piece
    <2>7. /\ pieces' \in Seq(Nat \X Nat) /\ pieces' # <<>> /\ Last(pieces') = piece
          /\ \A i \in DOMAIN pieces' : pieces'[i][1] < pieces'[i][2]
          /\ pieces'[1] = IF pieces = <<>> THEN piece ELSE pieces[1]
      <3>1. pieces \in Seq(Nat \X Nat) /\ \A i \in DOMAIN pieces : pieces[i][1] < pieces[i][2]
        BY <1>1 DEF PiecesInOrder
      <3>2. /\ Len(pieces') = Len(pieces) + 1 /\ DOMAIN pieces' = 1 .. (Len(pieces) + 1)
            /\ pieces'[Len(pieces) + 1] = piece /\ Len(pieces) \in Nat
            /\ \A i \in 1 .. Len(pieces) : pieces'[i] = pieces[i]
            /\ pieces' \in Seq(Nat \X Nat) /\ DOMAIN pieces = 1 .. Len(pieces)
        BY <2>6, <3>1
      <3>3. pieces = <<>> <=> Len(pieces) = 0
        BY <3>1
      <3>4. \A i \in 1 .. (Len(pieces) + 1) : i \in 1 .. Len(pieces) \/ i = Len(pieces) + 1
        BY <3>2
      <3>5. \A i \in DOMAIN pieces' : pieces'[i][1] < pieces'[i][2]
        BY <2>6, <3>1, <3>2, <3>4
      <3> QED BY <3>2, <3>3, <3>5 DEF Last
    <2>8. pieces'[1][1] = shown.citation[1]
      BY <1>1, <2>6, <2>7 DEF PiecesInOrder, first
    <2>9. Within(text, shown.citation)
      <3>1. shown.citation = <<shown.citation[1], shown.citation[2]>>
        BY <1>1 DEF CitedRight
      <3>2. pieces = <<>> => shown.citation[1] \in Boundaries(text)
        BY <1>1, <2>1 DEF first
      <3>3. shown.citation[2] \in Boundaries(text)
        BY <1>1, <2>1 DEF last
      <3>4. pieces # <<>> => Within(text, shown.citation)
        BY <1>1 DEF PiecesInOrder, text
      <3>5. CASE pieces = <<>>
        <4>1. ToSet(shown.citation) = {shown.citation[1], shown.citation[2]}
          BY <3>1 DEF ToSet
        <4> QED BY <3>2, <3>3, <3>5, <4>1 DEF Within
      <3> QED BY <3>4, <3>5
    <2>10. last = shown.citation[2]
      BY <1>1 DEF last
    <2>11. PiecesInOrder'
      <3>1. Cited' /\ shown'.text = text /\ shown'.citation = shown.citation
        BY <1>1, <1>5 DEF Cited, text
      <3> QED BY <2>6, <2>7, <2>8, <2>9, <2>10, <3>1 DEF PiecesInOrder
    <2> QED BY <1>1, <1>5, <2>11 DEF ExcerptsInv, Cited, CitedRight, text
  <1>6. PICK limit \in FetchLimits :
       IF \/ Remaining[2] > Size(text)
          \/ ~ (ToSet(Remaining) \subseteq Boundaries(text))
       THEN shown' = [stage |-> "refused", of |-> shown] /\ UNCHANGED pieces
       ELSE /\ pieces' = Append(pieces,
                 <<Remaining[1],
                   HeadBoundary(text, Min({Remaining[2], Remaining[1] + limit}))>>)
            /\ UNCHANGED shown
    BY DEF CitationGet
  <1> HIDE DEF text, last
  <1> QED BY <1>4, <1>5, <1>6 DEF Within

LEMMA ExcerptsStep == ExcerptsInv /\ [ExcerptsNext]_excerptVars => ExcerptsInv'
  <1>1. ExcerptsInv /\ UNCHANGED excerptVars => ExcerptsInv'
    BY DEF ExcerptsInv, excerptVars, Cited, CitedRight, PiecesInOrder
  <1> QED BY <1>1, ArtifactKeeps, EvidenceKeeps, GetKeeps DEF ExcerptsNext

\* The citations that are handed out begin with the excerpt they are of, and the
\* pieces that citation.get returned follow each other inside them.
THEOREM CitationsInOrder == ExcerptsSpec => []ExcerptsInv
  <1>1. ExcerptsInit => ExcerptsInv
    BY DEF ExcerptsInit, ExcerptsInv, Cited, PiecesInOrder
  <1> QED BY <1>1, ExcerptsStep, PTL DEF ExcerptsSpec

\* What a recall showed can be fetched, byte for byte, whatever the texts, the
\* spans, the matches and the limits (matched_window, rewrite_citation_span and
\* build_citation_get of service.rs).
THEOREM ShownCanBeFetched == ExcerptsSpec => []CitedBytesAreShown
  <1>1. ASSUME ExcerptsInv PROVE CitedBytesAreShown
    <2>1. shown.stage = "refused" => pieces = <<>>
      BY <1>1 DEF ExcerptsInv, PiecesInOrder, Cited
    <2>2. ASSUME Cited, pieces # <<>>
          PROVE  /\ pieces[1][1] = shown.from
                 /\ Remaining[1] = Remaining[2] =>
                      \/ Last(pieces)[2] = shown.to
                      \/ shown.stage = "evidence" /\ Last(pieces)[2] > shown.to
      <3>1. CitedRight /\ PiecesInOrder /\ Within(shown.text, shown.citation)
        BY <1>1, <2>2 DEF ExcerptsInv, PiecesInOrder
      <3>2. Remaining[1] = Last(pieces)[2] /\ Remaining[2] = shown.citation[2]
        BY <2>2 DEF Remaining
      <3> QED BY <2>2, <3>1, <3>2 DEF CitedRight, PiecesInOrder, Cited
    <2> QED BY <1>1, <2>1, <2>2 DEF CitedBytesAreShown, ExcerptsInv, PiecesInOrder, Within
  <1> QED BY <1>1, CitationsInOrder, PTL

-----------------------------------------------------------------------------
(* Offsets in ascending order.                                             *)

\* How many offsets are below one tells them apart.
LEMMA RanksBelow ==
  ASSUME NEW m \in Nat, NEW keys \in SUBSET (1 .. m), NEW k \in keys
  PROVE  /\ Cardinality({x \in keys : x < k}) \in 0 .. Cardinality(keys) - 1
         /\ \A l \in keys : k < l =>
              Cardinality({x \in keys : x < k}) < Cardinality({x \in keys : x < l})
  <1> DEFINE below(y) == {x \in keys : x < y}
  <1>0. \A x \in keys : x \in Int
    OBVIOUS
  <1>1. IsFiniteSet(keys) /\ \A y : IsFiniteSet(below(y)) /\ Cardinality(below(y)) \in Nat
    BY BoundedFinite, FS_Subset, FS_CardinalityType
  <1>2. below(k) \subseteq keys /\ k \notin below(k)
    BY <1>0
  <1>3. ASSUME NEW l \in keys, k < l
        PROVE  below(k) \subseteq below(l) /\ k \in below(l)
    <2>1. k \in Int /\ l \in Int /\ \A x \in keys : x \in Int /\ (x < k => x < l)
      BY <1>0, <1>3
    <2> QED BY <1>3, <2>1
  <1> HIDE DEF below
  <1>4. Cardinality(below(k)) <= Cardinality(keys) /\ Cardinality(below(k)) # Cardinality(keys)
    BY <1>1, <1>2, FS_Subset
  <1>5. ASSUME NEW l \in keys, k < l
        PROVE  Cardinality(below(k)) <= Cardinality(below(l))
               /\ Cardinality(below(k)) # Cardinality(below(l))
    BY <1>1, <1>2, <1>3, <1>5, FS_Subset
  <1>6. Cardinality(keys) \in Nat
    BY <1>1, FS_CardinalityType
  <1>7. /\ Cardinality(below(k)) \in 0 .. Cardinality(keys) - 1
        /\ \A l \in keys : k < l => Cardinality(below(k)) < Cardinality(below(l))
    BY <1>1, <1>4, <1>5, <1>6
  <1> QED BY <1>7 DEF below

\* The offsets of a set in ascending order: each has a place, the lesser the
\* earlier.
LEMMA AscendingIs ==
  ASSUME NEW m \in Nat, NEW keys \in SUBSET (1 .. m)
  PROVE  /\ AscendingOffsets(keys) \in Seq(keys) /\ Len(AscendingOffsets(keys)) = Cardinality(keys)
         /\ \A k \in keys : \E i \in DOMAIN AscendingOffsets(keys) : AscendingOffsets(keys)[i] = k
         /\ \A i, j \in DOMAIN AscendingOffsets(keys) :
              i < j => AscendingOffsets(keys)[i] < AscendingOffsets(keys)[j]
  <1> DEFINE n == Cardinality(keys)
             ahead == [k \in keys |-> Cardinality({x \in keys : x < k})]
             at(i) == CHOOSE k \in keys : Cardinality({x \in keys : x < k}) = i - 1
  <1>1. IsFiniteSet(keys) /\ n \in Nat
    BY BoundedFinite
  <1>2. \A k, l \in keys : k < l => ahead[k] < ahead[l]
    BY RanksBelow
  <1>3. \A k \in keys : ahead[k] \in 0 .. n - 1
    BY RanksBelow
  <1>4. \A k, l \in keys : k # l => k < l \/ l < k
    OBVIOUS
  <1> HIDE DEF ahead
  <1>5. ahead \in Injection(keys, 0 .. n - 1)
    <2>1. ahead \in [keys -> 0 .. n - 1]
      BY <1>3 DEF ahead
    <2>2. \A k, l \in keys : k # l => ahead[k] # ahead[l]
      BY <1>1, <1>2, <1>3, <1>4
    <2> QED BY <2>1, <2>2, Zenon DEF Injection, IsInjective
  <1>6. ahead \in Surjection(keys, 0 .. n - 1)
    <2>1. IsFiniteSet(0 .. n - 1) /\ Cardinality(0 .. n - 1) = n
      BY <1>1, FS_Interval
    <2> QED BY <1>5, <2>1, FS_Injection
  <1>7. \A i \in 1 .. n : \E k \in keys : ahead[k] = i - 1
    <2>1. \A i \in 1 .. n : i - 1 \in 0 .. n - 1
      BY <1>1
    <2> QED BY <1>6, <2>1 DEF Surjection
  <1>8. \A i \in 1 .. n : at(i) \in keys /\ ahead[at(i)] = i - 1
    BY <1>7 DEF ahead
  <1>9. AscendingOffsets(keys) = [i \in 1 .. n |-> at(i)]
    BY DEF AscendingOffsets
  <1> HIDE DEF at
  <1>10. \A k \in keys : ahead[k] + 1 \in 1 .. n /\ at(ahead[k] + 1) = k
    <2> TAKE k \in keys
    <2>1. ahead[k] + 1 \in 1 .. n /\ ahead[k] + 1 - 1 = ahead[k]
      BY <1>1, <1>3
    <2> DEFINE i == ahead[k] + 1
    <2>2. i \in 1 .. n /\ i - 1 = ahead[k]
      BY <1>3, <2>1
    <2> HIDE DEF i
    <2>3. at(i) \in keys /\ ahead[at(i)] = ahead[k]
      BY <1>8, <2>2
    <2>4. ASSUME at(i) # k PROVE FALSE
      <3>1. ahead[at(i)] < ahead[k] \/ ahead[k] < ahead[at(i)]
        BY <1>2, <1>4, <2>3, <2>4
      <3>2. ahead[k] \in Int
        BY <1>3, <1>1
      <3> QED BY <2>3, <3>1, <3>2
    <2> QED BY <2>2, <2>4 DEF i
  <1>11. \A i, j \in 1 .. n : i < j => at(i) < at(j)
    <2> TAKE i, j \in 1 .. n
    <2> HAVE i < j
    <2>1. /\ at(i) \in keys /\ at(j) \in keys
          /\ ahead[at(i)] = i - 1 /\ ahead[at(j)] = j - 1
      BY <1>8
    <2> DEFINE x == at(i)
               y == at(j)
    <2>2. x \in keys /\ y \in keys /\ ahead[x] = i - 1 /\ ahead[y] = j - 1
      BY <2>1
    <2>3. i \in Int /\ j \in Int /\ i - 1 < j - 1
      BY <1>1
    <2> HIDE DEF x, y
    <2>4. ~(y < x) /\ x # y
      BY <1>2, <2>2, <2>3
    <2>5. x < y
      BY <1>4, <2>2, <2>4
    <2> QED BY <2>5 DEF x, y
  <1>12. AscendingOffsets(keys) \in [1 .. n -> keys]
    BY <1>8, <1>9
  <1> HIDE DEF n
  <1>13. AscendingOffsets(keys) \in Seq(keys) /\ Len(AscendingOffsets(keys)) = n
         /\ DOMAIN AscendingOffsets(keys) = 1 .. n
    BY <1>1, <1>12
  <1>14. \A i \in 1 .. n : AscendingOffsets(keys)[i] = at(i)
    BY <1>9
  <1>15. \A k \in keys : \E i \in 1 .. n : AscendingOffsets(keys)[i] = k
    BY <1>10, <1>14
  <1>16. \A i, j \in 1 .. n : i < j => AscendingOffsets(keys)[i] < AscendingOffsets(keys)[j]
    BY <1>11, <1>14
  <1> QED BY <1>13, <1>15, <1>16 DEF n

-----------------------------------------------------------------------------
(* Lines.                                                                  *)

\* The lines of a text follow each other from its start to its end.
LEMMA LinesAre ==
  ASSUME NEW text, IsText(text), DOMAIN text = 1 .. Len(text), NEW lines, lines = BundleLines(text)
  PROVE  /\ lines \in Seq([from : Nat, to : Nat])
         /\ \A i \in 1 .. Len(lines) :
              /\ lines[i].from = IF i = 1 THEN 0 ELSE lines[i - 1].to
              /\ lines[i].from < lines[i].to /\ lines[i].to <= Size(text)
              /\ lines[i].to \in Boundaries(text)
         /\ IF Len(lines) = 0 THEN Size(text) = 0 ELSE lines[Len(lines)].to = Size(text)
  <1> DEFINE marks == {b \in 1 .. Size(text) : b \in CharEnds(text, {"n"}) \/ b = Size(text)}
             ends == LineEnds(text)
             n == Len(ends)
  <1>1. Size(text) \in Nat /\ Size(text) \in Boundaries(text)
    BY BoundariesIn
  <1>2. /\ ends \in Seq(marks)
        /\ \A b \in marks : \E i \in DOMAIN ends : ends[i] = b
        /\ \A i, j \in DOMAIN ends : i < j => ends[i] < ends[j]
    <2>1. marks \in SUBSET (1 .. Size(text))
      OBVIOUS
    <2>2. ends = AscendingOffsets(marks)
      BY DEF LineEnds
    <2> HIDE DEF marks, ends
    <2> QED BY <1>1, <2>1, <2>2, AscendingIs
  <1>3. \A b \in marks : b \in Boundaries(text) /\ b \in 1 .. Size(text)
    <2>1. ASSUME NEW b \in CharEnds(text, {"n"}) PROVE b \in Boundaries(text)
      <3>1. PICK i \in 1 .. Len(text) : b = Offset(text, i)
        BY DEF CharEnds
      <3>2. Len(text) \in Nat
        BY DEF IsText
      <3>3. i \in 0 .. Len(text)
        BY <3>2
      <3> QED BY <3>1, <3>3 DEF Boundaries
    <2> QED BY <1>1, <2>1
  <1>4. Size(text) # 0 => Size(text) \in marks
    BY <1>1
  <1> HIDE DEF marks, ends
  <1>5. n \in Nat /\ DOMAIN ends = 1 .. n /\ \A i \in 1 .. n : ends[i] \in marks
    BY <1>2
  <1>6. lines = [i \in 1 .. n |-> [from |-> IF i = 1 THEN 0 ELSE ends[i - 1], to |-> ends[i]]]
    BY <1>5 DEF BundleLines, ends
  <1>7. \A i \in 1 .. n : ends[i] \in Nat /\ ends[i] # 0 /\ ends[i] <= Size(text)
    BY <1>1, <1>3, <1>5
  <1>8. \A i \in 1 .. n : i # 1 => i - 1 \in 1 .. n /\ i - 1 < i
    BY <1>5
  <1> HIDE DEF n
  <1>9. lines \in [1 .. n -> [from : Nat, to : Nat]]
    BY <1>6, <1>7, <1>8
  <1>10. Len(lines) = n /\ lines \in Seq([from : Nat, to : Nat])
    BY <1>5, <1>9, FunctionIsSeq
  <1>11. \A i \in 1 .. n : lines[i].to = ends[i] /\ lines[i].from = IF i = 1 THEN 0 ELSE ends[i - 1]
    BY <1>6
  <1>12. ASSUME NEW i \in 1 .. n
         PROVE  /\ lines[i].from = IF i = 1 THEN 0 ELSE lines[i - 1].to
                /\ lines[i].from < lines[i].to /\ lines[i].to <= Size(text)
                /\ lines[i].to \in Boundaries(text)
    <2>1. i # 1 => ends[i - 1] < ends[i]
      BY <1>2, <1>5, <1>8
    <2> QED BY <1>3, <1>5, <1>7, <1>8, <1>11, <2>1
  <1>13. IF n = 0 THEN Size(text) = 0 ELSE lines[n].to = Size(text)
    <2>1. ASSUME n # 0 PROVE ends[n] = Size(text)
      <3>0. n \in 1 .. n
        BY <1>5, <2>1
      <3>1. Size(text) \in marks
        BY <1>1, <1>4, <1>7, <3>0
      <3>2. PICK i \in 1 .. n : ends[i] = Size(text)
        BY <1>2, <1>5, <3>1
      <3>3. i = n
        <4>1. i < n => ends[i] < ends[n]
          BY <1>2, <1>5, <3>0
        <4>2. i \in Int /\ i <= n /\ n \in Int
          BY <1>5
        <4> QED BY <1>1, <1>7, <3>0, <3>2, <4>1, <4>2
      <3> QED BY <3>2, <3>3
    <2>2. ASSUME n = 0 PROVE Size(text) = 0
      BY <1>2, <1>4, <1>5, <2>2
    <2>3. n # 0 => n \in 1 .. n
      BY <1>5
    <2> QED BY <1>11, <2>1, <2>2, <2>3
  <1> QED BY <1>10, <1>12, <1>13

-----------------------------------------------------------------------------
(* A quoted text.                                                          *)

Quotes == [size : Int, included : Int, cut : BOOLEAN]

NothingQuoted == [size |-> 0, included |-> 0, cut |-> FALSE]

LEMMA QuoteLineType ==
  ASSUME NEW text, IsText(text), NEW max \in Int, NEW done \in Quotes,
         NEW line \in [from : Nat, to : Nat]
  PROVE  QuoteLine(text, max, done, line) \in Quotes
  <1> DEFINE room == max - done.size
             limit == Min({line.to, line.from + room - 2})
             to == HeadBoundary(text, limit)
  <1>0. room \in Int /\ done.included \in Int /\ done.cut \in BOOLEAN /\ done.size \in Int
        /\ line.from \in Nat /\ line.to \in Nat
    BY DEF Quotes
  <1>1. QuoteLine(text, max, done, line)
          = IF done.cut \/ room <= 2 THEN [done EXCEPT !.cut = TRUE]
            ELSE [size |-> done.size + 2 + to - line.from,
                  included |-> done.included + to - line.from,
                  cut |-> to < line.to]
    BY DEF QuoteLine
  <1>2. ASSUME ~(room <= 2) PROVE to \in Int
    <2> HIDE DEF room
    <2>1. line.from + room - 2 \in Nat
      BY <1>0, <1>2
    <2>2. limit \in Nat
      BY <1>0, <2>1, MinOfTwo
    <2> HIDE DEF limit
    <2>3. to \in 0 .. Size(text) /\ Size(text) \in Nat
      BY <2>2, HeadIs, BoundariesIn
    <2> QED BY <2>3
  <1> DEFINE next == QuoteLine(text, max, done, line)
  <1> HIDE DEF to, room
  <1>3. CASE done.cut \/ room <= 2
    <2>1. next = [done EXCEPT !.cut = TRUE]
      BY <1>1, <1>3
    <2> HIDE DEF next
    <2> QED BY <2>1 DEF Quotes, next
  <1>4. CASE ~(done.cut \/ room <= 2)
    <2>1. next = [size |-> done.size + 2 + to - line.from,
                  included |-> done.included + to - line.from, cut |-> to < line.to]
      BY <1>1, <1>4
    <2>2. done.size + 2 + to - line.from \in Int /\ done.included + to - line.from \in Int
          /\ (to < line.to) \in BOOLEAN
      BY <1>0, <1>2, <1>4
    <2> DEFINE size == done.size + 2 + to - line.from
               included == done.included + to - line.from
               cut == to < line.to
    <2>3. size \in Int /\ included \in Int /\ cut \in BOOLEAN
          /\ next = [size |-> size, included |-> included, cut |-> cut]
      BY <2>1, <2>2
    <2> HIDE DEF size, included, cut, next
    <2>4. next \in Quotes
      BY <2>3 DEF Quotes
    <2> QED BY <2>4 DEF next
  <1> QED BY <1>3, <1>4

\* The accumulators of a quotation.
Renders(acc, text, max) ==
  /\ acc \in [0 .. Len(BundleLines(text)) -> Quotes]
  /\ acc[0] = NothingQuoted
  /\ \A i \in 1 .. Len(BundleLines(text)) :
       acc[i] = QuoteLine(text, max, acc[i - 1], BundleLines(text)[i])
  /\ Quoted(text, max) = acc[Len(BundleLines(text))]

LEMMA QuotedRenders ==
  ASSUME NEW text, IsText(text), DOMAIN text = 1 .. Len(text), NEW max \in Int
  PROVE  \E acc : Renders(acc, text, max)
  <1> DEFINE E == [from : Nat, to : Nat]
             lines == BundleLines(text)
             D == DOMAIN lines
             step == [p \in Quotes \X E |-> QuoteLine(text, max, p[1], p[2])]
             iter[S \in SUBSET D] ==
               IF S = {} THEN NothingQuoted
               ELSE QuoteLine(text, max, iter[S \ {Max(S)}], lines[Max(S)])
  <1>1. lines \in Seq(E)
    BY LinesAre
  <1>2. Quoted(text, max) = iter[D]
    BY Zenon DEF Quoted, FoldLeft, MapThenFoldSet, NothingQuoted
  <1> HIDE DEF lines
  <1>3. D = 1 .. Len(lines) /\ Len(lines) \in Nat /\ \A i \in D : lines[i] \in E
    BY <1>1, SeqIs
  <1>4. NothingQuoted \in Quotes
    BY DEF Quotes, NothingQuoted
  <1>5. step \in [Quotes \X E -> Quotes]
    BY QuoteLineType
  <1>6. PICK f \in [SUBSET D -> Quotes] : Folds(f, Len(lines), step, NothingQuoted, lines)
    <2> HIDE DEF step, E
    <2> QED BY <1>1, <1>4, <1>5, FoldExists
  <1>7. f = [S \in SUBSET D |->
               IF S = {} THEN NothingQuoted
               ELSE QuoteLine(text, max, f[S \ {Max(S)}], lines[Max(S)])]
    <2>1. ASSUME NEW S \in SUBSET D, S # {}
          PROVE  f[S] = QuoteLine(text, max, f[S \ {Max(S)}], lines[Max(S)])
      <3>1. f[S] = step[<<f[S \ {Max(S)}], lines[Max(S)]>>]
        BY <1>3, <1>6, <2>1 DEF Folds
      <3>2. Max(S) \in S
        <4>1. S \in SUBSET Nat /\ \A i \in S : i <= Len(lines)
          BY <1>3
        <4> QED BY <1>3, <2>1, <4>1, Greatest
      <3>3. f[S \ {Max(S)}] \in Quotes /\ lines[Max(S)] \in E
        BY <1>3, <1>6, <3>2
      <3> HIDE DEF E
      <3> QED BY <3>1, <3>3
    <2>2. f[{}] = NothingQuoted
      BY <1>3, <1>6 DEF Folds
    <2> QED BY <1>6, <2>1, <2>2
  <1>8. iter = [S \in SUBSET D |->
                  IF S = {} THEN NothingQuoted
                  ELSE QuoteLine(text, max, iter[S \ {Max(S)}], lines[Max(S)])]
    BY <1>7, Zenon
  <1> HIDE DEF iter, step
  <1> DEFINE n == Len(lines)
             acc == [i \in 0 .. n |-> iter[1 .. i]]
             Good == {i \in 0 .. n : acc[i] \in Quotes}
  <1>9. /\ acc[0] = iter[{}]
        /\ \A i \in 1 .. n : /\ 1 .. i \in SUBSET D /\ 1 .. i # {} /\ Max(1 .. i) = i
                             /\ acc[i] = iter[1 .. i]
                             /\ acc[i - 1] = iter[(1 .. i) \ {Max(1 .. i)}]
    <2>1. Samples(acc, iter, n)
      BY DEF Samples
    <2> HIDE DEF n, acc
    <2>2. FoldSteps(acc, iter, n)
      BY <1>3, <2>1, FoldAccumulates DEF n
    <2> QED BY <1>3, <2>2 DEF FoldSteps, n
  <1>10. acc[n] = iter[D] /\ acc = [i \in 0 .. n |-> acc[i]]
    BY <1>3
  <1> HIDE DEF acc
  <1>11. acc[0] = NothingQuoted
    <2>1. {} \in SUBSET D
      OBVIOUS
    <2> QED BY <1>8, <1>9, <2>1
  <1>12. ASSUME NEW i \in 1 .. n PROVE acc[i] = QuoteLine(text, max, acc[i - 1], lines[i])
    <2>1. /\ 1 .. i \in SUBSET D /\ 1 .. i # {} /\ Max(1 .. i) = i
          /\ acc[i] = iter[1 .. i] /\ acc[i - 1] = iter[(1 .. i) \ {Max(1 .. i)}]
      BY <1>9
    <2>2. iter[1 .. i] = QuoteLine(text, max, iter[(1 .. i) \ {Max(1 .. i)}], lines[Max(1 .. i)])
      BY <1>8, <2>1, Zenon
    <2> QED BY <2>1, <2>2
  <1>13. 0 .. n \subseteq Good
    <2>1. 0 \in Good
      BY <1>3, <1>4, <1>11
    <2>2. ASSUME NEW i \in 1 .. n, i - 1 \in Good PROVE i \in Good
      <3>1. acc[i - 1] \in Quotes /\ lines[i] \in E /\ i \in 0 .. n
        BY <1>3, <2>2
      <3>2. QuoteLine(text, max, acc[i - 1], lines[i]) \in Quotes
        BY <3>1, QuoteLineType
      <3> QED BY <1>12, <3>1, <3>2
    <2> HIDE DEF Good
    <2> QED BY <1>3, <2>1, <2>2, Climb
  <1>14. acc \in [0 .. n -> Quotes]
    BY <1>10, <1>13
  <1> QED BY <1>2, <1>10, <1>11, <1>12, <1>14 DEF Renders, lines

\* What is known after i lines of a quotation.
AtLine(text, max, done, i, from) ==
  /\ done \in Quotes /\ done.size \in Nat /\ done.included \in Boundaries(text)
  /\ max >= 0 => done.size <= max
  /\ i <= from
  /\ ~done.cut => done.included = from /\ done.size = from + 2 * i
  /\ done.cut => done.included < Size(text)
  /\ max = 3 * Size(text) => ~done.cut

LEMMA QuoteLineIs ==
  ASSUME NEW text, IsText(text), NEW max \in Int, NEW i \in Nat, NEW done,
         NEW line \in [from : Nat, to : Nat], line.from \in Boundaries(text),
         line.to \in Boundaries(text), line.from < line.to, line.to <= Size(text),
         AtLine(text, max, done, i, line.from)
  PROVE  AtLine(text, max, QuoteLine(text, max, done, line), i + 1, line.to)
  <1> DEFINE room == max - done.size
             limit == Min({line.to, line.from + room - 2})
             to == HeadBoundary(text, limit)
             next == QuoteLine(text, max, done, line)
  <1>1. /\ room \in Int /\ done \in Quotes /\ done.size \in Nat /\ done.cut \in BOOLEAN
        /\ line.from \in Nat /\ line.to \in Nat /\ Size(text) \in Nat
        /\ done.included \in Boundaries(text) /\ done.included \in Nat
    BY BoundariesIn DEF Quotes, AtLine
  <1>2. next = IF done.cut \/ room <= 2 THEN [done EXCEPT !.cut = TRUE]
               ELSE [size |-> done.size + 2 + to - line.from,
                     included |-> done.included + to - line.from,
                     cut |-> to < line.to]
    BY DEF QuoteLine
  <1>3. next \in Quotes
    BY <1>1, QuoteLineType
  <1> SUFFICES AtLine(text, max, next, i + 1, line.to)
    OBVIOUS
  <1> HIDE DEF next, to, limit
  <1>4. CASE done.cut
    <2>1. next.size = done.size /\ next.included = done.included /\ next.cut = TRUE
      BY <1>1, <1>2, <1>4 DEF Quotes
    <2>2. /\ max >= 0 => done.size <= max
          /\ done.included < Size(text) /\ max # 3 * Size(text) /\ i <= line.from
      BY <1>4 DEF AtLine
    <2> HIDE DEF room
    <2>3. i + 1 <= line.to /\ next.size \in Nat /\ next.included \in Boundaries(text)
          /\ (max >= 0 => next.size <= max) /\ next.included < Size(text)
      BY <1>1, <2>1, <2>2
    <2>4. next.cut
      BY <2>1
    <2> QED BY <1>3, <2>2, <2>3, <2>4, Zenon DEF AtLine
  <1>5. CASE ~done.cut /\ room <= 2
    <2>1. next.size = done.size /\ next.included = done.included /\ next.cut = TRUE
      BY <1>1, <1>2, <1>5 DEF Quotes
    <2>2. max # 3 * Size(text)
      BY <1>1, <1>5 DEF AtLine
    <2>3. /\ max >= 0 => done.size <= max
          /\ done.included = line.from /\ i <= line.from
      BY <1>5 DEF AtLine
    <2> HIDE DEF room
    <2>4. i + 1 <= line.to /\ next.size \in Nat /\ next.included \in Boundaries(text)
          /\ (max >= 0 => next.size <= max) /\ next.included < Size(text)
      BY <1>1, <2>1, <2>3
    <2>5. next.cut
      BY <2>1
    <2> QED BY <1>3, <2>2, <2>4, <2>5, Zenon DEF AtLine
  <1>6. CASE ~done.cut /\ ~(room <= 2)
    <2>1. /\ next.size = done.size + 2 + to - line.from
          /\ next.included = done.included + to - line.from
          /\ next.cut <=> to < line.to
      <3>1. next = [size |-> done.size + 2 + to - line.from,
                    included |-> done.included + to - line.from, cut |-> to < line.to]
        BY <1>2, <1>6
      <3> QED BY <3>1, Zenon
    <2>2. line.from + room - 2 \in Nat /\ line.from <= line.from + room - 2
      BY <1>1, <1>6
    <2>3. limit = IF line.to <= line.from + room - 2 THEN line.to ELSE line.from + room - 2
      <3> DEFINE rest == line.from + room - 2
      <3>1. rest \in Nat
        BY <2>2
      <3> HIDE DEF rest
      <3>2. Min({line.to, rest}) = IF line.to <= rest THEN line.to ELSE rest
        BY <1>1, <3>1, MinOfTwo
      <3> QED BY <3>2 DEF limit, rest
    <2>4. limit \in Nat /\ limit <= line.to /\ limit <= line.from + room - 2 /\ line.from <= limit
      BY <1>1, <2>2, <2>3
    <2>5. to \in Boundaries(text) /\ to \in Nat /\ to <= limit /\ line.from <= to
          /\ (limit = line.to => line.to <= to)
      BY <1>1, <2>4, HeadIs DEF to
    <2>6. done.included = line.from /\ done.size = line.from + 2 * i /\ i <= line.from
      BY <1>6 DEF AtLine
    <2>7. next.included = to /\ next.size = to + 2 * (i + 1)
      BY <1>1, <2>1, <2>5, <2>6
    <2>8. next.size <= max
      BY <1>1, <2>1, <2>4, <2>5
    <2>9. ~next.cut => to = line.to
      BY <1>1, <2>1, <2>4, <2>5
    <2>10. max = 3 * Size(text) => ~next.cut
      <3>1. ASSUME max = 3 * Size(text) PROVE line.to <= line.from + room - 2
        BY <1>1, <2>6, <3>1
      <3> QED BY <1>1, <2>1, <2>3, <2>5, <3>1
    <2>11. next.cut => to < Size(text)
      BY <1>1, <2>1, <2>5
    <2>12. i + 1 <= line.to
      BY <1>1, <2>6
    <2> HIDE DEF room
    <2>13. /\ next.size \in Nat /\ next.included \in Boundaries(text)
           /\ next.cut => next.included < Size(text)
           /\ ~next.cut => next.included = line.to /\ next.size = line.to + 2 * (i + 1)
      BY <1>1, <2>5, <2>7, <2>9, <2>11
    <2> QED BY <1>3, <2>8, <2>10, <2>12, <2>13, Zenon DEF AtLine
  <1> QED BY <1>4, <1>5, <1>6

\* What a quotation shows of a text: what fits, between characters, and all of it
\* unless it is cut.
LEMMA QuotedIs ==
  ASSUME NEW text, IsText(text), DOMAIN text = 1 .. Len(text), NEW max \in Int,
         NEW quoted, quoted = Quoted(text, max)
  PROVE  /\ quoted \in Quotes /\ quoted.size \in Nat /\ quoted.included \in Boundaries(text)
         /\ max >= 0 => quoted.size <= max
         /\ ~quoted.cut => /\ quoted.included = Size(text)
                           /\ quoted.size = Size(text) + 2 * Len(BundleLines(text))
         /\ quoted.cut => quoted.included < Size(text)
         /\ max = 3 * Size(text) => ~quoted.cut
  <1> DEFINE lines == BundleLines(text)
             n == Len(lines)
             from(i) == IF i = 0 THEN 0 ELSE lines[i].to
  <1>1. PICK acc : Renders(acc, text, max)
    BY QuotedRenders
  <1> DEFINE Good == {i \in 0 .. n : AtLine(text, max, acc[i], i, from(i))}
  <1>2. /\ lines \in Seq([from : Nat, to : Nat])
        /\ \A i \in 1 .. n :
              /\ lines[i].from = IF i = 1 THEN 0 ELSE lines[i - 1].to
              /\ lines[i].from < lines[i].to /\ lines[i].to <= Size(text)
              /\ lines[i].to \in Boundaries(text)
         /\ IF n = 0 THEN Size(text) = 0 ELSE lines[n].to = Size(text)
    BY LinesAre, Zenon
  <1>3. /\ acc \in [0 .. n -> Quotes] /\ acc[0] = NothingQuoted
        /\ \A i \in 1 .. n : acc[i] = QuoteLine(text, max, acc[i - 1], lines[i])
        /\ quoted = acc[n]
    BY <1>1 DEF Renders
  <1> HIDE DEF lines
  <1>4. n \in Nat /\ \A i \in 1 .. n : lines[i] \in [from : Nat, to : Nat]
    BY <1>2, SeqIs
  <1>5. Size(text) \in Nat /\ 0 \in Boundaries(text)
    BY BoundariesIn
  <1>6. 0 \in Good
    <2>1. AtLine(text, max, NothingQuoted, 0, 0)
      BY <1>5 DEF AtLine, NothingQuoted, Quotes
    <2> QED BY <1>3, <1>4, <2>1
  <1>7. ASSUME NEW i \in 1 .. n, i - 1 \in Good PROVE i \in Good
    <2>1. i - 1 \in Nat /\ i - 1 + 1 = i /\ i \in 0 .. n /\ i # 0
      BY <1>4
    <2>2. AtLine(text, max, acc[i - 1], i - 1, from(i - 1))
      BY <1>7
    <2>3. from(i - 1) = lines[i].from /\ lines[i].from \in Boundaries(text)
      <3>1. CASE i = 1
        BY <1>2, <1>5, <3>1
      <3>2. CASE i # 1
        <4>1. i - 1 \in 1 .. n /\ i - 1 # 0
          BY <1>4, <3>2
        <4> QED BY <1>2, <3>2, <4>1
      <3> QED BY <3>1, <3>2
    <2>4. AtLine(text, max, acc[i - 1], i - 1, lines[i].from)
      BY <2>2, <2>3
    <2>5. AtLine(text, max, QuoteLine(text, max, acc[i - 1], lines[i]), i - 1 + 1, lines[i].to)
      BY <1>2, <1>4, <2>1, <2>3, <2>4, QuoteLineIs
    <2> QED BY <1>3, <2>1, <2>5
  <1>8. n \in 0 .. n /\ 0 .. n \subseteq Good
    <2> HIDE DEF Good, n
    <2>1. 0 .. n \subseteq Good
      BY <1>4, <1>6, <1>7, Climb
    <2> QED BY <1>4, <2>1
  <1>9. AtLine(text, max, quoted, n, from(n)) /\ from(n) = Size(text)
    BY <1>2, <1>3, <1>8
  <1> HIDE DEF n
  <1> QED BY <1>9 DEF AtLine, n, lines

-----------------------------------------------------------------------------
(* Hits.                                                                   *)

Items(n) == [hit : 1 .. n, included : Nat, cut : BOOLEAN]

Built(n) == [used : Int, manifest : Seq(Items(n)), omitted : Nat]

Hits == [type : {"claim", "artifact"}, text : Excerpted]

LEMMA TextsAre ==
  ASSUME NEW text \in Excerpted \cup {Unavailable}
  PROVE  IsText(text) /\ DOMAIN text = 1 .. Len(text)
  <1>1. text \in Seq({"a", "n", "w"})
    BY BundleAssumption
  <1> QED BY <1>1, SeqIs DEF IsText

\* An item of a bundle is what BundleFaithful asks of it.
Faithful(item, hit) ==
  /\ item.cut => hit.type = "artifact"
  /\ item.cut <=> item.included < Size(hit.text)
  /\ item.included \in Boundaries(hit.text)

LEMMA NoText == Size(<<>>) = 0 /\ 0 \in Boundaries(<<>>) /\ IsText(<<>>)
  <1>1. Len(<<>>) = 0
    OBVIOUS
  <1>2. IsText(<<>>)
    BY <1>1 DEF IsText
  <1>3. Offset(<<>>, 0) = 0
    BY OffsetNat
  <1> QED BY <1>1, <1>2, <1>3, BoundariesIn DEF Size

\* A hit is left out, or included with an item that is right, within the budget.
Takes(taken, acc, i, hit, max) ==
  \/ taken = Omit(acc)
  \/ \E bytes \in Nat, included \in Nat, cut \in BOOLEAN :
       /\ taken = Include(acc, i, bytes, included, cut)
       /\ acc.used + HitHeader + bytes + 1 <= max
       /\ Faithful([hit |-> i, included |-> included, cut |-> cut], hit)

LEMMA TakeHitIs ==
  ASSUME NEW n \in Nat, NEW acc \in Built(n), NEW i \in 1 .. n, NEW hit \in Hits, NEW max \in Int
  PROVE  Takes(TakeHit(acc, i, hit, max), acc, i, hit, max)
  <1> DEFINE remaining == max - acc.used
             budget == remaining - HitHeader - 1
             source == IF hit.text = <<>> THEN Unavailable ELSE hit.text
             whole == Quoted(source, Unbounded(source))
             cut == Quoted(source, budget - Marker)
             taken == TakeHit(acc, i, hit, max)
             wholly == IF hit.text = <<>> THEN 0 ELSE whole.included
  <1>1. taken = IF remaining <= HitHeader + 3 THEN Omit(acc)
                ELSE IF whole.size <= budget THEN Include(acc, i, whole.size, wholly, FALSE)
                ELSE IF hit.type = "claim" \/ hit.text = <<>> \/ budget <= Marker + 2
                THEN Omit(acc)
                ELSE Include(acc, i, cut.size + Marker, cut.included, TRUE)
    BY DEF TakeHit
  <1>2. hit.text \in Excerpted /\ hit.type \in {"claim", "artifact"} /\ acc.used \in Int
        /\ HitHeader \in Nat /\ Marker \in Nat
    BY BundleAssumption DEF Hits, Built
  <1>3. IsText(source) /\ DOMAIN source = 1 .. Len(source)
    BY <1>2, TextsAre
  <1> HIDE DEF source
  <1>4. Size(source) \in Nat /\ Unbounded(source) = 3 * Size(source) /\ Unbounded(source) \in Int
    BY <1>3, BoundariesIn DEF Unbounded
  <1>5. whole.size \in Nat /\ whole.included = Size(source)
        /\ whole.size = Size(source) + 2 * Len(BundleLines(source))
    BY <1>3, <1>4, QuotedIs
  <1>6. budget \in Int /\ budget - Marker \in Int
    BY <1>2
  <1>7. /\ cut \in Quotes /\ cut.size \in Nat /\ cut.included \in Boundaries(source)
        /\ budget - Marker >= 0 => cut.size <= budget - Marker
        /\ ~cut.cut => cut.size = whole.size
        /\ cut.cut => cut.included < Size(source)
    <2> DEFINE room == budget - Marker
               q == Quoted(source, room)
    <2>1. room \in Int
      BY <1>6
    <2> HIDE DEF room
    <2>2. /\ q \in Quotes /\ q.size \in Nat /\ q.included \in Boundaries(source)
          /\ room >= 0 => q.size <= room
          /\ ~q.cut => q.size = Size(source) + 2 * Len(BundleLines(source))
          /\ q.cut => q.included < Size(source)
      BY <1>3, <2>1, QuotedIs, Zenon
    <2> HIDE DEF q
    <2>3. cut = q
      BY DEF room, q
    <2> HIDE DEF cut
    <2> QED BY <1>5, <2>2, <2>3 DEF room
  <1>8. hit.text # <<>> => source = hit.text
    BY DEF source
  <1> HIDE DEF taken, whole, cut
  <1> SUFFICES Takes(taken, acc, i, hit, max)
    BY DEF taken
  <1>9. CASE taken = Include(acc, i, whole.size, wholly, FALSE) /\ whole.size <= budget
    <2>1. wholly = Size(hit.text) /\ wholly \in Boundaries(hit.text) /\ wholly \in Nat
      <3>1. CASE hit.text = <<>>
        BY <3>1, NoText
      <3>2. CASE hit.text # <<>>
        BY <1>3, <1>4, <1>5, <1>8, <3>2, BoundariesIn
      <3> QED BY <3>1, <3>2
    <2>2. Faithful([hit |-> i, included |-> wholly, cut |-> FALSE], hit)
      <3>1. ~(wholly < Size(hit.text))
        BY <2>1
      <3> HIDE DEF wholly
      <3> QED BY <2>1, <3>1 DEF Faithful
    <2>3. acc.used + HitHeader + whole.size + 1 <= max
      BY <1>2, <1>5, <1>9
    <2> HIDE DEF wholly
    <2> QED BY <1>5, <1>9, <2>1, <2>2, <2>3 DEF Takes
  <1>10. CASE /\ taken = Include(acc, i, cut.size + Marker, cut.included, TRUE)
              /\ ~(whole.size <= budget) /\ hit.type # "claim" /\ hit.text # <<>>
              /\ ~(budget <= Marker + 2)
    <2>1. cut.size <= budget - Marker
      BY <1>2, <1>6, <1>7, <1>10
    <2>2. cut.included < Size(source)
      <3>1. cut.cut \in BOOLEAN
        BY <1>7 DEF Quotes
      <3>2. cut.size # whole.size
        BY <1>2, <1>5, <1>6, <1>7, <1>10, <2>1
      <3> QED BY <1>7, <3>1, <3>2, Zenon
    <2>3. Faithful([hit |-> i, included |-> cut.included, cut |-> TRUE], hit)
      BY <1>2, <1>7, <1>8, <1>10, <2>2 DEF Faithful
    <2>4. cut.size + Marker \in Nat /\ acc.used + HitHeader + (cut.size + Marker) + 1 <= max
      BY <1>2, <1>7, <2>1
    <2>5. cut.included \in Nat
      BY <1>3, <1>7, BoundariesIn
    <2> QED BY <1>10, <2>3, <2>4, <2>5 DEF Takes
  <1> HIDE DEF budget, remaining, wholly
  <1> QED BY <1>1, <1>9, <1>10 DEF Takes

LEMMA TakeHitType ==
  ASSUME NEW n \in Nat, NEW acc \in Built(n), NEW i \in 1 .. n, NEW hit \in Hits, NEW max \in Int
  PROVE  TakeHit(acc, i, hit, max) \in Built(n)
  <1>1. acc.used \in Int /\ acc.manifest \in Seq(Items(n)) /\ acc.omitted \in Nat
        /\ acc = [used |-> acc.used, manifest |-> acc.manifest, omitted |-> acc.omitted]
        /\ HitHeader \in Nat
    BY BundleAssumption DEF Built
  <1>2. Omit(acc) \in Built(n)
    BY <1>1 DEF Omit, Built
  <1>3. ASSUME NEW bytes \in Nat, NEW included \in Nat, NEW cut \in BOOLEAN
        PROVE  Include(acc, i, bytes, included, cut) \in Built(n)
    <2> DEFINE manifest == Append(acc.manifest, [hit |-> i, included |-> included, cut |-> cut])
               used == acc.used + HitHeader + bytes + 1
    <2>1. [hit |-> i, included |-> included, cut |-> cut] \in Items(n)
      BY DEF Items
    <2>2. manifest \in Seq(Items(n)) /\ used \in Int
      BY <1>1, <2>1
    <2>3. Include(acc, i, bytes, included, cut) = [acc EXCEPT !.used = used, !.manifest = manifest]
      BY DEF Include
    <2> HIDE DEF manifest, used
    <2> QED BY <1>1, <2>2, <2>3 DEF Built
  <1> DEFINE taken == TakeHit(acc, i, hit, max)
  <1>4. Takes(taken, acc, i, hit, max)
    BY TakeHitIs
  <1> HIDE DEF taken
  <1>5. taken \in Built(n)
    BY <1>2, <1>3, <1>4 DEF Takes
  <1> QED BY <1>5 DEF taken

-----------------------------------------------------------------------------
(* A bundle.                                                               *)

\* The accumulators of a bundle.
Fills(acc, hits, start, max, n) ==
  /\ acc \in [0 .. n -> Built(n)]
  /\ acc[0] = start
  /\ \A i \in 1 .. n : acc[i] = TakeHit(acc[i - 1], i, hits[i], max)

Start(conflicts, max) ==
  LET header == Min({FixedHeader, max})
  IN [used |-> header + ConflictBytes(conflicts, max, header), manifest |-> <<>>, omitted |-> 0]

LEMMA BundleFills ==
  ASSUME NEW n \in Nat, NEW hits \in [1 .. n -> Hits], NEW conflicts \in Nat, NEW max \in Int,
         Start(conflicts, max) \in Built(n)
  PROVE  \E acc : /\ Fills(acc, hits, Start(conflicts, max), max, n)
                  /\ BuildBundle(hits, conflicts, max) = acc[n]
  <1> DEFINE E == 1 .. n
             A == Built(n)
             start == Start(conflicts, max)
             lines == [i \in DOMAIN hits |-> i]
             D == DOMAIN lines
             step == [p \in A \X E |-> TakeHit(p[1], p[2], hits[p[2]], max)]
             iter[S \in SUBSET D] ==
               IF S = {} THEN start
               ELSE TakeHit(iter[S \ {Max(S)}], lines[Max(S)], hits[lines[Max(S)]], max)
  <1>2. BuildBundle(hits, conflicts, max) = iter[D]
    BY Zenon DEF BuildBundle, FoldLeftDomain, FoldLeft, MapThenFoldSet, Start
  <1>1. lines \in Seq(E) /\ Len(lines) = n
    <2>1. lines \in [1 .. n -> E]
      OBVIOUS
    <2> HIDE DEF lines, E
    <2> QED BY <2>1, FunctionIsSeq
  <1>3. D = 1 .. n /\ \A i \in D : lines[i] = i /\ i \in E /\ hits[i] \in Hits
    OBVIOUS
  <1> HIDE DEF lines
  <1>4. start \in A
    OBVIOUS
  <1> HIDE DEF start
  <1>5. step \in [A \X E -> A]
    BY <1>3, TakeHitType
  <1>6. PICK f \in [SUBSET D -> A] : Folds(f, n, step, start, lines)
    <2> HIDE DEF step, E, A
    <2> QED BY <1>1, <1>3, <1>4, <1>5, FoldExists
  <1>7. f = [S \in SUBSET D |->
               IF S = {} THEN start
               ELSE TakeHit(f[S \ {Max(S)}], lines[Max(S)], hits[lines[Max(S)]], max)]
    <2>1. ASSUME NEW S \in SUBSET D, S # {}
          PROVE  f[S] = TakeHit(f[S \ {Max(S)}], lines[Max(S)], hits[lines[Max(S)]], max)
      <3>1. f[S] = step[<<f[S \ {Max(S)}], lines[Max(S)]>>]
        BY <1>3, <1>6, <2>1 DEF Folds
      <3>2. Max(S) \in S
        <4>1. S \in SUBSET Nat /\ \A i \in S : i <= n
          BY <1>3
        <4> QED BY <1>3, <2>1, <4>1, Greatest
      <3>3. f[S \ {Max(S)}] \in A /\ lines[Max(S)] \in E
        <4> HIDE DEF A, E
        <4> QED BY <1>3, <1>6, <3>2
      <3> HIDE DEF E, A
      <3> QED BY <3>1, <3>3
    <2>2. f[{}] = start
      BY <1>3, <1>6 DEF Folds
    <2> HIDE DEF A
    <2> QED BY <1>6, <2>1, <2>2
  <1>8. iter = [S \in SUBSET D |->
                  IF S = {} THEN start
                  ELSE TakeHit(iter[S \ {Max(S)}], lines[Max(S)], hits[lines[Max(S)]], max)]
    BY <1>7, Zenon
  <1> HIDE DEF iter, step
  <1> DEFINE acc == [i \in 0 .. n |-> iter[1 .. i]]
             Good == {i \in 0 .. n : acc[i] \in A}
  <1>9. /\ acc[0] = iter[{}]
        /\ \A i \in 1 .. n : /\ 1 .. i \in SUBSET D /\ 1 .. i # {} /\ Max(1 .. i) = i
                             /\ acc[i] = iter[1 .. i]
                             /\ acc[i - 1] = iter[(1 .. i) \ {Max(1 .. i)}]
    <2>1. Samples(acc, iter, n)
      BY DEF Samples
    <2> HIDE DEF acc
    <2>2. FoldSteps(acc, iter, n)
      BY <2>1, FoldAccumulates
    <2> QED BY <1>3, <2>2 DEF FoldSteps
  <1>10. acc[n] = iter[D] /\ acc = [i \in 0 .. n |-> acc[i]]
    BY <1>3
  <1> HIDE DEF acc
  <1>11. acc[0] = start
    <2>1. {} \in SUBSET D
      OBVIOUS
    <2> QED BY <1>8, <1>9, <2>1
  <1>12. ASSUME NEW i \in 1 .. n PROVE acc[i] = TakeHit(acc[i - 1], i, hits[i], max)
    <2>1. /\ 1 .. i \in SUBSET D /\ 1 .. i # {} /\ Max(1 .. i) = i
          /\ acc[i] = iter[1 .. i] /\ acc[i - 1] = iter[(1 .. i) \ {Max(1 .. i)}]
      BY <1>9
    <2>2. iter[1 .. i] = TakeHit(iter[(1 .. i) \ {Max(1 .. i)}], lines[Max(1 .. i)],
                                 hits[lines[Max(1 .. i)]], max)
      BY <1>8, <2>1, Zenon
    <2>3. lines[i] = i
      BY <1>3
    <2> QED BY <2>1, <2>2, <2>3
  <1>13. 0 .. n \subseteq Good
    <2>1. 0 \in Good
      BY <1>4, <1>11
    <2>2. ASSUME NEW i \in 1 .. n, i - 1 \in Good PROVE i \in Good
      <3>1. acc[i - 1] \in Built(n) /\ hits[i] \in Hits /\ i \in 0 .. n
        BY <2>2
      <3>2. TakeHit(acc[i - 1], i, hits[i], max) \in Built(n)
        BY <3>1, TakeHitType
      <3> QED BY <1>12, <3>1, <3>2
    <2> HIDE DEF Good
    <2> QED BY <2>1, <2>2, Climb
  <1>14. acc \in [0 .. n -> A]
    BY <1>10, <1>13
  <1> QED BY <1>2, <1>10, <1>11, <1>12, <1>14 DEF Fills, start

\* The lines of the contradictions fit in what the header leaves.
LEMMA ConflictsFit ==
  ASSUME NEW conflicts \in Nat, NEW max \in Nat, NEW used \in Nat, used <= max
  PROVE  ConflictBytes(conflicts, max, used) \in Nat /\ used + ConflictBytes(conflicts, max, used) <= max
  <1> DEFINE room == max - used - Heading
             fitting == room \div ConflictLine
             listed == Min({conflicts, fitting})
             lines == Heading + listed * ConflictLine
             bytes == ConflictBytes(conflicts, max, used)
  <1>1. Heading \in Nat /\ ConflictLine \in Nat /\ ConflictLine > 0 /\ room \in Int
    BY BundleAssumption
  <1>2. bytes = IF conflicts = 0 \/ room < 0 THEN 0
                ELSE IF used + lines < max THEN lines + 1 ELSE lines
    BY DEF ConflictBytes
  <1>3. ASSUME room >= 0 PROVE lines \in Nat /\ used + lines <= max
    <2> HIDE DEF room
    <2>1. fitting \in Nat /\ fitting * ConflictLine <= room
      BY <1>1, <1>3
    <2> HIDE DEF fitting
    <2>2. listed \in Nat /\ listed <= fitting
      BY <2>1, MinOfTwo
    <2> HIDE DEF listed
    <2>3. listed * ConflictLine <= fitting * ConflictLine
      BY <1>1, <2>1, <2>2
    <2>4. listed * ConflictLine \in Nat /\ fitting * ConflictLine \in Nat
      BY <1>1, <2>1, <2>2
    <2> DEFINE product == listed * ConflictLine
               most == fitting * ConflictLine
    <2>5. product \in Nat /\ product <= room
      <3>1. product <= most /\ most <= room /\ product \in Nat /\ most \in Nat
        BY <2>1, <2>3, <2>4
      <3> HIDE DEF product, most
      <3> QED BY <1>1, <3>1
    <2> HIDE DEF product
    <2>6. Heading + product \in Nat /\ used + (Heading + product) <= max
      BY <1>1, <2>5 DEF room
    <2> QED BY <2>6 DEF product
  <1> HIDE DEF lines, bytes, room
  <1>4. bytes \in Nat /\ used + bytes <= max
    BY <1>1, <1>2, <1>3
  <1> QED BY <1>4 DEF bytes

\* What is known after i hits.
AtHit(acc, i, hits, max) ==
  /\ acc.used \in Nat /\ acc.used <= max /\ acc.omitted \in Nat
  /\ Len(acc.manifest) + acc.omitted = i
  /\ \A k \in 1 .. Len(acc.manifest) :
       /\ acc.manifest[k].hit \in 1 .. i
       /\ k > 1 => acc.manifest[k - 1].hit < acc.manifest[k].hit
       /\ Faithful(acc.manifest[k], hits[acc.manifest[k].hit])

LEMMA TakeHitKeeps ==
  ASSUME NEW n \in Nat, NEW hits \in [1 .. n -> Hits], NEW max \in Int, NEW acc \in Built(n),
         NEW i \in 1 .. n, AtHit(acc, i - 1, hits, max)
  PROVE  AtHit(TakeHit(acc, i, hits[i], max), i, hits, max)
  <1> DEFINE taken == TakeHit(acc, i, hits[i], max)
             manifest == acc.manifest
             m == Len(acc.manifest)
  <1>1. Takes(taken, acc, i, hits[i], max)
    <2>1. hits[i] \in Hits
      OBVIOUS
    <2> QED BY <2>1, TakeHitIs
  <1> HIDE DEF taken
  <1>2. /\ acc = [used |-> acc.used, manifest |-> acc.manifest, omitted |-> acc.omitted]
        /\ manifest \in Seq(Items(n)) /\ m \in Nat /\ DOMAIN manifest = 1 .. m
        /\ HitHeader \in Nat
    BY BundleAssumption DEF Built
  <1>3. /\ acc.used \in Nat /\ acc.used <= max /\ acc.omitted \in Nat
        /\ m + acc.omitted = i - 1
        /\ \A k \in 1 .. m : /\ manifest[k].hit \in 1 .. (i - 1)
                             /\ k > 1 => manifest[k - 1].hit < manifest[k].hit
                             /\ Faithful(manifest[k], hits[manifest[k].hit])
    BY DEF AtHit
  <1> SUFFICES AtHit(taken, i, hits, max)
    BY DEF taken
  <1>4. CASE taken = Omit(acc)
    <2>1. taken.used = acc.used /\ taken.manifest = manifest /\ taken.omitted = acc.omitted + 1
      BY <1>2, <1>4 DEF Omit
    <2>2. \A k \in 1 .. (i - 1) : k \in 1 .. i
      OBVIOUS
    <2> HIDE DEF m, manifest
    <2>3. Len(taken.manifest) = m
      BY <2>1 DEF m, manifest
    <2>4. taken.omitted \in Nat /\ m + taken.omitted = i
      <3>1. m \in Nat /\ acc.omitted \in Nat /\ m + acc.omitted = i - 1 /\ i \in Int
        BY <1>2, <1>3
      <3>2. taken.omitted = acc.omitted + 1
        BY <2>1
      <3> QED BY <3>1, <3>2
    <2> QED BY <1>3, <2>1, <2>2, <2>3, <2>4 DEF AtHit
  <1>5. CASE taken # Omit(acc)
    <2>1. PICK bytes \in Nat, included \in Nat, cut \in BOOLEAN :
            /\ taken = Include(acc, i, bytes, included, cut)
            /\ acc.used + HitHeader + bytes + 1 <= max
            /\ Faithful([hit |-> i, included |-> included, cut |-> cut], hits[i])
      BY <1>1, <1>5, Zenon DEF Takes
    <2> DEFINE item == [hit |-> i, included |-> included, cut |-> cut]
    <2>2. item \in Items(n) /\ item.hit = i /\ Faithful(item, hits[item.hit])
      BY <2>1 DEF Items
    <2> HIDE DEF item
    <2>3. /\ taken.used = acc.used + HitHeader + bytes + 1
          /\ taken.manifest = Append(manifest, item) /\ taken.omitted = acc.omitted
      <3>1. taken = [acc EXCEPT !.used = acc.used + HitHeader + bytes + 1,
                                !.manifest = Append(manifest, item)]
        BY <2>1 DEF Include, item
      <3> DEFINE grown == Append(manifest, item)
                 used == acc.used + HitHeader + bytes + 1
      <3> HIDE DEF grown, used
      <3>2. taken = [acc EXCEPT !.used = used, !.manifest = grown]
        BY <3>1 DEF grown, used
      <3>3. taken.used = used /\ taken.manifest = grown /\ taken.omitted = acc.omitted
        BY <1>2, <3>2
      <3> QED BY <3>3 DEF grown, used
    <2>4. /\ Len(taken.manifest) = m + 1
          /\ \A k \in 1 .. m : taken.manifest[k] = manifest[k]
          /\ taken.manifest[m + 1] = item
      BY <1>2, <2>2, <2>3
    <2>5. taken.used \in Nat /\ taken.used <= max
      BY <1>2, <1>3, <2>1, <2>3
    <2> HIDE DEF m, manifest
    <2>6. (m + 1) + taken.omitted = i /\ taken.omitted \in Nat
      <3>1. m \in Nat /\ acc.omitted \in Nat /\ m + acc.omitted = i - 1 /\ i \in Int
        BY <1>2, <1>3
      <3>2. taken.omitted = acc.omitted
        BY <2>3
      <3> QED BY <3>1, <3>2
    <2>7. ASSUME NEW k \in 1 .. (m + 1)
          PROVE  /\ taken.manifest[k].hit \in 1 .. i
                 /\ k > 1 => taken.manifest[k - 1].hit < taken.manifest[k].hit
                 /\ Faithful(taken.manifest[k], hits[taken.manifest[k].hit])
      <3>1. CASE k \in 1 .. m
        <4>1. taken.manifest[k] = manifest[k]
          BY <2>4, <3>1
        <4>2. k > 1 => taken.manifest[k - 1] = manifest[k - 1]
          BY <1>2, <2>4, <3>1
        <4>3. /\ manifest[k].hit \in 1 .. (i - 1)
              /\ k > 1 => manifest[k - 1].hit < manifest[k].hit
              /\ Faithful(manifest[k], hits[manifest[k].hit])
          BY <1>3, <3>1
        <4>4. manifest[k].hit \in 1 .. i
          BY <4>3
        <4> QED BY <4>1, <4>2, <4>3, <4>4
      <3>2. CASE k = m + 1
        <4>1. taken.manifest[k] = item
          BY <2>4, <3>2
        <4>2. k > 1 => taken.manifest[k - 1].hit < i
          <5>1. k > 1 => m \in 1 .. m /\ k - 1 = m
            BY <1>2, <3>2
          <5>2. k > 1 => taken.manifest[k - 1] = manifest[m] /\ manifest[m].hit \in 1 .. (i - 1)
            BY <1>3, <2>4, <5>1
          <5> QED BY <5>2
        <4> QED BY <2>2, <4>1, <4>2
      <3> QED BY <1>2, <3>1, <3>2
    <2> QED BY <2>4, <2>5, <2>6, <2>7 DEF AtHit
  <1> QED BY <1>4, <1>5

\* The bundle that a build makes.
LEMMA BuildIs ==
  ASSUME NEW n \in Nat, NEW hits \in [1 .. n -> Hits], NEW conflicts \in Nat, NEW max \in Nat,
         NEW built, built = BuildBundle(hits, conflicts, max)
  PROVE  AtHit(built, n, hits, max)
  <1> DEFINE start == Start(conflicts, max)
  <1>1. /\ start.used \in Nat /\ start.used <= max /\ start.manifest = <<>> /\ start.omitted = 0
        /\ start \in Built(n)
    <2> DEFINE header == Min({FixedHeader, max})
               used == header + ConflictBytes(conflicts, max, header)
    <2>1. header \in Nat /\ header <= max
      <3>1. FixedHeader \in Nat
        BY BundleAssumption, Zenon
      <3> HIDE DEF start
      <3> QED BY <3>1, MinOfTwo
    <2>2. start = [used |-> used, manifest |-> <<>>, omitted |-> 0]
      BY DEF Start
    <2> HIDE DEF header, start
    <2>3. used \in Nat /\ used <= max
      <3> DEFINE bytes == ConflictBytes(conflicts, max, header)
      <3>1. bytes \in Nat /\ header + bytes <= max
        BY <2>1, ConflictsFit
      <3> HIDE DEF bytes
      <3>2. header + bytes \in Nat
        BY <2>1, <3>1
      <3> QED BY <3>1, <3>2 DEF bytes
    <2> HIDE DEF used
    <2>4. <<>> \in Seq(Items(n))
      OBVIOUS
    <2> QED BY <2>2, <2>3, <2>4 DEF Built
  <1>2. PICK acc : Fills(acc, hits, start, max, n) /\ built = acc[n]
    BY <1>1, BundleFills
  <1> HIDE DEF start
  <1> DEFINE Good == {i \in 0 .. n : AtHit(acc[i], i, hits, max)}
  <1>3. 0 \in Good
    <2>1. acc[0] = start
      BY <1>2 DEF Fills
    <2>2. Len(start.manifest) = 0
      BY <1>1
    <2>3. AtHit(start, 0, hits, max)
      BY <1>1, <2>2 DEF AtHit
    <2> QED BY <2>1, <2>3
  <1>4. ASSUME NEW i \in 1 .. n, i - 1 \in Good PROVE i \in Good
    <2>1. acc[i] = TakeHit(acc[i - 1], i, hits[i], max) /\ acc[i - 1] \in Built(n)
      BY <1>2 DEF Fills
    <2>2. AtHit(acc[i - 1], i - 1, hits, max) /\ i \in 0 .. n
      BY <1>4
    <2>3. AtHit(TakeHit(acc[i - 1], i, hits[i], max), i, hits, max)
      BY <2>1, <2>2, TakeHitKeeps
    <2> QED BY <2>1, <2>2, <2>3
  <1>5. n \in Good
    <2> HIDE DEF Good
    <2>1. 0 .. n \subseteq Good
      BY <1>3, <1>4, Climb
    <2> QED BY <2>1
  <1> QED BY <1>2, <1>5

\* A bundle stays within its budget, accounts for every hit and keeps their
\* order; no claim in it is cut, and an artifact's excerpt is whole or says
\* that it is cut, between characters: build_bundle and
\* render_untrusted_excerpt, for every budget, text, and size of the fixed parts.
THEOREM BundlesAreFaithful == BundleSpec => []BundleFaithful
  <1>1. BundleInit => BundleFaithful
    BY DEF BundleInit, NoBundle, BundleFaithful
  <1>2. ASSUME BundleFaithful, [BundleNext]_bundle PROVE BundleFaithful'
    <2>1. CASE UNCHANGED bundle
      BY <1>2, <2>1 DEF BundleFaithful
    <2>2. CASE BundleNext
      <3>1. PICK max \in Budgets, conflicts \in 0 .. MaxConflicts, n \in 0 .. MaxHits :
              \E hits \in [1 .. n -> Hits] :
                LET built == BuildBundle(hits, conflicts, max)
                IN bundle' = [hits |-> hits, max |-> max, used |-> built.used,
                              manifest |-> built.manifest, omitted |-> built.omitted]
        BY <2>2 DEF BundleNext, Build, Hits
      <3>2. PICK hits \in [1 .. n -> Hits] :
                LET built == BuildBundle(hits, conflicts, max)
                IN bundle' = [hits |-> hits, max |-> max, used |-> built.used,
                              manifest |-> built.manifest, omitted |-> built.omitted]
        BY <3>1
      <3> DEFINE built == BuildBundle(hits, conflicts, max)
      <3>3. /\ bundle'.hits = hits /\ bundle'.max = max /\ bundle'.used = built.used
            /\ bundle'.manifest = built.manifest /\ bundle'.omitted = built.omitted
        BY <3>2
      <3>4. n \in Nat /\ conflicts \in Nat /\ max \in Nat
        BY BundleAssumption
      <3>5. AtHit(built, n, hits, max)
        BY <3>4, BuildIs
      <3>6. Len(hits) = n
        BY <3>4
      <3> HIDE DEF built
      <3> DEFINE m == Len(built.manifest)
      <3>7. /\ built.used <= max /\ m + built.omitted = n
            /\ \A k \in 1 .. m :
                 /\ k > 1 => built.manifest[k - 1].hit < built.manifest[k].hit
                 /\ Faithful(built.manifest[k], hits[built.manifest[k].hit])
        BY <3>5 DEF AtHit
      <3>8. DOMAIN built.manifest = 1 .. m
        OBVIOUS
      <3> QED BY <3>3, <3>6, <3>7, <3>8 DEF BundleFaithful, Faithful
    <2> QED BY <1>2, <2>1, <2>2
  <1> QED BY <1>1, <1>2, PTL DEF BundleSpec

-----------------------------------------------------------------------------
(* The leads of a probe.                                                   *)

LEMMA MinOfThree ==
  ASSUME NEW a \in Int, NEW b \in Int, NEW c \in Int
  PROVE  /\ Min({a, b, c}) \in {a, b, c}
         /\ Min({a, b, c}) <= a /\ Min({a, b, c}) <= b /\ Min({a, b, c}) <= c
  <1>1. Min({a, b, c}) = CHOOSE x \in {a, b, c} : \A y \in {a, b, c} : x <= y
    BY Zenon DEF Min
  <1>2. \E x \in {a, b, c} : \A y \in {a, b, c} : x <= y
    OBVIOUS
  <1>3. Min({a, b, c}) \in {a, b, c} /\ \A y \in {a, b, c} : Min({a, b, c}) <= y
    BY <1>1, <1>2, Zenon
  <1> QED BY <1>3

LEMMA LesserOfTwo ==
  ASSUME NEW a \in Int, NEW b \in Int
  PROVE  Min({a, b}) = IF a <= b THEN a ELSE b
  <1> DEFINE m == Min({a, b})
  <1>1. {a, b} = {a, b, b}
    OBVIOUS
  <1>2. m \in {a, b} /\ m <= a /\ m <= b
    BY <1>1, MinOfThree
  <1> HIDE DEF m
  <1>3. m = IF a <= b THEN a ELSE b
    BY <1>2
  <1> QED BY <1>3 DEF m

LEMMA InterleavedIs ==
  ASSUME NEW E, NEW claims \in Seq(E), NEW raw \in Seq(E)
  PROVE  Interleaved(claims, raw) \in Seq(E)
  <1> DEFINE turns == Min({Len(claims), Len(raw)})
             longer == IF Len(claims) > Len(raw) THEN claims ELSE raw
             c == Len(claims)
             r == Len(raw)
             item(i) == IF i > 2 * turns THEN longer[i - turns]
                        ELSE IF i % 2 = 1 THEN claims[(i + 1) \div 2] ELSE raw[i \div 2]
  <1>1. c \in Nat /\ r \in Nat
    OBVIOUS
  <1>2. /\ \A i \in 1 .. c : claims[i] \in E
        /\ \A i \in 1 .. r : raw[i] \in E
    OBVIOUS
  <1>3. turns \in Nat /\ turns <= c /\ turns <= r
        /\ (c > r => turns = r) /\ (~(c > r) => turns = c)
    <2>1. turns = Min({c, r})
      OBVIOUS
    <2> HIDE DEF turns, c, r
    <2>2. turns = IF c <= r THEN c ELSE r
      BY <1>1, <2>1, LesserOfTwo
    <2> QED BY <1>1, <2>2
  <1>4. (c > r => longer = claims) /\ (~(c > r) => longer = raw)
    OBVIOUS
  <1>5. Interleaved(claims, raw) = [i \in 1 .. (c + r) |-> item(i)]
    BY DEF Interleaved
  <1> HIDE DEF turns, longer, c, r
  <1>6. ASSUME NEW i \in 1 .. (c + r) PROVE item(i) \in E
    <2>1. CASE i > 2 * turns
      <3>1. c > r => i - turns \in 1 .. c
        BY <1>1, <1>3, <2>1
      <3>2. ~(c > r) => i - turns \in 1 .. r
        BY <1>1, <1>3, <2>1
      <3> QED BY <1>2, <1>4, <2>1, <3>1, <3>2
    <2>2. CASE ~(i > 2 * turns) /\ i % 2 = 1
      <3>1. (i + 1) \div 2 \in 1 .. turns
        BY <1>1, <1>3, <2>2
      <3>2. (i + 1) \div 2 \in 1 .. c
        BY <1>1, <1>3, <3>1
      <3> QED BY <1>2, <2>2, <3>2
    <2>3. CASE ~(i > 2 * turns) /\ i % 2 # 1
      <3>1. i \div 2 \in 1 .. turns
        BY <1>1, <1>3, <2>3
      <3>2. i \div 2 \in 1 .. r
        BY <1>1, <1>3, <3>1
      <3> QED BY <1>2, <2>3, <3>2
    <2> QED BY <2>1, <2>2, <2>3
  <1> HIDE DEF item
  <1>7. Interleaved(claims, raw) \in [1 .. (c + r) -> E]
    BY <1>5, <1>6
  <1>8. c + r \in Nat
    BY <1>1
  <1> QED BY <1>7, <1>8, FunctionIsSeq

\* No two hits of a list are of one group.
Distinct(groups) ==
  \A i, j \in DOMAIN groups : GroupKey(groups[i]) = GroupKey(groups[j]) => i = j

Groups(E) == {groups \in Seq(E) : Distinct(groups)}

LEMMA JoinKeeps ==
  ASSUME NEW E, NEW groups \in Groups(E), NEW hit \in E
  PROVE  Join(groups, hit) \in Groups(E)
  <1>1. groups \in Seq(E) /\ Distinct(groups) /\ Len(groups) \in Nat
        /\ DOMAIN groups = 1 .. Len(groups)
    BY DEF Groups
  <1>2. CASE \E g \in ToSet(groups) : GroupKey(g) = GroupKey(hit)
    BY <1>2 DEF Join
  <1>3. CASE ~\E g \in ToSet(groups) : GroupKey(g) = GroupKey(hit)
    <2> DEFINE grown == Append(groups, hit)
    <2>1. Join(groups, hit) = grown
      BY <1>3 DEF Join
    <2>2. \A i \in 1 .. Len(groups) : GroupKey(groups[i]) # GroupKey(hit)
      BY <1>1, <1>3 DEF ToSet
    <2>3. /\ grown \in Seq(E) /\ DOMAIN grown = 1 .. (Len(groups) + 1)
          /\ \A i \in 1 .. Len(groups) : grown[i] = groups[i]
          /\ grown[Len(groups) + 1] = hit
      BY <1>1
    <2> HIDE DEF grown
    <2>4. ASSUME NEW i \in DOMAIN grown, NEW j \in DOMAIN grown,
                 GroupKey(grown[i]) = GroupKey(grown[j])
          PROVE  i = j
      <3>1. /\ i \in 1 .. Len(groups) \/ i = Len(groups) + 1
            /\ j \in 1 .. Len(groups) \/ j = Len(groups) + 1
        BY <1>1, <2>3
      <3>2. CASE i \in 1 .. Len(groups) /\ j \in 1 .. Len(groups)
        BY <1>1, <2>3, <2>4, <3>2 DEF Distinct
      <3>3. CASE i \in 1 .. Len(groups) /\ j = Len(groups) + 1
        BY <2>2, <2>3, <2>4, <3>3
      <3>4. CASE j \in 1 .. Len(groups) /\ i = Len(groups) + 1
        BY <2>2, <2>3, <2>4, <3>4
      <3> QED BY <3>1, <3>2, <3>3, <3>4
    <2> QED BY <2>1, <2>3, <2>4 DEF Groups, Distinct
  <1> QED BY <1>2, <1>3

\* The groups of a probe are apart.
LEMMA GroupsAre ==
  ASSUME NEW E, NEW claims \in Seq(E), NEW raw \in Seq(E)
  PROVE  GroupLeads(claims, raw) \in Groups(E)
  <1> DEFINE A == Groups(E)
             hits == Interleaved(claims, raw)
             D == DOMAIN hits
             step == [p \in A \X E |-> Join(p[1], p[2])]
             iter[S \in SUBSET D] ==
               IF S = {} THEN <<>> ELSE Join(iter[S \ {Max(S)}], hits[Max(S)])
  <1>1. hits \in Seq(E)
    BY InterleavedIs
  <1>2. GroupLeads(claims, raw) = iter[D]
    BY Zenon DEF GroupLeads, FoldLeft, MapThenFoldSet
  <1> HIDE DEF hits
  <1>3. D = 1 .. Len(hits) /\ Len(hits) \in Nat /\ \A i \in D : hits[i] \in E
    BY <1>1, SeqIs
  <1>4. <<>> \in A
    BY DEF Groups, Distinct
  <1>5. step \in [A \X E -> A]
    BY JoinKeeps
  <1>6. PICK f \in [SUBSET D -> A] : Folds(f, Len(hits), step, <<>>, hits)
    <2> HIDE DEF step, A
    <2> QED BY <1>1, <1>4, <1>5, FoldExists
  <1>7. f = [S \in SUBSET D |-> IF S = {} THEN <<>> ELSE Join(f[S \ {Max(S)}], hits[Max(S)])]
    <2>1. ASSUME NEW S \in SUBSET D, S # {}
          PROVE  f[S] = Join(f[S \ {Max(S)}], hits[Max(S)])
      <3>1. f[S] = step[<<f[S \ {Max(S)}], hits[Max(S)]>>]
        BY <1>3, <1>6, <2>1 DEF Folds
      <3>2. Max(S) \in S
        <4>1. S \in SUBSET Nat /\ \A i \in S : i <= Len(hits)
          BY <1>3
        <4> QED BY <1>3, <2>1, <4>1, Greatest
      <3>3. f[S \ {Max(S)}] \in A /\ hits[Max(S)] \in E
        <4> HIDE DEF A
        <4> QED BY <1>3, <1>6, <3>2
      <3> HIDE DEF A
      <3> QED BY <3>1, <3>3
    <2>2. f[{}] = <<>>
      BY <1>3, <1>6 DEF Folds
    <2> HIDE DEF A
    <2> QED BY <1>6, <2>1, <2>2
  <1>8. \E g : g = [S \in SUBSET D |->
                      IF S = {} THEN <<>> ELSE Join(g[S \ {Max(S)}], hits[Max(S)])]
    BY <1>7
  <1>9. iter = [S \in SUBSET D |->
                  IF S = {} THEN <<>> ELSE Join(iter[S \ {Max(S)}], hits[Max(S)])]
    BY <1>8, Zenon
  <1> HIDE DEF iter, step
  <1> DEFINE n == Len(hits)
             acc == [i \in 0 .. n |-> iter[1 .. i]]
             Good == {i \in 0 .. n : acc[i] \in A}
  <1>10. /\ acc[0] = iter[{}]
         /\ \A i \in 1 .. n : /\ 1 .. i \in SUBSET D /\ 1 .. i # {} /\ Max(1 .. i) = i
                              /\ acc[i] = iter[1 .. i]
                              /\ acc[i - 1] = iter[(1 .. i) \ {Max(1 .. i)}]
    <2>1. Samples(acc, iter, n)
      BY DEF Samples
    <2> HIDE DEF n, acc
    <2>2. FoldSteps(acc, iter, n)
      BY <1>3, <2>1, FoldAccumulates DEF n
    <2> QED BY <1>3, <2>2 DEF FoldSteps, n
  <1>11. acc[n] = iter[D]
    BY <1>3
  <1> HIDE DEF acc
  <1>12. acc[0] = <<>>
    <2>1. {} \in SUBSET D
      OBVIOUS
    <2> QED BY <1>9, <1>10, <2>1
  <1>13. ASSUME NEW i \in 1 .. n PROVE acc[i] = Join(acc[i - 1], hits[i])
    <2>1. /\ 1 .. i \in SUBSET D /\ 1 .. i # {} /\ Max(1 .. i) = i
          /\ acc[i] = iter[1 .. i] /\ acc[i - 1] = iter[(1 .. i) \ {Max(1 .. i)}]
      BY <1>10
    <2>2. iter[1 .. i] = Join(iter[(1 .. i) \ {Max(1 .. i)}], hits[Max(1 .. i)])
      BY <1>9, <2>1, Zenon
    <2> QED BY <2>1, <2>2
  <1>14. 0 .. n \subseteq Good
    <2>1. 0 \in Good
      BY <1>3, <1>4, <1>12
    <2>2. ASSUME NEW i \in 1 .. n, i - 1 \in Good PROVE i \in Good
      <3>1. acc[i - 1] \in Groups(E) /\ hits[i] \in E /\ i \in 0 .. n
        BY <1>3, <2>2
      <3>2. Join(acc[i - 1], hits[i]) \in Groups(E)
        BY <3>1, JoinKeeps
      <3> QED BY <1>13, <3>1, <3>2
    <2> HIDE DEF Good
    <2> QED BY <1>3, <2>1, <2>2, Climb
  <1> QED BY <1>2, <1>3, <1>11, <1>14

\* The elements of a list at some indices are as many as the indices.
LEMMA ChosenIs ==
  ASSUME NEW E, NEW groups \in Groups(E), NEW indices \in SUBSET DOMAIN groups
  PROVE  /\ Chosen(groups, indices) \in Seq({groups[i] : i \in indices})
         /\ Len(Chosen(groups, indices)) = Cardinality(indices)
         /\ Cardinality({groups[i] : i \in indices}) = Cardinality(indices)
         /\ Cardinality(indices) \in Nat
  <1> DEFINE n == Cardinality(indices)
             T == {groups[i] : i \in indices}
             places == AscendingOffsets(indices)
             chosen == Chosen(groups, indices)
  <1>1. Len(groups) \in Nat /\ indices \in SUBSET (1 .. Len(groups)) /\ Distinct(groups)
        /\ DOMAIN groups = 1 .. Len(groups)
    BY DEF Groups
  <1>2. IsFiniteSet(indices) /\ n \in Nat
    BY <1>1, BoundedFinite
  <1>3. places \in Seq(indices) /\ Len(places) = n
    BY <1>1, AscendingIs
  <1>4. chosen = [k \in 1 .. n |-> groups[places[k]]]
    BY DEF Chosen, AscendingOffsets
  <1> HIDE DEF places, chosen
  <1>5. chosen \in [1 .. n -> T]
    <2>1. \A k \in 1 .. n : places[k] \in indices
      BY <1>2, <1>3, SeqIs
    <2> QED BY <1>4, <2>1
  <1>6. chosen \in Seq(T) /\ Len(chosen) = n
    <2> HIDE DEF n, T
    <2> QED BY <1>2, <1>5, FunctionIsSeq DEF n
  <1>7. Cardinality(T) = n
    <2> DEFINE f == [i \in indices |-> groups[i]]
    <2>1. f \in Bijection(indices, T)
      <3>1. f \in Injection(indices, T)
        BY <1>1 DEF Injection, IsInjective, Distinct
      <3>2. f \in Surjection(indices, T)
        BY DEF Surjection
      <3> QED BY <3>1, <3>2 DEF Bijection
    <2>2. ExistsBijection(indices, T)
      BY <2>1 DEF ExistsBijection
    <2> HIDE DEF f, T
    <2> QED BY <1>2, <2>2, FS_Bijection
  <1> QED BY <1>2, <1>6, <1>7 DEF chosen

\* How many raw passages lead, and how many claims.
RawSlots(max, c, r) ==
  LET floor == Min({RAW_FLOOR, max})
      preferred == max - floor
      some == Min({preferred, c})
  IN Min({Min({floor, r}) + preferred - some, r})

ClaimSlots(max, c, r) ==
  LET floor == Min({RAW_FLOOR, max})
      preferred == max - floor
      some == Min({preferred, c})
      rawCount == RawSlots(max, c, r)
  IN Min({some + (IF rawCount < floor THEN floor - rawCount ELSE 0), c})

LEMMA SlotsAre ==
  ASSUME NEW max \in Nat, NEW c \in Nat, NEW r \in Nat
  PROVE  /\ RawSlots(max, c, r) \in 0 .. r /\ ClaimSlots(max, c, r) \in 0 .. c
         /\ ClaimSlots(max, c, r) + RawSlots(max, c, r) <= max
         /\ RawSlots(max, c, r) >= Min({RAW_FLOOR, max, r})
         /\ ClaimSlots(max, c, r) >= Min({max - RAW_FLOOR, c})
  <1> DEFINE floor == Min({RAW_FLOOR, max})
             preferred == max - floor
             some == Min({preferred, c})
             rawCount == RawSlots(max, c, r)
             claimCount == ClaimSlots(max, c, r)
             fewest == Min({floor, r})
             slots == fewest + preferred - some
             taken == some + (IF rawCount < floor THEN floor - rawCount ELSE 0)
  <1>0. /\ rawCount = Min({slots, r})
        /\ claimCount = Min({taken, c})
    BY Zenon DEF RawSlots, ClaimSlots
  <1> HIDE DEF rawCount, claimCount
  <1>1. floor = IF 2 <= max THEN 2 ELSE max
    BY LesserOfTwo DEF RAW_FLOOR
  <1> HIDE DEF floor
  <1>2. floor \in Nat /\ preferred \in Nat /\ floor \in Int /\ preferred \in Int
        /\ c \in Int /\ r \in Int
    BY <1>1
  <1> HIDE DEF preferred
  <1>3. some = IF preferred <= c THEN preferred ELSE c
    <2>1. Min({preferred, c}) = IF preferred <= c THEN preferred ELSE c
      BY <1>2, LesserOfTwo, Zenon
    <2> QED BY <2>1, Zenon
  <1> HIDE DEF some
  <1>4. fewest = IF floor <= r THEN floor ELSE r
    BY <1>2, LesserOfTwo, Zenon
  <1> HIDE DEF fewest
  <1>5. some \in Nat /\ fewest \in Nat /\ slots \in Nat
    <2>1. some \in Nat /\ some <= preferred
      BY <1>2, <1>3
    <2>2. fewest \in Nat
      BY <1>2, <1>4
    <2> QED BY <1>2, <2>1, <2>2
  <1>6. rawCount = IF slots <= r THEN slots ELSE r
    <2> HIDE DEF slots
    <2> QED BY <1>0, <1>5, LesserOfTwo
  <1>7. rawCount \in Nat /\ taken \in Nat
    <2>1. rawCount \in Nat
      BY <1>5, <1>6
    <2> QED BY <1>2, <1>5, <2>1
  <1>8. claimCount = IF taken <= c THEN taken ELSE c
    <2> HIDE DEF taken
    <2> QED BY <1>0, <1>7, LesserOfTwo
  <1> DEFINE least == Min({2, max, r})
             rest == Min({max - 2, c})
  <1>9. least <= 2 /\ least <= max /\ least <= r /\ least \in Int
    <2>0. 2 \in Int /\ max \in Int /\ r \in Int
      OBVIOUS
    <2>1. least \in {2, max, r} /\ least <= 2 /\ least <= max /\ least <= r
      BY <2>0, MinOfThree, Zenon
    <2> HIDE DEF least
    <2> QED BY <2>1
  <1>10. rest = IF max - 2 <= c THEN max - 2 ELSE c
    <2> DEFINE over == max - 2
    <2>1. over \in Int /\ rest = Min({over, c})
      OBVIOUS
    <2> HIDE DEF over, rest
    <2>2. rest = IF over <= c THEN over ELSE c
      BY <2>1, LesserOfTwo
    <2> QED BY <2>2 DEF over
  <1> HIDE DEF least, rest
  <1>11. rawCount >= least
    BY <1>1, <1>2, <1>3, <1>4, <1>5, <1>6, <1>9
  <1>14. rawCount \in 0 .. r /\ claimCount \in 0 .. c
    <2>1. rawCount <= r
      BY <1>5, <1>6
    <2>2. claimCount <= c /\ claimCount \in Nat
      BY <1>7, <1>8
    <2> QED BY <1>7, <2>1, <2>2
  <1>12. claimCount >= rest
    <2>1. some >= rest
      BY <1>1, <1>2, <1>3, <1>10 DEF preferred
    <2>2. taken >= some
      BY <1>2, <1>5, <1>7
    <2>3. rest <= c /\ rest \in Int
      BY <1>10
    <2> HIDE DEF taken
    <2> QED BY <1>5, <1>7, <1>8, <2>1, <2>2, <2>3
  <1>13. claimCount + rawCount <= max
    <2>1. /\ rawCount <= fewest + preferred - some /\ fewest <= floor /\ some <= preferred
          /\ floor + preferred = max
      <3>1. rawCount <= slots
        <4> HIDE DEF slots
        <4> QED BY <1>2, <1>5, <1>6
      <3>2. fewest <= floor
        BY <1>2, <1>4
      <3>3. some <= preferred
        BY <1>2, <1>3
      <3>4. floor + preferred = max
        BY <1>2 DEF preferred
      <3> QED BY <3>1, <3>2, <3>3, <3>4
    <2>2. rawCount < floor => claimCount <= some + floor - rawCount
      BY <1>2, <1>5, <1>7, <1>8
    <2>3. ~(rawCount < floor) => claimCount <= some
      BY <1>2, <1>5, <1>7, <1>8
    <2> HIDE DEF slots, taken
    <2>4. claimCount \in Int /\ rawCount \in Int
      BY <1>14
    <2> QED BY <1>2, <1>5, <2>1, <2>2, <2>3, <2>4
  <1> QED BY <1>11, <1>12, <1>13, <1>14 DEF least, rest, rawCount, claimCount, RAW_FLOOR

\* First some of one list, then some of the other, then the rest of both.
InTurns(f, g, a, b) ==
  SubSeq(f, 1, a) \o SubSeq(g, 1, b) \o SubSeq(f, a + 1, Len(f)) \o SubSeq(g, b + 1, Len(g))

LEMMA InTurnsIs ==
  ASSUME NEW S, NEW f \in Seq(S), NEW g \in Seq(S), NEW a \in 0 .. Len(f), NEW b \in 0 .. Len(g),
         NEW whole, whole = InTurns(f, g, a, b)
  PROVE  /\ whole \in Seq(S) /\ Len(whole) = Len(f) + Len(g)
         /\ \A i \in 1 .. a : whole[i] = f[i]
         /\ \A i \in (a + 1) .. (a + b) : whole[i] = g[i - a]
  <1> DEFINE p == SubSeq(f, 1, a)
             q == SubSeq(g, 1, b)
             x == SubSeq(f, a + 1, Len(f))
             y == SubSeq(g, b + 1, Len(g))
             pq == p \o q
             pqx == pq \o x
  <1>0. Len(f) \in Nat /\ Len(g) \in Nat /\ a \in Nat /\ b \in Nat /\ a <= Len(f) /\ b <= Len(g)
    OBVIOUS
  <1>1. p \in Seq(S) /\ Len(p) = a /\ \A i \in 1 .. a : p[i] = f[i]
    BY <1>0
  <1>2. q \in Seq(S) /\ Len(q) = b /\ \A i \in 1 .. b : q[i] = g[i]
    BY <1>0
  <1>3. x \in Seq(S) /\ Len(x) = Len(f) - a
    BY <1>0
  <1>4. y \in Seq(S) /\ Len(y) = Len(g) - b
    BY <1>0
  <1>5. whole = pqx \o y
    BY DEF InTurns
  <1> HIDE DEF p, q, x, y
  <1>6. /\ pq \in Seq(S) /\ Len(pq) = a + b
        /\ \A i \in 1 .. a : pq[i] = p[i]
        /\ \A i \in 1 .. (a + b) : i > a => pq[i] = q[i - a] /\ i - a \in 1 .. b
    <2>1. pq = p \o q
      OBVIOUS
    <2> HIDE DEF pq
    <2>0. p \in Seq(S) /\ q \in Seq(S)
      BY <1>1, <1>2
    <2>2. /\ pq \in Seq(S) /\ Len(pq) = Len(p) + Len(q)
          /\ \A i \in 1 .. Len(p) : pq[i] = p[i]
          /\ \A i \in 1 .. Len(pq) : i > Len(p) => pq[i] = q[i - Len(p)] /\ i - Len(p) \in 1 .. Len(q)
      BY <2>0, <2>1, ConcatIs
    <2>3. Len(pq) = a + b
      BY <1>1, <1>2, <2>2
    <2> QED BY <1>1, <1>2, <2>2, <2>3
  <1>12. pqx = pq \o x
    OBVIOUS
  <1> HIDE DEF pq, pqx
  <1>7. /\ pqx \in Seq(S) /\ Len(pqx) = a + b + (Len(f) - a)
        /\ \A i \in 1 .. (a + b) : pqx[i] = pq[i]
    <2>0. pq \in Seq(S) /\ x \in Seq(S)
      BY <1>3, <1>6
    <2>1. /\ pqx \in Seq(S) /\ Len(pqx) = Len(pq) + Len(x)
          /\ \A i \in 1 .. Len(pq) : pqx[i] = pq[i]
      BY <1>12, <2>0, ConcatIs
    <2> QED BY <1>3, <1>6, <2>1
  <1>8. /\ whole \in Seq(S) /\ Len(whole) = a + b + (Len(f) - a) + (Len(g) - b)
        /\ \A i \in 1 .. Len(pqx) : whole[i] = pqx[i]
    <2>0. pqx \in Seq(S) /\ y \in Seq(S)
      BY <1>4, <1>7
    <2>1. /\ whole \in Seq(S) /\ Len(whole) = Len(pqx) + Len(y)
          /\ \A i \in 1 .. Len(pqx) : whole[i] = pqx[i]
      BY <1>5, <2>0, ConcatIs
    <2> QED BY <1>4, <1>7, <2>1
  <1>9. ASSUME NEW i \in 1 .. (a + b) PROVE whole[i] = pq[i]
    <2>1. i \in 1 .. Len(pqx)
      BY <1>0, <1>7
    <2> QED BY <1>7, <1>8, <2>1
  <1>10. ASSUME NEW i \in 1 .. a PROVE whole[i] = f[i]
    <2>1. i \in 1 .. (a + b)
      BY <1>0
    <2> QED BY <1>1, <1>6, <1>9, <2>1
  <1>11. ASSUME NEW i \in (a + 1) .. (a + b) PROVE whole[i] = g[i - a]
    <2>1. i \in 1 .. (a + b) /\ i > a /\ i - a \in 1 .. b
      BY <1>0
    <2> QED BY <1>2, <1>6, <1>9, <2>1
  <1> QED BY <1>0, <1>8, <1>10, <1>11

ClaimsOfGroups(groups) == {g \in ToSet(groups) : IsClaim(g)}

ApartOf(groups) ==
  {g \in ToSet(groups) : ~IsClaim(g) /\
     \A c \in ToSet(groups) : IsClaim(c) =>
       c.source.rev # g.source.rev \/ c.source.cells \cap g.source.cells = {}}

\* The order of the groups: enough claims, then enough raw passages.
WellOrdered(ordered, max, c, r) ==
  /\ Len(ordered) = c + r
  /\ \E few \in 0 .. c, some \in 0 .. r :
       /\ few + some <= max
       /\ some >= Min({RAW_FLOOR, max, r}) /\ few >= Min({max - RAW_FLOOR, c})
       /\ \A i \in 1 .. few : IsClaim(ordered[i])
       /\ \A i \in (few + 1) .. (few + some) : ~IsClaim(ordered[i])

LEMMA OrderIs ==
  ASSUME NEW E, NEW groups \in Groups(E), NEW max \in Nat,
         NEW c, c = Cardinality(ClaimsOfGroups(groups)),
         NEW r, r = Cardinality(ApartOf(groups))
  PROVE  c \in Nat /\ r \in Nat /\ WellOrdered(OrderLeads(groups, max), max, c, r)
  <1> DEFINE ofClaims == {i \in DOMAIN groups : IsClaim(groups[i])}
             apart == {i \in DOMAIN groups : ~IsClaim(groups[i]) /\
                         \A k \in ofClaims : ~Overlap(groups[k].source, groups[i].source)}
             claims == Chosen(groups, ofClaims)
             raw == Chosen(groups, apart)
             rawCount == RawSlots(max, Len(claims), Len(raw))
             claimCount == ClaimSlots(max, Len(claims), Len(raw))
             ordered == OrderLeads(groups, max)
             C == {groups[i] : i \in ofClaims}
             R == {groups[i] : i \in apart}
  <1>1. ordered = InTurns(claims, raw, claimCount, rawCount)
    BY Zenon DEF OrderLeads, InTurns, RawSlots, ClaimSlots
  <1> HIDE DEF ordered
  <1>2. ToSet(groups) = {groups[i] : i \in DOMAIN groups}
    BY DEF ToSet
  <1>3. C = ClaimsOfGroups(groups)
    BY <1>2 DEF ClaimsOfGroups
  <1>4. R = ApartOf(groups)
    <2>1. \A x, y : ~Overlap(x, y) <=> x.rev # y.rev \/ x.cells \cap y.cells = {}
      BY DEF Overlap
    <2>2. \A i \in DOMAIN groups :
            (\A k \in ofClaims : ~Overlap(groups[k].source, groups[i].source))
            <=> \A g \in ToSet(groups) : IsClaim(g) =>
                  g.source.rev # groups[i].source.rev
                  \/ g.source.cells \cap groups[i].source.cells = {}
      BY <1>2, <2>1
    <2> QED BY <1>2, <2>2 DEF ApartOf
  <1>5. ofClaims \in SUBSET DOMAIN groups /\ apart \in SUBSET DOMAIN groups
    OBVIOUS
  <1>6. /\ \A g \in C : IsClaim(g)
        /\ \A g \in R : ~IsClaim(g)
    OBVIOUS
  <1> HIDE DEF ofClaims, apart
  <1>7. claims \in Seq(C) /\ Len(claims) = c /\ c \in Nat
    <2>1. claims \in Seq(C) /\ Len(claims) = Cardinality(ofClaims)
          /\ Cardinality(C) = Cardinality(ofClaims) /\ Cardinality(ofClaims) \in Nat
      BY <1>5, ChosenIs
    <2> HIDE DEF C, claims
    <2> QED BY <1>3, <2>1
  <1>8. raw \in Seq(R) /\ Len(raw) = r /\ r \in Nat
    <2>0. apart \in SUBSET DOMAIN groups
      BY <1>5
    <2>1. /\ raw \in Seq(R)
          /\ Len(raw) = Cardinality(apart)
          /\ Cardinality(R) = Cardinality(apart)
          /\ Cardinality(apart) \in Nat
      BY <2>0, ChosenIs
    <2> HIDE DEF R, raw
    <2> QED BY <1>4, <2>1
  <1> HIDE DEF claims, raw, C, R
  <1>9. /\ rawCount \in 0 .. r /\ claimCount \in 0 .. c /\ claimCount + rawCount <= max
        /\ rawCount >= Min({RAW_FLOOR, max, r})
        /\ claimCount >= Min({max - RAW_FLOOR, c})
    <2>1. rawCount = RawSlots(max, c, r) /\ claimCount = ClaimSlots(max, c, r)
      BY <1>7, <1>8
    <2> HIDE DEF rawCount, claimCount
    <2> QED BY <1>7, <1>8, <2>1, SlotsAre
  <1> HIDE DEF rawCount, claimCount
  <1>10. claims \in Seq(C \cup R) /\ raw \in Seq(C \cup R)
    BY <1>7, <1>8
  <1>11. /\ Len(ordered) = c + r
         /\ \A i \in 1 .. claimCount : ordered[i] = claims[i]
         /\ \A i \in (claimCount + 1) .. (claimCount + rawCount) :
              ordered[i] = raw[i - claimCount]
    <2>1. claimCount \in 0 .. Len(claims) /\ rawCount \in 0 .. Len(raw)
      BY <1>7, <1>8, <1>9
    <2>2. /\ Len(ordered) = Len(claims) + Len(raw)
          /\ \A i \in 1 .. claimCount : ordered[i] = claims[i]
          /\ \A i \in (claimCount + 1) .. (claimCount + rawCount) :
               ordered[i] = raw[i - claimCount]
      BY <1>1, <1>10, <2>1, InTurnsIs
    <2> QED BY <1>7, <1>8, <2>2
  <1>12. \A i \in 1 .. claimCount : IsClaim(ordered[i])
    <2>1. \A i \in 1 .. claimCount : i \in 1 .. c
      BY <1>7, <1>9
    <2>2. \A i \in 1 .. c : claims[i] \in C
      BY <1>7, SeqIs
    <2> QED BY <1>6, <1>11, <2>1, <2>2
  <1>13. \A i \in (claimCount + 1) .. (claimCount + rawCount) : ~IsClaim(ordered[i])
    <2>1. \A i \in (claimCount + 1) .. (claimCount + rawCount) : i - claimCount \in 1 .. r
      BY <1>7, <1>8, <1>9
    <2>2. \A i \in 1 .. r : raw[i] \in R
      BY <1>8, SeqIs
    <2> QED BY <1>6, <1>11, <2>1, <2>2
  <1>14. WellOrdered(ordered, max, c, r)
    BY <1>9, <1>11, <1>12, <1>13 DEF WellOrdered
  <1> QED BY <1>7, <1>8, <1>14 DEF ordered

\* What the leads taken from that order are.
Reserved(taken, max, c, r) ==
  LET raws == {i \in DOMAIN taken : ~IsClaim(taken[i])}
  IN /\ Cardinality(raws) >= Min({RAW_FLOOR, max, r})
     /\ Len(taken) - Cardinality(raws) >= Min({max - RAW_FLOOR, c})
     /\ Len(taken) = Min({max, c + r})

LEMMA ReservedIs ==
  ASSUME NEW max \in Nat, NEW c \in Nat, NEW r \in Nat, NEW ordered,
         WellOrdered(ordered, max, c, r)
  PROVE  Reserved([i \in 1 .. Min({max, Len(ordered)}) |-> ordered[i]], max, c, r)
  <1> DEFINE n == Min({max, c + r})
             atLeast == Min({RAW_FLOOR, max, r})
             rest == Min({max - RAW_FLOOR, c})
             taken == [i \in 1 .. n |-> ordered[i]]
             raws == {i \in DOMAIN taken : ~IsClaim(taken[i])}
  <1>1. /\ Len(ordered) = c + r
        /\ \E few \in 0 .. c, some \in 0 .. r :
              /\ few + some <= max /\ some >= atLeast /\ few >= rest
              /\ \A i \in 1 .. few : IsClaim(ordered[i])
              /\ \A i \in (few + 1) .. (few + some) : ~IsClaim(ordered[i])
    BY DEF WellOrdered
  <1>2. max - RAW_FLOOR \in Int /\ RAW_FLOOR \in Int /\ max \in Int
    BY DEF RAW_FLOOR
  <1>3. atLeast \in Int /\ rest \in Int
    <2>0. c \in Int /\ r \in Int
      BY <1>1
    <2>1. atLeast \in {RAW_FLOOR, max, r}
      BY <1>2, <2>0, MinOfThree, Zenon
    <2>2. rest \in {max - RAW_FLOOR, c}
      <3> DEFINE over == max - RAW_FLOOR
      <3>1. over \in Int
        BY <1>2
      <3> HIDE DEF over
      <3>2. Min({over, c}) \in {over, c}
        BY <2>0, <3>1, LesserOfTwo
      <3> QED BY <3>2 DEF over
    <2> HIDE DEF atLeast, rest
    <2> QED BY <1>1, <1>2, <2>1, <2>2
  <1>4. n = IF max <= c + r THEN max ELSE c + r
    <2> DEFINE all == c + r
    <2>1. all \in Int /\ n = Min({max, all})
      BY <1>1
    <2> HIDE DEF all, n
    <2>2. n = IF max <= all THEN max ELSE all
      BY <1>2, <2>1, LesserOfTwo
    <2> QED BY <2>2 DEF all
  <1> HIDE DEF n, atLeast, rest
  <1>5. PICK few \in 0 .. c, some \in 0 .. r :
              /\ few + some <= max /\ some >= atLeast /\ few >= rest
              /\ \A i \in 1 .. few : IsClaim(ordered[i])
              /\ \A i \in (few + 1) .. (few + some) : ~IsClaim(ordered[i])
    BY <1>1
  <1>6. n \in Nat /\ few + some <= n /\ few \in Nat /\ some \in Nat
    BY <1>1, <1>4, <1>5
  <1>7. DOMAIN taken = 1 .. n /\ Len(taken) = n /\ \A i \in 1 .. n : taken[i] = ordered[i]
    BY <1>6
  <1> HIDE DEF taken
  <1>8. \A i \in (few + 1) .. (few + some) : i \in raws
    <2>1. \A i \in (few + 1) .. (few + some) : i \in 1 .. n
      BY <1>6
    <2> QED BY <1>5, <1>7, <2>1
  <1>9. raws \subseteq (few + 1) .. n
    <2>1. \A i \in 1 .. n : i \in 1 .. few \/ i \in (few + 1) .. n
      BY <1>6
    <2>2. \A i \in raws : i \in 1 .. n /\ ~IsClaim(ordered[i])
      BY <1>7
    <2> QED BY <1>5, <2>1, <2>2
  <1>10. /\ IsFiniteSet((few + 1) .. n) /\ Cardinality((few + 1) .. n) = n - few
         /\ Cardinality((few + 1) .. (few + some)) = some
    <2>1. few + 1 \in Int /\ n \in Int /\ few + some \in Int
      BY <1>6
    <2>2. /\ IsFiniteSet((few + 1) .. n)
          /\ Cardinality((few + 1) .. n) = IF few + 1 > n THEN 0 ELSE n - (few + 1) + 1
          /\ Cardinality((few + 1) .. (few + some))
               = IF few + 1 > few + some THEN 0 ELSE few + some - (few + 1) + 1
      BY <2>1, FS_Interval
    <2> QED BY <1>6, <2>2
  <1>11. /\ IsFiniteSet(raws) /\ Cardinality(raws) <= n - few /\ Cardinality(raws) \in Nat
         /\ some <= Cardinality(raws)
    <2>1. IsFiniteSet(raws) /\ Cardinality(raws) <= Cardinality((few + 1) .. n)
      BY <1>9, <1>10, FS_Subset
    <2>2. Cardinality((few + 1) .. (few + some)) <= Cardinality(raws)
      BY <1>8, <2>1, FS_Subset
    <2>3. Cardinality(raws) \in Nat
      BY <2>1, FS_CardinalityType
    <2> QED BY <1>10, <2>1, <2>2, <2>3
  <1>14. some >= atLeast /\ few >= rest
    BY <1>5
  <1> DEFINE k == Cardinality(raws)
  <1>15. k \in Nat /\ k <= n - few /\ some <= k
    BY <1>11
  <1> HIDE DEF k
  <1>12. k >= atLeast
    BY <1>3, <1>6, <1>14, <1>15
  <1>13. n - k >= rest
    BY <1>3, <1>6, <1>14, <1>15
  <1>16. Reserved(taken, max, c, r)
    BY <1>7, <1>12, <1>13 DEF Reserved, n, k, atLeast, rest
  <1> QED BY <1>1, <1>16 DEF taken, n

ProbeInv == rank \in Nat \ {0} /\ RawLeadsReserved

LEMMA SearchReserves == ProbeInv /\ Search => ProbeInv'
  <1> SUFFICES ASSUME Search PROVE ProbeInv'
    OBVIOUS
  <1>1. PICK claims \in UNION {[1 .. n -> ClaimEvidence] : n \in 0 .. MaxClaims},
             raw \in UNION {[1 .. n -> RawSources] : n \in 0 .. MaxRaw}, max \in LeadLimits :
       LET claimHits == [i \in DOMAIN claims |-> [kind |-> "claim", evidence |-> claims[i],
                                                  source |-> claims[i][1]]]
           rawHits == [i \in DOMAIN raw |-> [kind |-> "raw", evidence |-> <<>>,
                                             source |-> raw[i]]]
           groups == GroupLeads(claimHits, rawHits)
           ordered == OrderLeads(groups, max)
       IN /\ leads' = [i \in 1 .. Min({max, Len(ordered)}) |-> ordered[i]]
          /\ searched' = [groups |-> ToSet(groups), max |-> max]
    BY DEF Search
  <1> DEFINE claimHits == [i \in DOMAIN claims |-> [kind |-> "claim", evidence |-> claims[i],
                                                    source |-> claims[i][1]]]
             rawHits == [i \in DOMAIN raw |-> [kind |-> "raw", evidence |-> <<>>,
                                               source |-> raw[i]]]
             groups == GroupLeads(claimHits, rawHits)
             ordered == OrderLeads(groups, max)
             E == {claimHits[i] : i \in DOMAIN claims} \cup {rawHits[i] : i \in DOMAIN raw}
  <1>2. leads' = [i \in 1 .. Min({max, Len(ordered)}) |-> ordered[i]]
        /\ searched'.groups = ToSet(groups) /\ searched'.max = max
    BY <1>1
  <1>3. max \in Nat
    BY ProbeAssumption
  <1>4. PICK n \in Nat : DOMAIN claims = 1 .. n
    BY ProbeAssumption
  <1>5. PICK m \in Nat : DOMAIN raw = 1 .. m
    BY ProbeAssumption
  <1>6. claimHits \in [1 .. n -> E] /\ rawHits \in [1 .. m -> E]
    BY <1>4, <1>5
  <1>7. claimHits \in Seq(E) /\ rawHits \in Seq(E)
    <2> HIDE DEF claimHits, rawHits, E
    <2> QED BY <1>6, FunctionIsSeq
  <1> HIDE DEF claimHits, rawHits, E
  <1>8. groups \in Groups(E)
    BY <1>7, GroupsAre
  <1> HIDE DEF groups
  <1>9. ClaimsOfGroups(groups) = {g \in searched'.groups : IsClaim(g)}
        /\ ApartOf(groups) = RawApart'
    BY <1>2 DEF ClaimsOfGroups, ApartOf, RawApart
  <1> HIDE DEF ordered
  <1>10. Reserved(leads', max, Cardinality(ClaimsOfGroups(groups)), Cardinality(ApartOf(groups)))
    <2> DEFINE c == Cardinality(ClaimsOfGroups(groups))
               r == Cardinality(ApartOf(groups))
    <2>1. c \in Nat /\ r \in Nat /\ WellOrdered(ordered, max, c, r)
      BY <1>3, <1>8, OrderIs DEF ordered
    <2> HIDE DEF c, r
    <2>2. Reserved(leads', max, c, r)
      BY <1>2, <1>3, <2>1, ReservedIs
    <2> QED BY <2>2 DEF c, r
  <1>11. RawLeadsReserved'
    BY <1>2, <1>9, <1>10, Zenon DEF RawLeadsReserved, Reserved
  <1>12. rank' = 1
    BY DEF Search
  <1> QED BY <1>11, <1>12 DEF ProbeInv

LEMMA ProbeStep == ProbeInv /\ [ProbeNext]_probeVars => ProbeInv'
  <1> SUFFICES ASSUME ProbeInv, [ProbeNext]_probeVars PROVE ProbeInv'
    OBVIOUS
  <1>1. CASE Search
    BY <1>1, SearchReserves
  <1>2. CASE ClaimSources \/ RawSource
    <2>1. rank' = rank + 1
      BY <1>2 DEF ClaimSources, RawSource
    <2>2. rank \in Nat \ {0}
      BY DEF ProbeInv
    <2>3. rank' \in Nat \ {0} /\ rank' # 1
      BY <2>1, <2>2
    <2> QED BY <2>3 DEF ProbeInv, RawLeadsReserved
  <1>3. CASE Fetching
    <2>1. rank' = 1 /\ stage' = "fetch"
      BY <1>3 DEF Fetching
    <2> QED BY <2>1 DEF ProbeInv, RawLeadsReserved
  <1>4. CASE Fetch
    <2>1. rank' = rank + 1 /\ stage = "fetch" /\ stage' = stage
      BY <1>4 DEF Fetch
    <2> QED BY <2>1 DEF ProbeInv, RawLeadsReserved
  <1>5. CASE Answer
    <2>1. rank' = rank /\ stage' = "answered"
      BY <1>5 DEF Answer
    <2> QED BY <2>1 DEF ProbeInv, RawLeadsReserved
  <1>6. CASE UNCHANGED probeVars
    <2>1. leads' = leads /\ rank' = rank /\ stage' = stage /\ searched' = searched
      BY <1>6 DEF probeVars
    <2>2. RawApart' = RawApart
      BY <2>1 DEF RawApart
    <2> QED BY <2>1, <2>2 DEF ProbeInv, RawLeadsReserved
  <1> QED BY <1>1, <1>2, <1>3, <1>4, <1>5, <1>6 DEF ProbeNext

\* Of the raw passages that name other bytes than the candidate claims two
\* always lead, and claims are not crowded out in turn: order_candidate_leads,
\* for any hits and any number of leads.
THEOREM RawLeadsAreReserved == ProbeSpec => []RawLeadsReserved
  <1>1. ProbeInit => ProbeInv
    BY DEF ProbeInit, ProbeInv, RawLeadsReserved
  <1>2. ProbeInv => RawLeadsReserved
    BY DEF ProbeInv
  <1> QED BY <1>1, <1>2, ProbeStep, PTL DEF ProbeSpec

-----------------------------------------------------------------------------
(* Chunks: consecutive spans between characters.                           *)

Stretches == [from : Nat, to : Nat]

\* The spans follow each other from a to b, none larger than max.
Tiled(text, cs, a, b, max) ==
  /\ cs \in Seq(Stretches)
  /\ IF Len(cs) = 0 THEN a = b ELSE cs[1].from = a /\ cs[Len(cs)].to = b
  /\ \A i \in 1 .. Len(cs) :
       /\ cs[i].from < cs[i].to /\ cs[i].to - cs[i].from <= max
       /\ cs[i].from \in Boundaries(text) /\ cs[i].to \in Boundaries(text)
       /\ i > 1 => cs[i - 1].to = cs[i].from

LEMMA TiledNone == ASSUME NEW text, NEW a, NEW max PROVE Tiled(text, <<>>, a, a, max)
  BY DEF Tiled

LEMMA TiledOne ==
  ASSUME NEW text, NEW a \in Nat, NEW b \in Nat, NEW max \in Nat, a < b, b - a <= max,
         a \in Boundaries(text), b \in Boundaries(text)
  PROVE  Tiled(text, <<Span(a, b)>>, a, b, max)
  <1> DEFINE cs == <<Span(a, b)>>
  <1>1. Span(a, b) \in Stretches /\ Span(a, b).from = a /\ Span(a, b).to = b
    BY DEF Span, Stretches
  <1>2. cs \in Seq(Stretches) /\ Len(cs) = 1 /\ cs[1] = Span(a, b)
    BY <1>1
  <1> HIDE DEF cs
  <1> QED BY <1>1, <1>2 DEF Tiled, cs

LEMMA TiledJoin ==
  ASSUME NEW text, NEW s, NEW t, NEW a, NEW b, NEW c, NEW max,
         Tiled(text, s, a, b, max), Tiled(text, t, b, c, max)
  PROVE  Tiled(text, s \o t, a, c, max)
  <1> DEFINE st == s \o t
             m == Len(s)
             n == Len(t)
  <1>1. s \in Seq(Stretches) /\ t \in Seq(Stretches) /\ m \in Nat /\ n \in Nat
    BY DEF Tiled
  <1>2. /\ st \in Seq(Stretches) /\ Len(st) = m + n
        /\ \A i \in 1 .. m : st[i] = s[i]
        /\ \A i \in m + 1 .. m + n : st[i] = t[i - m]
    BY <1>1
  <1>3. /\ IF m = 0 THEN a = b ELSE s[1].from = a /\ s[m].to = b
        /\ IF n = 0 THEN b = c ELSE t[1].from = b /\ t[n].to = c
    BY DEF Tiled
  <1>4. /\ \A i \in 1 .. m :
             /\ s[i].from < s[i].to /\ s[i].to - s[i].from <= max
             /\ s[i].from \in Boundaries(text) /\ s[i].to \in Boundaries(text)
             /\ i > 1 => s[i - 1].to = s[i].from
        /\ \A i \in 1 .. n :
             /\ t[i].from < t[i].to /\ t[i].to - t[i].from <= max
             /\ t[i].from \in Boundaries(text) /\ t[i].to \in Boundaries(text)
             /\ i > 1 => t[i - 1].to = t[i].from
    BY DEF Tiled
  <1> HIDE DEF st, m, n
  <1>5. IF m + n = 0 THEN a = c ELSE st[1].from = a /\ st[m + n].to = c
    <2>1. CASE n = 0
      <3>1. m # 0 => 1 \in 1 .. m /\ m \in 1 .. m
        BY <1>1
      <3> QED BY <1>1, <1>2, <1>3, <2>1, <3>1
    <2>2. CASE n # 0
      <3> DEFINE k == m + n
      <3>1. k \in m + 1 .. m + n /\ k - m = n /\ k # 0
        BY <1>1, <2>2
      <3> HIDE DEF k
      <3>2. st[k] = t[n]
        BY <1>2, <3>1
      <3>3. m # 0 => 1 \in 1 .. m
        BY <1>1
      <3>4. m = 0 => 1 \in m + 1 .. m + n /\ 1 - m = 1
        BY <1>1, <2>2
      <3>5. st[1].from = a
        BY <1>2, <1>3, <2>2, <3>3, <3>4
      <3> QED BY <1>3, <2>2, <3>1, <3>2, <3>5 DEF k
    <2> QED BY <2>1, <2>2
  <1>6. ASSUME NEW i \in 1 .. m + n
        PROVE  /\ st[i].from < st[i].to /\ st[i].to - st[i].from <= max
               /\ st[i].from \in Boundaries(text) /\ st[i].to \in Boundaries(text)
               /\ i > 1 => st[i - 1].to = st[i].from
    <2>1. CASE i <= m
      <3>1. i \in 1 .. m /\ (i > 1 => i - 1 \in 1 .. m)
        BY <1>1, <2>1
      <3> QED BY <1>2, <1>4, <3>1
    <2>2. CASE i > m
      <3>1. /\ i \in m + 1 .. m + n /\ i - m \in 1 .. n
        BY <1>1, <2>2
      <3>2. st[i] = t[i - m]
        BY <1>2, <3>1
      <3>3. i > 1 => st[i - 1].to = st[i].from
        <4>1. CASE i = m + 1
          <5>1. i - m = 1 /\ i - 1 = m /\ n # 0
            BY <1>1, <2>2, <4>1
          <5>2. st[i].from = b
            BY <1>3, <3>2, <5>1
          <5>3. i > 1 => m \in 1 .. m /\ m # 0
            BY <1>1, <5>1
          <5> QED BY <1>2, <1>3, <5>1, <5>2, <5>3
        <4>2. CASE i # m + 1
          <5>1. /\ i - 1 \in m + 1 .. m + n /\ (i - 1) - m = (i - m) - 1
                /\ i - m > 1
            BY <1>1, <2>2, <4>2
          <5>2. st[i - 1] = t[(i - m) - 1]
            BY <1>2, <5>1
          <5> QED BY <1>4, <3>1, <3>2, <5>1, <5>2
        <4> QED BY <4>1, <4>2
      <3> QED BY <1>4, <3>1, <3>2, <3>3
    <2> QED BY <1>1, <2>1, <2>2
  <1> QED BY <1>1, <1>2, <1>5, <1>6 DEF Tiled, st, m, n

-----------------------------------------------------------------------------
(* Recursion over offsets, and folds.                                      *)

\* f cuts off a first piece and goes on after it.
Goes(f, a, b, more, next, first) ==
  f = [s \in a .. b |-> IF s \in more THEN first[s] \o f[next[s]] ELSE first[s]]

LEMMA GoesExists ==
  ASSUME NEW a \in Nat, NEW b \in Nat, a <= b, NEW more, NEW next, NEW E,
         NEW first \in [a .. b -> Seq(E)],
         \A s \in a .. b : s \in more => next[s] \in s + 1 .. b
  PROVE  \E f \in [a .. b -> Seq(E)] : Goes(f, a, b, more, next, first)
  <1> DEFINE Good == {k \in 0 .. b - a :
                        \E f \in [b - k .. b -> Seq(E)] : Goes(f, b - k, b, more, next, first)}
  <1>1. b - a \in Nat /\ b - 0 = b
    OBVIOUS
  <1>2. 0 \in Good
    <2> DEFINE f == [s \in b .. b |-> first[s]]
    <2>1. f \in [b .. b -> Seq(E)]
      OBVIOUS
    <2>2. b \notin more
      OBVIOUS
    <2>3. Goes(f, b, b, more, next, first)
      BY <2>2 DEF Goes
    <2> HIDE DEF f
    <2>4. \E g \in [b - 0 .. b -> Seq(E)] : Goes(g, b - 0, b, more, next, first)
      BY <1>1, <2>1, <2>3
    <2> QED BY <1>1, <2>4
  <1>3. ASSUME NEW k \in 1 .. b - a, k - 1 \in Good PROVE k \in Good
    <2> DEFINE c == b - k
    <2>1. c \in a .. b /\ b - (k - 1) = c + 1 /\ c \in Nat /\ c < b /\ k \in 0 .. b - a
      OBVIOUS
    <2>2. PICK f \in [c + 1 .. b -> Seq(E)] : Goes(f, c + 1, b, more, next, first)
      BY <1>3, <2>1
    <2> HIDE DEF c, Good
    <2> DEFINE g == [s \in c .. b |->
                       IF s = c THEN IF c \in more THEN first[c] \o f[next[c]] ELSE first[c]
                       ELSE f[s]]
    <2>3. c \in more => next[c] \in c + 1 .. b
      BY <2>1
    <2>4. g \in [c .. b -> Seq(E)]
      <3>1. first[c] \in Seq(E)
        BY <2>1
      <3>2. c \in more => first[c] \o f[next[c]] \in Seq(E)
        BY <2>3, <3>1
      <3>3. \A s \in c .. b : s # c => s \in c + 1 .. b
        BY <2>1
      <3> QED BY <3>1, <3>2, <3>3
    <2>5. ASSUME NEW s \in c .. b
          PROVE  g[s] = IF s \in more THEN first[s] \o g[next[s]] ELSE first[s]
      <3>1. CASE s = c
        <4>1. c \in more => next[c] \in c .. b /\ next[c] # c
          BY <2>1, <2>3
        <4> QED BY <3>1, <4>1
      <3>2. CASE s # c
        <4>1. s \in c + 1 .. b /\ s \in a .. b
          BY <2>1, <3>2
        <4>2. s \in more => next[s] \in c .. b /\ next[s] # c
          BY <2>1, <4>1
        <4>3. f[s] = IF s \in more THEN first[s] \o f[next[s]] ELSE first[s]
          BY <2>2, <4>1 DEF Goes
        <4> QED BY <3>2, <4>2, <4>3
      <3> QED BY <3>1, <3>2
    <2>6. Goes(g, c, b, more, next, first)
      <3> HIDE DEF g
      <3>1. g = [s \in c .. b |-> g[s]]
        BY <2>4
      <3> QED BY <2>5, <3>1 DEF Goes
    <2> HIDE DEF g
    <2>7. \E h \in [b - k .. b -> Seq(E)] : Goes(h, b - k, b, more, next, first)
      BY <2>4, <2>6 DEF c
    <2> QED BY <2>1, <2>7 DEF Good
  <1> HIDE DEF Good
  <1>4. b - a \in Good
    <2>1. 0 .. b - a \subseteq Good
      BY <1>1, <1>2, <1>3, Climb
    <2> QED BY <1>1, <2>1
  <1>5. b - (b - a) = a
    OBVIOUS
  <1> QED BY <1>4, <1>5 DEF Good

-----------------------------------------------------------------------------
(* Where a block is cut.                                                   *)

LEMMA ChunkNumbers ==
  /\ TargetBytes \in Nat /\ ChunkMax \in Nat /\ MinTail \in Nat
  /\ WindowMax \in Nat /\ WindowPreferred \in Nat /\ WindowOverlap \in Nat
  /\ 0 < TargetBytes /\ TargetBytes < ChunkMax /\ 3 <= ChunkMax
  /\ 2 <= WindowOverlap /\ WindowOverlap + 2 <= WindowPreferred
  /\ WindowPreferred + 2 <= WindowMax
  <1>1. /\ TargetBytes \in Nat /\ ChunkMax \in Nat /\ MinTail \in Nat
        /\ WindowMax \in Nat /\ WindowPreferred \in Nat /\ WindowOverlap \in Nat
    BY ChunksAssumption, Zenon
  <1>2. /\ 0 < MinTail /\ MinTail <= TargetBytes /\ TargetBytes < ChunkMax /\ 3 <= ChunkMax
        /\ 2 <= WindowOverlap /\ WindowOverlap + 2 <= WindowPreferred
        /\ WindowPreferred + 2 <= WindowMax
    BY ChunksAssumption, Zenon
  <1> QED BY <1>1, <1>2

\* Three bytes after any offset there is a boundary between the two.
LEMMA LaterHead ==
  ASSUME NEW text, IsText(text), NEW start \in Nat, NEW end \in Nat,
         start + 3 <= end, end <= Size(text)
  PROVE  /\ HeadBoundary(text, end) \in start + 1 .. end
         /\ HeadBoundary(text, end) \in Boundaries(text)
  <1> DEFINE b == HeadBoundary(text, start)
             h == HeadBoundary(text, end)
             c == Size(text)
  <1>1. /\ b \in Boundaries(text) /\ b \in Nat /\ b <= start
        /\ \A x \in Boundaries(text) : x <= start => x <= b
    BY HeadIs
  <1>2. h \in Boundaries(text) /\ h \in Nat /\ h <= end
    BY HeadIs
  <1>3. c \in Boundaries(text) /\ c \in Nat
    BY BoundariesIn
  <1>4. h > b
    <2>1. b < c /\ b + 3 <= end
      BY <1>1, <1>3
    <2> HIDE DEF b, c
    <2> QED BY <1>1, <1>3, <2>1, HeadAdvances
  <1> HIDE DEF b, h
  <1>5. h > start
    BY <1>1, <1>2, <1>4
  <1>6. h \in start + 1 .. end
    BY <1>2, <1>5
  <1> QED BY <1>2, <1>6 DEF h

\* The first of some sets that is not empty.
LEMMA FirstNonEmpty ==
  ASSUME NEW n \in Nat \ {0}, NEW tries, tries[n] # {}
  PROVE  LET T == {i \in 1 .. n : tries[i] # {}}
         IN Min(T) \in 1 .. n /\ tries[Min(T)] # {}
  <1> DEFINE T == {i \in 1 .. n : tries[i] # {}}
  <1>1. T \in SUBSET Nat /\ T # {}
    OBVIOUS
  <1>2. Min(T) \in T
    <2> HIDE DEF T
    <2> QED BY <1>1, LeastIsMin
  <1> QED BY <1>2

LEMMA PreferredSplitIs ==
  ASSUME NEW text, IsText(text), NEW start \in Nat, start + ChunkMax <= Size(text)
  PROVE  /\ PreferredSplit(text, start) \in start + 1 .. start + ChunkMax
         /\ PreferredSplit(text, start) \in Boundaries(text)
  <1> DEFINE ceiling == HeadBoundary(text, start + ChunkMax)
             places == {b \in Boundaries(text) : start + TargetBytes <= b /\ b < ceiling}
             lineEnds == CharEnds(text, {"n"}) \cap (start + 1 .. ceiling)
             blank == {b \in places \cap lineEnds : b - 1 \in lineEnds}
             sentence == places \cap CharEnds(text, {"."}) \cap CharStarts(text, White)
             tries == <<blank, places \cap lineEnds, sentence,
                        places \cap CharStarts(text, White), {ceiling}>>
             I == {i \in 1 .. 5 : tries[i] # {}}
  <1>1. start + ChunkMax \in Nat /\ start + 3 <= start + ChunkMax
    BY ChunkNumbers
  <1>2. ceiling \in start + 1 .. start + ChunkMax /\ ceiling \in Boundaries(text)
    BY <1>1, LaterHead
  <1> HIDE DEF ceiling
  <1>3. PreferredSplit(text, start) = Max(tries[Min(I)])
    <2>1. PreferredSplit(text, start) = Max(tries[Min({i \in DOMAIN tries : tries[i] # {}})])
      BY Zenon DEF PreferredSplit, ceiling
    <2>2. DOMAIN tries = 1 .. 5
      OBVIOUS
    <2> QED BY <2>1, <2>2, Zenon
  <1> DEFINE P == places \cup {ceiling}
  <1>4. /\ tries[1] \subseteq P /\ tries[2] \subseteq P /\ tries[3] \subseteq P
        /\ tries[4] \subseteq P /\ tries[5] \subseteq P /\ tries[5] # {}
    OBVIOUS
  <1>5. P \in SUBSET Nat /\ \A x \in P : x <= ceiling /\ start < x /\ x \in Boundaries(text)
    <2>1. \A x \in Boundaries(text) : x \in Nat
      BY BoundariesIn
    <2>2. ceiling \in Nat /\ start < ceiling /\ TargetBytes \in Nat \ {0}
      BY <1>2, ChunkNumbers
    <2>3. \A x \in places : x \in Nat /\ x <= ceiling /\ start < x
      BY <2>1, <2>2
    <2>4. \A x \in places : x \in Boundaries(text)
      OBVIOUS
    <2> HIDE DEF places
    <2>5. ASSUME NEW x \in P PROVE x \in Nat /\ x <= ceiling /\ start < x /\ x \in Boundaries(text)
      <3>1. CASE x \in places
        BY <2>3, <2>4, <3>1
      <3>2. CASE x = ceiling
        BY <1>2, <2>2, <3>2
      <3> QED BY <3>1, <3>2
    <2> HIDE DEF P
    <2> QED BY <2>5
  <1> HIDE DEF tries, P
  <1>6. Min(I) \in 1 .. 5 /\ tries[Min(I)] # {}
    <2>1. 5 \in Nat \ {0}
      OBVIOUS
    <2> QED BY <1>4, <2>1, FirstNonEmpty, Zenon
  <1> HIDE DEF I
  <1>7. tries[Min(I)] \subseteq P
    BY <1>4, <1>6
  <1>8. Max(tries[Min(I)]) \in P
    <2> DEFINE T == tries[Min(I)]
    <2>0. T \subseteq P /\ T # {} /\ ceiling \in Nat
      BY <1>2, <1>6, <1>7
    <2> HIDE DEF T
    <2>1. T \in SUBSET Nat /\ \A x \in T : x <= ceiling
      BY <1>5, <2>0
    <2>2. Max(T) \in T
      BY <2>0, <2>1, Greatest
    <2> QED BY <2>0, <2>2 DEF T
  <1>9. PreferredSplit(text, start) \in P
    BY <1>3, <1>8
  <1> DEFINE x == PreferredSplit(text, start)
  <1>10. x \in Nat /\ x <= ceiling /\ start < x /\ x \in Boundaries(text)
    BY <1>5, <1>9
  <1> HIDE DEF x
  <1>11. x \in start + 1 .. start + ChunkMax
    BY <1>1, <1>2, <1>10
  <1> QED BY <1>10, <1>11 DEF x

\* A block that is too large is cut from its start to its end.
LEMMA SplitOversizedIs ==
  ASSUME NEW text, IsText(text), NEW block \in Stretches,
         block.from <= block.to, block.to <= Size(text)
  PROVE  /\ SplitOversized(text, block) \in Seq(Stretches)
         /\ block.from \in Boundaries(text) /\ block.to \in Boundaries(text) =>
              Tiled(text, SplitOversized(text, block), block.from, block.to, ChunkMax)
  <1> DEFINE a == block.from
             b == block.to
             more == {s \in a .. b : b - s > ChunkMax}
             next == [s \in a .. b |-> PreferredSplit(text, s)]
             first == [s \in a .. b |-> IF s \in more THEN <<Span(s, next[s])>>
                                        ELSE IF s < b THEN <<Span(s, b)>> ELSE <<>>]
             rest[start \in a .. b] ==
               IF b - start > ChunkMax
               THEN <<Span(start, PreferredSplit(text, start))>> \o rest[PreferredSplit(text, start)]
               ELSE IF start < b THEN <<Span(start, b)>> ELSE <<>>
  <1>1. SplitOversized(text, block) = rest[a]
    BY Zenon DEF SplitOversized
  <1>2. a \in Nat /\ b \in Nat /\ a <= b /\ b <= Size(text)
    BY DEF Stretches
  <1> HIDE DEF a, b
  <1>3. \A s \in a .. b : s \in more => /\ next[s] \in s + 1 .. b /\ next[s] \in Boundaries(text)
                                        /\ next[s] - s <= ChunkMax
    <2> TAKE s \in a .. b
    <2> HAVE s \in more
    <2>1. s \in Nat /\ s + ChunkMax < b /\ ChunkMax \in Nat /\ Size(text) \in Nat
      BY <1>2, ChunkNumbers, BoundariesIn
    <2>2. s + ChunkMax <= Size(text)
      BY <1>2, <2>1
    <2> DEFINE x == PreferredSplit(text, s)
    <2>3. x \in s + 1 .. s + ChunkMax /\ x \in Boundaries(text)
      BY <2>1, <2>2, PreferredSplitIs
    <2>4. next[s] = x
      OBVIOUS
    <2> HIDE DEF x, next
    <2> QED BY <1>2, <2>1, <2>3, <2>4
  <1>4. first \in [a .. b -> Seq(Stretches)]
    <2>1. \A s \in a .. b : Span(s, b) \in Stretches /\ (s \in more => Span(s, next[s]) \in Stretches)
      <3> TAKE s \in a .. b
      <3>1. s \in Nat /\ (s \in more => next[s] \in Nat)
        BY <1>2, <1>3
      <3> HIDE DEF next, more
      <3> QED BY <1>2, <3>1 DEF Span, Stretches
    <2> HIDE DEF next, more
    <2> QED BY <2>1
  <1> HIDE DEF first, next
  <1>5. PICK f \in [a .. b -> Seq(Stretches)] : Goes(f, a, b, more, next, first)
    <2> HIDE DEF more
    <2> QED BY <1>2, <1>3, <1>4, GoesExists
  <1>6. f = [start \in a .. b |->
               IF b - start > ChunkMax
               THEN <<Span(start, PreferredSplit(text, start))>> \o f[PreferredSplit(text, start)]
               ELSE IF start < b THEN <<Span(start, b)>> ELSE <<>>]
    <2>1. ASSUME NEW s \in a .. b
          PROVE  f[s] = IF b - s > ChunkMax
                        THEN <<Span(s, PreferredSplit(text, s))>> \o f[PreferredSplit(text, s)]
                        ELSE IF s < b THEN <<Span(s, b)>> ELSE <<>>
      BY <1>5 DEF Goes, first, next
    <2> QED BY <1>5, <2>1
  <1>7. rest = [start \in a .. b |->
                  IF b - start > ChunkMax
                  THEN <<Span(start, PreferredSplit(text, start))>> \o rest[PreferredSplit(text, start)]
                  ELSE IF start < b THEN <<Span(start, b)>> ELSE <<>>]
    BY <1>6, Zenon
  <1> HIDE DEF rest
  <1>8. ASSUME NEW s \in a .. b
        PROVE  /\ s \in more => rest[s] = <<Span(s, next[s])>> \o rest[next[s]]
               /\ s \notin more => rest[s] = IF s < b THEN <<Span(s, b)>> ELSE <<>>
    BY <1>7 DEF next
  <1> HIDE DEF more
  <1> DEFINE Good == {k \in 0 .. b - a :
                        /\ rest[b - k] \in Seq(Stretches)
                        /\ b - k \in Boundaries(text) /\ b \in Boundaries(text) =>
                             Tiled(text, rest[b - k], b - k, b, ChunkMax)}
  <1>9. 0 \in Good
    <2>1. b \notin more /\ b \in a .. b /\ b - 0 = b /\ 0 \in 0 .. b - a
      <3>1. b - b = 0 /\ ~(0 > ChunkMax) /\ b \in a .. b /\ b - 0 = b /\ 0 \in 0 .. b - a
        BY <1>2, ChunkNumbers
      <3> QED BY <3>1 DEF more
    <2>2. rest[b] = <<>>
      <3>1. ~(b < b)
        BY <1>2
      <3> QED BY <1>8, <2>1, <3>1
    <2>3. rest[b - 0] \in Seq(Stretches) /\ Tiled(text, rest[b - 0], b - 0, b, ChunkMax)
      <3>1. Tiled(text, <<>>, b, b, ChunkMax) /\ <<>> \in Seq(Stretches)
        BY TiledNone
      <3> QED BY <2>1, <2>2, <3>1
    <2> QED BY <2>1, <2>3
  <1>10. ASSUME NEW k \in 1 .. b - a, \A j \in 0 .. k - 1 : j \in Good PROVE k \in Good
    <2> DEFINE s == b - k
    <2>1. s \in a .. b /\ s \in Nat /\ s < b /\ k \in 0 .. b - a
      BY <1>2
    <2>2. CASE s \in more
      <3> DEFINE t == next[s]
                 j == b - t
      <3>1. /\ t \in s + 1 .. b /\ t \in Boundaries(text) /\ t - s <= ChunkMax
            /\ rest[s] = <<Span(s, t)>> \o rest[t]
        BY <1>3, <1>8, <2>1, <2>2
      <3> HIDE DEF t
      <3>2. j \in 0 .. k - 1 /\ b - j = t /\ t \in Nat
        BY <1>2, <2>1, <3>1
      <3> HIDE DEF j
      <3>3. /\ rest[t] \in Seq(Stretches)
            /\ b \in Boundaries(text) => Tiled(text, rest[t], t, b, ChunkMax)
        BY <1>10, <3>1, <3>2
      <3>4. Span(s, t) \in Stretches
        BY <2>1, <3>2 DEF Span, Stretches
      <3>5. rest[s] \in Seq(Stretches)
        BY <3>1, <3>3, <3>4
      <3>6. s \in Boundaries(text) => Tiled(text, <<Span(s, t)>>, s, t, ChunkMax)
        BY <2>1, <3>1, <3>2, ChunkNumbers, TiledOne
      <3> HIDE DEF s
      <3>7. s \in Boundaries(text) /\ b \in Boundaries(text) => Tiled(text, rest[s], s, b, ChunkMax)
        BY <3>1, <3>3, <3>6, TiledJoin
      <3> QED BY <2>1, <3>5, <3>7 DEF s
    <2>3. CASE s \notin more
      <3>1. rest[s] = <<Span(s, b)>> /\ b - s <= ChunkMax
        <4>1. ~(b - s > ChunkMax)
          BY <2>1, <2>3 DEF more
        <4>2. rest[s] = <<Span(s, b)>>
          BY <1>8, <2>1, <2>3
        <4> QED BY <1>2, <2>1, <4>1, <4>2, ChunkNumbers
      <3>2. Span(s, b) \in Stretches
        BY <1>2, <2>1 DEF Span, Stretches
      <3>3. rest[s] \in Seq(Stretches)
        BY <3>1, <3>2
      <3> HIDE DEF s
      <3>4. s \in Boundaries(text) /\ b \in Boundaries(text) => Tiled(text, rest[s], s, b, ChunkMax)
        BY <1>2, <2>1, <3>1, ChunkNumbers, TiledOne
      <3> QED BY <2>1, <3>3, <3>4 DEF s
    <2> QED BY <2>2, <2>3
  <1> HIDE DEF Good
  <1>11. b - a \in Good
    <2>1. b - a \in Nat
      BY <1>2
    <2> QED BY <1>9, <1>10, <2>1, ClimbAll
  <1>12. b - (b - a) = a
    BY <1>2
  <1> QED BY <1>1, <1>11, <1>12 DEF Good, a, b

-----------------------------------------------------------------------------
(* Blocks, line by line.                                                   *)

Opens == [blocks : Seq(Stretches), from : Nat, fenced : BOOLEAN]

NoBlocks == [blocks |-> <<>>, from |-> 0, fenced |-> FALSE]

LEMMA TakeLineType ==
  ASSUME NEW text, NEW open \in Opens, NEW line \in Stretches
  PROVE  TakeLine(text, open, line) \in Opens
  <1> DEFINE mark == Mark(text, line)
             closes == mark = "~" /\ open.fenced
             before == /\ line.from > open.from
                       /\ mark \in {"#", "~"} /\ ~open.fenced
             start == IF before THEN line.from ELSE open.from
             after == closes \/ (mark = "_" /\ ~open.fenced)
             first == IF before THEN <<Span(open.from, line.from)>> ELSE <<>>
             second == IF after THEN <<Span(start, line.to)>> ELSE <<>>
             r == TakeLine(text, open, line)
  <1>1. r = [blocks |-> open.blocks \o first \o second,
             from |-> IF after THEN line.to ELSE start,
             fenced |-> IF mark = "~" THEN ~open.fenced ELSE open.fenced]
    BY Zenon DEF TakeLine
  <1>2. open.blocks \in Seq(Stretches) /\ open.from \in Nat /\ open.fenced \in BOOLEAN
        /\ line.from \in Nat /\ line.to \in Nat
    BY DEF Opens, Stretches
  <1> HIDE DEF before, after, mark, r
  <1>3. start \in Nat
    BY <1>2
  <1> HIDE DEF start
  <1>4. Span(open.from, line.from) \in Stretches /\ Span(start, line.to) \in Stretches
    BY <1>2, <1>3 DEF Span, Stretches
  <1>5. first \in Seq(Stretches) /\ second \in Seq(Stretches)
    BY <1>4
  <1> HIDE DEF first, second
  <1>6. open.blocks \o first \o second \in Seq(Stretches)
    BY <1>2, <1>5
  <1>7. (IF after THEN line.to ELSE start) \in Nat
    BY <1>2, <1>3
  <1>8. (IF mark = "~" THEN ~open.fenced ELSE open.fenced) \in BOOLEAN
    BY <1>2
  <1> QED BY <1>1, <1>6, <1>7, <1>8 DEF Opens, r

\* The blocks so far reach the one that is open.
AtBlock(text, open, to) ==
  /\ open \in Opens /\ Tiled(text, open.blocks, 0, open.from, Size(text))
  /\ open.from <= to /\ open.from \in Boundaries(text)

LEMMA TakeLineIs ==
  ASSUME NEW text, IsText(text), NEW open, NEW line \in Stretches, AtBlock(text, open, line.from),
         line.from < line.to, line.from \in Boundaries(text), line.to \in Boundaries(text)
  PROVE  AtBlock(text, TakeLine(text, open, line), line.to)
  <1> DEFINE mark == Mark(text, line)
             closes == mark = "~" /\ open.fenced
             before == /\ line.from > open.from
                       /\ mark \in {"#", "~"} /\ ~open.fenced
             start == IF before THEN line.from ELSE open.from
             after == closes \/ (mark = "_" /\ ~open.fenced)
             first == IF before THEN <<Span(open.from, line.from)>> ELSE <<>>
             second == IF after THEN <<Span(start, line.to)>> ELSE <<>>
             from == IF after THEN line.to ELSE start
             max == Size(text)
             r == TakeLine(text, open, line)
  <1>1. /\ r.blocks = open.blocks \o first \o second
        /\ r.from = from
    <2>1. r = [blocks |-> open.blocks \o first \o second, from |-> from,
               fenced |-> IF mark = "~" THEN ~open.fenced ELSE open.fenced]
      BY Zenon DEF TakeLine
    <2> HIDE DEF r, first, second, from, mark
    <2> QED BY <2>1
  <1>2. r \in Opens
    BY TakeLineType DEF AtBlock
  <1>3. /\ open.from \in Nat /\ line.from \in Nat /\ line.to \in Nat /\ max \in Nat
        /\ line.from <= max /\ line.to <= max /\ open.from <= line.from
        /\ open.from \in Boundaries(text) /\ Tiled(text, open.blocks, 0, open.from, max)
    BY BoundariesIn DEF AtBlock, Opens, Stretches
  <1>4. before => open.from < line.from
    BY <1>3
  <1> HIDE DEF before, after, mark, r, max
  <1>5. /\ start \in Nat /\ start \in Boundaries(text) /\ open.from <= start /\ start <= line.from
        /\ Tiled(text, first, open.from, start, max)
    <2>1. CASE before
      <3>1. start = line.from /\ first = <<Span(open.from, line.from)>>
            /\ line.from - open.from <= max
        BY <1>3, <2>1
      <3>2. Tiled(text, <<Span(open.from, line.from)>>, open.from, line.from, max)
        BY <1>3, <1>4, <2>1, <3>1, TiledOne
      <3> HIDE DEF start, first
      <3> QED BY <1>3, <3>1, <3>2
    <2>2. CASE ~before
      <3>1. start = open.from /\ first = <<>>
        BY <2>2
      <3>2. Tiled(text, <<>>, open.from, open.from, max)
        BY TiledNone
      <3> HIDE DEF start, first
      <3> QED BY <1>3, <3>1, <3>2
    <2> QED BY <2>1, <2>2
  <1> HIDE DEF start, first
  <1>6. from \in Boundaries(text) /\ from <= line.to /\ Tiled(text, second, start, from, max)
    <2>1. CASE after
      <3>1. from = line.to /\ second = <<Span(start, line.to)>>
            /\ line.to - start <= max /\ start < line.to
        BY <1>3, <1>5, <2>1
      <3>2. Tiled(text, <<Span(start, line.to)>>, start, line.to, max)
        BY <1>3, <1>5, <3>1, TiledOne
      <3> HIDE DEF from, second
      <3> QED BY <1>3, <3>1, <3>2
    <2>2. CASE ~after
      <3>1. from = start /\ second = <<>>
        BY <2>2
      <3>2. Tiled(text, <<>>, start, start, max) /\ start <= line.to
        BY <1>3, <1>5, TiledNone
      <3> HIDE DEF from, second
      <3> QED BY <1>5, <3>1, <3>2
    <2> QED BY <2>1, <2>2
  <1> HIDE DEF from, second
  <1>7. Tiled(text, open.blocks \o first, 0, start, max)
    BY <1>3, <1>5, TiledJoin
  <1>8. Tiled(text, open.blocks \o first \o second, 0, from, max)
    BY <1>6, <1>7, TiledJoin
  <1> QED BY <1>1, <1>2, <1>6, <1>8 DEF AtBlock, max, r

LEMMA LinesFollow ==
  ASSUME NEW text, IsText(text), DOMAIN text = 1 .. Len(text), NEW lines, lines = LinesOf(text)
  PROVE  /\ lines \in Seq(Stretches)
         /\ \A i \in 1 .. Len(lines) :
              /\ lines[i].from = IF i = 1 THEN 0 ELSE lines[i - 1].to
              /\ lines[i].from < lines[i].to
              /\ lines[i].from \in Boundaries(text) /\ lines[i].to \in Boundaries(text)
         /\ IF Len(lines) = 0 THEN Size(text) = 0 ELSE lines[Len(lines)].to = Size(text)
  <1>1. lines = BundleLines(text)
    BY DEF LinesOf, BundleLines, Span
  <1>2. /\ lines \in Seq([from : Nat, to : Nat])
        /\ \A i \in 1 .. Len(lines) :
             /\ lines[i].from = IF i = 1 THEN 0 ELSE lines[i - 1].to
             /\ lines[i].from < lines[i].to /\ lines[i].to <= Size(text)
             /\ lines[i].to \in Boundaries(text)
        /\ IF Len(lines) = 0 THEN Size(text) = 0 ELSE lines[Len(lines)].to = Size(text)
    BY <1>1, LinesAre
  <1>3. \A i \in 1 .. Len(lines) : lines[i].from \in Boundaries(text)
    <2> TAKE i \in 1 .. Len(lines)
    <2>1. i # 1 => i - 1 \in 1 .. Len(lines)
      OBVIOUS
    <2>2. 0 \in Boundaries(text)
      BY BoundariesIn
    <2> QED BY <1>2, <2>1, <2>2
  <1> QED BY <1>2, <1>3 DEF Stretches

\* The blocks of a text follow each other from its start to its end.
LEMMA StructuralBlocksAre ==
  ASSUME NEW text, IsText(text), DOMAIN text = 1 .. Len(text)
  PROVE  Tiled(text, StructuralBlocks(text), 0, Size(text), Size(text))
  <1> DEFINE lines == LinesOf(text)
             n == Len(lines)
             D == DOMAIN lines
             step == [p \in Opens \X Stretches |-> TakeLine(text, p[1], p[2])]
             iter[S \in SUBSET D] ==
               IF S = {} THEN NoBlocks
               ELSE TakeLine(text, iter[S \ {Max(S)}], lines[Max(S)])
             done == iter[D]
             rest == IF done.from < Size(text) THEN <<Span(done.from, Size(text))>> ELSE <<>>
  <1>1. StructuralBlocks(text) = done.blocks \o rest
    BY Zenon DEF StructuralBlocks, FoldLeft, MapThenFoldSet, NoBlocks
  <1>2. /\ lines \in Seq(Stretches) /\ n \in Nat /\ D = 1 .. n /\ \A i \in D : lines[i] \in Stretches
        /\ \A i \in 1 .. n :
             /\ lines[i].from = IF i = 1 THEN 0 ELSE lines[i - 1].to
             /\ lines[i].from < lines[i].to
             /\ lines[i].from \in Boundaries(text) /\ lines[i].to \in Boundaries(text)
        /\ IF n = 0 THEN Size(text) = 0 ELSE lines[n].to = Size(text)
    <2>1. lines \in Seq(Stretches)
      BY LinesFollow
    <2> HIDE DEF lines
    <2> QED BY <2>1, SeqIs, LinesFollow DEF lines
  <1> HIDE DEF lines
  <1>3. NoBlocks \in Opens
    BY DEF NoBlocks, Opens
  <1>4. step \in [Opens \X Stretches -> Opens]
    BY TakeLineType
  <1>5. PICK f \in [SUBSET D -> Opens] : Folds(f, Len(lines), step, NoBlocks, lines)
    <2> HIDE DEF step
    <2> QED BY <1>2, <1>3, <1>4, FoldExists
  <1>6. f = [S \in SUBSET D |->
               IF S = {} THEN NoBlocks ELSE TakeLine(text, f[S \ {Max(S)}], lines[Max(S)])]
    <2>1. ASSUME NEW S \in SUBSET D, S # {}
          PROVE  f[S] = TakeLine(text, f[S \ {Max(S)}], lines[Max(S)])
      <3>1. f[S] = step[<<f[S \ {Max(S)}], lines[Max(S)]>>]
        BY <1>2, <1>5, <2>1 DEF Folds
      <3>2. Max(S) \in S
        <4>1. S \in SUBSET Nat /\ \A i \in S : i <= n
          BY <1>2
        <4> QED BY <1>2, <2>1, <4>1, Greatest
      <3>3. f[S \ {Max(S)}] \in Opens /\ lines[Max(S)] \in Stretches
        BY <1>2, <1>5, <3>2
      <3> QED BY <3>1, <3>3
    <2>2. f[{}] = NoBlocks
      BY <1>2, <1>5 DEF Folds
    <2> QED BY <1>5, <2>1, <2>2
  <1>7. iter = [S \in SUBSET D |->
                  IF S = {} THEN NoBlocks
                  ELSE TakeLine(text, iter[S \ {Max(S)}], lines[Max(S)])]
    BY <1>6, Zenon
  <1> HIDE DEF iter
  <1>8. PICK acc : RunsOver(acc, Opens, step, NoBlocks, lines) /\ acc[n] = iter[D]
    <2>1. iter[{}] = NoBlocks
      BY <1>7
    <2>2. ASSUME NEW S \in SUBSET D, S # {}, iter[S \ {Max(S)}] \in Opens
          PROVE  iter[S] = step[<<iter[S \ {Max(S)}], lines[Max(S)]>>]
      <3>1. Max(S) \in S
        <4>1. S \in SUBSET Nat /\ \A i \in S : i <= n
          BY <1>2
        <4> QED BY <1>2, <2>2, <4>1, Greatest
      <3>2. lines[Max(S)] \in Stretches
        BY <1>2, <3>1
      <3> QED BY <1>7, <2>2, <3>2
    <2> HIDE DEF step
    <2>3. FoldOf(iter, Opens, Stretches, step, NoBlocks, lines)
      BY <1>2, <1>3, <1>4, <2>1, <2>2, Zenon DEF FoldOf
    <2>4. Accumulates(iter, Opens, step, NoBlocks, lines)
      BY <2>3, FoldRuns
    <2> QED BY <2>4 DEF Accumulates
  <1>9. /\ acc \in [0 .. n -> Opens] /\ acc[0] = NoBlocks
        /\ \A i \in 1 .. n : acc[i] = TakeLine(text, acc[i - 1], lines[i])
    <2>1. acc \in [0 .. n -> Opens] /\ acc[0] = NoBlocks
      BY <1>8 DEF RunsOver
    <2>2. ASSUME NEW i \in 1 .. n PROVE acc[i] = TakeLine(text, acc[i - 1], lines[i])
      <3>1. acc[i] = step[<<acc[i - 1], lines[i]>>]
        BY <1>8 DEF RunsOver
      <3>2. acc[i - 1] \in Opens /\ lines[i] \in Stretches
        BY <1>2, <2>1
      <3> QED BY <3>1, <3>2
    <2> QED BY <2>1, <2>2
  <1> HIDE DEF step
  <1> DEFINE Good == {i \in 0 .. n :
                        AtBlock(text, acc[i], IF i = 0 THEN 0 ELSE lines[i].to)}
  <1>10. 0 \in Good
    <2>1. NoBlocks.blocks = <<>> /\ NoBlocks.from = 0
      BY DEF NoBlocks
    <2>2. AtBlock(text, NoBlocks, 0)
      BY <1>3, <2>1, TiledNone, BoundariesIn DEF AtBlock
    <2> QED BY <1>2, <1>9, <2>2
  <1>11. ASSUME NEW i \in 1 .. n, i - 1 \in Good PROVE i \in Good
    <2>1. i \in 0 .. n /\ i # 0 /\ (i - 1 = 0 <=> i = 1)
      BY <1>2
    <2>2. AtBlock(text, acc[i - 1], lines[i].from)
      BY <1>2, <1>11, <2>1
    <2>3. AtBlock(text, TakeLine(text, acc[i - 1], lines[i]), lines[i].to)
      BY <1>2, <2>2, TakeLineIs
    <2> QED BY <1>9, <2>1, <2>3
  <1> HIDE DEF Good
  <1>12. 0 .. n \subseteq Good
    BY <1>2, <1>10, <1>11, Climb
  <1>13. AtBlock(text, done, Size(text))
    <2>1. n \in Good
      BY <1>2, <1>12
    <2>2. AtBlock(text, acc[n], IF n = 0 THEN 0 ELSE lines[n].to)
      BY <2>1 DEF Good
    <2> QED BY <1>2, <1>8, <2>2
  <1> HIDE DEF done
  <1>14. Tiled(text, rest, done.from, Size(text), Size(text))
    <2>1. /\ done.from \in Nat /\ done.from <= Size(text) /\ Size(text) \in Nat
          /\ done.from \in Boundaries(text) /\ Size(text) \in Boundaries(text)
      BY <1>13, BoundariesIn DEF AtBlock, Opens
    <2>2. CASE done.from < Size(text)
      <3>1. rest = <<Span(done.from, Size(text))>> /\ Size(text) - done.from <= Size(text)
        BY <2>1, <2>2
      <3>2. Tiled(text, <<Span(done.from, Size(text))>>, done.from, Size(text), Size(text))
        BY <2>1, <2>2, <3>1, TiledOne
      <3> QED BY <3>1, <3>2
    <2>3. CASE ~(done.from < Size(text))
      <3>1. rest = <<>> /\ done.from = Size(text)
        BY <2>1, <2>3
      <3>2. Tiled(text, <<>>, Size(text), Size(text), Size(text))
        BY TiledNone
      <3> QED BY <3>1, <3>2
    <2> QED BY <2>2, <2>3
  <1> HIDE DEF rest
  <1> QED BY <1>1, <1>13, <1>14, TiledJoin DEF AtBlock

-----------------------------------------------------------------------------
(* Chunks, block by block.                                                 *)

Packings == [chunks : Seq(Stretches), from : Nat, to : Nat]

NoChunks == [chunks |-> <<>>, from |-> 0, to |-> 0]

\* The spans that are not empty and end within the text.
Filled(text) == {s \in Stretches : s.from < s.to /\ s.to <= Size(text)}

CurrentOf(open) == IF open.from < open.to THEN <<Span(open.from, open.to)>> ELSE <<>>

LEMMA TakeBlockIs ==
  ASSUME NEW text, NEW open \in Packings, NEW block \in Stretches
  PROVE  LET r == TakeBlock(text, open, block)
         IN \/ /\ block.to - block.from > ChunkMax
               /\ r.chunks = open.chunks \o CurrentOf(open) \o SplitOversized(text, block)
               /\ r.from = block.to /\ r.to = block.to
               /\ r = [chunks |-> r.chunks, from |-> r.from, to |-> r.to]
            \/ /\ block.to - block.from <= ChunkMax
               /\ \/ r.chunks = open.chunks /\ r.from = block.from /\ CurrentOf(open) = <<>>
                  \/ /\ r.chunks = open.chunks /\ r.from = open.from
                     /\ block.to - open.from <= ChunkMax
                  \/ r.chunks = open.chunks \o CurrentOf(open) /\ r.from = block.from
               /\ r.to = block.to
               /\ r = [chunks |-> r.chunks, from |-> r.from, to |-> r.to]
  <1> DEFINE current == IF open.from < open.to THEN <<Span(open.from, open.to)>> ELSE <<>>
             split == SplitOversized(text, block)
             combined == block.to - open.from
             large == block.to - block.from > ChunkMax
             fits == \/ combined <= TargetBytes
                     \/ open.to - open.from < MinTail /\ combined <= ChunkMax
             r == TakeBlock(text, open, block)
  <1>1. r = IF large
            THEN [chunks |-> open.chunks \o current \o split, from |-> block.to, to |-> block.to]
            ELSE IF current = <<>> THEN [open EXCEPT !.from = block.from, !.to = block.to]
            ELSE IF fits THEN [open EXCEPT !.to = block.to]
            ELSE [chunks |-> open.chunks \o current, from |-> block.from, to |-> block.to]
    BY Zenon DEF TakeBlock
  <1>2. current = CurrentOf(open)
    BY Zenon DEF CurrentOf
  <1>3. /\ block.to \in Nat /\ block.from \in Nat /\ open.from \in Nat /\ open.to \in Nat
        /\ open = [chunks |-> open.chunks, from |-> open.from, to |-> open.to]
    BY DEF Packings, Stretches
  <1>4. large \/ block.to - block.from <= ChunkMax
    BY <1>3, ChunkNumbers
  <1>5. fits => combined <= ChunkMax
    BY <1>3, ChunkNumbers
  <1>6. /\ [open EXCEPT !.from = block.from, !.to = block.to]
             = [chunks |-> open.chunks, from |-> block.from, to |-> block.to]
        /\ [open EXCEPT !.to = block.to]
             = [chunks |-> open.chunks, from |-> open.from, to |-> block.to]
    <2>1. open \in Packings
      OBVIOUS
    <2>2. /\ DOMAIN open = {"chunks", "from", "to"}
      BY <2>1 DEF Packings
    <2>3. /\ [open EXCEPT !.from = block.from, !.to = block.to]
                = [x \in {"chunks", "from", "to"} |->
                     IF x = "to" THEN block.to ELSE IF x = "from" THEN block.from ELSE open[x]]
          /\ [open EXCEPT !.to = block.to]
                = [x \in {"chunks", "from", "to"} |-> IF x = "to" THEN block.to ELSE open[x]]
      BY <2>1, <2>2 DEF Packings
    <2> QED BY <2>3
  <1> HIDE DEF r, current, split, fits
  <1>7. CASE large
    BY <1>1, <1>2, <1>7 DEF r, split
  <1>8. CASE ~large /\ current = <<>>
    BY <1>1, <1>2, <1>4, <1>6, <1>8 DEF r
  <1>9. CASE ~large /\ current # <<>> /\ fits
    BY <1>1, <1>4, <1>5, <1>6, <1>9 DEF r
  <1>10. CASE ~large /\ current # <<>> /\ ~fits
    BY <1>1, <1>2, <1>4, <1>10 DEF r
  <1> QED BY <1>7, <1>8, <1>9, <1>10

LEMMA TakeBlockType ==
  ASSUME NEW text, IsText(text), NEW open \in Packings, NEW block \in Filled(text)
  PROVE  TakeBlock(text, open, block) \in Packings
  <1> DEFINE r == TakeBlock(text, open, block)
             split == SplitOversized(text, block)
             current == CurrentOf(open)
  <1>1. /\ block \in Stretches /\ block.from \in Nat /\ block.to \in Nat /\ block.from < block.to
        /\ block.to <= Size(text) /\ open.chunks \in Seq(Stretches) /\ open.from \in Nat
        /\ open.to \in Nat
    BY DEF Filled, Stretches, Packings
  <1>2. split \in Seq(Stretches)
    <2>1. block.from <= block.to
      BY <1>1
    <2> QED BY <1>1, <2>1, SplitOversizedIs
  <1>3. current \in Seq(Stretches)
    <2>1. Span(open.from, open.to) \in Stretches
      BY <1>1 DEF Span, Stretches
    <2> QED BY <2>1 DEF CurrentOf
  <1>4. /\ r = [chunks |-> r.chunks, from |-> r.from, to |-> r.to]
        /\ r.from \in {block.to, block.from, open.from} /\ r.to = block.to
        /\ r.chunks \in {open.chunks \o current \o split, open.chunks, open.chunks \o current}
    BY <1>1, TakeBlockIs
  <1> HIDE DEF r, split, current
  <1>5. open.chunks \o current \in Seq(Stretches)
    BY <1>1, <1>3
  <1>6. open.chunks \o current \o split \in Seq(Stretches)
    BY <1>2, <1>5
  <1>7. r.chunks \in Seq(Stretches) /\ r.from \in Nat /\ r.to \in Nat
    BY <1>1, <1>4, <1>5, <1>6
  <1> QED BY <1>4, <1>7 DEF Packings, r

\* The chunks so far reach the one that is open, which ends at `to`.
AtChunk(text, open, to) ==
  /\ open \in Packings /\ Tiled(text, open.chunks, 0, open.from, ChunkMax)
  /\ open.from <= open.to /\ open.to - open.from <= ChunkMax /\ open.to = to
  /\ open.from \in Boundaries(text) /\ open.to \in Boundaries(text)

LEMMA CurrentTiled ==
  ASSUME NEW text, NEW open, NEW to, AtChunk(text, open, to)
  PROVE  /\ Tiled(text, CurrentOf(open), open.from, to, ChunkMax)
         /\ Tiled(text, open.chunks \o CurrentOf(open), 0, to, ChunkMax)
  <1>1. /\ open.from \in Nat /\ open.to \in Nat /\ open.to = to
        /\ open.from <= open.to /\ open.to - open.from <= ChunkMax
        /\ Tiled(text, open.chunks, 0, open.from, ChunkMax)
    BY DEF AtChunk, Packings
  <1>2. Tiled(text, CurrentOf(open), open.from, to, ChunkMax)
    <2>1. CASE open.from < open.to
      <3>1. CurrentOf(open) = <<Span(open.from, open.to)>>
        BY <2>1 DEF CurrentOf
      <3> QED BY <1>1, <2>1, <3>1, ChunkNumbers, TiledOne DEF AtChunk
    <2>2. CASE open.from = open.to
      <3>1. CurrentOf(open) = <<>>
        BY <1>1, <2>2 DEF CurrentOf
      <3> QED BY <1>1, <2>2, <3>1, TiledNone
    <2> QED BY <1>1, <2>1, <2>2
  <1> QED BY <1>1, <1>2, TiledJoin

LEMMA TakeBlockTiled ==
  ASSUME NEW text, IsText(text), NEW open, NEW block \in Filled(text),
         AtChunk(text, open, block.from),
         block.from \in Boundaries(text), block.to \in Boundaries(text)
  PROVE  AtChunk(text, TakeBlock(text, open, block), block.to)
  <1> DEFINE r == TakeBlock(text, open, block)
             split == SplitOversized(text, block)
             current == CurrentOf(open)
  <1>1. /\ block \in Stretches /\ block.from \in Nat /\ block.to \in Nat /\ block.from < block.to
        /\ block.to <= Size(text) /\ open \in Packings /\ open.from \in Nat
        /\ open.to = block.from /\ open.from <= open.to /\ open.from \in Boundaries(text)
        /\ Tiled(text, open.chunks, 0, open.from, ChunkMax)
    BY DEF Filled, Stretches, Packings, AtChunk
  <1>2. r \in Packings
    BY <1>1, TakeBlockType
  <1>3. /\ Tiled(text, current, open.from, block.from, ChunkMax)
        /\ Tiled(text, open.chunks \o current, 0, block.from, ChunkMax)
    BY CurrentTiled
  <1>4. \/ /\ r.chunks = open.chunks \o current \o split
           /\ r.from = block.to /\ r.to = block.to
        \/ /\ block.to - block.from <= ChunkMax /\ r.to = block.to /\ r.from = block.from
           /\ r.chunks = open.chunks \o current \/ (r.chunks = open.chunks /\ current = <<>>)
        \/ /\ r.to = block.to /\ r.from = open.from /\ block.to - open.from <= ChunkMax
           /\ r.chunks = open.chunks
    BY <1>1, TakeBlockIs, Zenon DEF current
  <1>5. Tiled(text, split, block.from, block.to, ChunkMax)
    <2>1. block.from <= block.to
      BY <1>1
    <2> QED BY <1>1, <2>1, SplitOversizedIs
  <1> HIDE DEF r, split
  <1>6. CASE r.chunks = open.chunks \o current \o split /\ r.from = block.to /\ r.to = block.to
    <2> HIDE DEF current
    <2>1. Tiled(text, r.chunks, 0, block.to, ChunkMax)
      BY <1>3, <1>5, <1>6, TiledJoin
    <2>2. block.to <= block.to /\ block.to - block.to <= ChunkMax
      BY <1>1, ChunkNumbers
    <2> QED BY <1>2, <1>6, <2>1, <2>2 DEF AtChunk, r
  <1>7. CASE /\ block.to - block.from <= ChunkMax /\ r.to = block.to /\ r.from = block.from
             /\ r.chunks = open.chunks \o current \/ (r.chunks = open.chunks /\ current = <<>>)
    <2>1. Tiled(text, r.chunks, 0, block.from, ChunkMax)
      <3>1. current = <<>> => open.from = block.from
        BY <1>1 DEF CurrentOf, current
      <3> HIDE DEF current
      <3> QED BY <1>1, <1>3, <1>7, <3>1
    <2>2. block.from <= block.to
      BY <1>1
    <2> QED BY <1>2, <1>7, <2>1, <2>2 DEF AtChunk, r
  <1>8. CASE /\ r.to = block.to /\ r.from = open.from /\ block.to - open.from <= ChunkMax
             /\ r.chunks = open.chunks
    <2>1. open.from <= block.to
      BY <1>1
    <2> QED BY <1>1, <1>2, <1>8, <2>1 DEF AtChunk, r
  <1> HIDE DEF current
  <1> QED BY <1>4, <1>6, <1>7, <1>8

\* A short tail joins the chunk before it.
LEMMA TailJoinedTiled ==
  ASSUME NEW text, NEW cs, NEW a, NEW b, Tiled(text, cs, a, b, ChunkMax)
  PROVE  Tiled(text, TailJoined(cs), a, b, ChunkMax)
  <1> DEFINE n == Len(cs)
             joins == /\ n >= 2
                      /\ cs[n].to - cs[n].from < MinTail
                      /\ cs[n].to - cs[n - 1].from <= ChunkMax
             kept == SubSeq(cs, 1, n - 2)
             closing == Span(cs[n - 1].from, cs[n].to)
  <1>1. TailJoined(cs) = IF joins THEN Append(kept, closing) ELSE cs
    BY Zenon DEF TailJoined
  <1>2. /\ cs \in Seq(Stretches) /\ n \in Nat /\ \A i \in 1 .. n : cs[i] \in Stretches
        /\ IF n = 0 THEN a = b ELSE cs[1].from = a /\ cs[n].to = b
        /\ \A i \in 1 .. n :
             /\ cs[i].from < cs[i].to /\ cs[i].to - cs[i].from <= ChunkMax
             /\ cs[i].from \in Boundaries(text) /\ cs[i].to \in Boundaries(text)
             /\ i > 1 => cs[i - 1].to = cs[i].from
    BY SeqIs DEF Tiled
  <1>3. CASE ~joins
    <2> HIDE DEF joins
    <2> QED BY <1>1, <1>3
  <1>4. CASE joins
    <2> DEFINE m == n - 1
               r == Append(kept, closing)
    <2>1. /\ n >= 2 /\ cs[n].to - cs[m].from <= ChunkMax /\ m \in 1 .. n /\ n \in 1 .. n
          /\ m \in Nat /\ m - 1 \in Nat /\ 1 \in 1 .. n /\ n > 1 /\ n \in Nat
          /\ (m # 1 => 1 \in 1 .. m - 1)
      <3>1. n >= 2 /\ cs[n].to - cs[m].from <= ChunkMax /\ n \in Nat
        BY <1>2, <1>4
      <3> HIDE DEF n
      <3>2. /\ m \in 1 .. n /\ n \in 1 .. n /\ m \in Nat /\ m - 1 \in Nat /\ 1 \in 1 .. n
            /\ n > 1 /\ (m # 1 => 1 \in 1 .. m - 1)
        BY <3>1
      <3> QED BY <3>1, <3>2
    <2>2. /\ cs[m].to = cs[n].from /\ cs[m].from < cs[m].to /\ cs[n].from < cs[n].to
          /\ cs[m].from \in Nat /\ cs[m].to \in Nat /\ cs[n].to \in Nat
          /\ cs[m].from \in Boundaries(text) /\ cs[n].to \in Boundaries(text)
      BY <1>2, <2>1 DEF Stretches
    <2>3. closing.from = cs[m].from /\ closing.to = cs[n].to /\ closing \in Stretches
      BY <2>2 DEF Span, Stretches
    <2>4. /\ kept \in Seq(Stretches) /\ Len(kept) = m - 1
          /\ \A i \in 1 .. m - 1 : kept[i] = cs[i]
      <3>1. /\ 1 \in 1 .. n + 1 /\ n - 2 \in 0 .. n /\ n - 2 = m - 1
        BY <1>2, <2>1
      <3> HIDE DEF m, n, closing
      <3>2. PICK k : k = n - 2 /\ k \in 0 .. Len(cs)
        BY <3>1 DEF n
      <3>3. SubSeq(cs, 1, k) = [i \in 1 .. k |-> cs[i]]
        BY <1>2, <3>2
      <3>4. SubSeq(cs, 1, k) \in Seq(Stretches) /\ Len(SubSeq(cs, 1, k)) = k
        BY <1>2, <3>2
      <3> QED BY <3>1, <3>2, <3>3, <3>4
    <2> HIDE DEF kept, closing
    <2>5. /\ r \in Seq(Stretches) /\ Len(r) = m /\ r[m] = closing
          /\ \A i \in 1 .. m - 1 : r[i] = cs[i]
      BY <2>1, <2>3, <2>4
    <2>6. closing.from < closing.to /\ closing.to - closing.from <= ChunkMax
      BY <2>1, <2>2, <2>3
    <2> HIDE DEF r
    <2>7. r[1].from = a /\ r[m].to = b
      <3>1. CASE m = 1
        <4>1. r[1] = closing /\ closing.from = cs[1].from
          BY <2>3, <2>5, <3>1
        <4>2. n # 0
          BY <2>1
        <4> QED BY <1>2, <2>3, <2>5, <4>1, <4>2
      <3>2. CASE m # 1
        <4>1. 1 \in 1 .. m - 1
          BY <2>1, <3>2
        <4>2. n # 0
          BY <2>1
        <4> QED BY <1>2, <2>3, <2>5, <4>1, <4>2
      <3> QED BY <3>1, <3>2
    <2>8. ASSUME NEW i \in 1 .. m
          PROVE  /\ r[i].from < r[i].to /\ r[i].to - r[i].from <= ChunkMax
                 /\ r[i].from \in Boundaries(text) /\ r[i].to \in Boundaries(text)
                 /\ i > 1 => r[i - 1].to = r[i].from
      <3>1. i \in 1 .. n /\ (i > 1 => i - 1 \in 1 .. m - 1)
        BY <2>1
      <3>2. i > 1 => r[i - 1] = cs[i - 1]
        BY <2>5, <3>1
      <3>3. CASE i = m
        BY <1>2, <2>1, <2>2, <2>3, <2>5, <2>6, <3>1, <3>2, <3>3
      <3>4. CASE i # m
        <4>1. i \in 1 .. m - 1
          BY <2>1, <3>4
        <4>2. r[i] = cs[i]
          BY <2>5, <4>1
        <4> QED BY <1>2, <3>1, <3>2, <4>2
      <3> QED BY <3>3, <3>4
    <2>9. Tiled(text, r, a, b, ChunkMax)
      <3>1. Len(r) # 0
        BY <2>1, <2>5
      <3> QED BY <2>5, <2>7, <2>8, <3>1 DEF Tiled
    <2> HIDE DEF joins
    <2> QED BY <1>1, <1>4, <2>9 DEF r
  <1> HIDE DEF joins
  <1> QED BY <1>3, <1>4

LEMMA ChunkSpansTiled ==
  ASSUME NEW text, IsText(text), DOMAIN text = 1 .. Len(text)
  PROVE  Tiled(text, ChunkSpans(text), 0, Size(text), ChunkMax)
  <1> DEFINE blocks == StructuralBlocks(text)
             n == Len(blocks)
             D == DOMAIN blocks
             E == Filled(text)
             step == [p \in Packings \X E |-> TakeBlock(text, p[1], p[2])]
             iter[S \in SUBSET D] ==
               IF S = {} THEN NoChunks
               ELSE TakeBlock(text, iter[S \ {Max(S)}], blocks[Max(S)])
             done == iter[D]
  <1>1. ChunkSpans(text) = TailJoined(done.chunks \o CurrentOf(done))
    BY Zenon DEF ChunkSpans, FoldLeft, MapThenFoldSet, NoChunks, CurrentOf
  <1>2. /\ blocks \in Seq(E) /\ n \in Nat /\ D = 1 .. n /\ \A i \in D : blocks[i] \in E
        /\ IF n = 0 THEN Size(text) = 0 ELSE blocks[1].from = 0 /\ blocks[n].to = Size(text)
        /\ \A i \in 1 .. n :
             /\ blocks[i].from \in Boundaries(text) /\ blocks[i].to \in Boundaries(text)
             /\ i > 1 => blocks[i - 1].to = blocks[i].from
    <2>1. Tiled(text, blocks, 0, Size(text), Size(text))
      BY StructuralBlocksAre
    <2> HIDE DEF blocks
    <2>2. /\ blocks \in Seq(Stretches) /\ n \in Nat /\ D = 1 .. n /\ \A i \in D : blocks[i] \in Stretches
      BY <2>1, SeqIs DEF Tiled
    <2>3. ASSUME NEW i \in D PROVE blocks[i] \in E
      <3>1. blocks[i].from < blocks[i].to /\ blocks[i].to \in Boundaries(text)
        BY <2>1, <2>2, <2>3 DEF Tiled
      <3>2. blocks[i].to <= Size(text)
        BY <3>1, BoundariesIn
      <3> QED BY <2>2, <2>3, <3>1, <3>2 DEF Filled
    <2>4. blocks \in Seq(E)
      <3> HIDE DEF E
      <3>1. blocks = [i \in 1 .. n |-> blocks[i]]
        BY <2>2
      <3> QED BY <2>2, <2>3, <3>1
    <2>5. IF n = 0 THEN Size(text) = 0 ELSE blocks[1].from = 0 /\ blocks[n].to = Size(text)
      BY <2>1 DEF Tiled
    <2>6. \A i \in 1 .. n :
             /\ blocks[i].from \in Boundaries(text) /\ blocks[i].to \in Boundaries(text)
             /\ i > 1 => blocks[i - 1].to = blocks[i].from
      BY <2>1 DEF Tiled
    <2> QED BY <2>2, <2>3, <2>4, <2>5, <2>6
  <1> HIDE DEF blocks
  <1>3. NoChunks \in Packings
    BY DEF NoChunks, Packings
  <1>4. step \in [Packings \X E -> Packings]
    BY TakeBlockType
  <1> HIDE DEF E
  <1>5. PICK f \in [SUBSET D -> Packings] : Folds(f, Len(blocks), step, NoChunks, blocks)
    <2> HIDE DEF step
    <2> QED BY <1>2, <1>3, <1>4, FoldExists
  <1>6. f = [S \in SUBSET D |->
               IF S = {} THEN NoChunks ELSE TakeBlock(text, f[S \ {Max(S)}], blocks[Max(S)])]
    <2>1. ASSUME NEW S \in SUBSET D, S # {}
          PROVE  f[S] = TakeBlock(text, f[S \ {Max(S)}], blocks[Max(S)])
      <3>1. f[S] = step[<<f[S \ {Max(S)}], blocks[Max(S)]>>]
        BY <1>2, <1>5, <2>1 DEF Folds
      <3>2. Max(S) \in S
        <4>1. S \in SUBSET Nat /\ \A i \in S : i <= n
          BY <1>2
        <4> QED BY <1>2, <2>1, <4>1, Greatest
      <3>3. f[S \ {Max(S)}] \in Packings /\ blocks[Max(S)] \in E
        BY <1>2, <1>5, <3>2
      <3> QED BY <3>1, <3>3
    <2>2. f[{}] = NoChunks
      BY <1>2, <1>5 DEF Folds
    <2> QED BY <1>5, <2>1, <2>2
  <1>7. iter = [S \in SUBSET D |->
                  IF S = {} THEN NoChunks
                  ELSE TakeBlock(text, iter[S \ {Max(S)}], blocks[Max(S)])]
    BY <1>6, Zenon
  <1> HIDE DEF iter
  <1>8. PICK acc : RunsOver(acc, Packings, step, NoChunks, blocks) /\ acc[n] = iter[D]
    <2>1. iter[{}] = NoChunks
      BY <1>7
    <2>2. ASSUME NEW S \in SUBSET D, S # {}, iter[S \ {Max(S)}] \in Packings
          PROVE  iter[S] = step[<<iter[S \ {Max(S)}], blocks[Max(S)]>>]
      <3>1. Max(S) \in S
        <4>1. S \in SUBSET Nat /\ \A i \in S : i <= n
          BY <1>2
        <4> QED BY <1>2, <2>2, <4>1, Greatest
      <3>2. blocks[Max(S)] \in E
        BY <1>2, <3>1
      <3> QED BY <1>7, <2>2, <3>2
    <2> HIDE DEF step
    <2>3. FoldOf(iter, Packings, E, step, NoChunks, blocks)
      BY <1>2, <1>3, <1>4, <2>1, <2>2, Zenon DEF FoldOf
    <2>4. Accumulates(iter, Packings, step, NoChunks, blocks)
      BY <2>3, FoldRuns
    <2> QED BY <2>4 DEF Accumulates
  <1>9. /\ acc \in [0 .. n -> Packings] /\ acc[0] = NoChunks
        /\ \A i \in 1 .. n : acc[i] = TakeBlock(text, acc[i - 1], blocks[i])
    <2>1. acc \in [0 .. n -> Packings] /\ acc[0] = NoChunks
      BY <1>8 DEF RunsOver
    <2>2. ASSUME NEW i \in 1 .. n PROVE acc[i] = TakeBlock(text, acc[i - 1], blocks[i])
      <3>1. acc[i] = step[<<acc[i - 1], blocks[i]>>]
        BY <1>8 DEF RunsOver
      <3>2. acc[i - 1] \in Packings /\ blocks[i] \in E
        BY <1>2, <2>1
      <3> QED BY <3>1, <3>2
    <2> QED BY <2>1, <2>2
  <1> HIDE DEF step
  <1> DEFINE Good == {i \in 0 .. n :
                        AtChunk(text, acc[i], IF i = 0 THEN 0 ELSE blocks[i].to)}
  <1>10. 0 \in Good
    <2>1. NoChunks.chunks = <<>> /\ NoChunks.from = 0 /\ NoChunks.to = 0
      BY DEF NoChunks
    <2>2. AtChunk(text, NoChunks, 0)
      BY <1>3, <2>1, TiledNone, BoundariesIn, ChunkNumbers DEF AtChunk
    <2> QED BY <1>2, <1>9, <2>2
  <1>11. ASSUME NEW i \in 1 .. n, i - 1 \in Good PROVE i \in Good
    <2>1. i \in 0 .. n /\ i # 0 /\ (i - 1 = 0 <=> i = 1) /\ (i > 1 <=> i # 1)
      BY <1>2
    <2>2. blocks[i].from = IF i = 1 THEN 0 ELSE blocks[i - 1].to
      BY <1>2, <2>1
    <2>3. AtChunk(text, acc[i - 1], blocks[i].from)
      BY <1>2, <1>11, <2>1, <2>2
    <2>4. AtChunk(text, TakeBlock(text, acc[i - 1], blocks[i]), blocks[i].to)
      BY <1>2, <2>3, TakeBlockTiled DEF E
    <2> QED BY <1>9, <2>1, <2>4
  <1> HIDE DEF Good
  <1>12. 0 .. n \subseteq Good
    BY <1>2, <1>10, <1>11, Climb
  <1>13. AtChunk(text, done, Size(text))
    <2>1. n \in Good
      BY <1>2, <1>12
    <2>2. AtChunk(text, acc[n], IF n = 0 THEN 0 ELSE blocks[n].to)
      BY <2>1 DEF Good
    <2> QED BY <1>2, <1>8, <2>2
  <1> HIDE DEF done
  <1>14. Tiled(text, done.chunks \o CurrentOf(done), 0, Size(text), ChunkMax)
    BY <1>13, CurrentTiled
  <1> QED BY <1>1, <1>14, TailJoinedTiled

-----------------------------------------------------------------------------
(* Chunks: the rows of a revision.                                         *)

Written == {"n", "_", ".", "#", "~", "a", "w"}

SizeKept(h) == IF h.identical THEN Size(h.text) ELSE 0

ChunksInv ==
  /\ held \in [text : Bodies \cup {<<>>}, identical : BOOLEAN]
  /\ rows = RebuildChunks(held)
  /\ windows \in {<<>>, Documents(held.text, rows)}

LEMMA BodiesAre ==
  ASSUME NEW text \in Bodies \cup {<<>>}
  PROVE  text \in Seq(Written) /\ IsText(text) /\ DOMAIN text = 1 .. Len(text)
  <1>1. Bodies \subseteq Seq(Written)
    BY ChunksAssumption, Zenon DEF Written
  <1>2. <<>> \in Seq(Written)
    OBVIOUS
  <1>3. text \in Seq(Written)
    BY <1>1, <1>2
  <1> QED BY <1>3, SeqIs DEF IsText

LEMMA RebuildTiled ==
  ASSUME NEW h \in [text : Bodies \cup {<<>>}, identical : BOOLEAN]
  PROVE  Tiled(h.text, RebuildChunks(h), 0, SizeKept(h), ChunkMax)
  <1>1. h.text \in Bodies \cup {<<>>}
    OBVIOUS
  <1>2. IsText(h.text) /\ DOMAIN h.text = 1 .. Len(h.text)
    BY <1>1, BodiesAre
  <1>3. CASE h.identical
    <2>1. Tiled(h.text, ChunkSpans(h.text), 0, Size(h.text), ChunkMax)
      BY <1>2, ChunkSpansTiled
    <2> QED BY <1>3, <2>1, Zenon DEF RebuildChunks, SizeKept
  <1>4. CASE ~h.identical
    BY <1>4, TiledNone, Zenon DEF RebuildChunks, SizeKept
  <1> QED BY <1>3, <1>4

\* Nothing has no chunks.
LEMMA NoChunksOfNothing == ChunkSpans(<<>>) = <<>>
  <1> DEFINE t == <<>>
             cs == ChunkSpans(t)
  <1>1. IsText(t) /\ Size(t) = 0 /\ DOMAIN t = 1 .. Len(t)
    BY NoText
  <1> HIDE DEF t
  <1>2. Tiled(t, cs, 0, 0, ChunkMax)
    BY <1>1, ChunkSpansTiled
  <1> HIDE DEF cs
  <1>3. cs \in Seq(Stretches) /\ Len(cs) \in Nat
    BY <1>2, SeqIs DEF Tiled
  <1>4. ASSUME Len(cs) # 0 PROVE FALSE
    <2>1. 1 \in 1 .. Len(cs)
      BY <1>3, <1>4
    <2>2. cs[1].from = 0 /\ cs[1].from < cs[1].to /\ cs[1].to \in Boundaries(t)
      BY <1>2, <1>4, <2>1 DEF Tiled
    <2>3. cs[1].to \in 0 .. 0
      BY <1>1, <2>2, BoundariesIn
    <2> QED BY <2>2, <2>3
  <1>5. cs = <<>>
    BY <1>3, <1>4
  <1> QED BY <1>5 DEF cs, t

LEMMA ChunksStep == ChunksInv /\ [ChunksNext]_chunkVars => ChunksInv'
  <1> SUFFICES ASSUME ChunksInv, [ChunksNext]_chunkVars PROVE ChunksInv'
    OBVIOUS
  <1>1. ASSUME NEW text \in Bodies, NEW textual \in BOOLEAN, PutRevision(text, textual)
        PROVE  ChunksInv'
    <2>1. /\ held' = [text |-> IF textual THEN text ELSE <<>>, identical |-> textual]
          /\ rows' = ChunkSpans(held'.text) /\ windows' = <<>>
      BY <1>1 DEF PutRevision
    <2>2. held' \in [text : Bodies \cup {<<>>}, identical : BOOLEAN]
      BY <2>1
    <2>3. rows' = RebuildChunks(held')
      <3>1. CASE textual
        <4>1. held'.identical
          BY <2>1, <3>1
        <4> QED BY <2>1, <4>1, Zenon DEF RebuildChunks
      <3>2. CASE ~textual
        <4>1. ~held'.identical /\ held'.text = <<>>
          BY <2>1, <3>2
        <4> QED BY <2>1, <4>1, NoChunksOfNothing, Zenon DEF RebuildChunks
      <3> QED BY <3>1, <3>2
    <2> QED BY <2>1, <2>2, <2>3 DEF ChunksInv
  <1>2. ASSUME NEW text \in Bodies, NEW identical \in BOOLEAN, Migrate(text, identical)
        PROVE  ChunksInv'
    BY <1>2 DEF Migrate, ChunksInv
  <1>3. CASE Reindex
    BY <1>3 DEF Reindex, ChunksInv
  <1>4. CASE Embed
    BY <1>4 DEF Embed, ChunksInv
  <1>5. CASE UNCHANGED chunkVars
    BY <1>5 DEF chunkVars, ChunksInv
  <1> QED BY <1>1, <1>2, <1>3, <1>4, <1>5 DEF ChunksNext

\* The rows of the revision that is held are those a rebuild would make, and the
\* windows are none or those of the rows: index_artifact_revision_chunks,
\* rebuild_artifact_chunk_index and semantic_documents.
THEOREM RowsAreRebuilt == ChunksSpec => []ChunksInv
  <1>1. ChunksInit => ChunksInv
    BY NoChunksOfNothing DEF ChunksInit, ChunksInv, RebuildChunks
  <1> QED BY <1>1, ChunksStep, PTL DEF ChunksSpec

\* The body rows of a revision are a dense and exact partition of its bytes into
\* chunks within the limit, cut between characters, and a text that is not the
\* revision's bytes has none: debug_assert_artifact_chunk_partition.
THEOREM RowsPartition == ChunksSpec => []ChunksPartition
  <1>1. ChunksInv => ChunksPartition
    <2> SUFFICES ASSUME ChunksInv PROVE ChunksPartition
      OBVIOUS
    <2> DEFINE size == SizeKept(held)
    <2>1. held.text \in Bodies \cup {<<>>} /\ Tiled(held.text, rows, 0, size, ChunkMax)
      <3>1. held \in [text : Bodies \cup {<<>>}, identical : BOOLEAN] /\ rows = RebuildChunks(held)
        BY DEF ChunksInv
      <3> QED BY <3>1, RebuildTiled
    <2>2. size = IF held.identical THEN Size(held.text) ELSE 0
      BY DEF SizeKept
    <2>3. Size(held.text) \in Nat /\ Boundaries(held.text) \subseteq 0 .. Size(held.text)
      BY <2>1, BodiesAre, BoundariesIn
    <2> HIDE DEF size
    <2>4. size \in Nat
      BY <2>2, <2>3
    <2>5. /\ rows \in Seq(Stretches) /\ Len(rows) \in Nat /\ DOMAIN rows = 1 .. Len(rows)
          /\ \A i \in 1 .. Len(rows) : rows[i] \in Stretches
      BY <2>1, SeqIs DEF Tiled
    <2>6. \A i \in 1 .. Len(rows) :
            /\ rows[i].from < rows[i].to /\ rows[i].to - rows[i].from <= ChunkMax
            /\ rows[i].from \in Boundaries(held.text) /\ rows[i].to \in Boundaries(held.text)
            /\ i > 1 => rows[i - 1].to = rows[i].from
      BY <2>1 DEF Tiled
    <2>7. IF Len(rows) = 0 THEN 0 = size ELSE rows[1].from = 0 /\ rows[Len(rows)].to = size
      BY <2>1 DEF Tiled
    <2>8. size > 0 => rows # <<>> /\ rows[1].from = 0 /\ Last(rows).to = size
      <3>1. size > 0 => Len(rows) # 0
        BY <2>4, <2>7
      <3> QED BY <2>5, <2>7, <3>1 DEF Last
    <2>9. size = 0 => rows = <<>>
      <3> SUFFICES ASSUME size = 0, Len(rows) # 0 PROVE FALSE
        BY <2>5
      <3> DEFINE n == Len(rows)
      <3>1. n \in 1 .. n
        BY <2>5
      <3> HIDE DEF n
      <3>2. rows[n].from < rows[n].to /\ rows[n].to = 0 /\ rows[n].from \in Nat
        BY <2>5, <2>6, <2>7, <3>1 DEF Stretches, n
      <3> QED BY <3>2
    <2> QED BY <2>2, <2>5, <2>6, <2>8, <2>9 DEF ChunksPartition
  <1> QED BY <1>1, RowsAreRebuilt, PTL

-----------------------------------------------------------------------------
(* Where a window ends, and where the next one starts.                     *)

LEMMA GreaterOfTwo ==
  ASSUME NEW a \in Nat, NEW b \in Nat
  PROVE  Max({a, b}) = IF a <= b THEN b ELSE a
  <1> DEFINE m == IF a <= b THEN b ELSE a
  <1>1. {a, b} \in SUBSET Nat /\ {a, b} # {} /\ m \in Nat /\ \A x \in {a, b} : x <= m
    OBVIOUS
  <1> HIDE DEF m
  <1>2. Max({a, b}) \in {a, b} /\ \A x \in {a, b} : x <= Max({a, b})
    BY <1>1, Greatest
  <1> QED BY <1>2 DEF m

LEMMA CharEndsIn ==
  ASSUME NEW text, IsText(text), DOMAIN text = 1 .. Len(text), NEW kinds
  PROVE  CharEnds(text, kinds) \subseteq Boundaries(text)
  <1>1. Len(text) \in Nat /\ 1 .. Len(text) \subseteq 0 .. Len(text)
    BY DEF IsText
  <1> QED BY <1>1, Zenon DEF CharEnds, Boundaries

\* The last boundary up to an offset is at most two bytes before it.
LEMMA NearHead ==
  ASSUME NEW text, IsText(text), NEW end \in Nat, end <= Size(text)
  PROVE  /\ HeadBoundary(text, end) \in Boundaries(text) /\ HeadBoundary(text, end) \in Nat
         /\ end <= HeadBoundary(text, end) + 2 /\ HeadBoundary(text, end) <= end
  <1> DEFINE h == HeadBoundary(text, end)
  <1>1. h \in Boundaries(text) /\ h \in Nat /\ h <= end
    BY HeadIs
  <1>2. CASE end >= 3
    <2> DEFINE s == end - 3
    <2>1. s \in Nat /\ s + 3 <= end
      BY <1>2
    <2>2. h \in s + 1 .. end
      BY <2>1, LaterHead
    <2> HIDE DEF h
    <2> QED BY <1>1, <2>2 DEF h
  <1> HIDE DEF h
  <1>3. CASE end < 3
    BY <1>1, <1>3 DEF h
  <1> QED BY <1>1, <1>2, <1>3 DEF h

LEMMA WindowEndIs ==
  ASSUME NEW text, IsText(text), NEW start \in 0 .. Size(text)
  PROVE  /\ WindowEnd(text, start) \in Boundaries(text)
         /\ WindowEnd(text, start) <= start + WindowMax
         /\ start < Size(text) => start < WindowEnd(text, start)
         /\ WindowEnd(text, start) # Size(text) => start + WindowPreferred <= WindowEnd(text, start)
  <1> DEFINE limit == Min({start + WindowMax, Size(text)})
             ceiling == HeadBoundary(text, limit)
             late == {b \in Boundaries(text) : start + WindowPreferred <= b /\ b <= ceiling}
             tries == <<late \cap CharEnds(text, {".", "n"}), late \cap CharEnds(text, White),
                        {ceiling}>>
             I == {i \in 1 .. 3 : tries[i] # {}}
             e == WindowEnd(text, start)
             size == Size(text)
  <1>1. e = IF ceiling = size THEN ceiling ELSE Max(tries[Min(I)])
    <2>1. e = IF ceiling = size THEN ceiling
              ELSE Max(tries[Min({i \in DOMAIN tries : tries[i] # {}})])
      BY Zenon DEF WindowEnd
    <2>2. DOMAIN tries = 1 .. 3
      OBVIOUS
    <2> QED BY <2>1, <2>2, Zenon
  <1>2. /\ start \in Nat /\ size \in Nat /\ start <= size /\ size \in Boundaries(text)
        /\ Boundaries(text) \subseteq Nat
    BY BoundariesIn
  <1> HIDE DEF e, size
  <1>3. WindowMax \in Nat /\ start + WindowMax \in Nat /\ WindowPreferred \in Nat
        /\ WindowPreferred + 2 <= WindowMax /\ 0 < WindowPreferred
    BY <1>2, ChunkNumbers
  <1>4. limit \in Nat /\ limit = IF start + WindowMax <= size THEN start + WindowMax ELSE size
    BY <1>2, <1>3, MinOfTwo DEF size
  <1>5. limit <= size
    BY <1>2, <1>3, <1>4
  <1> HIDE DEF limit
  <1>6. /\ ceiling \in Boundaries(text) /\ ceiling \in Nat /\ limit <= ceiling + 2
        /\ ceiling <= limit
    BY <1>4, <1>5, NearHead DEF size
  <1>7. CASE ceiling = size
    <2> HIDE DEF ceiling
    <2>1. e = size /\ size <= start + WindowMax
      BY <1>1, <1>2, <1>3, <1>4, <1>6, <1>7
    <2> QED BY <1>2, <2>1 DEF e, size
  <1>8. CASE ceiling # size
    <2>1. limit = start + WindowMax
      <3>1. CASE limit = size
        <4>1. size <= ceiling
          <5>1. size \in Boundaries(text) /\ size <= limit
            BY <1>2, <3>1
          <5> QED BY <1>4, <5>1, HeadIs
        <4> HIDE DEF ceiling
        <4>2. ceiling = size
          BY <1>2, <1>4, <1>5, <1>6, <4>1
        <4> QED BY <1>8, <4>2
      <3> QED BY <1>4, <3>1
    <2> HIDE DEF ceiling
    <2> DEFINE P == late \cup {ceiling}
    <2>2. P \in SUBSET Boundaries(text) /\ \A x \in P : start + WindowPreferred <= x /\ x <= ceiling
      <3>1. start + WindowPreferred <= ceiling
        BY <1>2, <1>3, <1>6, <2>1
      <3> QED BY <1>6, <3>1
    <2>3. tries[1] \subseteq P /\ tries[2] \subseteq P /\ tries[3] \subseteq P /\ tries[3] # {}
      OBVIOUS
    <2> HIDE DEF tries, P
    <2>4. Min(I) \in 1 .. 3 /\ tries[Min(I)] # {}
      <3>1. 3 \in Nat \ {0}
        OBVIOUS
      <3> QED BY <2>3, <3>1, FirstNonEmpty, Zenon
    <2> HIDE DEF I
    <2> DEFINE T == tries[Min(I)]
    <2>5. T \subseteq P /\ T # {}
      BY <2>3, <2>4
    <2> HIDE DEF T
    <2>6. T \in SUBSET Nat /\ \A x \in T : x <= ceiling
      BY <1>2, <2>2, <2>5
    <2>7. Max(T) \in T
      BY <1>6, <2>5, <2>6, Greatest
    <2>8. e \in P
      BY <1>1, <1>8, <2>5, <2>7 DEF T
    <2>9. e \in Boundaries(text) /\ e \in Nat /\ start + WindowPreferred <= e /\ e <= ceiling
      BY <1>2, <2>2, <2>8
    <2>10. e <= start + WindowMax /\ start < e
      BY <1>2, <1>3, <1>6, <2>1, <2>9
    <2> QED BY <2>9, <2>10 DEF e
  <1> HIDE DEF ceiling
  <1> QED BY <1>7, <1>8

\* The next window starts inside this one, and far enough after its start.
LEMMA NextStartIs ==
  ASSUME NEW text, IsText(text), DOMAIN text = 1 .. Len(text), NEW start \in Nat,
         NEW end \in Boundaries(text), start + WindowPreferred <= end
  PROVE  /\ NextStart(text, start, end) \in Boundaries(text)
         /\ start < NextStart(text, start, end) /\ NextStart(text, start, end) < end
         /\ start + (WindowPreferred - WindowOverlap - 2) <= NextStart(text, start, end)
  <1> DEFINE desired == Max({0, end - WindowOverlap})
             from == Max({desired, start + 1})
             lower == HeadBoundary(text, from)
             upper == HeadBoundary(text, Min({desired + WindowOverlap \div 2, end}))
             words == {b \in CharEnds(text, White) : lower < b /\ b <= upper /\ b < end}
             near == {b \in words : start + 1 <= b}
             next == WordBoundary(text, desired, start + 1, end)
             later == {b \in Boundaries(text) : b > start}
             r == NextStart(text, start, end)
  <1>1. /\ next = IF near = {} THEN lower ELSE Min(near)
        /\ r = IF next <= start THEN Min(later) ELSE next
    BY Zenon DEF WordBoundary, NextStart
  <1>2. /\ WindowPreferred \in Nat /\ WindowOverlap \in Nat /\ 2 <= WindowOverlap
        /\ WindowOverlap + 2 <= WindowPreferred
    BY ChunkNumbers
  <1>3. /\ end \in Nat /\ end <= Size(text) /\ Size(text) \in Nat
        /\ Boundaries(text) \subseteq Nat
    BY BoundariesIn
  <1> DEFINE edge == end - WindowOverlap
  <1>4. edge \in Nat /\ start + 2 <= edge /\ edge < end /\ edge <= Size(text)
        /\ start + (WindowPreferred - WindowOverlap) <= edge
    BY <1>2, <1>3
  <1>5. desired = edge
    <2> HIDE DEF edge
    <2>1. Max({0, edge}) = edge
      BY <1>4, GreaterOfTwo
    <2> QED BY <2>1 DEF edge
  <1> HIDE DEF desired, edge
  <1>6. from = edge
    <2>1. start + 1 \in Nat /\ ~(edge <= start + 1)
      BY <1>4
    <2> QED BY <1>4, <1>5, <2>1, GreaterOfTwo
  <1> HIDE DEF from
  <1>7. lower \in Boundaries(text) /\ lower \in Nat /\ edge <= lower + 2 /\ lower <= edge
    BY <1>4, <1>6, NearHead
  <1> HIDE DEF lower, upper
  <1>8. /\ near \in SUBSET Nat
        /\ \A b \in near : b \in Boundaries(text) /\ lower < b /\ b < end /\ start < b
    <2>1. CharEnds(text, White) \subseteq Boundaries(text)
      BY CharEndsIn
    <2>2. near \in SUBSET Nat
      BY <1>3, <2>1
    <2>3. ASSUME NEW b \in near
          PROVE  b \in Boundaries(text) /\ lower < b /\ b < end /\ start < b
      <3>1. b \in Nat /\ start + 1 <= b
        BY <2>2, <2>3
      <3> QED BY <2>1, <3>1
    <2> QED BY <2>2, <2>3
  <1> HIDE DEF near, next, r
  <1>9. next \in Boundaries(text) /\ next \in Nat /\ lower <= next /\ next < end
    <2>1. CASE near = {}
      BY <1>1, <1>4, <1>7, <2>1, <1>3
    <2>2. CASE near # {}
      <3> DEFINE x == Min(near)
      <3>1. x \in near
        BY <1>8, <2>2, LeastIsMin
      <3>2. next = x
        BY <1>1, <2>2
      <3> HIDE DEF x
      <3>3. x \in Boundaries(text) /\ x \in Nat /\ lower < x /\ x < end
        BY <1>8, <3>1
      <3> QED BY <1>7, <3>2, <3>3
    <2> QED BY <2>1, <2>2
  <1> DEFINE least == start + (WindowPreferred - WindowOverlap - 2)
  <1>10. least <= lower /\ least \in Int
    BY <1>2, <1>4, <1>7
  <1>11. CASE next > start
    <2>1. r = next
      BY <1>1, <1>9, <1>11
    <2> HIDE DEF least
    <2>2. least <= next
      BY <1>7, <1>9, <1>10
    <2> QED BY <1>9, <1>11, <2>1, <2>2 DEF r, least
  <1>12. CASE next <= start
    <2> DEFINE h == HeadBoundary(text, start + 3)
    <2>1. h \in start + 1 .. start + 3 /\ h \in Boundaries(text)
      <3>1. start + 3 \in Nat /\ start + 3 <= start + 3 /\ start + 3 <= Size(text)
        BY <1>2, <1>3
      <3> QED BY <3>1, LaterHead
    <2> HIDE DEF h
    <2>2. later \in SUBSET Nat /\ h \in later
      BY <1>3, <2>1
    <2>3. Min(later) \in later /\ Min(later) <= h
      <3> HIDE DEF later
      <3> QED BY <2>2, LeastIsMin
    <2>4. r \in Boundaries(text) /\ start < r /\ r <= h /\ r \in Nat
      BY <1>1, <1>3, <1>12, <2>3
    <2>5. r < end
      BY <1>2, <1>3, <2>1, <2>4
    <2>6. least <= r
      <3> HIDE DEF least
      <3> QED BY <1>7, <1>9, <1>10, <1>12, <2>4
    <2> QED BY <2>4, <2>5, <2>6 DEF r, least
  <1> QED BY <1>9, <1>11, <1>12

-----------------------------------------------------------------------------
(* Windows, one after another.                                             *)

\* Spans of some kind, each two of which are linked.
Linked(ws, good, link) ==
  /\ ws \in Seq(good)
  /\ \A i \in 2 .. Len(ws) : <<ws[i - 1], ws[i]>> \in link

LEMMA LinkedJoin ==
  ASSUME NEW s, NEW t, NEW good, NEW link, Linked(s, good, link), Linked(t, good, link),
         Len(s) # 0 /\ Len(t) # 0 => <<s[Len(s)], t[1]>> \in link
  PROVE  /\ Linked(s \o t, good, link) /\ Len(s \o t) = Len(s) + Len(t)
         /\ Len(s) # 0 => (s \o t)[1] = s[1]
         /\ Len(s) = 0 /\ Len(t) # 0 => (s \o t)[1] = t[1]
         /\ Len(t) # 0 => (s \o t)[Len(s) + Len(t)] = t[Len(t)]
  <1> DEFINE st == s \o t
             m == Len(s)
             n == Len(t)
  <1>1. s \in Seq(good) /\ t \in Seq(good) /\ m \in Nat /\ n \in Nat
    BY DEF Linked
  <1>2. /\ st \in Seq(good) /\ Len(st) = m + n
        /\ \A i \in 1 .. m : st[i] = s[i]
        /\ \A i \in m + 1 .. m + n : st[i] = t[i - m]
    BY <1>1
  <1>3. /\ \A i \in 2 .. m : <<s[i - 1], s[i]>> \in link
        /\ \A i \in 2 .. n : <<t[i - 1], t[i]>> \in link
    BY DEF Linked
  <1>4. m # 0 /\ n # 0 => <<s[m], t[1]>> \in link
    OBVIOUS
  <1> HIDE DEF st, m, n
  <1>5. ASSUME NEW i \in 2 .. m + n PROVE <<st[i - 1], st[i]>> \in link
    <2>1. CASE i <= m
      <3>1. i \in 2 .. m /\ i \in 1 .. m /\ i - 1 \in 1 .. m
        BY <1>1, <2>1
      <3> QED BY <1>2, <1>3, <3>1
    <2>2. CASE i = m + 1
      <3>1. m \in 1 .. m /\ i \in m + 1 .. m + n /\ i - m = 1 /\ i - 1 = m /\ m # 0 /\ n # 0
        BY <1>1, <2>2
      <3>2. st[i - 1] = s[m] /\ st[i] = t[1]
        BY <1>2, <3>1
      <3> QED BY <1>4, <3>1, <3>2
    <2>3. CASE i > m + 1
      <3> DEFINE k == i - m
      <3>1. /\ i \in m + 1 .. m + n /\ i - 1 \in m + 1 .. m + n /\ k \in 2 .. n
            /\ (i - 1) - m = k - 1
        BY <1>1, <2>3
      <3>2. st[i] = t[k]
        BY <1>2, <3>1
      <3> HIDE DEF k
      <3>3. st[i - 1] = t[k - 1]
        BY <1>2, <3>1
      <3> QED BY <1>3, <3>1, <3>2, <3>3
    <2> QED BY <1>1, <2>1, <2>2, <2>3
  <1>6. m # 0 => st[1] = s[1]
    <2>1. m # 0 => 1 \in 1 .. m
      BY <1>1
    <2> QED BY <1>2, <2>1
  <1>7. m = 0 /\ n # 0 => st[1] = t[1]
    <2>1. m = 0 /\ n # 0 => 1 \in m + 1 .. m + n /\ 1 - m = 1
      BY <1>1
    <2> QED BY <1>2, <2>1
  <1>8. n # 0 => st[m + n] = t[n]
    <2> DEFINE k == m + n
    <2>1. n # 0 => k \in m + 1 .. m + n /\ k - m = n
      BY <1>1
    <2> HIDE DEF k
    <2>2. n # 0 => st[k] = t[n]
      BY <1>2, <2>1
    <2> QED BY <2>2 DEF k
  <1>9. Linked(st, good, link)
    BY <1>2, <1>5 DEF Linked
  <1> QED BY <1>2, <1>6, <1>7, <1>8, <1>9 DEF st, m, n

\* The windows that are possible in a text, and how two in a row overlap.
WindowsIn(text) ==
  {w \in Stretches : /\ w.from < w.to /\ w.to - w.from <= WindowMax
                     /\ w.from \in Boundaries(text) /\ w.to \in Boundaries(text)}

Overlapping ==
  {p \in Stretches \X Stretches :
     /\ p[1].from + (WindowPreferred - WindowOverlap - 2) <= p[2].from
     /\ p[1].from < p[2].from /\ p[2].from < p[1].to}

\* Windows that cover a text from a place on.
Slid(text, ws, start) ==
  /\ Linked(ws, WindowsIn(text), Overlapping)
  /\ Len(ws) # 0 /\ ws[1].from = start /\ ws[Len(ws)].to = Size(text)

LEMMA OneWindow ==
  ASSUME NEW text, NEW from \in Nat, NEW to \in Nat, from < to, to - from <= WindowMax,
         from \in Boundaries(text), to \in Boundaries(text)
  PROVE  /\ Linked(<<Span(from, to)>>, WindowsIn(text), Overlapping)
         /\ Len(<<Span(from, to)>>) = 1 /\ <<Span(from, to)>>[1] = Span(from, to)
         /\ Span(from, to).from = from /\ Span(from, to).to = to /\ Span(from, to) \in Stretches
  <1> DEFINE w == Span(from, to)
             ws == <<w>>
  <1>1. w \in Stretches /\ w.from = from /\ w.to = to
    BY DEF Span, Stretches
  <1>2. w \in WindowsIn(text)
    <2> HIDE DEF w
    <2> QED BY <1>1 DEF WindowsIn
  <1> HIDE DEF w
  <1>3. ws \in Seq(WindowsIn(text)) /\ Len(ws) = 1 /\ ws[1] = w
    BY <1>2
  <1> HIDE DEF ws
  <1>4. \A i \in 2 .. Len(ws) : <<ws[i - 1], ws[i]>> \in Overlapping
    BY <1>3
  <1> QED BY <1>1, <1>3, <1>4 DEF Linked, ws, w

LEMMA WindowSpansSlid ==
  ASSUME NEW text, IsText(text), DOMAIN text = 1 .. Len(text), text # <<>>, 0 < Size(text)
  PROVE  Slid(text, WindowSpans(text), 0)
  <1> DEFINE b == Size(text)
             more == {s \in 0 .. b : WindowEnd(text, s) # b}
             next == [s \in 0 .. b |-> NextStart(text, s, WindowEnd(text, s))]
             first == [s \in 0 .. b |-> <<Span(s, WindowEnd(text, s))>>]
             rest[start \in 0 .. b] ==
               IF WindowEnd(text, start) = b
               THEN <<Span(start, WindowEnd(text, start))>>
               ELSE <<Span(start, WindowEnd(text, start))>>
                    \o rest[NextStart(text, start, WindowEnd(text, start))]
  <1>1. WindowSpans(text) = rest[0]
    BY Zenon DEF WindowSpans
  <1>2. b \in Nat /\ 0 < b /\ b \in Boundaries(text) /\ 0 \in Boundaries(text)
        /\ Boundaries(text) \subseteq 0 .. b
    BY BoundariesIn
  <1>3. \A s \in 0 .. b : /\ WindowEnd(text, s) \in Boundaries(text)
                          /\ WindowEnd(text, s) \in Nat
                          /\ WindowEnd(text, s) <= s + WindowMax
                          /\ s < b => s < WindowEnd(text, s)
                          /\ s \in more => s + WindowPreferred <= WindowEnd(text, s)
    <2> TAKE s \in 0 .. b
    <2> DEFINE e == WindowEnd(text, s)
    <2>1. /\ e \in Boundaries(text) /\ e <= s + WindowMax /\ (s < b => s < e)
          /\ (e # b => s + WindowPreferred <= e)
      BY WindowEndIs
    <2>2. s \in more => e # b
      OBVIOUS
    <2> HIDE DEF e, more
    <2> QED BY <1>2, <2>1, <2>2 DEF e
  <1>4. \A s \in 0 .. b : s \in more => /\ next[s] \in s + 1 .. b /\ next[s] \in Boundaries(text)
                                        /\ next[s] < WindowEnd(text, s)
                                        /\ s + (WindowPreferred - WindowOverlap - 2) <= next[s]
    <2> TAKE s \in 0 .. b
    <2> HAVE s \in more
    <2> DEFINE e == WindowEnd(text, s)
               x == NextStart(text, s, e)
    <2>1. e \in Boundaries(text) /\ s + WindowPreferred <= e /\ s \in Nat
      BY <1>3
    <2>2. next[s] = x
      OBVIOUS
    <2> HIDE DEF e
    <2>3. /\ x \in Boundaries(text) /\ s < x /\ x < e
          /\ s + (WindowPreferred - WindowOverlap - 2) <= x
      BY <2>1, NextStartIs
    <2> HIDE DEF x, next, more
    <2>4. x \in s + 1 .. b
      BY <1>2, <2>1, <2>3
    <2> QED BY <2>2, <2>3, <2>4 DEF e
  <1>5. first \in [0 .. b -> Seq(Stretches)]
    <2>1. \A s \in 0 .. b : Span(s, WindowEnd(text, s)) \in Stretches
      BY <1>3 DEF Span, Stretches
    <2> QED BY <2>1
  <1> HIDE DEF first, next
  <1>6. PICK f \in [0 .. b -> Seq(Stretches)] : Goes(f, 0, b, more, next, first)
    <2>1. 0 \in Nat /\ 0 <= b /\ \A s \in 0 .. b : s \in more => next[s] \in s + 1 .. b
      BY <1>2, <1>4
    <2> HIDE DEF more, b
    <2> QED BY <1>2, <1>5, <2>1, GoesExists
  <1>7. f = [start \in 0 .. b |->
               IF WindowEnd(text, start) = b
               THEN <<Span(start, WindowEnd(text, start))>>
               ELSE <<Span(start, WindowEnd(text, start))>>
                    \o f[NextStart(text, start, WindowEnd(text, start))]]
    <2>1. ASSUME NEW s \in 0 .. b
          PROVE  f[s] = IF WindowEnd(text, s) = b
                        THEN <<Span(s, WindowEnd(text, s))>>
                        ELSE <<Span(s, WindowEnd(text, s))>>
                             \o f[NextStart(text, s, WindowEnd(text, s))]
      BY <1>6 DEF Goes, first, next
    <2> QED BY <1>6, <2>1
  <1>8. rest = [start \in 0 .. b |->
                  IF WindowEnd(text, start) = b
                  THEN <<Span(start, WindowEnd(text, start))>>
                  ELSE <<Span(start, WindowEnd(text, start))>>
                       \o rest[NextStart(text, start, WindowEnd(text, start))]]
    BY <1>7, Zenon
  <1> HIDE DEF rest
  <1>9. ASSUME NEW s \in 0 .. b
        PROVE  /\ s \in more => rest[s] = <<Span(s, WindowEnd(text, s))>> \o rest[next[s]]
               /\ s \notin more => /\ rest[s] = <<Span(s, WindowEnd(text, s))>>
                                   /\ WindowEnd(text, s) = b
    BY <1>8 DEF next
  <1> HIDE DEF more
  <1> DEFINE Good == {k \in 0 .. b :
                        k # 0 /\ b - k \in Boundaries(text) => Slid(text, rest[b - k], b - k)}
  <1>10. 0 \in Good
    BY <1>2
  <1>11. ASSUME NEW k \in 1 .. b, \A j \in 0 .. k - 1 : j \in Good PROVE k \in Good
    <2> DEFINE s == b - k
               e == WindowEnd(text, s)
               w == Span(s, e)
    <2>1. s \in 0 .. b /\ s \in Nat /\ s < b /\ k \in 0 .. b
      BY <1>2
    <2> SUFFICES ASSUME s \in Boundaries(text) PROVE Slid(text, rest[s], s)
      BY <2>1
    <2>2. e \in Boundaries(text) /\ e \in Nat /\ e - s <= WindowMax /\ s < e
      <3>1. e \in Boundaries(text) /\ e \in Nat /\ e <= s + WindowMax /\ s < e
        BY <1>3, <2>1
      <3> HIDE DEF s, e
      <3> QED BY <2>1, <3>1, ChunkNumbers
    <2>3. /\ Linked(<<w>>, WindowsIn(text), Overlapping) /\ Len(<<w>>) = 1
          /\ <<w>>[1] = w /\ w.from = s /\ w.to = e /\ w \in Stretches
      <3> HIDE DEF s, e
      <3> QED BY <2>1, <2>2, OneWindow
    <2>4. CASE s \notin more
      <3>1. rest[s] = <<w>> /\ e = b
        BY <1>9, <2>1, <2>4
      <3> HIDE DEF s, e, w
      <3> QED BY <2>3, <3>1 DEF Slid
    <2>5. CASE s \in more
      <3> DEFINE t == next[s]
                 j == b - t
      <3>1. /\ t \in s + 1 .. b /\ t \in Boundaries(text) /\ t < e
            /\ s + (WindowPreferred - WindowOverlap - 2) <= t
            /\ rest[s] = <<w>> \o rest[t]
        BY <1>4, <1>9, <2>1, <2>5
      <3>2. t < b /\ t \in Nat
        <4> HIDE DEF s, e, t
        <4>1. e <= b
          BY <1>2, <2>2
        <4> QED BY <1>2, <2>1, <2>2, <3>1, <4>1
      <3> HIDE DEF t
      <3>3. j \in 0 .. k - 1 /\ b - j = t /\ j # 0
        BY <1>2, <2>1, <3>1, <3>2
      <3> HIDE DEF j
      <3>4. Slid(text, rest[t], t)
        BY <1>11, <3>1, <3>3
      <3> DEFINE ws == rest[t]
      <3> HIDE DEF s, e, w, ws
      <3>5. ws[1] \in Stretches /\ ws[1].from = t /\ Len(ws) # 0 /\ Len(ws) \in Nat
        <4>1. ws \in Seq(WindowsIn(text)) /\ Len(ws) # 0 /\ ws[1].from = t
          BY <3>4 DEF Slid, Linked, ws
        <4>2. Len(ws) \in Nat /\ ws[1] \in WindowsIn(text)
          <5>1. Len(ws) \in Nat /\ \A i \in 1 .. Len(ws) : ws[i] \in WindowsIn(text)
            BY <4>1, SeqIs
          <5>2. 1 \in 1 .. Len(ws)
            BY <4>1, <5>1
          <5> QED BY <5>1, <5>2
        <4> QED BY <4>1, <4>2 DEF WindowsIn
      <3>6. <<w, ws[1]>> \in Overlapping
        BY <2>3, <3>1, <3>5 DEF Overlapping
      <3>7. Linked(ws, WindowsIn(text), Overlapping) /\ ws[Len(ws)].to = b
        BY <3>4 DEF Slid, ws
      <3> DEFINE one == <<w>>
                 r == one \o ws
      <3>8. one[Len(one)] = w /\ one[1] = w /\ Len(one) = 1
        BY <2>3
      <3>9. Linked(one, WindowsIn(text), Overlapping)
        BY <2>3
      <3> HIDE DEF one
      <3>10. /\ Linked(r, WindowsIn(text), Overlapping) /\ Len(r) = Len(one) + Len(ws)
             /\ Len(one) # 0 => r[1] = one[1]
             /\ Len(ws) # 0 => r[Len(one) + Len(ws)] = ws[Len(ws)]
        BY <3>6, <3>7, <3>8, <3>9, LinkedJoin
      <3>11. rest[s] = r
        BY <3>1 DEF one, ws
      <3> HIDE DEF r
      <3>12. Len(r) # 0 /\ r[1].from = s /\ r[Len(r)].to = b
        BY <2>3, <3>5, <3>7, <3>8, <3>10
      <3> QED BY <3>10, <3>11, <3>12 DEF Slid
    <2> QED BY <2>4, <2>5
  <1> HIDE DEF Good
  <1>12. b \in Good
    BY <1>2, <1>10, <1>11, ClimbAll
  <1>13. b - b = 0 /\ b # 0
    BY <1>2
  <1> QED BY <1>1, <1>2, <1>12, <1>13 DEF Good

-----------------------------------------------------------------------------
(* Windows: the documents of a revision.                                   *)

\* The windows of one chunk, at their offsets in the revision.
ChunkWindows(text, chunk) ==
  LET cut == WindowSpans(Slice(text, chunk.from, chunk.to))
  IN [i \in DOMAIN cut |-> Span(chunk.from + cut[i].from, chunk.from + cut[i].to)]

\* A window that some chunk holds, and one that follows another within a chunk
\* or at the end of one.
Shown(text, chunks) == {w \in WindowsIn(text) : Resolves(text, chunks, w)}

Following(chunks) ==
  Overlapping \cup {p \in Stretches \X Stretches :
                      p[2].from = p[1].to /\ \E j \in DOMAIN chunks : chunks[j].to = p[1].to}

Chunked(text) ==
  {c \in Stretches : c.from < c.to /\ c.from \in Boundaries(text) /\ c.to \in Boundaries(text)}

\* Windows that cover a text from one end of a chunk to another.
Documented(text, chunks, ws, a, b) ==
  /\ Linked(ws, Shown(text, chunks), Following(chunks))
  /\ IF Len(ws) = 0 THEN a = b ELSE ws[1].from = a /\ ws[Len(ws)].to = b

LEMMA ChunkWindowsAre ==
  ASSUME NEW text \in Seq(Written), NEW chunk \in Chunked(text)
  PROVE  LET cut == WindowSpans(Slice(text, chunk.from, chunk.to))
             ws == ChunkWindows(text, chunk)
         IN /\ Len(ws) = Len(cut) /\ Len(ws) \in Nat \ {0} /\ DOMAIN ws = 1 .. Len(ws)
            /\ \A i \in 1 .. Len(ws) :
                 /\ cut[i] \in WindowsIn(Slice(text, chunk.from, chunk.to))
                 /\ ws[i] \in WindowsIn(text)
                 /\ chunk.from <= ws[i].from /\ ws[i].to <= chunk.to
                 /\ ws[i].from = chunk.from + cut[i].from /\ ws[i].to = chunk.from + cut[i].to
            /\ \A i \in 2 .. Len(ws) : <<ws[i - 1], ws[i]>> \in Overlapping
            /\ ws \in Seq(WindowsIn(text))
            /\ ws[1].from = chunk.from /\ ws[Len(ws)].to = chunk.to
  <1> DEFINE body == Slice(text, chunk.from, chunk.to)
             cut == WindowSpans(body)
             ws == ChunkWindows(text, chunk)
             n == Len(cut)
             a == chunk.from
             b == chunk.to
  <1>1. /\ a \in Nat /\ b \in Nat /\ a < b /\ a \in Boundaries(text) /\ b \in Boundaries(text)
    BY DEF Chunked, Stretches
  <1>2. /\ IsText(body) /\ Size(body) = b - a /\ body \in Seq(Written)
        /\ \A x \in Boundaries(body) : a + x \in Boundaries(text)
    BY <1>1, SpanOf
  <1> HIDE DEF body
  <1>3. DOMAIN body = 1 .. Len(body) /\ body # <<>> /\ 0 < Size(body)
    <2>1. 0 < Size(body)
      BY <1>1, <1>2
    <2>2. body # <<>>
      BY <1>1, <1>2, <2>1, NoText
    <2> QED BY <1>2, <2>1, <2>2
  <1>4. Slid(body, cut, 0)
    BY <1>2, <1>3, WindowSpansSlid
  <1>5. ws = [i \in DOMAIN cut |-> Span(a + cut[i].from, a + cut[i].to)]
    BY Zenon DEF ChunkWindows, body
  <1> HIDE DEF cut, ws
  <1>6. /\ n \in Nat /\ n # 0 /\ DOMAIN cut = 1 .. n /\ \A i \in 1 .. n : cut[i] \in WindowsIn(body)
        /\ cut[1].from = 0 /\ cut[n].to = b - a
        /\ \A i \in 2 .. n : <<cut[i - 1], cut[i]>> \in Overlapping
    <2>1. cut \in Seq(WindowsIn(body))
      BY <1>4 DEF Slid, Linked
    <2>2. n # 0 /\ cut[1].from = 0 /\ cut[n].to = b - a
      BY <1>2, <1>4 DEF Slid
    <2>3. \A i \in 2 .. n : <<cut[i - 1], cut[i]>> \in Overlapping
      BY <1>4 DEF Slid, Linked
    <2> QED BY <2>1, <2>2, <2>3, SeqIs
  <1> HIDE DEF n
  <1>7. ASSUME NEW i \in 1 .. n
        PROVE  /\ cut[i] \in Stretches /\ ws[i] \in Stretches
               /\ ws[i].from = a + cut[i].from /\ ws[i].to = a + cut[i].to
    <2>1. cut[i] \in Stretches
      BY <1>6 DEF WindowsIn
    <2>2. ws[i] = Span(a + cut[i].from, a + cut[i].to)
      BY <1>5, <1>6
    <2>3. a + cut[i].from \in Nat /\ a + cut[i].to \in Nat
      BY <1>1, <2>1 DEF Stretches
    <2> QED BY <2>1, <2>2, <2>3 DEF Span, Stretches
  <1>8. ASSUME NEW i \in 1 .. n
        PROVE  ws[i] \in WindowsIn(text) /\ a <= ws[i].from /\ ws[i].to <= b
    <2>1. /\ cut[i].from < cut[i].to /\ cut[i].to - cut[i].from <= WindowMax
          /\ cut[i].from \in Boundaries(body) /\ cut[i].to \in Boundaries(body)
      BY <1>6 DEF WindowsIn
    <2>2. /\ cut[i].from \in Nat /\ cut[i].to \in Nat /\ cut[i].to <= b - a
      BY <1>2, <1>7, <2>1, BoundariesIn DEF Stretches
    <2>3. a + cut[i].from \in Boundaries(text) /\ a + cut[i].to \in Boundaries(text)
      BY <1>2, <2>1
    <2>4. /\ ws[i].from < ws[i].to /\ ws[i].to - ws[i].from <= WindowMax
          /\ a <= ws[i].from /\ ws[i].to <= b
      BY <1>1, <1>7, <2>1, <2>2
    <2> QED BY <1>7, <2>3, <2>4 DEF WindowsIn
  <1>9. ASSUME NEW i \in 2 .. n PROVE <<ws[i - 1], ws[i]>> \in Overlapping
    <2> DEFINE p == cut[i - 1]
               q == cut[i]
    <2>1. i \in 1 .. n /\ i - 1 \in 1 .. n
      BY <1>6
    <2>2. /\ ws[i].from = a + q.from /\ ws[i - 1].from = a + p.from /\ ws[i - 1].to = a + p.to
          /\ ws[i] \in Stretches /\ ws[i - 1] \in Stretches /\ p \in Stretches /\ q \in Stretches
      BY <1>7, <2>1
    <2>3. <<p, q>> \in Overlapping
      BY <1>6
    <2> HIDE DEF p, q
    <2>4. /\ p.from + (WindowPreferred - WindowOverlap - 2) <= q.from
          /\ p.from < q.from /\ q.from < p.to
      BY <2>3 DEF Overlapping
    <2>5. /\ p.from \in Nat /\ p.to \in Nat /\ q.from \in Nat
      BY <2>2 DEF Stretches
    <2>6. /\ ws[i - 1].from + (WindowPreferred - WindowOverlap - 2) <= ws[i].from
          /\ ws[i - 1].from < ws[i].from /\ ws[i].from < ws[i - 1].to
      BY <1>1, <2>2, <2>4, <2>5, ChunkNumbers
    <2> QED BY <2>2, <2>6 DEF Overlapping
  <1>10. ws \in Seq(WindowsIn(text)) /\ Len(ws) = n /\ DOMAIN ws = 1 .. n
    <2>1. ws = [i \in 1 .. n |-> ws[i]]
      BY <1>5, <1>6
    <2>2. ws \in [1 .. n -> WindowsIn(text)]
      BY <1>8, <2>1
    <2> QED BY <1>6, <2>2, FunctionIsSeq
  <1>11. ws[1].from = a /\ ws[n].to = b
    <2>1. 1 \in 1 .. n /\ n \in 1 .. n
      BY <1>6
    <2>2. ws[1].from = a + 0 /\ ws[n].to = a + (b - a)
      BY <1>6, <1>7, <2>1
    <2> QED BY <1>1, <2>2
  <1> HIDE DEF a, b
  <1> QED BY <1>6, <1>7, <1>8, <1>9, <1>10, <1>11, Zenon DEF n, cut, ws, body, a, b

LEMMA ChunkDocumented ==
  ASSUME NEW text \in Seq(Written), NEW chunks, NEW k \in DOMAIN chunks,
         chunks[k] \in Chunked(text)
  PROVE  /\ Documented(text, chunks, ChunkWindows(text, chunks[k]), chunks[k].from, chunks[k].to)
         /\ Len(ChunkWindows(text, chunks[k])) # 0
         /\ ChunkWindows(text, chunks[k]) \in Seq(Stretches)
  <1> DEFINE c == chunks[k]
             ws == ChunkWindows(text, c)
  <1>1. /\ Len(ws) \in Nat \ {0} /\ DOMAIN ws = 1 .. Len(ws)
        /\ \A i \in 1 .. Len(ws) : /\ ws[i] \in WindowsIn(text)
                                   /\ c.from <= ws[i].from /\ ws[i].to <= c.to
        /\ \A i \in 2 .. Len(ws) : <<ws[i - 1], ws[i]>> \in Overlapping
        /\ ws \in Seq(WindowsIn(text))
        /\ ws[1].from = c.from /\ ws[Len(ws)].to = c.to
    <2> HIDE DEF c
    <2> QED BY ChunkWindowsAre, Zenon DEF c
  <1> HIDE DEF ws
  <1>2. ASSUME NEW i \in 1 .. Len(ws) PROVE ws[i] \in Shown(text, chunks)
    <2> DEFINE w == ws[i]
    <2>1. w \in WindowsIn(text) /\ c.from <= w.from /\ w.to <= c.to
      BY <1>1
    <2> HIDE DEF w
    <2>2. /\ w.from < w.to /\ {w.from, w.to} \subseteq Boundaries(text)
      BY <2>1 DEF WindowsIn
    <2>3. Resolves(text, chunks, w)
      BY <2>1, <2>2 DEF Resolves
    <2> QED BY <2>1, <2>3 DEF Shown, w
  <1>3. ws \in Seq(Shown(text, chunks))
    <2>1. ws = [i \in 1 .. Len(ws) |-> ws[i]] /\ Len(ws) \in Nat
      BY <1>1
    <2>2. ws \in [1 .. Len(ws) -> Shown(text, chunks)]
      BY <1>2, <2>1
    <2> QED BY <2>1, <2>2, FunctionIsSeq
  <1>4. \A i \in 2 .. Len(ws) : <<ws[i - 1], ws[i]>> \in Following(chunks)
    BY <1>1 DEF Following
  <1>5. Linked(ws, Shown(text, chunks), Following(chunks))
    BY <1>3, <1>4 DEF Linked
  <1>6. ws \in Seq(Stretches)
    <2>1. WindowsIn(text) \subseteq Stretches
      BY DEF WindowsIn
    <2> QED BY <1>1, <2>1
  <1>7. Documented(text, chunks, ws, c.from, c.to)
    BY <1>1, <1>5 DEF Documented
  <1> QED BY <1>1, <1>6, <1>7 DEF ws

LEMMA DocumentedJoin ==
  ASSUME NEW text, NEW chunks, NEW s, NEW t, NEW a, NEW b, NEW c,
         Documented(text, chunks, s, a, b), Documented(text, chunks, t, b, c),
         Len(t) # 0, Len(s) # 0 => \E j \in DOMAIN chunks : chunks[j].to = b
  PROVE  Documented(text, chunks, s \o t, a, c)
  <1> DEFINE G == Shown(text, chunks)
             L == Following(chunks)
             m == Len(s)
             n == Len(t)
             st == s \o t
  <1>1. /\ Linked(s, G, L) /\ Linked(t, G, L) /\ n # 0
        /\ IF m = 0 THEN a = b ELSE s[1].from = a /\ s[m].to = b
        /\ t[1].from = b /\ t[n].to = c
    BY DEF Documented
  <1>2. s \in Seq(G) /\ t \in Seq(G) /\ m \in Nat /\ n \in Nat /\ G \subseteq Stretches
    BY <1>1 DEF Linked, Shown, WindowsIn
  <1>3. m # 0 => <<s[m], t[1]>> \in L
    <2> SUFFICES ASSUME m # 0 PROVE <<s[m], t[1]>> \in L
      OBVIOUS
    <2>1. m \in 1 .. m /\ 1 \in 1 .. n
      BY <1>1, <1>2
    <2>2. s[m] \in Stretches /\ t[1] \in Stretches
      <3> HIDE DEF G
      <3>1. /\ \A i \in 1 .. m : s[i] \in G
            /\ \A i \in 1 .. n : t[i] \in G
        BY <1>2, SeqIs
      <3> QED BY <1>2, <2>1, <3>1
    <2>3. t[1].from = s[m].to /\ \E j \in DOMAIN chunks : chunks[j].to = s[m].to
      BY <1>1
    <2> HIDE DEF m
    <2> QED BY <2>2, <2>3 DEF Following
  <1> HIDE DEF G, L
  <1>4. /\ Linked(st, G, L) /\ Len(st) = m + n
        /\ m # 0 => st[1] = s[1]
        /\ m = 0 /\ n # 0 => st[1] = t[1]
        /\ n # 0 => st[m + n] = t[n]
    BY <1>1, <1>3, LinkedJoin
  <1> HIDE DEF m, n, st
  <1>5. Len(st) # 0 /\ st[1].from = a /\ st[Len(st)].to = c
    BY <1>1, <1>2, <1>4
  <1> QED BY <1>4, <1>5 DEF Documented, G, L, st

\* The documents of the chunks of a text cover it.
LEMMA DocumentsAre ==
  ASSUME NEW text \in Seq(Written), NEW chunks, NEW size, Tiled(text, chunks, 0, size, ChunkMax)
  PROVE  /\ Documented(text, chunks, Documents(text, chunks), 0, size)
         /\ Len(chunks) = 0 => Documents(text, chunks) = <<>>
  <1> DEFINE n == Len(chunks)
             D == DOMAIN chunks
             A == Seq(Stretches)
             E == Chunked(text)
             step == [p \in A \X E |-> p[1] \o ChunkWindows(text, p[2])]
             iter[S \in SUBSET D] ==
               IF S = {} THEN <<>>
               ELSE iter[S \ {Max(S)}] \o ChunkWindows(text, chunks[Max(S)])
             done == iter[D]
  <1>1. Documents(text, chunks) = done
    BY Zenon DEF Documents, FoldLeft, MapThenFoldSet, ChunkWindows
  <1>2. /\ chunks \in Seq(E) /\ n \in Nat /\ D = 1 .. n /\ \A i \in D : chunks[i] \in E
        /\ IF n = 0 THEN 0 = size ELSE chunks[1].from = 0 /\ chunks[n].to = size
        /\ \A i \in 1 .. n : i > 1 => chunks[i - 1].to = chunks[i].from
    <2>1. /\ chunks \in Seq(Stretches) /\ n \in Nat /\ D = 1 .. n
          /\ \A i \in D : chunks[i] \in Stretches
      BY SeqIs DEF Tiled
    <2>2. ASSUME NEW i \in D PROVE chunks[i] \in E
      BY <2>1, <2>2 DEF Tiled, Chunked
    <2>3. chunks \in Seq(E)
      <3> HIDE DEF E
      <3>1. chunks = [i \in 1 .. n |-> chunks[i]]
        BY <2>1
      <3>2. chunks \in [1 .. n -> E]
        BY <2>1, <2>2, <3>1
      <3> QED BY <2>1, <3>2, FunctionIsSeq
    <2>4. IF n = 0 THEN 0 = size ELSE chunks[1].from = 0 /\ chunks[n].to = size
      BY DEF Tiled
    <2>5. \A i \in 1 .. n : i > 1 => chunks[i - 1].to = chunks[i].from
      BY DEF Tiled
    <2> QED BY <2>1, <2>2, <2>3, <2>4, <2>5
  <1>3. <<>> \in A
    OBVIOUS
  <1>4. step \in [A \X E -> A]
    <2>1. ASSUME NEW c \in E PROVE ChunkWindows(text, c) \in A
      <3>1. ChunkWindows(text, c) \in Seq(WindowsIn(text))
        BY ChunkWindowsAre
      <3>2. WindowsIn(text) \subseteq Stretches
        BY DEF WindowsIn
      <3> QED BY <3>1, <3>2
    <2> HIDE DEF E
    <2>2. ASSUME NEW s \in A, NEW t \in A PROVE s \o t \in A
      OBVIOUS
    <2> HIDE DEF A
    <2> QED BY <2>1, <2>2
  <1> HIDE DEF E, A
  <1>5. PICK f \in [SUBSET D -> A] : Folds(f, Len(chunks), step, <<>>, chunks)
    <2> HIDE DEF step
    <2> QED BY <1>2, <1>3, <1>4, FoldExists
  <1>6. f = [S \in SUBSET D |->
               IF S = {} THEN <<>> ELSE f[S \ {Max(S)}] \o ChunkWindows(text, chunks[Max(S)])]
    <2>1. ASSUME NEW S \in SUBSET D, S # {}
          PROVE  f[S] = f[S \ {Max(S)}] \o ChunkWindows(text, chunks[Max(S)])
      <3>1. f[S] = step[<<f[S \ {Max(S)}], chunks[Max(S)]>>]
        BY <1>2, <1>5, <2>1 DEF Folds
      <3>2. Max(S) \in S
        <4>1. S \in SUBSET Nat /\ \A i \in S : i <= n
          BY <1>2
        <4> QED BY <1>2, <2>1, <4>1, Greatest
      <3>3. f[S \ {Max(S)}] \in A /\ chunks[Max(S)] \in E
        BY <1>2, <1>5, <3>2
      <3> QED BY <3>1, <3>3
    <2>2. f[{}] = <<>>
      BY <1>2, <1>5 DEF Folds
    <2> QED BY <1>5, <2>1, <2>2
  <1>7. iter = [S \in SUBSET D |->
                  IF S = {} THEN <<>>
                  ELSE iter[S \ {Max(S)}] \o ChunkWindows(text, chunks[Max(S)])]
    BY <1>6, Zenon
  <1> HIDE DEF iter
  <1>8. PICK acc : RunsOver(acc, A, step, <<>>, chunks) /\ acc[n] = iter[D]
    <2>1. iter[{}] = <<>>
      BY <1>7
    <2>2. ASSUME NEW S \in SUBSET D, S # {}, iter[S \ {Max(S)}] \in A
          PROVE  iter[S] = step[<<iter[S \ {Max(S)}], chunks[Max(S)]>>]
      <3>1. Max(S) \in S
        <4>1. S \in SUBSET Nat /\ \A i \in S : i <= n
          BY <1>2
        <4> QED BY <1>2, <2>2, <4>1, Greatest
      <3>2. chunks[Max(S)] \in E
        BY <1>2, <3>1
      <3> QED BY <1>7, <2>2, <3>2
    <2> HIDE DEF step
    <2>3. FoldOf(iter, A, E, step, <<>>, chunks)
      BY <1>2, <1>3, <1>4, <2>1, <2>2, Zenon DEF FoldOf
    <2>4. Accumulates(iter, A, step, <<>>, chunks)
      BY <2>3, FoldRuns
    <2> QED BY <2>4 DEF Accumulates
  <1>9. /\ acc \in [0 .. n -> A] /\ acc[0] = <<>>
        /\ \A i \in 1 .. n : acc[i] = acc[i - 1] \o ChunkWindows(text, chunks[i])
    <2>1. acc \in [0 .. n -> A] /\ acc[0] = <<>>
      BY <1>8 DEF RunsOver
    <2>2. ASSUME NEW i \in 1 .. n PROVE acc[i] = acc[i - 1] \o ChunkWindows(text, chunks[i])
      <3>1. acc[i] = step[<<acc[i - 1], chunks[i]>>]
        BY <1>8 DEF RunsOver
      <3>2. acc[i - 1] \in A /\ chunks[i] \in E
        BY <1>2, <2>1
      <3> QED BY <3>1, <3>2
    <2> QED BY <2>1, <2>2
  <1> HIDE DEF step
  <1> DEFINE End(i) == IF i = 0 THEN 0 ELSE chunks[i].to
             Good == {i \in 0 .. n : Documented(text, chunks, acc[i], 0, End(i))}
  <1>10. 0 \in Good
    <2>1. Linked(<<>>, Shown(text, chunks), Following(chunks)) /\ Len(<<>>) = 0
      BY DEF Linked
    <2>2. Documented(text, chunks, <<>>, 0, 0)
      BY <2>1 DEF Documented
    <2> QED BY <1>2, <1>9, <2>2
  <1>11. ASSUME NEW i \in 1 .. n, i - 1 \in Good PROVE i \in Good
    <2> DEFINE ws == ChunkWindows(text, chunks[i])
    <2>1. i \in 0 .. n /\ i # 0 /\ i \in D /\ i - 1 \in 0 .. n
      BY <1>2
    <2>2. chunks[i].from = End(i - 1)
      <3>1. i = 1 \/ (i > 1 /\ i - 1 # 0)
        BY <2>1
      <3> QED BY <1>2, <3>1
    <2>3. Documented(text, chunks, ws, chunks[i].from, chunks[i].to) /\ Len(ws) # 0
      BY <1>2, <2>1, ChunkDocumented DEF E
    <2>4. Documented(text, chunks, acc[i - 1], 0, End(i - 1))
      BY <1>11
    <2>5. Len(acc[i - 1]) # 0 => \E j \in DOMAIN chunks : chunks[j].to = End(i - 1)
      <3>1. CASE i - 1 = 0
        BY <1>9, <3>1
      <3>2. CASE i - 1 # 0
        <4>1. i - 1 \in D /\ End(i - 1) = chunks[i - 1].to
          BY <1>2, <2>1, <3>2
        <4> QED BY <4>1
      <3> QED BY <3>1, <3>2
    <2> HIDE DEF End, ws
    <2>6. Documented(text, chunks, acc[i - 1] \o ws, 0, chunks[i].to)
      BY <2>2, <2>3, <2>4, <2>5, DocumentedJoin
    <2> QED BY <1>9, <2>1, <2>6 DEF End, ws
  <1> HIDE DEF Good
  <1>12. 0 .. n \subseteq Good
    BY <1>2, <1>10, <1>11, Climb
  <1>13. Documented(text, chunks, done, 0, size)
    <2>1. n \in Good
      BY <1>2, <1>12
    <2>2. Documented(text, chunks, acc[n], 0, End(n))
      BY <2>1 DEF Good
    <2> QED BY <1>2, <1>8, <2>2
  <1>14. n = 0 => done = <<>>
    BY <1>8, <1>9
  <1> HIDE DEF done
  <1> QED BY <1>1, <1>13, <1>14

\* The windows of a semantic rebuild leave no byte of the revision out, each is
\* small enough for the model and a slice of one chunk, and each two in a row
\* overlap in a chunk, by a length that bounds their number, or meet at the end
\* of one: semantic_window_spans and apply_semantic_span.
THEOREM WindowsCoverChunks == ChunksSpec => []WindowsCover
  <1>1. ChunksInv => WindowsCover
    <2> SUFFICES ASSUME ChunksInv, windows # <<>> PROVE WindowsCover
      BY DEF WindowsCover
    <2> DEFINE size == SizeKept(held)
               text == held.text
               n == Len(windows)
    <2>1. text \in Bodies \cup {<<>>} /\ Tiled(text, rows, 0, size, ChunkMax)
      <3>1. held \in [text : Bodies \cup {<<>>}, identical : BOOLEAN] /\ rows = RebuildChunks(held)
        BY DEF ChunksInv
      <3> QED BY <3>1, RebuildTiled
    <2>2. windows = Documents(text, rows)
      BY DEF ChunksInv
    <2>3. text \in Seq(Written) /\ IsText(text)
      BY <2>1, BodiesAre
    <2>4. Documented(text, rows, windows, 0, size) /\ Len(rows) # 0
      BY <2>1, <2>2, <2>3, DocumentsAre
    <2>5. size = Size(text)
      <3>1. held.identical
        <4>1. ~held.identical => rows = <<>>
          BY Zenon DEF ChunksInv, RebuildChunks
        <4> QED BY <2>4, <4>1
      <3> QED BY <3>1 DEF SizeKept
    <2> HIDE DEF size, text
    <2>6. /\ windows \in Seq(Shown(text, rows)) /\ windows[1].from = 0 /\ windows[n].to = Size(text)
          /\ \A i \in 2 .. n : <<windows[i - 1], windows[i]>> \in Following(rows)
      <3>1. Len(windows) # 0
        <4>1. windows \in Seq(Shown(text, rows))
          BY <2>4 DEF Documented, Linked
        <4> QED BY <4>1
      <3> QED BY <2>4, <2>5, <3>1 DEF Documented, Linked
    <2>7. n \in Nat /\ DOMAIN windows = 1 .. n /\ \A i \in 1 .. n : windows[i] \in Shown(text, rows)
      BY <2>6, SeqIs
    <2>8. Last(windows).to = Size(text)
      BY <2>6 DEF Last
    <2> HIDE DEF n
    <2>9. \A i \in DOMAIN windows : /\ windows[i].to - windows[i].from <= WindowMax
                                    /\ Resolves(text, rows, windows[i])
      BY <2>7 DEF Shown, WindowsIn
    <2>10. ASSUME NEW i \in 2 .. n
           PROVE  \/ /\ windows[i].from = windows[i - 1].to
                     /\ \E j \in DOMAIN rows : rows[j].to = windows[i - 1].to
                  \/ /\ windows[i - 1].from + (WindowPreferred - WindowOverlap - 2) <= windows[i].from
                     /\ windows[i - 1].from < windows[i].from
                     /\ windows[i].from < windows[i - 1].to
      <3> DEFINE p == windows[i - 1]
                 q == windows[i]
      <3>1. <<p, q>> \in Following(rows)
        BY <2>6
      <3> HIDE DEF p, q
      <3> QED BY <3>1 DEF Following, Overlapping, p, q
    <2> QED BY <2>6, <2>8, <2>9, <2>10, Zenon DEF WindowsCover, text, n
  <1> QED BY <1>1, RowsAreRebuilt, PTL
=============================================================================
