----------------------------- MODULE MCRetrieval -----------------------------
(* Finding a revision: one ranked search, the two retrieval models of a daemon, *)
(* which share nothing but its starts, and the cutting of what the first one    *)
(* embeds.  Each behaviour exercises one of them, so their states are not       *)
(* multiplied.                                                                  *)
EXTENDS Search, Semantic, Reranker, Chunks

VARIABLE focus

-----------------------------------------------------------------------------
(* Five revisions; 1 and 2, where both are an artifact's, are of the same one. *)

MCArtifactOf == <<1, 1, 3, 4, 5>>

Base == [type |-> "claim", units |-> 0, lex |-> 0, tri |-> 0, fuzzy |-> 0, sem |-> 0,
         proj |-> 0, anchored |-> FALSE, status |-> "active", here |-> TRUE,
         pin |-> "none", fresh |-> FALSE, chunk |-> "none"]
Artifact == [Base EXCEPT !.type = "artifact", !.chunk = "words"]

\* Three query units: 3 is exact, 2 qualifies, 1 is a candidate.
FullClaim == [Base EXCEPT !.units = 3, !.lex = 1, !.sem = 1]
PartClaim == [Base EXCEPT !.units = 2, !.lex = 3, !.fresh = TRUE]
WeakConflict == [Base EXCEPT !.units = 1, !.lex = 2, !.status = "conflicted", !.sem = 2]
TypoClaim == [Base EXCEPT !.tri = 2, !.fuzzy = 2]
DenseClaim == [Base EXCEPT !.sem = 3]
AnchoredClaim == [Base EXCEPT !.anchored = TRUE]
FreshClaim == [Base EXCEPT !.units = 3, !.lex = 1, !.fresh = TRUE, !.status = "conflicted"]
RetiredClaim == [Base EXCEPT !.units = 3, !.lex = 2, !.status = "terminal", !.anchored = TRUE]

\* OldPhrase: phrases that cross a chunk boundary. NewTypo and NewSpread: misspelt
\* words, of one chunk and of several.
OldPhrase == [Artifact EXCEPT !.units = 2, !.lex = 2, !.pin = "revision", !.sem = 2,
                              !.chunk = "none"]
OldFull == [Artifact EXCEPT !.units = 3, !.lex = 1, !.here = FALSE, !.pin = "revision"]
NewDerived == [Artifact EXCEPT !.units = 1, !.lex = 1, !.proj = 2, !.anchored = TRUE]
NewFull == [Artifact EXCEPT !.units = 3, !.lex = 2, !.proj = 1, !.sem = 1]
NewTypo == [Artifact EXCEPT !.tri = 1, !.fuzzy = 3, !.sem = 1, !.fresh = TRUE, !.chunk = "fuzzy"]
NewSpread == [NewTypo EXCEPT !.fuzzy = 2, !.sem = 0, !.proj = 1, !.chunk = "none"]
Foreign == [Artifact EXCEPT !.units = 1, !.lex = 1, !.here = FALSE, !.pin = "artifact", !.sem = 1]

MCWorlds ==
  {<<a, b, c, d, e>> :
     a \in {OldPhrase, OldFull, FullClaim},
     b \in {NewDerived, NewFull, NewTypo, NewSpread, Foreign},
     c \in {PartClaim, FullClaim, TypoClaim, AnchoredClaim, NewFull},
     d \in {WeakConflict, DenseClaim, RetiredClaim, NewDerived},
     e \in {WeakConflict, FreshClaim}}

-----------------------------------------------------------------------------
MCBodies ==
  UNION {[1 .. n -> {"n", "_", ".", "#", "~", "a", "w"}] : n \in 1 .. 4}
  \cup UNION {[1 .. n -> {"n", "_", "a", "w"}] : n \in 5 .. 6}
  \cup UNION {[1 .. n -> {"n", "w"}] : n \in 7 .. 9}

\* What a behaviour does not exercise starts in one state.
RetrievalInit ==
  /\ focus \in {"search", "dense", "order", "cut"}
  /\ focus # "search" =>
       /\ request = [surface |-> "mixed", historical |-> FALSE, recency |-> FALSE,
                     qualifiedOnly |-> FALSE]
       /\ world = <<OldPhrase, NewDerived, PartClaim, WeakConflict, WeakConflict>>
  /\ focus # "order" => runtime = "none" /\ installed = FALSE /\ slow = FALSE
  /\ Init /\ SemanticInit /\ RerankerInit /\ ChunksInit

RetrievalNext ==
  /\ UNCHANGED focus
  /\ \/ focus = "search" /\ Next /\ UNCHANGED <<semanticVars, rerankerVars, chunkVars>>
     \/ focus = "dense" /\ SemanticNext /\ UNCHANGED <<vars, rerankerVars, chunkVars>>
     \/ focus = "order" /\ RerankerNext /\ UNCHANGED <<vars, semanticVars, chunkVars>>
     \/ focus = "cut" /\ ChunksNext /\ UNCHANGED <<vars, semanticVars, rerankerVars>>

RetrievalSpec ==
  RetrievalInit
    /\ [][RetrievalNext]_<<vars, semanticVars, rerankerVars, chunkVars, focus>>
    /\ RerankerFairness
=============================================================================
