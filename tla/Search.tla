------------------------------- MODULE Search -------------------------------
(***************************************************************************)
(* Store::search_filtered (src/src/store.rs): one ranked retrieval.  The   *)
(* whole search holds the connection mutex, so the data it reads do not    *)
(* change; what can go wrong is the order in which four channels, two      *)
(* models and five reorderings act on one list.                            *)
(*                                                                         *)
(* Abstractions: a revision is its commit_seq; how a row matches the query *)
(* (its score in every channel, the query units it contains, the rarity of *)
(* its anchor) is a record.  Units are counted in the whole row; chunk     *)
(* says whether some chunk of an artifact matches one of them ("words"),   *)
(* or only qualifies with typos ("fuzzy"): a phrase across a chunk         *)
(* boundary, or misspelt words of several chunks, leave an artifact        *)
(* without.  Scores are integers, and no channel has more rows than its    *)
(* SQL LIMIT.  A reranker is any function of the slate: what order it      *)
(* returns is chosen.                                                      *)
(***************************************************************************)
EXTENDS Integers, SequencesExt

CONSTANTS
  Revisions,      \* commit sequences of the revisions of the store, 1 .. N
  ArtifactOf,     \* the artifact a revision belongs to, where it is an artifact's
  Worlds,         \* how each revision may match the query, and in what state it is
  QueryUnits,     \* terms and phrases of the query
  Limit,          \* hits the caller asked for
  SlateLimit      \* RERANKER_ORDERING_CANDIDATE_LIMIT

VARIABLES
  request,    \* surface and switches of the call
  world,      \* how each revision matches the query
  stage,      \* the last step done
  hits,       \* the candidates, in their order
  answer      \* hits and candidate_hits of the SearchResult

vars == <<request, world, stage, hits, answer>>

\* How a revision matches the query, and in what state it is.
Rows ==
  [type : {"claim", "artifact"}, units : Nat, lex : Nat, tri : Nat, fuzzy : Nat,
   sem : Nat, proj : Nat, anchored : BOOLEAN, status : {"active", "conflicted", "terminal"},
   here : BOOLEAN, pin : {"none", "artifact", "revision"}, fresh : BOOLEAN,
   chunk : {"words", "fuzzy", "none"}]

\* A query without a unit is refused.
ASSUME SearchAssumption ==
  /\ Revisions \in SUBSET Nat /\ IsFiniteSet(Revisions)
  /\ Worlds \in SUBSET [Revisions -> Rows]
  /\ QueryUnits \in Nat \ {0} /\ Limit \in Nat /\ SlateLimit \in Nat

RRF_K == 60
RECENCY_MAX_PROMOTION == 2

Requests == [surface : {"claim", "artifact", "mixed"}, historical : BOOLEAN,
             recency : BOOLEAN, qualifiedOnly : BOOLEAN]

-----------------------------------------------------------------------------
(* Lists.                                                                  *)

\* The members of P in the order of a relation.
Arranged(P, before) ==
  LET ahead == [i \in P |-> Cardinality({j \in P : <<j, i>> \in before})]
  IN [k \in 1 .. Cardinality(P) |-> CHOOSE i \in P : ahead[i] = k - 1]

Ascending(P) == Arranged(P, {p \in P \X P : p[1] < p[2]})

\* The hits of s at the positions P.
Those(s, P) == LET places == Ascending(P) IN [k \in DOMAIN places |-> s[places[k]]]

FirstOf(list, n) == {list[k] : k \in {j \in DOMAIN list : j <= n}}

-----------------------------------------------------------------------------
(* Which rows a channel may see.                                           *)

\* ceil(2n / 5), at least two of several units.
RequiredMatches(n) == IF n <= 2 THEN n ELSE Max({2, (2 * n + 4) \div 5})

\* Typo tolerance is never looser than the lexical requirement.
RequiredFuzzy(n) ==
  IF n <= 1 THEN 1 ELSE Min({n, Max({RequiredMatches(n), (3 * n + 4) \div 5})})

\* A claim has one revision.
Entity(r) == IF world[r].type = "claim" THEN r ELSE ArtifactOf[r]

Current(r) == \A s \in Revisions : Entity(s) = Entity(r) => s <= r

OnSurface(r) == request.surface \in {world[r].type, "mixed"}

\* The scope of the caller, at the horizon asked for.
InHorizon(r) == world[r].here

\* The horizon and currentness filter of a claim.
ClaimEligible(r) ==
  /\ InHorizon(r)
  /\ request.historical \/ (Current(r) /\ world[r].status # "terminal")

\* The same of an artifact: pins widen the horizon, an exact revision pin also
\* admits a revision that is no longer current.
ArtifactEligible(r) ==
  /\ InHorizon(r) \/ world[r].pin # "none"
  /\ \/ request.historical
     \/ world[r].status # "terminal" /\ (Current(r) \/ world[r].pin = "revision")

Eligible(r) ==
  /\ OnSurface(r)
  /\ IF world[r].type = "claim" THEN ClaimEligible(r) ELSE ArtifactEligible(r)

\* Derived texts and anchors reach current, live rows of the horizon only.
ProjectionEligible(r) ==
  /\ OnSurface(r) /\ world[r].type = "artifact"
  /\ Current(r) /\ world[r].status # "terminal"
  /\ InHorizon(r) \/ world[r].pin = "artifact"

AnchorEligible(r) ==
  /\ OnSurface(r) /\ world[r].type = "claim"
  /\ Current(r) /\ world[r].status # "terminal" /\ InHorizon(r)

-----------------------------------------------------------------------------
(* Candidates.  via: the channels that found a hit; span: what it cites.   *)

Hit(r, channel, span) == [id |-> r, via |-> {channel}, score |-> 0, span |-> span]

Ids(s) == {s[i].id : i \in DOMAIN s}

\* Adds a channel to the hits it found and appends the rows it found first.
Merged(s, found, channel, span) ==
  LET new == Ascending(found \ Ids(s)) IN
  [i \in DOMAIN s |->
     IF s[i].id \in found THEN [s[i] EXCEPT !.via = @ \cup {channel}] ELSE s[i]]
  \o [k \in DOMAIN new |-> Hit(new[k], channel, span)]

\* Lexical annotation covers the rows of the lexical and trigram channels.
LexicalQualified(h) ==
  /\ h.via \cap {"lexical", "trigram"} # {}
  /\ world[h.id].units >= RequiredMatches(QueryUnits)

TrigramQualified(h) ==
  "trigram" \in h.via /\ world[h.id].fuzzy >= RequiredFuzzy(QueryUnits)

Qualified(h) == LexicalQualified(h) \/ TrigramQualified(h)
Exact(h) == LexicalQualified(h) /\ world[h.id].units = QueryUnits
Conflicted(h) == world[h.id].status = "conflicted"

\* matched_unit_count: counted in the row's own text, or in the derived text
\* that alone found it. A dense hit alone has no counts.
Counted(h) == h.via # {"dense"}
MatchedUnits(h) ==
  IF h.via \subseteq {"projection", "dense"}
  THEN IF "projection" \in h.via THEN world[h.id].proj ELSE 0
  ELSE world[h.id].units

\* The full-text rows, and the fuzzy ones unless some row has every unit.
LexicalCandidates ==
  LET lexical == Merged(<<>>, {r \in Revisions : Eligible(r) /\ world[r].lex > 0},
                        "lexical", "row")
  IN IF \E i \in DOMAIN lexical : Exact(lexical[i])
     THEN lexical
     ELSE Merged(lexical, {r \in Revisions : Eligible(r) /\ world[r].tri > 0},
                 "trigram", "row")

\* Claims reached by a rare anchor, unless their entity is there already.
WithAnchored(s) ==
  LET found == {r \in Revisions : AnchorEligible(r) /\ world[r].anchored}
      known == {Entity(r) : r \in Ids(s)}
  IN Merged(s, {r \in found : Entity(r) \notin known}, "anchor", "row")

\* Derived texts. A hit that is not lexically qualified cites their evidence.
WithProjections(s) ==
  LET found == {r \in Revisions : ProjectionEligible(r) /\ world[r].proj > 0}
      merged == Merged(s, found, "projection", "projection")
  IN [i \in DOMAIN merged |->
        IF merged[i].id \in found /\ ~LexicalQualified(merged[i])
        THEN [merged[i] EXCEPT !.span = "projection"] ELSE merged[i]]

\* Dense candidates, by similarity; `applied` of them were applied before an
\* artifact span was found damaged.
DenseFound == {r \in Revisions : Eligible(r) /\ world[r].sem > 0}
DenseBefore(r, s) ==
  world[r].sem > world[s].sem \/ (world[r].sem = world[s].sem /\ r > s)

WithDense(s, applied) ==
  LET found == {r \in DenseFound :
                  Cardinality({o \in DenseFound : DenseBefore(o, r)}) < applied}
      merged == Merged(s, found, "dense", "dense")
  IN [i \in DOMAIN merged |->
        IF merged[i].id \in found /\ world[merged[i].id].type = "artifact"
        THEN [merged[i] EXCEPT !.span = "dense"] ELSE merged[i]]

-----------------------------------------------------------------------------
(* Fusion: reciprocal ranks, in units of 10^-6.                            *)

ChannelScore(channel, r) ==
  [lexical |-> world[r].lex, trigram |-> world[r].tri,
   projection |-> world[r].proj, dense |-> world[r].sem][channel]

\* The revisions a channel found that it ranks before r: those of a better
\* score, and the younger ones of the same.
Better(s, channel, r) ==
  LET listed == {s[i].id : i \in {j \in DOMAIN s : channel \in s[j].via}} IN
  {o \in listed : \/ ChannelScore(channel, o) > ChannelScore(channel, r)
                  \/ ChannelScore(channel, o) = ChannelScore(channel, r) /\ o > r}

\* weight / (60 + rank) among the hits of a channel.
Reciprocal(s, h, channel, weight) ==
  IF channel \notin h.via THEN 0
  ELSE (weight * 10000) \div (RRF_K + 1 + Cardinality(Better(s, channel, h.id)))

LexicalShare(s, h) == Reciprocal(s, h, "lexical", 100)
OtherShares(s, h) ==
  Reciprocal(s, h, "trigram", 70) + Reciprocal(s, h, "dense", 85)
    + Reciprocal(s, h, "projection", 75)

\* Faulty variant: the optional channels count for every hit.
FusedForAll(s, h) == LexicalShare(s, h) + OtherShares(s, h)

\* Exact hits keep their lexical score, whatever the other channels found.
Fused(s, h) == LexicalShare(s, h) + (IF Exact(h) THEN 0 ELSE OtherShares(s, h))

FusedBefore(g, h) ==
  \/ Exact(g) /\ ~Exact(h)
  \/ /\ Exact(g) <=> Exact(h)
     /\ \/ g.score > h.score
        \/ g.score = h.score /\ MatchedUnits(g) > MatchedUnits(h)
        \/ g.score = h.score /\ MatchedUnits(g) = MatchedUnits(h) /\ g.id > h.id

FusedOrder(s) ==
  LET scored == {[s[i] EXCEPT !.score = Fused(s, s[i])] : i \in DOMAIN s}
  IN Arranged(scored, {p \in scored \X scored : FusedBefore(p[1], p[2])})

\* Some chunk holds words of the query; a chunk that only does so with typos
\* is looked for where the whole row qualified that way.
HasWordChunk(h) ==
  \/ world[h.id].chunk = "words"
  \/ TrigramQualified(h) /\ world[h.id].chunk = "fuzzy"

\* Faulty variant: the window a dense hit brought is kept.
CitedKeepingDense(h) ==
  IF \/ world[h.id].type = "claim" \/ h.span = "dense"
     \/ "projection" \in h.via /\ ~Qualified(h)
     \/ ~HasWordChunk(h)
  THEN h ELSE [h EXCEPT !.span = "lexical"]

\* The best such chunk replaces the cited span, except where an unqualified hit
\* cites the evidence of a derived text. Without one the span stays what the
\* channels left there.
Cited(h) ==
  IF \/ world[h.id].type = "claim"
     \/ "projection" \in h.via /\ ~Qualified(h)
     \/ ~HasWordChunk(h)
  THEN h ELSE [h EXCEPT !.span = "lexical"]

CitedAll(s) == [i \in DOMAIN s |-> Cited(s[i])]

-----------------------------------------------------------------------------
(* Recency: a fresh hit passes at most two hits of its own rank.           *)

RecencyEligible(h) == Current(h.id) /\ world[h.id].status # "terminal"

\* The bonus of a fresh item is a tenth of its score.
WithBonus(h) ==
  IF RecencyEligible(h) /\ world[h.id].fresh
  THEN [h EXCEPT !.score = @ + @ \div 10] ELSE h

SameRank(g, h) ==
  /\ Exact(g) <=> Exact(h)
  /\ LexicalQualified(g) <=> LexicalQualified(h)
  /\ TrigramQualified(g) <=> TrigramQualified(h)
  /\ MatchedUnits(g) = MatchedUnits(h) /\ (Counted(g) <=> Counted(h))

Passes(h, other) == SameRank(h, other) /\ h.score > other.score

Inserted(done, h) ==
  LET n == Len(done)
      passed == Max({k \in 0 .. Min({n, RECENCY_MAX_PROMOTION}) :
                       \A j \in n - k + 1 .. n : Passes(h, done[j])})
  IN InsertAt(done, n - passed + 1, h)

RecencyOrder(s) ==
  IF request.recency
  THEN FoldLeft(Inserted, <<>>, [i \in DOMAIN s |-> WithBonus(s[i])]) ELSE s

-----------------------------------------------------------------------------
(* The claim reranker orders a slate, tier by tier.                        *)

Tier(s, qualified) == {i \in DOMAIN s : ~Exact(s[i]) /\ (Qualified(s[i]) <=> qualified)}

\* Positions of one tier that enter the slate: the first half in fused order,
\* then the most similar ones, then fused order again.
TierSlate(s, tier, room) ==
  LET sem(i) == world[s[i].id].sem
      similar == {p \in tier \X tier : \/ sem(p[1]) > sem(p[2])
                                       \/ sem(p[1]) = sem(p[2]) /\ p[1] < p[2]}
      chosen == FirstOf(Ascending(tier), (room + 1) \div 2)
                  \cup FirstOf(Arranged(tier, similar), room \div 2)
  IN IF Cardinality(tier) <= room THEN tier
     ELSE chosen \cup FirstOf(Ascending(tier \ chosen), room - Cardinality(chosen))

Slate(s) ==
  LET first == TierSlate(s, Tier(s, TRUE), SlateLimit)
  IN first \cup TierSlate(s, Tier(s, FALSE), SlateLimit - Cardinality(first))

\* Faulty variant: the order is applied to the slate as a whole.
RerankedAcross(s, order) ==
  [i \in DOMAIN s |->
     IF i \notin ToSet(order) THEN s[i]
     ELSE s[order[Cardinality({j \in ToSet(order) : j <= i})]]]

\* Applies an order of slate positions within each qualification tier: a slate
\* position takes the hit that the order has there among its peers.
Reranked(s, order) ==
  LET peers(i) == {j \in ToSet(order) : Qualified(s[j]) <=> Qualified(s[i])}
      ordered(i) == Those(order, {k \in DOMAIN order : order[k] \in peers(i)})
  IN [i \in DOMAIN s |->
        IF i \notin ToSet(order) THEN s[i]
        ELSE s[ordered(i)[Cardinality({j \in peers(i) : j <= i})]]]

-----------------------------------------------------------------------------
(* The answer.                                                             *)

\* Entities of the unqualified hits that a rare anchor routes to.
AnchoredEntities(s) ==
  {Entity(s[i].id) : i \in {j \in DOMAIN s : /\ ~Qualified(s[j])
                                             /\ world[s[j].id].anchored
                                             /\ Current(s[j].id)}}

\* A stable sort: qualified first, and hits of those entities first of each.
AnchorsLead(s) ==
  LET anchored == AnchoredEntities(s)
      part(q, a) == Those(s, {i \in DOMAIN s : /\ Qualified(s[i]) <=> q
                                               /\ Entity(s[i].id) \in anchored <=> a})
  IN IF anchored = {} THEN s
     ELSE part(TRUE, TRUE) \o part(TRUE, FALSE) \o part(FALSE, TRUE) \o part(FALSE, FALSE)

\* The unqualified hits, one for an entity.
CandidateHits(s) ==
  LET open == {i \in DOMAIN s : ~Qualified(s[i])}
      first == {i \in open : \A j \in open : j < i => Entity(s[j].id) # Entity(s[i].id)}
  IN SubSeq(Those(s, first), 1, Min({Cardinality(first), SlateLimit}))

\* Faulty variant: the hit next to the window is the only one considered.
RetainNext(s) ==
  IF Len(s) > Limit /\ Conflicted(s[Limit + 1]) /\ ~Exact(s[Limit])
  THEN [s EXCEPT ![Limit] = s[Limit + 1], ![Limit + 1] = s[Limit]] ELSE s

\* Conflicted hits beyond the limit change places with the last hits of the
\* window that are neither exact nor conflicted.
RetainConflicted(s) ==
  LET window == Ascending({i \in 1 .. Min({Limit, Len(s)}) :
                                   ~Exact(s[i]) /\ ~Conflicted(s[i])})
      beyond == Ascending({i \in Limit + 1 .. Len(s) : Conflicted(s[i])})
      n == Min({Len(window), Len(beyond)})
      out(k) == window[Len(window) - k + 1]
      partner(i) ==
        IF \E k \in 1 .. n : out(k) = i THEN beyond[CHOOSE k \in 1 .. n : out(k) = i]
        ELSE IF \E k \in 1 .. n : beyond[k] = i THEN out(CHOOSE k \in 1 .. n : beyond[k] = i)
        ELSE i
  IN [i \in DOMAIN s |-> s[partner(i)]]

Policy(s) == IF request.qualifiedOnly THEN Those(s, {i \in DOMAIN s : Qualified(s[i])}) ELSE s

AnswerOf(s) ==
  LET ranked == RetainConflicted(Policy(AnchorsLead(s))) IN
  [hits |-> SubSeq(ranked, 1, Min({Limit, Len(ranked)})),
   candidates |-> CandidateHits(AnchorsLead(s)),
   truncated |-> Len(ranked) > Limit]

NoAnswer == [hits |-> <<>>, candidates |-> <<>>, truncated |-> FALSE]

-----------------------------------------------------------------------------
(* The steps of a search, in the order of the code.                        *)

Step(from, to, next) ==
  /\ stage = from
  /\ stage' = to
  /\ hits' = next
  /\ UNCHANGED <<request, world, answer>>

\* Lexical and trigram rows, then the claims that anchors reach.
Gather == Step("start", "gathered", WithAnchored(LexicalCandidates))

\* Derived texts are staged on a copy: an error leaves the hits as they were.
Project == Step("gathered", "projected", WithProjections(hits))
ProjectFails == Step("gathered", "projected", hits)

\* The dense channel is disabled, fails on the way, or applies every hit.
DenseApplies ==
  \E applied \in 0 .. Cardinality(DenseFound) :
    Step("projected", "found", WithDense(hits, applied))

Fuse == Step("found", "fused", CitedAll(FusedOrder(hits)))

Recency == Step("fused", "recent", RecencyOrder(hits))

\* Only the claim surface has a reranker; a missing, skipped or failing one,
\* or an order that is no permutation of the slate, leaves the order alone.
RerankerFailsOpen == Step("recent", "ordered", hits)

RerankerOrders ==
  /\ request.surface = "claim"
  /\ \E order \in SetToSeqs(Slate(hits)) : Step("recent", "ordered", Reranked(hits, order))

Answer ==
  /\ stage = "ordered"
  /\ stage' = "answered"
  /\ answer' = AnswerOf(hits)
  /\ UNCHANGED <<request, world, hits>>

Init ==
  /\ request \in Requests
  /\ world \in Worlds
  /\ stage = "start"
  /\ hits = <<>>
  /\ answer = NoAnswer

Next ==
  \/ Gather
  \/ Project
  \/ ProjectFails
  \/ DenseApplies
  \/ Fuse
  \/ Recency
  \/ RerankerFailsOpen
  \/ RerankerOrders
  \/ Answer

Spec == Init /\ [][Next]_vars

-----------------------------------------------------------------------------
(* Properties.                                                             *)

ExactOf(s) == Those(s, {i \in DOMAIN s : Exact(s[i])})
IdsOf(s) == [i \in DOMAIN s |-> s[i].id]

\* Exact-tier ordering is model-independent (README.md): after every channel,
\* the fusion, recency and the reranker, the list begins with the exact hits,
\* in the order the lexical channel and recency alone give them.
ExactTierModelIndependent ==
  stage = "ordered" =>
    LET alone == RecencyOrder(FusedOrder(LexicalCandidates)) IN
    IsPrefix(IdsOf(ExactOf(alone)), IdsOf(hits)) /\ IdsOf(ExactOf(hits)) = IdsOf(ExactOf(alone))

\* Recency and the reranker reorder hits and do nothing else: none is lost or
\* listed twice, none changes places with a hit of another tier, and recency
\* moves none up by more than two.
OrderKeepsTiers ==
  [][(stage \in {"fused", "recent"} /\ stage' # stage) =>
       /\ Len(hits') = Len(hits) /\ Ids(hits') = Ids(hits)
       /\ \A i \in DOMAIN hits :
            /\ Exact(hits'[i]) <=> Exact(hits[i])
            /\ Qualified(hits'[i]) <=> Qualified(hits[i])
            /\ stage = "fused" =>
                 \E j \in i - Len(hits) .. i + RECENCY_MAX_PROMOTION :
                   j \in DOMAIN hits /\ hits[j].id = hits'[i].id]_vars

\* No unresolved conflict is cut off by the limit while the answer still holds
\* a hit that is neither exact nor conflicted.
ConflictsRetained ==
  stage = "answered" =>
    LET cut == {h \in ToSet(Policy(hits)) : Conflicted(h) /\ h.id \notin Ids(answer.hits)}
    IN cut # {} => /\ Len(answer.hits) = Limit
                   /\ \A i \in DOMAIN answer.hits :
                        Exact(answer.hits[i]) \/ Conflicted(answer.hits[i])

\* What an artifact of the answer cites. A qualified one cites the chunk with the
\* query's words wherever some chunk holds any: neither a derived text nor a
\* dense window takes its place. Where none does, it cites what a channel that
\* found it gave: a dense window only of a dense hit, and the evidence of a
\* derived text only where the row's own words do not qualify it.
QualifiedCitesWords ==
  stage \in {"fused", "recent", "ordered", "answered"} =>
    \A i \in DOMAIN hits :
      LET h == hits[i] IN
      world[h.id].type = "artifact" =>
        /\ Qualified(h) => (h.span = "lexical" <=> HasWordChunk(h))
        /\ h.span = "dense" => "dense" \in h.via
        /\ h.span = "projection" => "projection" \in h.via /\ ~LexicalQualified(h)

=============================================================================
