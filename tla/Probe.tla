------------------------------- MODULE Probe -------------------------------
(***************************************************************************)
(* memory.probe and the recovery half of memory.retrieve                   *)
(* (src/src/service.rs): unqualified candidates become leads, leads get    *)
(* exact sources, and the bytes of some sources become the packet.         *)
(*                                                                         *)
(* Abstractions: a source is a revision and the set of cells (runs of      *)
(* bytes) a locator names in it, the empty set for a locator of the whole  *)
(* revision; one cell is one unit of every byte budget.  Which candidates  *)
(* the two searches find, what the local model resolves a whole revision   *)
(* to, and which bytes are relevant to the question is chosen.             *)
(***************************************************************************)
EXTENDS Integers, SequencesExt

CONSTANTS
  ClaimEvidence,     \* evidence lists a candidate claim may have
  RawSources,        \* sources of candidate artifacts
  MaxClaims,         \* bound on the candidate claims (model bound)
  MaxRaw,            \* bound on the candidate artifacts (model bound)
  LeadLimits,        \* values of max_leads
  MaxSources,        \* MAX_PROBE_SOURCES_PER_LEAD
  MaxLeadBytes,      \* MAX_PROBE_EVIDENCE_BYTES_PER_LEAD
  MaxSpanBytes,      \* the most that is fetched from one source
  MaxPacketBytes,    \* max_recovery_bytes
  Binary             \* revisions whose content is not text

ASSUME ProbeAssumption == LeadLimits \subseteq Nat /\ {MaxClaims, MaxRaw} \subseteq Nat

VARIABLES
  leads,      \* the leads of the probe, in order
  rank,       \* the lead whose sources are resolved or fetched next
  packet,     \* the recovery evidence
  stage,      \* what the call does next
  searched    \* the groups the leads were ordered from, and max_leads

probeVars == <<leads, rank, packet, stage, searched>>

RAW_FLOOR == 2

Revs == {s.rev : s \in RawSources} \cup
        {s.rev : s \in UNION {ToSet(evidence) : evidence \in ClaimEvidence}}

-----------------------------------------------------------------------------
(* Leads.                                                                  *)

IsClaim(group) == group.kind = "claim"

\* A claim is grouped under the revision of its first evidence, an artifact
\* under its own: a claim and a raw passage are never the same lead.
GroupKey(hit) == <<hit.kind, hit.source.rev>>

\* Claims and artifacts in turns, until one of them has no more.
Interleaved(claims, raw) ==
  LET turns == Min({Len(claims), Len(raw)})
      longer == IF Len(claims) > Len(raw) THEN claims ELSE raw
  IN [i \in 1 .. (Len(claims) + Len(raw)) |->
        IF i > 2 * turns THEN longer[i - turns]
        ELSE IF i % 2 = 1 THEN claims[(i + 1) \div 2] ELSE raw[i \div 2]]

\* The first hit of a group stands for it.
Join(groups, hit) ==
  IF \E g \in ToSet(groups) : GroupKey(g) = GroupKey(hit) THEN groups ELSE Append(groups, hit)

GroupLeads(claims, raw) ==
  FoldLeft(LAMBDA groups, hit : Join(groups, hit), <<>>, Interleaved(claims, raw))

\* Faulty variant: a claim stands for the whole revision it cites.
OverlapInRevision(left, right) == left.rev = right.rev

\* source_candidates_overlap: the two name bytes in common.
Overlap(left, right) == left.rev = right.rev /\ left.cells \cap right.cells # {}

\* The elements of a list at some of its indices, in their order: the k-th has
\* k - 1 of the indices below its own.
Chosen(list, indices) ==
  [k \in 1 .. Cardinality(indices) |->
     list[CHOOSE i \in indices : Cardinality({j \in indices : j < i}) = k - 1]]

\* order_candidate_leads: claims lead, but raw passages keep two of the slots;
\* either kind takes the slots the other leaves.
OrderLeads(groups, max) ==
  LET ofClaims == {i \in DOMAIN groups : IsClaim(groups[i])}
      apart == {i \in DOMAIN groups : ~IsClaim(groups[i]) /\
                  \A c \in ofClaims : ~Overlap(groups[c].source, groups[i].source)}
      claims == Chosen(groups, ofClaims)
      raw == Chosen(groups, apart)
      floor == Min({RAW_FLOOR, max})
      preferred == max - floor
      some == Min({preferred, Len(claims)})
      rawCount == Min({Min({floor, Len(raw)}) + preferred - some, Len(raw)})
      claimCount == Min({some + (IF rawCount < floor THEN floor - rawCount ELSE 0),
                         Len(claims)})
  IN SubSeq(claims, 1, claimCount) \o SubSeq(raw, 1, rawCount)
     \o SubSeq(claims, claimCount + 1, Len(claims)) \o SubSeq(raw, rawCount + 1, Len(raw))

\* The two searches of a probe, whose candidates are grouped and ordered.
Search ==
  /\ stage = "search"
  /\ \E claims \in UNION {[1 .. n -> ClaimEvidence] : n \in 0 .. MaxClaims},
        raw \in UNION {[1 .. n -> RawSources] : n \in 0 .. MaxRaw}, max \in LeadLimits :
       LET claimHits == [i \in DOMAIN claims |-> [kind |-> "claim", evidence |-> claims[i],
                                                  source |-> claims[i][1]]]
           rawHits == [i \in DOMAIN raw |-> [kind |-> "raw", evidence |-> <<>>,
                                             source |-> raw[i]]]
           groups == GroupLeads(claimHits, rawHits)
           ordered == OrderLeads(groups, max)
       IN /\ leads' = [i \in 1 .. Min({max, Len(ordered)}) |-> ordered[i]]
          /\ searched' = [groups |-> ToSet(groups), max |-> max]
  /\ rank' = 1 /\ stage' = "sources"
  /\ UNCHANGED packet

-----------------------------------------------------------------------------
(* Sources.                                                                *)

Used(sources) == FoldLeft(LAMBDA n, s : n + Cardinality(s.cells), 0, sources)

\* A source is added while there is room for it; what is left out is said.
Add(acc, source) ==
  IF \/ acc.stopped \/ Len(acc.sources) >= MaxSources
     \/ Used(acc.sources) + Cardinality(source.cells) > MaxLeadBytes
  THEN [acc EXCEPT !.complete = FALSE, !.stopped = TRUE]
  ELSE [acc EXCEPT !.sources = Append(@, source)]

AddAll(acc, sources) == FoldLeft(Add, acc, sources)

\* One locator: exact, resolved by the local model to windows of the revision
\* (which may miss clauses of the claim), or named as a whole.
AddLocator(acc, locator, windows, wholly) ==
  IF locator.cells # {}
  THEN Add(acc, [rev |-> locator.rev, cells |-> locator.cells, origin |-> "claim_exact"])
  ELSE IF windows = <<>>
  THEN Add(acc, [rev |-> locator.rev, cells |-> {}, origin |-> "revision_only"])
  ELSE [AddAll([acc EXCEPT !.complete = @ /\ wholly],
               [i \in DOMAIN windows |-> [rev |-> locator.rev, cells |-> windows[i],
                                          origin |-> "semantic_resolved"]])
          EXCEPT !.stopped = acc.stopped]

\* resolve_probe_evidence_spans: windows the model names in a revision,
\* disjoint and not empty.  Without a ready index, or where the artifact is
\* out of the horizon or binary, there are none.
Resolutions(rev) == {<<>>} \cup (IF rev \in Binary THEN {} ELSE {<<{1}>>, <<{1}, {2}>>})

\* build_probe_sources for a claim: its locators without repetitions.
ClaimSources ==
  /\ stage = "sources" /\ rank <= Len(leads) /\ IsClaim(leads[rank])
  /\ \E windows \in [Revs -> UNION {Resolutions(rev) : rev \in Revs}], wholly \in BOOLEAN :
       /\ \A rev \in Revs : windows[rev] \in Resolutions(rev)
       /\ LET locators == SetToSeq(ToSet(leads[rank].evidence))
              built == FoldLeft(LAMBDA acc, l : AddLocator(acc, l, windows[l.rev], wholly),
                                [sources |-> <<>>, complete |-> TRUE, stopped |-> FALSE],
                                locators)
          IN leads' = [leads EXCEPT ![rank] =
               [kind |-> "claim", evidence |-> @.evidence, source |-> @.source,
                sources |-> built.sources, complete |-> built.complete]]
  /\ rank' = rank + 1
  /\ UNCHANGED <<packet, stage, searched>>

\* resolve_probe_artifact_window: a long passage may be narrowed by the model
\* to some of its bytes.
Narrowed(source) ==
  {[rev |-> source.rev, cells |-> cells, origin |-> "semantic_windowed"] :
     cells \in SUBSET source.cells \ {{}, source.cells}}

\* A raw passage is its own source.
RawSource ==
  /\ stage = "sources" /\ rank <= Len(leads) /\ ~IsClaim(leads[rank])
  /\ LET lead == leads[rank]
         whole == [rev |-> lead.source.rev, cells |-> lead.source.cells, origin |-> "artifact"]
     IN \E source \in {whole} \cup Narrowed(lead.source) :
          leads' = [leads EXCEPT ![rank] =
            [kind |-> "raw", evidence |-> <<>>, source |-> lead.source,
             sources |-> <<source>>, complete |-> TRUE]]
  /\ rank' = rank + 1
  /\ UNCHANGED <<packet, stage, searched>>

\* The probe is complete; memory.retrieve goes on to fetch.
Fetching ==
  /\ stage = "sources" /\ rank > Len(leads)
  /\ stage' = "fetch" /\ rank' = 1
  /\ UNCHANGED <<leads, packet, searched>>

-----------------------------------------------------------------------------
(* The packet.                                                             *)

\* Only evidence attached to a claim, of which citation.get returns text.
Fetchable(source) ==
  /\ source.origin \in {"claim_exact", "semantic_resolved"}
  /\ source.rev \notin Binary

\* The first n cells of a source.
Prefix(cells, n) == {c \in cells : Cardinality({d \in cells : d < c}) < n}

\* The first source of the next lead that can be fetched, cut to what is left
\* of the byte budget.
Fetch ==
  /\ stage = "fetch" /\ rank <= Len(leads)
  /\ LET left == MaxPacketBytes - Used(packet)
         usable == {i \in DOMAIN leads[rank].sources : Fetchable(leads[rank].sources[i])}
         source == leads[rank].sources[Min(usable)]
     IN IF left = 0 \/ usable = {} THEN UNCHANGED packet
        ELSE packet' = Append(packet,
               [rev |-> source.rev, lead |-> rank,
                cells |-> Prefix(source.cells, Min({left, MaxSpanBytes}))])
  /\ rank' = rank + 1
  /\ UNCHANGED <<leads, stage, searched>>

\* Spans without a word of the question are withheld unless an anchor of the
\* claim asked for them; those lead the packet.
Answer ==
  /\ stage = "fetch" /\ rank > Len(leads)
  /\ \E anchored \in SUBSET ToSet(packet) :
       \E related \in SUBSET (ToSet(packet) \ anchored) :
         packet' = SelectSeq(packet, LAMBDA item : item \in anchored)
                   \o SelectSeq(packet, LAMBDA item : item \in related)
  /\ stage' = "answered"
  /\ UNCHANGED <<leads, rank, searched>>

ProbeInit ==
  /\ leads = <<>> /\ rank = 1 /\ packet = <<>> /\ stage = "search"
  /\ searched = [groups |-> {}, max |-> 0]

ProbeNext == Search \/ ClaimSources \/ RawSource \/ Fetching \/ Fetch \/ Answer

ProbeSpec == ProbeInit /\ [][ProbeNext]_probeVars

-----------------------------------------------------------------------------
\* The raw passages no claim names bytes of.
RawApart ==
  {g \in searched.groups : ~IsClaim(g) /\
     \A c \in searched.groups : IsClaim(c) =>
       c.source.rev # g.source.rev \/ c.source.cells \cap g.source.cells = {}}

\* A stale claim cannot hide a fresh correction: of the raw passages that name
\* other bytes than the candidate claims, two always have a lead, also those
\* in a revision a claim cites elsewhere or as a whole; and claims are not
\* crowded out in turn.
RawLeadsReserved ==
  stage = "sources" /\ rank = 1 =>
    LET raw == {i \in DOMAIN leads : ~IsClaim(leads[i])}
        claims == {g \in searched.groups : IsClaim(g)}
    IN /\ Cardinality(raw) >= Min({RAW_FLOOR, searched.max, Cardinality(RawApart)})
       /\ Len(leads) - Cardinality(raw)
            >= Min({searched.max - RAW_FLOOR, Cardinality(claims)})
       /\ Len(leads) = Min({searched.max, Cardinality(claims) + Cardinality(RawApart)})

=============================================================================
