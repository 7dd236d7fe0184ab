------------------------------- MODULE Bundle -------------------------------
(***************************************************************************)
(* The rendered part of context.build, build_bundle of                     *)
(* src/src/service.rs: the contradictions and the hits of a search, in     *)
(* their order, within a budget of bytes.  A claim is rendered whole or    *)
(* not at all; an artifact's excerpt may be cut, and says so.              *)
(*                                                                         *)
(* Abstractions: the fixed texts are their sizes; "n" is a newline, "w" a  *)
(* wide character; the title and the notices are part of a hit's header.   *)
(***************************************************************************)
EXTENDS Utf8

CONSTANTS
  Excerpted,    \* excerpts of hits, <<>> for a hit without text
  Budgets,      \* values of max_bytes
  FixedHeader,  \* bytes of the first lines
  Heading,      \* bytes of the heading of the contradictions
  ConflictLine, \* bytes of one contradiction
  HitHeader,    \* bytes of a hit's header
  Marker,       \* bytes of the mark of a cut excerpt
  Unavailable,  \* the text rendered for a hit without an excerpt
  MaxHits,      \* bound on the hits (model bound)
  MaxConflicts  \* bound on the contradictions (model bound)

ASSUME BundleAssumption ==
  /\ {FixedHeader, Heading, ConflictLine, HitHeader, Marker} \subseteq Nat \ {0}
  /\ Excerpted \cup {Unavailable} \subseteq Seq({"a", "n", "w"})
  /\ Budgets \subseteq Nat /\ {MaxHits, MaxConflicts} \subseteq Nat

VARIABLE bundle  \* the last bundle built, with what it was built from

\* split_inclusive, as byte ranges.
BundleLines(text) ==
  LET ends == LineEnds(text)
  IN [i \in DOMAIN ends |-> [from |-> IF i = 1 THEN 0 ELSE ends[i - 1], to |-> ends[i]]]

\* One line of render_untrusted_excerpt: quoted, and cut between characters
\* where the line does not fit, which ends the excerpt.
QuoteLine(text, max, done, line) ==
  LET room == max - done.size
      to == HeadBoundary(text, Min({line.to, line.from + room - 2}))
  IN IF done.cut \/ room <= 2 THEN [done EXCEPT !.cut = TRUE]
     ELSE [size |-> done.size + 2 + to - line.from,
           included |-> done.included + to - line.from,
           cut |-> to < line.to]

Quoted(text, max) ==
  FoldLeft(LAMBDA done, line : QuoteLine(text, max, done, line),
           [size |-> 0, included |-> 0, cut |-> FALSE], BundleLines(text))

\* usize::MAX: a line has a byte and takes two more.
Unbounded(text) == 3 * Size(text)

\* The contradictions: as many lines as fit after the heading.
ConflictBytes(conflicts, max, used) ==
  LET room == max - used - Heading
      listed == Min({conflicts, room \div ConflictLine})
      lines == Heading + listed * ConflictLine
  IN IF conflicts = 0 \/ room < 0 THEN 0
     ELSE IF used + lines < max THEN lines + 1 ELSE lines

Omit(acc) == [acc EXCEPT !.omitted = @ + 1]

Include(acc, i, excerptBytes, included, cut) ==
  [acc EXCEPT !.used = @ + HitHeader + excerptBytes + 1,
              !.manifest = Append(@, [hit |-> i, included |-> included, cut |-> cut])]

\* Faulty variant: an excerpt that does not fit is cut, whatever it is of.
TakeHitCut(acc, i, hit, max) ==
  LET budget == max - acc.used - HitHeader - 1
      whole == Quoted(hit.text, Unbounded(hit.text))
      cut == Quoted(hit.text, budget - Marker)
  IN IF budget <= Marker + 2 THEN Omit(acc)
     ELSE IF whole.size <= budget THEN Include(acc, i, whole.size, Size(hit.text), FALSE)
     ELSE Include(acc, i, cut.size + Marker, cut.included, TRUE)

\* One hit of build_bundle.
TakeHit(acc, i, hit, max) ==
  LET remaining == max - acc.used
      budget == remaining - HitHeader - 1
      source == IF hit.text = <<>> THEN Unavailable ELSE hit.text
      whole == Quoted(source, Unbounded(source))
      cut == Quoted(source, budget - Marker)
  IN IF remaining <= HitHeader + 3 THEN Omit(acc)
     ELSE IF whole.size <= budget
     THEN Include(acc, i, whole.size, IF hit.text = <<>> THEN 0 ELSE whole.included, FALSE)
     ELSE IF hit.type = "claim" \/ hit.text = <<>> \/ budget <= Marker + 2 THEN Omit(acc)
     ELSE Include(acc, i, cut.size + Marker, cut.included, TRUE)

BuildBundle(hits, conflicts, max) ==
  LET header == Min({FixedHeader, max})
      start == [used |-> header + ConflictBytes(conflicts, max, header),
                manifest |-> <<>>, omitted |-> 0]
  IN FoldLeftDomain(LAMBDA acc, i : TakeHit(acc, i, hits[i], max), start, hits)

\* context.build answers with the bundle of what its search and its conflicts are.
Build ==
  \E max \in Budgets, conflicts \in 0 .. MaxConflicts, n \in 0 .. MaxHits :
    \E hits \in [1 .. n -> [type : {"claim", "artifact"}, text : Excerpted]] :
      LET built == BuildBundle(hits, conflicts, max)
      IN bundle' = [hits |-> hits, max |-> max, used |-> built.used,
                    manifest |-> built.manifest, omitted |-> built.omitted]

NoBundle == [hits |-> <<>>, max |-> 0, used |-> 0, manifest |-> <<>>, omitted |-> 0]

BundleInit == bundle = NoBundle

BundleNext == bundle = NoBundle /\ Build

BundleSpec == BundleInit /\ [][BundleNext]_bundle

\* A bundle stays within its budget, accounts for every hit and keeps their
\* order; no claim in it is cut ("a partial statement can invert its meaning"),
\* and an artifact's excerpt is whole or says that it is cut, between characters.
BundleFaithful ==
  /\ bundle.used <= bundle.max
  /\ Len(bundle.manifest) + bundle.omitted = Len(bundle.hits)
  /\ \A i \in DOMAIN bundle.manifest :
       LET item == bundle.manifest[i]
           hit == bundle.hits[item.hit]
       IN /\ i > 1 => bundle.manifest[i - 1].hit < item.hit
          /\ item.cut => hit.type = "artifact"
          /\ item.cut <=> item.included < Size(hit.text)
          /\ item.included \in Boundaries(hit.text)
=============================================================================
