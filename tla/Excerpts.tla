------------------------------ MODULE Excerpts ------------------------------
(***************************************************************************)
(* The byte windows of src/src/service.rs: which part of a long text a     *)
(* recall shows, how that part is cited, and how citation.get hands out    *)
(* the cited bytes, a bounded piece per call.  Offsets are bytes, a text   *)
(* is made of characters of one and of three bytes, and a cut inside a     *)
(* character is an error where the code checks it and a panic where it     *)
(* slices.                                                                 *)
(*                                                                         *)
(* Abstractions: "a" is any one-byte character but the space "_", "w" any  *)
(* wide one; where the query terms occur is chosen; lower-casing keeps the *)
(* width of every character.                                               *)
(***************************************************************************)
EXTENDS Utf8

CONSTANTS
  Texts,       \* sequences of "a", "_" and "w"
  Terms,       \* terms that qualified a hit
  MaxMatches,  \* bound on the occurrences of terms (model bound)
  MaxExcerpts, \* values of max_excerpt_bytes
  FetchLimits  \* values of citation.get's max_bytes

ASSUME ExcerptsAssumption ==
  /\ Texts \subseteq Seq({"a", "_", "w"}) /\ IsFiniteSet(Terms)
  /\ MaxExcerpts \subseteq Nat /\ FetchLimits \subseteq {limit \in Nat : limit >= 4}

VARIABLES
  shown,   \* the excerpt a recall returned, with what it was cut from
  pieces   \* the byte ranges citation.get has returned for it, in order

excerptVars == <<shown, pieces>>

-----------------------------------------------------------------------------
Spaces(text) == CharStarts(text, {"_"})

-----------------------------------------------------------------------------
(* matched_window.                                                         *)

\* The distinct terms that start in a window at a position.
Covered(matches, at, max) ==
  {m.term : m \in {n \in matches : at <= n.at /\ n.at < at + max}}

\* The earliest position whose window covers most terms.
BestStart(matches, max) ==
  LET best == Max({Cardinality(Covered(matches, m.at, max)) : m \in matches})
  IN Min({m.at : m \in {n \in matches : Cardinality(Covered(matches, n.at, max)) = best}})

Panic == <<>>

\* A little context before the match, cut at a word where one begins in it.
\* The slice that is searched for a space ends `lead` bytes after a start that
\* has been snapped, which may be inside a character.
WindowAround(body, best, max) ==
  LET lead == max \div 4
      start == HeadBoundary(body, IF best > lead THEN best - lead ELSE 0)
      sliceEnd == start + Min({lead, Size(body) - start})
      spaces == {s \in Spaces(body) : start <= s /\ s < sliceEnd}
      words == IF start > 0 /\ spaces # {} /\ Min(spaces) + 1 <= best
               THEN Min(spaces) + 1 ELSE start
      end == HeadBoundary(body, Min({words + max, Size(body)}))
  IN IF start > 0 /\ sliceEnd \notin Boundaries(body) THEN Panic
     ELSE <<words, Max({end, words})>>

MatchedWindow(body, matches, max) ==
  IF Size(body) <= max THEN <<0, Size(body)>>
  ELSE IF matches = {} THEN <<0, HeadBoundary(body, max)>>
  ELSE WindowAround(body, BestStart(matches, max), max)

-----------------------------------------------------------------------------
(* Citations.                                                              *)

NoSpan == <<>>

\* Faulty variant: the window is taken for offsets into the whole revision.
RewrittenInPlace(span, start, end) ==
  IF span = NoSpan \/ start >= end THEN span ELSE <<start, end>>

\* rewrite_citation_span: a citation of the whole revision stays as it is.
Rewritten(span, start, end) ==
  IF span = NoSpan THEN span
  ELSE LET from == span[1] + start
           to == Min({span[1] + end, span[2]})
       IN IF from >= to THEN span ELSE <<from, to>>

\* window_citation: what names the shown bytes, which is the citation of the
\* hit for a whole span and nothing where that cannot be rewritten.
WindowCitation(span, start, end, size) ==
  IF start = 0 /\ end >= size THEN span
  ELSE IF Rewritten(span, start, end) = span THEN NoSpan
  ELSE Rewritten(span, start, end)

\* The spans of a text a hit may cite, the whole revision among them.
Spans(text) ==
  {NoSpan} \cup {s \in Boundaries(text) \X Boundaries(text) : s[1] < s[2]}

\* An artifact reference of a recall.
ShowArtifact ==
  /\ shown.stage = "none"
  /\ \E text \in Texts, max \in MaxExcerpts : \E span \in Spans(text) :
       LET body == IF span = NoSpan THEN text ELSE Slice(text, span[1], span[2])
           starts == Boundaries(body) \ {Size(body)}
       IN \E matches \in UNION {kSubset(k, [at : starts, term : Terms]) : k \in 0 .. MaxMatches} :
            LET w == MatchedWindow(body, matches, max)
                from == IF span = NoSpan THEN 0 ELSE span[1]
            IN shown' =
                 IF w = Panic THEN [stage |-> "panicked", text |-> body, max |-> max]
                 ELSE [stage |-> "shown", text |-> text, from |-> from + w[1],
                       to |-> from + w[2],
                       citation |-> WindowCitation(span, w[1], w[2], Size(body))]
  /\ UNCHANGED pieces

\* What validate_evidence accepts: a span inside the revision, whose ends may
\* be inside a character.
EvidenceSpans(text) ==
  {s \in (0 .. Size(text)) \X (0 .. Size(text)) : s[1] < s[2]}

\* evidence_reference: the head of the cited span, cited as a whole; the parts
\* of a split character are shown as replacement characters, and are left out
\* here.
ShowEvidence ==
  /\ shown.stage = "none"
  /\ \E text \in Texts, max \in MaxExcerpts : \E span \in EvidenceSpans(text) :
       LET body == Slice(text, span[1], span[2])
           end == HeadBoundary(body, Min({max, Size(body)}))
       IN shown' = [stage |-> "evidence", text |-> text, from |-> span[1],
                    to |-> span[1] + end, citation |-> span]
  /\ UNCHANGED pieces

\* The part of the citation that has not been returned yet.
Remaining ==
  <<IF pieces = <<>> THEN shown.citation[1] ELSE Last(pieces)[2], shown.citation[2]>>

\* build_citation_get of what remains: both ends are checked, and the piece
\* ends at the last boundary within the limit.
CitationGet ==
  /\ shown.stage \in {"shown", "evidence"} /\ shown.citation # NoSpan
  /\ Remaining[1] < Remaining[2]
  /\ \E limit \in FetchLimits :
       IF \/ Remaining[2] > Size(shown.text)
          \/ ~ (ToSet(Remaining) \subseteq Boundaries(shown.text))
       THEN shown' = [stage |-> "refused", of |-> shown] /\ UNCHANGED pieces
       ELSE /\ pieces' = Append(pieces,
                 <<Remaining[1],
                   HeadBoundary(shown.text, Min({Remaining[2], Remaining[1] + limit}))>>)
            /\ UNCHANGED shown

ExcerptsInit == shown = [stage |-> "none"] /\ pieces = <<>>

ExcerptsNext == ShowArtifact \/ ShowEvidence \/ CitationGet

ExcerptsSpec == ExcerptsInit /\ [][ExcerptsNext]_excerptVars

-----------------------------------------------------------------------------
Cited == shown.stage \in {"shown", "evidence"} /\ shown.citation # NoSpan

\* What was shown can be fetched, byte for byte: citation.get accepts every
\* citation a recall hands out but that of evidence recorded with an end inside
\* a character, each piece it returns holds something and starts where the
\* last one ended, and at the end they are the excerpt, or begin with it where
\* the excerpt is the head of its evidence.
CitedBytesAreShown ==
  /\ shown.stage = "refused" =>
       /\ shown.of.stage = "evidence" /\ pieces = <<>>
       /\ ~(ToSet(shown.of.citation) \subseteq Boundaries(shown.of.text))
  /\ Cited =>
       /\ \A i \in DOMAIN pieces : pieces[i][1] < pieces[i][2]
       /\ pieces # <<>> => pieces[1][1] = shown.from
       /\ pieces # <<>> /\ Remaining[1] = Remaining[2] =>
            \/ Last(pieces)[2] = shown.to
            \/ shown.stage = "evidence" /\ Last(pieces)[2] > shown.to

\* What the comment in matched_window says: the window is snapped to
\* character boundaries, so that every long text has one.
WindowAlwaysFound == shown.stage # "panicked"

-----------------------------------------------------------------------------
(* The inductive invariant behind it.                                      *)

Within(text, span) == ToSet(span) \subseteq Boundaries(text)

\* A citation begins where the excerpt does; it ends there too, unless it is of
\* evidence, whose excerpt may be shorter.
CitedRight ==
  /\ shown.citation \in Nat \X Nat /\ shown.citation[1] < shown.citation[2]
  /\ shown.from = shown.citation[1]
  /\ shown.stage = "shown" =>
       Within(shown.text, shown.citation) /\ shown.to = shown.citation[2]
  /\ shown.stage = "evidence" /\ Within(shown.text, shown.citation) =>
       shown.to \in Nat /\ shown.to <= shown.citation[2]

\* The pieces end between characters and inside the citation.
PiecesInOrder ==
  /\ pieces \in Seq(Nat \X Nat)
  /\ \A i \in DOMAIN pieces : pieces[i][1] < pieces[i][2]
  /\ pieces # <<>> =>
       /\ Cited /\ Within(shown.text, shown.citation)
       /\ pieces[1][1] = shown.citation[1]
       /\ Last(pieces)[2] \in Boundaries(shown.text)
       /\ Last(pieces)[2] <= shown.citation[2]

ExcerptsInv ==
  /\ shown.stage \in {"none", "panicked", "shown", "evidence", "refused"}
  /\ shown.stage \in {"shown", "evidence"} => shown.text \in Texts
  /\ Cited => CitedRight
  /\ PiecesInOrder
  /\ shown.stage = "refused" =>
       shown.of.stage = "evidence" /\ ~Within(shown.of.text, shown.of.citation)
=============================================================================
