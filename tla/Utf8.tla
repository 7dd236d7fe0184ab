-------------------------------- MODULE Utf8 --------------------------------
(***************************************************************************)
(* Byte offsets into UTF-8 text, as src/src/store.rs and                   *)
(* src/src/service.rs use them: a text is a sequence of characters, "w"    *)
(* any character of three bytes and every other character of one, and a    *)
(* span is a pair of offsets, from and to.                                 *)
(***************************************************************************)
EXTENDS Integers, SequencesExt

\* The bytes of the first n characters.
Offset(text, n) == n + 2 * Cardinality({i \in 1 .. n : text[i] = "w"})

Size(text) == Offset(text, Len(text))

Boundaries(text) == {Offset(text, n) : n \in 0 .. Len(text)}

\* floor_char_boundary, head_boundary and truncate_utf8: the last boundary up
\* to a byte.
HeadBoundary(text, end) == Max({b \in Boundaries(text) : b <= end})

\* The characters of some kinds, by their first byte.
CharStarts(text, kinds) ==
  {Offset(text, i - 1) : i \in {j \in DOMAIN text : text[j] \in kinds}}

\* The same characters, by the byte after them.
CharEnds(text, kinds) ==
  {Offset(text, i) : i \in {j \in DOMAIN text : text[j] \in kinds}}

\* Some offsets in ascending order: the i-th has i - 1 of them below it.
AscendingOffsets(offsets) ==
  [i \in 1 .. Cardinality(offsets) |->
     CHOOSE b \in offsets : Cardinality({c \in offsets : c < b}) = i - 1]

\* split_inclusive: the byte after each line, which ends after a newline, or
\* with the text.
LineEnds(text) ==
  AscendingOffsets({b \in 1 .. Size(text) : b \in CharEnds(text, {"n"}) \/ b = Size(text)})

\* The characters between two boundaries: what a citation with a span names.
Slice(text, from, to) ==
  LET in == {i \in DOMAIN text : from <= Offset(text, i - 1) /\ Offset(text, i) <= to}
  IN IF in = {} THEN <<>> ELSE SubSeq(text, Min(in), Max(in))
=============================================================================
