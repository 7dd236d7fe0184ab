------------------------------- MODULE Chunks -------------------------------
(***************************************************************************)
(* How src/src/store.rs cuts a revision: into authority chunks, which FTS  *)
(* indexes, integrity.verify recomputes and citations are spans of, and    *)
(* each chunk into overlapping windows small enough for the embedding      *)
(* model, whose hits must resolve to bytes of one chunk.                   *)
(*                                                                         *)
(* Characters: "n" a newline, "_" another white space, "." the end of a    *)
(* sentence, "#" a heading mark, "~" a fence mark, "a" another one-byte    *)
(* character, "w" a wide one.  The sizes are constants, scaled down        *)
(* together; a fence mark is one character and not three, and a title is   *)
(* short enough to be one window.                                          *)
(***************************************************************************)
EXTENDS Utf8

CONSTANTS
  Bodies,               \* the texts of revisions
  TargetBytes,          \* ARTIFACT_CHUNK_TARGET_BYTES
  ChunkMax,             \* ARTIFACT_CHUNK_MAX_BYTES
  MinTail,              \* ARTIFACT_CHUNK_MIN_TAIL_BYTES
  WindowMax,            \* SEMANTIC_WINDOW_MAX_BYTES
  WindowPreferred,      \* SEMANTIC_WINDOW_PREFERRED_MIN_BYTES
  WindowOverlap         \* SEMANTIC_WINDOW_OVERLAP_BYTES

ASSUME ChunksAssumption ==
  /\ 0 < MinTail /\ MinTail <= TargetBytes /\ TargetBytes < ChunkMax /\ 3 <= ChunkMax
  /\ 2 <= WindowOverlap /\ WindowOverlap + 2 <= WindowPreferred
  /\ WindowPreferred + 2 <= WindowMax
  /\ {TargetBytes, ChunkMax, MinTail, WindowMax, WindowPreferred, WindowOverlap} \subseteq Nat
  /\ Bodies \subseteq Seq({"n", "_", ".", "#", "~", "a", "w"})

VARIABLES
  held,    \* the revision: its search_text, and whether that is its bytes
  rows,    \* body rows of artifact_chunk_fts, by ordinal: their spans
  windows  \* the documents of the last semantic rebuild, as spans of the revision

chunkVars == <<held, rows, windows>>

Span(from, to) == [from |-> from, to |-> to]

White == {"n", "_"}

-----------------------------------------------------------------------------
(* artifact_chunk_spans.                                                   *)

\* split_inclusive: a line ends after a newline, or with the text.
LinesOf(text) ==
  LET ends == LineEnds(text)
  IN [i \in DOMAIN ends |-> Span(IF i = 1 THEN 0 ELSE ends[i - 1], ends[i])]

\* The first character of a line that is not white space, or a blank.
Mark(text, line) ==
  LET written == SelectSeq(Slice(text, line.from, line.to), LAMBDA ch : ch \notin White)
  IN IF written = <<>> THEN "_" ELSE Head(written)

\* One line of artifact_structural_blocks: a block is open from `from`.
TakeLine(text, open, line) ==
  LET mark == Mark(text, line)
      closes == mark = "~" /\ open.fenced
      before == /\ line.from > open.from
                /\ mark \in {"#", "~"} /\ ~open.fenced
      start == IF before THEN line.from ELSE open.from
      after == closes \/ (mark = "_" /\ ~open.fenced)
  IN [blocks |-> open.blocks
                 \o (IF before THEN <<Span(open.from, line.from)>> ELSE <<>>)
                 \o (IF after THEN <<Span(start, line.to)>> ELSE <<>>),
      from |-> IF after THEN line.to ELSE start,
      fenced |-> IF mark = "~" THEN ~open.fenced ELSE open.fenced]

StructuralBlocks(text) ==
  LET lines == FoldLeft(LAMBDA open, line : TakeLine(text, open, line),
                        [blocks |-> <<>>, from |-> 0, fenced |-> FALSE], LinesOf(text))
  IN lines.blocks \o (IF lines.from < Size(text)
                      THEN <<Span(lines.from, Size(text))>> ELSE <<>>)

\* Faulty variant: the limit is taken as it is, inside a character or not.
SplitUnsnapped(text, start) == start + ChunkMax

\* preferred_artifact_split: after a blank line, after a line, after a
\* sentence, before white space, or at the limit; the last such place between
\* the target and the limit.
PreferredSplit(text, start) ==
  LET ceiling == HeadBoundary(text, start + ChunkMax)
      places == {b \in Boundaries(text) : start + TargetBytes <= b /\ b < ceiling}
      lineEnds == CharEnds(text, {"n"}) \cap (start + 1 .. ceiling)
      blank == {b \in places \cap lineEnds : b - 1 \in lineEnds}
      sentence == places \cap CharEnds(text, {"."}) \cap CharStarts(text, White)
      tries == <<blank, places \cap lineEnds, sentence, places \cap CharStarts(text, White),
                 {ceiling}>>
  IN Max(tries[Min({i \in DOMAIN tries : tries[i] # {}})])

SplitOversized(text, block) ==
  LET rest[start \in block.from .. block.to] ==
        IF block.to - start > ChunkMax
        THEN <<Span(start, PreferredSplit(text, start))>> \o rest[PreferredSplit(text, start)]
        ELSE IF start < block.to THEN <<Span(start, block.to)>> ELSE <<>>
  IN rest[block.from]

\* One block: alone when it is too large, with the chunk that is open when the
\* two stay near the target or that chunk is short, or as the next open chunk.
TakeBlock(text, open, block) ==
  LET current == IF open.from < open.to THEN <<Span(open.from, open.to)>> ELSE <<>>
      combined == block.to - open.from
  IN IF block.to - block.from > ChunkMax
     THEN [chunks |-> open.chunks \o current \o SplitOversized(text, block),
           from |-> block.to, to |-> block.to]
     ELSE IF current = <<>> THEN [open EXCEPT !.from = block.from, !.to = block.to]
     ELSE IF \/ combined <= TargetBytes
             \/ open.to - open.from < MinTail /\ combined <= ChunkMax
     THEN [open EXCEPT !.to = block.to]
     ELSE [chunks |-> open.chunks \o current, from |-> block.from, to |-> block.to]

\* A short tail joins the chunk before it where the two fit.
TailJoined(chunks) ==
  LET n == Len(chunks)
  IN IF /\ n >= 2
        /\ chunks[n].to - chunks[n].from < MinTail
        /\ chunks[n].to - chunks[n - 1].from <= ChunkMax
     THEN Append(SubSeq(chunks, 1, n - 2), Span(chunks[n - 1].from, chunks[n].to))
     ELSE chunks

ChunkSpans(text) ==
  LET blocks == FoldLeft(LAMBDA open, block : TakeBlock(text, open, block),
                         [chunks |-> <<>>, from |-> 0, to |-> 0], StructuralBlocks(text))
  IN TailJoined(blocks.chunks
                \o IF blocks.from < blocks.to THEN <<Span(blocks.from, blocks.to)>> ELSE <<>>)

-----------------------------------------------------------------------------
(* semantic_window_spans, of one chunk.                                    *)

\* preferred_semantic_window_end.
WindowEnd(text, start) ==
  LET ceiling == HeadBoundary(text, Min({start + WindowMax, Size(text)}))
      late == {b \in Boundaries(text) : start + WindowPreferred <= b /\ b <= ceiling}
      tries == <<late \cap CharEnds(text, {".", "n"}), late \cap CharEnds(text, White), {ceiling}>>
  IN IF ceiling = Size(text) THEN ceiling
     ELSE Max(tries[Min({i \in DOMAIN tries : tries[i] # {}})])

\* nearest_word_boundary: forward only, within half the overlap.
WordBoundary(text, desired, minimum, maximum) ==
  LET lower == HeadBoundary(text, Max({desired, minimum}))
      upper == HeadBoundary(text, Min({desired + WindowOverlap \div 2, maximum}))
      words == {b \in CharEnds(text, White) : lower < b /\ b <= upper /\ b < maximum}
      near == {b \in words : minimum <= b}
  IN IF near = {} THEN lower ELSE Min(near)

\* The next window starts an overlap before the end of this one, and after its
\* start by a character at least.
NextStart(text, start, end) ==
  LET next == WordBoundary(text, Max({0, end - WindowOverlap}), start + 1, end)
  IN IF next <= start THEN Min({b \in Boundaries(text) : b > start}) ELSE next

WindowSpans(text) ==
  LET rest[start \in 0 .. Size(text)] ==
        LET end == WindowEnd(text, start)
        IN IF end = Size(text) THEN <<Span(start, end)>>
           ELSE <<Span(start, end)>> \o rest[NextStart(text, start, end)]
  IN IF text = <<>> THEN <<>> ELSE rest[0]

-----------------------------------------------------------------------------
(* What is indexed, embedded and found.                                    *)

\* index_artifact_revision_chunks of an append, whose search_text is the bytes
\* or nothing.
PutRevision(text, textual) ==
  /\ held' = [text |-> IF textual THEN text ELSE <<>>, identical |-> textual]
  /\ rows' = ChunkSpans(held'.text)
  /\ windows' = <<>>

\* rebuild_artifact_chunk_index: a text that is not its bytes has no rows.
RebuildChunks(revision) == IF revision.identical THEN ChunkSpans(revision.text) ELSE <<>>

\* A store of an older schema, whose text may be a lossy conversion, migrated.
Migrate(text, identical) ==
  /\ held' = [text |-> text, identical |-> identical]
  /\ rows' = RebuildChunks(held')
  /\ windows' = <<>>

Reindex == rows' = RebuildChunks(held) /\ UNCHANGED <<held, windows>>

\* Faulty variant: the windows are cut from the revision and not from its chunks.
DocumentsOfRevision(text, chunks) == WindowSpans(text)

\* The artifact documents of semantic_documents: the windows of every chunk, at
\* their offsets in the revision.
Documents(text, chunks) ==
  FoldLeft(LAMBDA acc, chunk :
             acc \o LET cut == WindowSpans(Slice(text, chunk.from, chunk.to))
                    IN [i \in DOMAIN cut |-> Span(chunk.from + cut[i].from,
                                                  chunk.from + cut[i].to)],
           <<>>, chunks)

Embed == windows' = Documents(held.text, rows) /\ UNCHANGED <<held, rows>>

\* apply_semantic_span: the smallest chunk that holds a hit, cut on characters.
Resolves(text, chunks, hit) ==
  /\ \E i \in DOMAIN chunks : chunks[i].from <= hit.from /\ hit.to <= chunks[i].to
  /\ hit.from < hit.to
  /\ {hit.from, hit.to} \subseteq Boundaries(text)

ChunksInit ==
  /\ held = [text |-> <<>>, identical |-> TRUE]
  /\ rows = <<>>
  /\ windows = <<>>

ChunksNext ==
  \/ held.text = <<>> /\ \E text \in Bodies :
       \/ \E textual \in BOOLEAN : PutRevision(text, textual)
       \/ \E identical \in BOOLEAN : Migrate(text, identical)
  \/ Reindex
  \/ Embed

ChunksSpec == ChunksInit /\ [][ChunksNext]_chunkVars

-----------------------------------------------------------------------------

\* The rows of a revision are a dense, exact partition of its bytes into chunks
\* no larger than the limit, cut between characters, and a text that is not the
\* revision's bytes has none: debug_assert_artifact_chunk_partition, which
\* release builds leave out, and the refusal of integrity.verify.
ChunksPartition ==
  LET size == IF held.identical THEN Size(held.text) ELSE 0
  IN /\ size > 0 => rows # <<>> /\ rows[1].from = 0 /\ Last(rows).to = size
     /\ size = 0 => rows = <<>>
     /\ \A i \in DOMAIN rows :
          /\ rows[i].from < rows[i].to /\ rows[i].to - rows[i].from <= ChunkMax
          /\ {rows[i].from, rows[i].to} \subseteq Boundaries(held.text)
          /\ i > 1 => rows[i - 1].to = rows[i].from

\* The windows of a rebuild leave no byte of a chunk out, are small enough for
\* the model, overlap inside a chunk, advance by a length that bounds their
\* number ("bounds progress even for adversarial whitespace"), and each resolves
\* to an exact slice of one chunk, so that no hit fails a search.
WindowsCover ==
  windows # <<>> =>
    /\ \A i \in DOMAIN windows :
         /\ windows[i].to - windows[i].from <= WindowMax
         /\ Resolves(held.text, rows, windows[i])
    /\ windows[1].from = 0 /\ Last(windows).to = Size(held.text)
    /\ \A i \in 2 .. Len(windows) :
         LET last == windows[i - 1]
             next == windows[i]
         IN \/ next.from = last.to /\ \E j \in DOMAIN rows : rows[j].to = last.to
            \/ /\ last.from + (WindowPreferred - WindowOverlap - 2) <= next.from
               /\ last.from < next.from /\ next.from < last.to
=============================================================================
