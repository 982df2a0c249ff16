---------------------------- MODULE TextChunker ----------------------------
(***************************************************************************)
(* TextChunker (src/src/rag/text_chunker.cpp): a text is cut into ranges   *)
(* of tokens of bounded length that overlap.  A text is a sequence of      *)
(* tokens; Blank stands for a token of white space only.                   *)
(*                                                                         *)
(* Ue5ChunkManifestBuilder (src/server/ue5_chunk_manifest.cpp) cuts a      *)
(* source file into windows of lines.  A line is the number of its tokens, *)
(* 0 when it is white space.                                               *)
(***************************************************************************)
EXTENDS Integers, SequencesExt

CONSTANT Blank

\* A slip: a range starts behind the end of the one before it.
ComputeRangesAhead(count, target, overlap) ==
  LET End(start) == Min({start + Max({1, target}), count})
      from[start \in 0..count] ==
        <<<<start, End(start)>>>> \o IF End(start) = count THEN <<>>
                                    ELSE from[Min({count - 1, End(start) + Max({0, overlap})})]
  IN  IF count <= 0 THEN <<>> ELSE from[0]

\* Ranges <<first, last>> of positions, first exclusive.
ComputeRanges(count, target, overlap) ==
  LET size == Max({1, target})
      End(start) == Min({start + size, count})
      Proposed(start) == End(start) - Max({0, overlap})
      Next(start) == IF Proposed(start) > start THEN Proposed(start) ELSE End(start)
      from[start \in 0..count] ==
        <<<<start, End(start)>>>> \o IF End(start) = count THEN <<>> ELSE from[Next(start)]
  IN  IF count <= 0 THEN <<>> ELSE from[0]

\* The elements of s other than x, in their order; Remove of SequencesExt, as a
\* recursion over prefixes.
Without(s, x) ==
  LET kept[n \in 0..Len(s)] ==
        IF n = 0 THEN <<>>
        ELSE IF s[n] = x THEN kept[n - 1] ELSE Append(kept[n - 1], s[n])
  IN  kept[Len(s)]

IsBlank(text) == \A i \in DOMAIN text : text[i] = Blank

TrimWS(text) ==
  IF IsBlank(text) THEN <<>>
  ELSE LET words == {i \in DOMAIN text : text[i] # Blank}
       IN  SubSeq(text, Min(words), Max(words))

\* With a vocabulary the text is cut at tokens and each piece trimmed, without
\* one it is cut at words.  A short text is kept as it is, and so is a text none
\* of whose pieces has a word.
Tokens(text, vocab) == IF vocab THEN text ELSE Without(text, Blank)

Short(text, vocab, target) == Len(Tokens(text, vocab)) <= Max({1, target})

Pieces(text, vocab, target, overlap) ==
  LET tokens == Tokens(text, vocab)
      ranges == ComputeRanges(Len(tokens), target, overlap)
      pieces == [r \in DOMAIN ranges |-> TrimWS(SubSeq(tokens, ranges[r][1] + 1, ranges[r][2]))]
  IN  Without(pieces, <<>>)

Chunk(text, vocab, target, overlap) ==
  LET pieces == Pieces(text, vocab, target, overlap)
  IN  IF Short(text, vocab, target) \/ pieces = <<>> THEN <<text>> ELSE pieces

\* What on_chunk is called with when it asks for no more than n chunks, n > 0.
Stream(text, vocab, target, overlap, n) ==
  LET pieces == Pieces(text, vocab, target, overlap)
  IN  IF Short(text, vocab, target) THEN <<text>> ELSE SubSeq(pieces, 1, Min({n, Len(pieces)}))

\* An empty line costs a token, too.
Cost(lines, first, last) ==
  FoldLeft(LAMBDA sum, tokens : sum + Max({1, tokens}), 0, SubSeq(lines, first, last))

\* A slip: last taken for the line behind the window.
NextWindowSkips(lines, first, last, overlap) ==
  LET repeated == Min({i \in first..(last + 1) : Cost(lines, i, last) <= Max({0, overlap})})
  IN  Min({Max({repeated, first + 1}) + 1, Len(lines)})

\* As many lines as the overlap allows are repeated, but not the first one.
NextWindow(lines, first, last, overlap) ==
  LET repeated == Min({i \in first..(last + 1) : Cost(lines, i, last) <= Max({0, overlap})})
  IN  Max({repeated, first + 1})

\* Windows <<first, last>> of lines, at least one each.
BuildChunkWindows(lines, target, overlap) ==
  LET End(i) == Max({i} \cup {j \in i..Len(lines) : Cost(lines, i, j) <= Max({1, target})})
      from[i \in 1..Len(lines)] ==
        <<<<i, End(i)>>>> \o IF End(i) = Len(lines) THEN <<>>
                               ELSE from[NextWindow(lines, i, End(i), overlap)]
  IN  IF lines = <<>> THEN <<>> ELSE from[1]

\* The windows that become chunks.
ChunkRecords(lines, target, overlap) ==
  LET HasText(window) == \E i \in window[1]..window[2] : lines[i] > 0
  IN  SelectSeq(BuildChunkWindows(lines, target, overlap), HasText)
=============================================================================
