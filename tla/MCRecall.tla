------------------------------ MODULE MCRecall ------------------------------
(* Three frames, two of one text, and a fact, for TLC. *)
EXTENDS Recall

MCFrames == 1 :> [text |-> <<1, 2>>, superseded |-> FALSE, matches |-> TRUE] @@
            2 :> [text |-> <<1, 2>>, superseded |-> TRUE, matches |-> TRUE] @@
            3 :> [text |-> <<2, 1, 1>>, superseded |-> FALSE, matches |-> FALSE]
MCFacts == 9 :> <<2, 2>>
MCSurrogates == 2 :> 3
MCTiers == [full |-> <<1, 1, 2>>, micro |-> <<2>>]

MCFilter == [superseded : {FALSE}, surrogates : {TRUE}, ids : {None, {2, 3}}, metadata : {FALSE}]
MCLimits == [preview_max |-> 2, expansion_max |-> 2, snippet_max |-> 2, context_max |-> 3, max_snippets |-> 1]
MCSnippets == [preview_max |-> 3, expansion_max |-> 0, snippet_max |-> 1, context_max |-> 5, max_snippets |-> 2]

Asked(mode, top_k, words, filter, context, program, limits) ==
  [mode |-> mode, top_k |-> top_k, rrf_k |-> 0, query |-> words # {}, words |-> words,
   vectors |-> TRUE, filter |-> filter, context |-> context, focused |-> TRUE,
   rerank_window |-> 2, program |-> program] @@ limits
MCRequest ==
  {Asked("text", 3, {1, 2}, None, TRUE, FALSE, MCLimits),
   Asked("hybrid", 2, {2, 3}, None, TRUE, TRUE, MCLimits),
   Asked("hybrid", 3, {1}, None, TRUE, FALSE, MCSnippets),
   Asked("text", 2, {2}, CHOOSE f \in MCFilter : f.ids = None, TRUE, FALSE, MCLimits),
   Asked("vector", 3, {3}, CHOOSE f \in MCFilter : f.ids # None, FALSE, FALSE, MCLimits)}

MCHit(id, score, text) == [id |-> id, score |-> score, text |-> text, sources |-> {"text"}]
MCHits == {MCHit(1, score, text) : score \in {1, 2}, text \in {NoText, <<1>>, <<1, 2>>}}
          \cup {MCHit(3, 2, <<0>>), MCHit(2, 1, <<>>)}
MCCandidates == BoundedSeq(MCHits, 2) \X ({<<>>} \cup {<<MCHit(id, 1, text)>> : id \in {1, 2}, text \in {NoText, <<1>>, <<1, 2>>}})
                \cup {<<<<g, h, MCHit(1, 1, <<1>>)>>, <<>>>> : g, h \in MCHits}
MCVectors == {<<1, 2>>, <<2, 1>>}
MCSegment(encoding, similarity, dimension, floats, ids) ==
  [encoding |-> encoding, similarity |-> similarity, dimension |-> dimension,
   count |-> Len(ids), floats |-> floats, ids |-> ids]
\* One that fits with a frame twice, and others that do not fit.
MCSegments == {MCSegment("metal", "cosine", 2, <<1, 2, 2, 1>>, <<3, 3>>),
               MCSegment("metal", "dot", 2, <<1, 2>>, <<1>>),
               MCSegment("metal", "cosine", 1, <<1, 2>>, <<1, 2>>),
               MCSegment("usearch", "cosine", 2, <<1, 2>>, <<1>>)}
MCWeights == {<<3, 1>>, <<1, 0>>}
=============================================================================
