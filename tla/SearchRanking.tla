--------------------------- MODULE SearchRanking ----------------------------
(***************************************************************************)
(* Fusion, reranking and context assembly (src/src/rag/search.cpp).        *)
(* A hit is [id, score, text, sources].  A text is a sequence of words,    *)
(* which are numbers in the order of strings; preview_max_bytes and the    *)
(* token limits count words.  Scores are integers, NaN being 0 already, and *)
(* a reciprocal of a rank is a share of RrfUnit.                           *)
(***************************************************************************)
EXTENDS Integers, SequencesExt, FiniteSetsExt

CONSTANTS
  NoText,    \* no preview
  RrfUnit,   \* divisible by every rrf_k + rank
  BlankWord, \* a word of white space
  FrameWord  \* "frame", and behind it the numbers of frames

\* operator< of strings
TextBefore(s, t) ==
  \E i \in DOMAIN t :
    /\ \A j \in 1..(i - 1) : j \in DOMAIN s /\ s[j] = t[j]
    /\ i \in DOMAIN s => s[i] < t[i]

\* UpdatePreferredPreview
Preferred(slot, candidate) ==
  IF candidate # NoText /\ (slot = NoText \/ TextBefore(candidate, slot)) THEN candidate ELSE slot

ScoreLess(l, r) == l.score > r.score \/ (l.score = r.score /\ l.id < r.id)

Ordered(results) == SetToSortSeq(results, ScoreLess)

Resized(results, k) == SubSeq(results, 1, Min({k, Len(results)}))

\* A slip: the first preview of the best score stays.
AggregatedFirst(agg, h) ==
  [sources |-> agg.sources \cup h.sources] @@
  CASE agg.best = {} \/ \E s \in agg.best : h.score > s ->
         [best |-> {h.score}, text |-> h.text,
          fallback |-> IF agg.best = {} THEN NoText ELSE Preferred(agg.fallback, agg.text)]
    [] agg.best = {h.score} -> agg
    [] OTHER -> [agg EXCEPT !.fallback = Preferred(@, h.text)]

\* One hit more of a frame; best is empty before the first.
Aggregated(agg, h) ==
  [sources |-> agg.sources \cup h.sources] @@
  CASE agg.best = {} \/ \E s \in agg.best : h.score > s ->
         [best |-> {h.score}, text |-> h.text,
          fallback |-> IF agg.best = {} THEN NoText ELSE Preferred(agg.fallback, agg.text)]
    [] agg.best = {h.score} -> [agg EXCEPT !.text = Preferred(@, h.text)]
    [] OTHER -> [agg EXCEPT !.fallback = Preferred(@, h.text)]

NoHits == [best |-> {}, text |-> NoText, fallback |-> NoText, sources |-> {}]

\* MergeDuplicateFrameResults, whose order is that of a hash map.
Merged(hits) ==
  LET Agg(id) == FoldLeft(Aggregated, NoHits, SelectSeq(hits, LAMBDA h : h.id = id))
  IN  {[id |-> id, score |-> Max(Agg(id).best), sources |-> Agg(id).sources,
        text |-> IF Agg(id).text # NoText THEN Agg(id).text ELSE Agg(id).fallback] :
         id \in {h.id : h \in ToSet(hits)}}

SortedChannel(hits, k) == Resized(Ordered(Merged(hits)), k)

\* BuildHybridRrfResponse; the weights are shares of some whole.
Fused(text, vector, text_weight, vector_weight, rrf_k, k) ==
  LET Channel(hits, weight) == IF weight > 0 THEN SortedChannel(hits, k) ELSE <<>>
      t == Channel(text, text_weight)
      v == Channel(vector, vector_weight)
      Share(channel, weight, id) ==
        LET i == SelectInSeq(channel, LAMBDA h : h.id = id)
        IN  IF i = 0 THEN 0 ELSE weight * (RrfUnit \div (Max({0, rrf_k}) + i))
      Hits(id) == SelectSeq(t \o v, LAMBDA h : h.id = id)
      Texts(id) == SelectSeq(Hits(id), LAMBDA h : h.text # NoText)
  IN  Resized(Ordered(
        {[id |-> id, score |-> Share(t, text_weight, id) + Share(v, vector_weight, id),
          text |-> IF Texts(id) = <<>> THEN NoText ELSE Head(Texts(id)).text,
          sources |-> UNION {h.sources : h \in ToSet(Hits(id))}] :
           id \in {h.id : h \in ToSet(t \o v)}}), k)

\* bonus is what the words of a hit and of the query add to its score; it is zero
\* for all when the query gives no reason to rerank.
Composite(h, bonus) == h.score + bonus[h.id]

\* A slip: what is behind the window is cut off.
ReorderedHead(results, n, bonus) ==
  LET Before(l, r) == \/ Composite(l, bonus) > Composite(r, bonus)
                      \/ Composite(l, bonus) = Composite(r, bonus) /\ ScoreLess(l, r)
  IN  SortSeq(SubSeq(results, 1, n), Before)

Reordered(results, n, bonus) ==
  LET Before(l, r) == \/ Composite(l, bonus) > Composite(r, bonus)
                      \/ Composite(l, bonus) = Composite(r, bonus) /\ ScoreLess(l, r)
  IN  SortSeq(SubSeq(results, 1, n), Before) \o SubSeq(results, n + 1, Len(results))

\* IntentAwareRerank
Reranked(results, window, bonus) ==
  LET n == Min({Max({0, window}), Len(results)})
  IN  IF n <= 1 \/ \A h \in ToSet(results) : bonus[h.id] = 0 THEN results
      ELSE Reordered(results, n, bonus)

\* UnifiedSearchWithCandidates and UnifiedSearchAdaptive: weights come from the
\* kind of the query, whatever alpha the request asks for.
Unified(req, text, vector, weights, bonus) ==
  LET found == CASE req.mode = "text"   -> SortedChannel(text, req.top_k)
                 [] req.mode = "vector" -> SortedChannel(vector, req.top_k)
                 [] req.mode = "hybrid" -> Fused(text, vector, weights[1], weights[2], req.rrf_k, req.top_k)
  IN  IF req.top_k <= 0 THEN <<>>
      ELSE IF req.query THEN Reranked(found, Min({Max({req.top_k * 2, 10}), 32}), bonus)
      ELSE found

Preview(h, req) ==
  IF h.text = NoText THEN <<>> ELSE Resized(h.text, Max({0, req.preview_max}))

\* The preview, or "frame <id>".
CandidateText(h, req) ==
  IF Preview(h, req) = <<>> THEN <<FrameWord, FrameWord + h.id>> ELSE Preview(h, req)

\* A slip: the tokens of earlier items are not counted.
RoomForOne(ctx, req) == Max({0, req.context_max})

Room(ctx, req) == Max({0, req.context_max}) - ctx.tokens

\* One result more of a context: its items, tokens and snippets, the texts seen,
\* and whether the loop was left.
WithItem(ctx, h, req) ==
  LET text == CandidateText(h, req)
      words == SelectSeq(text, LAMBDA w : w # BlankWord)
      expansion == Min({Max({0, req.expansion_max}), Max({0, req.context_max})})
      first == expansion > 0 /\ ctx.items = <<>>
      limit == IF first THEN expansion ELSE Max({0, req.snippet_max})
      n == Min({Len(words), limit, Room(ctx, req)})
      kind == IF Preview(h, req) = <<>> THEN "surrogate" ELSE IF first THEN "expanded" ELSE "snippet"
      passed == ctx.left \/ (~first /\ ctx.snippets >= Max({0, req.max_snippets}))
  IN  IF passed THEN ctx
      ELSE IF text \in ctx.seen \/ words = <<>> \/ limit = 0
      THEN [ctx EXCEPT !.seen = @ \cup {text}]
      ELSE [items |-> Append(ctx.items, [id |-> h.id, of |-> text, words |-> n, kind |-> kind]),
            tokens |-> ctx.tokens + n,
            snippets |-> ctx.snippets + IF first THEN 0 ELSE 1,
            seen |-> ctx.seen \cup {text},
            left |-> ctx.tokens + n >= Max({0, req.context_max})]

EmptyContext == [items |-> <<>>, tokens |-> 0, snippets |-> 0, seen |-> {}, left |-> FALSE]

\* BuildFastRAGContext, which orders the results by score once more.
Context(results, req) ==
  IF req.top_k <= 0 \/ req.context_max <= 0 THEN EmptyContext
  ELSE FoldLeft(LAMBDA ctx, h : WithItem(ctx, h, req), EmptyContext,
                SortedChannel(results, req.top_k))
=============================================================================
