------------------------------- MODULE Recall -------------------------------
(***************************************************************************)
(* Searching a memory: MemoryOrchestrator::Recall and Search               *)
(* (src/src/orchestrator/memory_orchestrator.cpp: RecallImpl,              *)
(* BuildStoreChannels, ApplyFrameFilter, EnrichResultsWithSurrogates) over *)
(* a text index, with SearchRanking; and the same functions called by a    *)
(* program that brings results of its own.  A call holds mutex_; its parts *)
(* are steps.                                                              *)
(*                                                                         *)
(* Left out: what scores are made of, so an index may rank what it finds   *)
(* in any way; vectors, of which each document has one when there is an    *)
(* embedder (ContentMemory has what may be missing); access counts and     *)
(* importance, so any tier of a surrogate may be selected; answers.        *)
(***************************************************************************)
EXTENDS SearchRanking, TextEngine, VectorEngine, TLC

CONSTANTS
  None,
  Frames,      \* frames of the store: text, is it superseded, does it match metadata
  Facts,       \* texts of facts in the structured index, by ids that no frame has
  Surrogates,  \* surrogate_map_: from a frame to its surrogate
  Tiers,       \* of a surrogate: its full text, gist and micro
  Request,     \* what is asked for
  Candidates,  \* pairs of lists of results that a program may bring
  Score, Bonus, Weights,
  Vectors,     \* of dimension Dimensions, that are staged
  VectorFrames,\* for frames of these
  Segments     \* of other engines

ASSUME RecallAssumption ==
  /\ DOMAIN Frames \cap DOMAIN Facts = {}
  /\ DOMAIN Surrogates \subseteq {id \in DOMAIN Frames : Frames[id].text # <<>>}
  /\ VectorFrames \subseteq DOMAIN Frames
  /\ Vectors \subseteq [1 .. Dimensions -> Int]
  /\ Score \subseteq Int /\ Weights \subseteq Nat \X Nat

VARIABLES
  engine,  \* the text index
  index,   \* a vector index
  call     \* what has been asked

vars == <<engine, index, call>>

NoCall == [stage |-> "idle"]

\* For TLC a vector index is changed alone: what a search finds in one is told
\* by the documents of the text index, and ranked in any way.
Alone == index = NewIndex

Stage(id) ==
  /\ Alone /\ call = NoCall /\ Len(engine.pending) < 2
  /\ engine' = StageIndex(engine, id, Frames[id].text)
  /\ UNCHANGED <<index, call>>

Unstage(id) ==
  /\ Alone /\ call = NoCall /\ Len(engine.pending) < 2
  /\ engine' = StageRemove(engine, id)
  /\ UNCHANGED <<index, call>>

\* CommitStaged.  Where the copy answers, a transaction on it follows, and the
\* call is in the middle of it until it ends or fails.
Commit ==
  /\ Alone /\ call = NoCall
  /\ IF engine.mirror = Gone
     THEN engine' = RollbackStaged(DocsChanged(engine)) /\ call' = call
     ELSE /\ engine' = DocsChanged(engine)
          /\ call' = [stage |-> "row", at |-> 1, began |-> engine.mirror.rows,
                      old |-> <<>>, seen |-> {engine.mirror.postings}]
  /\ UNCHANGED index

Mutation == engine.pending[call.at]

\* The copy becomes this, and the statement goes on or the next one follows.
Step(copy, changed) ==
  /\ engine' = [engine EXCEPT !.mirror = copy]
  /\ call' = changed @@ [call EXCEPT !.seen = @ \cup {copy.postings}]
  /\ UNCHANGED index

ChangeRow ==
  /\ call.stage = "row" /\ call.at <= Len(engine.pending)
  /\ Step(RowChanged(engine.mirror, Mutation), [stage |-> "drop", old |-> engine.mirror.rows])

DropWords ==
  /\ call.stage = "drop"
  /\ Step(WordsDropped(engine.mirror, Mutation, call.old), [stage |-> "add"])

AddWords ==
  /\ call.stage = "add"
  /\ Step(WordsAdded(engine.mirror, Mutation), [stage |-> "row", at |-> call.at + 1])

\* COMMIT succeeds.
EndTransaction ==
  /\ call.stage = "row" /\ call.at > Len(engine.pending)
  /\ engine' = RollbackStaged(engine) /\ call' = NoCall
  /\ UNCHANGED index

\* BEGIN, part of a statement or COMMIT fails, and ROLLBACK follows.
FailTransaction ==
  /\ call.stage \in {"row", "drop", "add"}
  /\ \E copy \in RolledBack(engine.mirror, call.began, call.seen) :
       engine' = [engine EXCEPT !.mirror = copy,
                                !.upset = @ \cup {m.id : m \in ToSet(engine.pending)}]
  /\ call' = [stage |-> "empty"]
  /\ UNCHANGED index

EmptyCopy ==
  /\ call.stage = "empty"
  /\ engine' = [engine EXCEPT !.mirror = Emptied(@)]
  /\ call' = [stage |-> "fill"]
  /\ UNCHANGED index

FillCopy ==
  /\ call.stage = "fill"
  /\ engine' = RollbackStaged([engine EXCEPT !.mirror = Filled(@, engine.docs)])
  /\ call' = NoCall
  /\ UNCHANGED index

\* The rebuild fails, anywhere: the database is closed.
GiveUpCopy ==
  /\ call.stage \in {"empty", "fill"}
  /\ engine' = RollbackStaged([engine EXCEPT !.mirror = Gone])
  /\ call' = NoCall
  /\ UNCHANGED index

Rollback ==
  /\ Alone /\ call = NoCall
  /\ engine' = RollbackStaged(engine)
  /\ UNCHANGED <<index, call>>

\* Changes of a vector index, and segments saved and loaded.
Changes(next) ==
  /\ call = NoCall /\ engine \in NewEngines /\ engine.mirror = Gone
  /\ index' \in next
  /\ UNCHANGED <<engine, call>>

StageVector(id) ==
  /\ Len(index.pending) < 2
  /\ Changes({StageAdd(index, id, v) : v \in Vectors} \cup {StageDrop(index, id)})

CommitIndex == Changes({CommitVectors(index)})
\* CommitStaged throws: at once, or in front of a change that finds no memory.
CommitStops == Changes({StopsAt(index, n) : n \in 0 .. Len(index.pending) - 1})
RollbackIndex == Changes({DropStaged(index)})
SaveIndex == Changes({SerializeMetalSegment(index)})
LoadIndex ==
  Changes({LoadMetalSegment(index, s) : s \in Segments \cup ({index.segment} \ {NoSegment})})

\* What an index returns of the ids it finds: the best of some ranking.
Ranked(ids, TextOf, source, k) ==
  {Resized(Ordered({[id |-> id, score |-> score[id], text |-> TextOf[id], sources |-> {source}] :
                      id \in ids}), k) : score \in [ids -> Score]}

\* The text of a result: of the documents, where the index has one of them.
FrameText ==
  [id \in DOMAIN Frames |-> IF id \in DOMAIN engine.docs THEN engine.docs[id] ELSE NoText]

WantsText(req) == req.query /\ req.mode # "vector" /\ req.top_k > 0
WantsVectors(req) == req.vectors /\ req.mode # "text" /\ req.top_k > 0

\* What an index finds of documents that are not there.
Stale == IF engine.mirror = Gone THEN {}
         ELSE {p[1] : p \in engine.mirror.postings \ Postings(engine.docs)}

\* BuildStoreChannels.  Nothing staged is searched: searches begin, for TLC,
\* when nothing is, and when no transaction was upset that left no trace.
Ask(req) ==
  /\ Alone /\ call = NoCall /\ engine.pending = <<>> /\ ~req.program
  /\ engine.upset = Stale
  /\ \E ids \in IF WantsText(req) THEN Matches(engine, req.words) ELSE {{}},
        vids \in IF WantsVectors(req) THEN {DOMAIN engine.docs} ELSE {{}},
        fids \in IF WantsText(req) THEN {Matching(Facts, req.words)} ELSE {{}} :
     \E text \in Ranked(ids, FrameText, "text", req.top_k),
        vector \in Ranked(vids, FrameText, "vector", req.top_k),
        facts \in Ranked(fids, Facts, "structured", req.top_k) :
       call' = [stage |-> "fuse", req |-> req, text |-> text \o facts, vector |-> vector,
                found |-> ids \cup fids]
  /\ UNCHANGED <<engine, index>>

\* A program calls UnifiedSearch with its own results, and BuildFastRAGContext:
\* this needs no index.
AskWith(req, lists) ==
  /\ Alone /\ call = NoCall /\ engine \in NewEngines /\ engine.mirror = Gone
  /\ req.program
  /\ call' = [stage |-> "fuse", req |-> req, text |-> lists[1], vector |-> lists[2], found |-> {}]
  /\ UNCHANGED <<engine, index>>

Ids(results) == {h.id : h \in ToSet(results)}

Fuse ==
  /\ call.stage = "fuse"
  /\ \E weights \in Weights, bonus \in [Ids(call.text \o call.vector) -> Bonus] :
       call' = [call EXCEPT !.stage = IF call.req.program THEN "assemble" ELSE "filter"] @@
               [weights |-> weights, bonus |-> bonus,
                response |-> Unified(call.req, call.text, call.vector, weights, bonus)]
  /\ UNCHANGED <<engine, index>>

\* ApplyFrameFilter: a fact is no frame of the store.
Passes(filter, id) ==
  \/ filter = None
  \/ /\ id \in DOMAIN Frames
     /\ filter.superseded \/ ~Frames[id].superseded
     /\ filter.surrogates \/ id \notin Range(Surrogates)
     /\ filter.ids = None \/ id \in filter.ids
     /\ filter.metadata => Frames[id].matches

Filter ==
  /\ call.stage = "filter"
  /\ call' = [call EXCEPT !.stage = IF call.req.context THEN "rerank" ELSE "done",
                          !.response = SelectSeq(@, LAMBDA h : Passes(call.req.filter, h.id))]
  /\ UNCHANGED <<engine, index>>

Rerank ==
  /\ call.stage = "rerank"
  /\ LET window == Min({Max({call.req.top_k * 2, 10}), call.req.rerank_window})
     IN  call' = [call EXCEPT !.stage = "enrich",
                    !.response = IF call.req.focused THEN Reranked(@, window, call.bonus) ELSE @]
  /\ UNCHANGED <<engine, index>>

\* EnrichResultsWithSurrogates: only a result without a preview gets a tier.
Enrich ==
  /\ call.stage = "enrich"
  /\ \E tier \in DOMAIN Tiers :
       LET Enriched(h) == IF h.text \in {NoText, <<>>} /\ h.id \in DOMAIN Surrogates
                          THEN [h EXCEPT !.text = Tiers[tier]] ELSE h
       IN  call' = [call EXCEPT !.stage = "assemble",
                                !.response = [i \in DOMAIN @ |-> Enriched(@[i])]]
  /\ UNCHANGED <<engine, index>>

Assemble ==
  /\ call.stage = "assemble"
  /\ call' = [call EXCEPT !.stage = "done"] @@ [context |-> Context(call.response, call.req)]
  /\ UNCHANGED <<engine, index>>

Return ==
  /\ call.stage = "done"
  /\ call' = NoCall
  /\ UNCHANGED <<engine, index>>

Init == engine \in NewEngines /\ index = NewIndex /\ call = NoCall

Next ==
  \/ \E id \in DOMAIN Frames : Stage(id) \/ Unstage(id)
  \/ Commit \/ ChangeRow \/ DropWords \/ AddWords \/ EndTransaction
  \/ FailTransaction \/ EmptyCopy \/ FillCopy \/ GiveUpCopy \/ Rollback
  \/ \E id \in VectorFrames : StageVector(id)
  \/ CommitIndex \/ CommitStops \/ RollbackIndex \/ SaveIndex \/ LoadIndex
  \/ \E req \in Request : Ask(req) \/ \E lists \in Candidates : AskWith(req, lists)
  \/ Fuse \/ Filter \/ Rerank \/ Enrich \/ Assemble \/ Return

Spec == Init /\ [][Next]_vars
-----------------------------------------------------------------------------
(* Properties.                                                              *)

\* Wherever transactions on the copy fail, and whatever that leaves in it, the
\* copy that answers the next query has the documents of the map, and its index
\* finds each of them by each of its words; it finds more only for documents
\* that a failed transaction was to change.
CopyFindsDocs ==
  call = NoCall /\ engine.mirror # Gone =>
    /\ engine.mirror.rows = engine.docs
    /\ Postings(engine.docs) \subseteq engine.mirror.postings
    /\ Stale \subseteq engine.upset

\* What a segment holds is what the index it was saved of held, for whoever
\* loads it, and every vector of an index has all its values, of which Search
\* reads as many as the query has, unless a commit that stopped half-way was
\* tried again: only a rollback or a load may follow one.
SegmentsRestore ==
  /\ index.segment # NoSegment =>
       LoadMetalSegment(NewIndex, index.segment).vectors = index.kept
  /\ index.again \/ Encodable(index.vectors)

Shuffled(s) == {[i \in DOMAIN s |-> s[p[i]]] : p \in Permutations(DOMAIN s)}

\* Nothing depends on the order in which results come, with doubles among them,
\* or leave a hash map; so reranking, which only orders, never changes a context.
OrderFree ==
  /\ (call.stage = "filter" \/ (call.stage = "assemble" /\ call.req.program)) =>
       \A text \in Shuffled(call.text), vector \in Shuffled(call.vector) :
         Unified(call.req, text, vector, call.weights, call.bonus) = call.response
  /\ "context" \in DOMAIN call =>
       \A response \in Shuffled(call.response) : Context(response, call.req) = call.context

MayShow(id) ==
  IF id \in DOMAIN Facts \cup DOMAIN engine.docs THEN {(FrameText @@ Facts)[id]}
  ELSE {NoText} \cup {text \in Range(Tiers) : id \in DOMAIN Surrogates}

Sum(s) == FoldLeft(LAMBDA n, item : n + item.words, 0, s)

\* A context keeps within its tokens and snippets, has each frame and each text
\* once, nothing that was not found or does not pass the filter, and only its
\* first item longer than a snippet.  An item of a memory shows the words of its
\* own frame or fact, cut, and never a tier of a surrogate: the tiers are for
\* results without a preview, and a frame that has a surrogate has a preview;
\* only what an upset index finds of removed documents has none.
ContextFits ==
  "context" \in DOMAIN call =>
    LET req == call.req
        items == call.context.items
    IN  /\ Sum(items) = call.context.tokens
        /\ call.context.tokens <= Max({0, req.context_max})
        /\ Cardinality(Ids(items)) = Len(items) /\ Len(items) <= Max({0, req.top_k})
        /\ \A i, j \in DOMAIN items : items[i].of = items[j].of => i = j
        /\ \A i \in DOMAIN items :
             /\ items[i].words \in 1..Max({0, IF i = 1 THEN req.expansion_max ELSE 0, req.snippet_max})
             /\ items[i].id \in Ids(call.text \o call.vector)
             /\ ~req.program => \E text \in MayShow(items[i].id) :
                  items[i].of = CandidateText([id |-> items[i].id, text |-> text], req)
             /\ req.filter # None => items[i].id \in DOMAIN Frames /\ Passes(req.filter, items[i].id)
        /\ Cardinality({i \in DOMAIN items : items[i].words > Max({0, req.expansion_max})})
             <= Max({0, req.max_snippets})

\* The results of the channels that count in the mode of the request.
Counted ==
  Ids(IF call.req.mode = "vector" \/ (call.req.mode = "hybrid" /\ call.weights[1] = 0)
      THEN <<>> ELSE call.text) \cup
  Ids(IF call.req.mode = "text" \/ (call.req.mode = "hybrid" /\ call.weights[2] = 0)
      THEN <<>> ELSE call.vector)

\* What was found and passes the filter is missed only because top_k others were
\* found (the filter comes after that limit), and a result is left out of the
\* context only for want of room, or as a double, or when it says nothing.
MissedOnlyForRoom ==
  call.stage = "done" =>
    LET req == call.req
        context == IF req.context THEN call.context ELSE EmptyContext
        limits == {Max({0, req.context_max}), Max({0, req.snippet_max}), Max({0, req.max_snippets})}
    IN  /\ req.top_k > 0 => \A id \in Counted \ Ids(call.response) :
             ~Passes(req.filter, id) \/ Cardinality(Counted) > req.top_k
        /\ \A id \in call.found \ Ids(call.text) : Cardinality(call.found) > req.top_k
        /\ req.context => \A h \in ToSet(call.response) :
             \/ h.id \in Ids(context.items)
             \/ 0 \in limits
             \/ context.tokens = req.context_max
             \/ context.snippets = req.max_snippets
             \/ CandidateText(h, req) \in {item.of : item \in ToSet(context.items)}
             \/ ToSet(CandidateText(h, req)) = {BlankWord}
=============================================================================
