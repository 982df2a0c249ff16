------------------------------- MODULE Ingest -------------------------------
(***************************************************************************)
(* The way of a text into MemoryOrchestrator (src/src/orchestrator/        *)
(* memory_orchestrator.cpp: Remember, BuildEmbeddingsForTexts): it is cut  *)
(* into chunks, the chunks are embedded, and each is put with its vector.  *)
(* Three embedders: LlamaCppEmbeddingProvider (src/server/                 *)
(* llama_cpp_embedding_provider.cpp), with a cache, retries and a pool of  *)
(* threads per batch; MiniLMEmbedderTorch (src/src/rag/embeddings.cpp),    *)
(* with a cache and a fallback; and one that offers only Embed, which the  *)
(* orchestrator calls from a pool of its own.                              *)
(*                                                                         *)
(* mutex_ of the orchestrator is held for a whole call, so the threads of  *)
(* a pool are all that runs.  A step of a thread takes a job or ends one.  *)
(* Left out: the numbers of a vector, which is known by its text and who   *)
(* made it; HTTP and JSON; sleeping between retries; the store behind Put. *)
(***************************************************************************)
EXTENDS TextChunker

CONSTANTS
  None,            \* no entry of a memoizer
  Content,         \* texts that are remembered
  Query,           \* texts that are asked for
  Config,          \* embedder ("llama", "minilm", "plain"), chunking strategy
                   \* (target_tokens and overlap_tokens), whether there is a vocabulary
  Env,             \* environments of TorchRuntime
  BatchSize,       \* ingest_batch_size
  Worker,          \* threads: as many as max_batch_concurrency, and ingest_concurrency
  MaxRetries,
  Capacity,        \* of the embedder's cache
  MemoCapacity,    \* embedding_cache_capacity
  MaxFrames        \* bound on the frames put

ASSUME IngestAssumption ==
  /\ Worker # {} /\ IsFiniteSet(Worker)
  /\ \A text \in Content \cup Query : text \in Seq(ToSet(text))
  /\ Config \subseteq [embedder : {"llama", "minilm", "plain"}, strategy : Int \X Int, vocab : BOOLEAN]
  /\ BatchSize \in Int
  /\ {MaxRetries, Capacity, MemoCapacity, MaxFrames} \subseteq Nat
  /\ None \notin Nat

INSTANCE EmbeddingMemoizer
INSTANCE TorchRuntime

VARIABLES
  config,     \* one of Config, with what its embedder's vectors are made from
  cache,      \* memoized_embeddings_ and memoization_order_, oldest first
  call,       \* the call that holds mutex_
  pool,       \* jobs, cursor and what the threads of one batch share
  thread,     \* what each thread of the pool does
  frames,     \* chunks put, each with its vector
  memoizer    \* embedding_cache_

vars == <<config, cache, call, pool, thread, frames, memoizer>>

Vector(text, by) == [of |-> text, by |-> by]

Idle == [stage |-> "idle", content |-> <<>>, puts |-> FALSE, texts |-> <<>>, out |-> <<>>]
NoPool == [jobs |-> <<>>, cursor |-> 0, results |-> <<>>, asked |-> <<>>, error |-> FALSE]
Off == [at |-> "off", job |-> 0, tries |-> 0]
-----------------------------------------------------------------------------
(* The cache of an embedder.                                                *)

Evicted(c) == [c EXCEPT !.order = SubSeq(@, Max({1, Len(@) + 2 - Capacity}), Len(@))]

Held(c) == [order |-> c.order, memo |-> Restrict(c.memo, ToSet(c.order))]

Promoted(c, text) == [c EXCEPT !.order = Append(Without(@, text), text)]

\* MemoizeLocked, and the end of MiniLMEmbedderTorch::Embed.
Memoized(c, text, v) ==
  IF Capacity = 0 THEN c
  ELSE IF text \in DOMAIN c.memo
  THEN Promoted([c EXCEPT !.memo[text] = v], text)
  ELSE LET room == Held(Evicted(c))
       IN  [memo |-> With(room.memo, text, v), order |-> Append(room.order, text)]
-----------------------------------------------------------------------------
(* Calls.                                                                   *)

\* Remember; a blank text is a chunk like any other.
Remember(text) ==
  /\ call.stage = "idle"
  /\ LET chunks == Chunk(text, config.vocab, config.strategy[1], config.strategy[2]) IN
       /\ Len(frames) + Len(chunks) <= MaxFrames
       /\ call' = [stage |-> "embed", content |-> text, puts |-> TRUE, texts |-> chunks, out |-> <<>>]
  /\ UNCHANGED <<config, cache, pool, thread, frames, memoizer>>

\* The vector of a query (BuildStoreChannels).
EmbedQuery(text) ==
  /\ call.stage = "idle"
  /\ call' = [stage |-> "embed", content |-> text, puts |-> FALSE, texts |-> <<text>>, out |-> <<>>]
  /\ UNCHANGED <<config, cache, pool, thread, frames, memoizer>>

Failed == call' = Idle /\ pool' = NoPool /\ thread' = [w \in Worker |-> Off]

Missing == SubSeq(call.texts, Len(call.out) + 1, Len(call.texts))

\* Places of texts that were not in the cache.
Waiting == {i \in DOMAIN call.out : call.out[i] = None}

\* A batch embedder gets more than one text in slices of ingest_batch_size.
SliceOver ==
  \/ Missing = <<>>
  \/ BatchSize > 0 /\ Len(call.texts) > 1 /\ Len(call.out) % BatchSize = 0

\* A pool has no more threads than jobs; one job, or one thread, needs no pool.
StartPool(jobs) ==
  \E team \in SUBSET Worker :
    /\ Cardinality(team) = Min({Cardinality(Worker), Len(jobs)})
    /\ pool' = [NoPool EXCEPT !.jobs = jobs, !.asked = [j \in DOMAIN jobs |-> 0]]
    /\ thread' = [w \in Worker |-> IF w \in team THEN [Off EXCEPT !.at = "look"] ELSE Off]
    /\ call' = [call EXCEPT !.stage = "fetch"]

\* GetCachedEmbedding: a hit becomes the newest entry.
Lookup ==
  /\ call.stage = "embed" /\ config.embedder = "llama" /\ Missing # <<>>
  /\ SliceOver => Waiting = {}
  /\ LET text == Head(Missing) IN
       IF text \in DOMAIN cache.memo
       THEN /\ cache' = Promoted(cache, text)
            /\ call' = [call EXCEPT !.out = Append(@, cache.memo[text])]
       ELSE /\ call' = [call EXCEPT !.out = Append(@, None)]
            /\ UNCHANGED cache
  /\ UNCHANGED <<config, pool, thread, frames, memoizer>>

\* The rest of LlamaCppEmbeddingProvider::Embed and EmbedBatch: what was not
\* cached is fetched, each text once.
Fetch ==
  /\ call.stage = "embed" /\ config.embedder = "llama" /\ SliceOver /\ Waiting # {}
  /\ StartPool(SetToSeq({call.texts[i] : i \in Waiting}))
  /\ UNCHANGED <<config, cache, frames, memoizer>>

\* An embedder that offers only Embed.
EmbedEach ==
  /\ call.stage = "embed" /\ config.embedder = "plain" /\ Missing # <<>>
  /\ StartPool(Missing)
  /\ UNCHANGED <<config, cache, frames, memoizer>>

\* The orchestrator's pool, and a single thread, give up at the first error.
GivesUp == config.embedder = "plain" \/ Cardinality({w \in Worker : thread[w].at # "off"}) = 1

\* A slip: a thread that finds the pool stopped waits.
LookAndWait(w) ==
  /\ thread[w].at = "look"
  /\ thread' = [thread EXCEPT ![w].at = IF GivesUp /\ pool.error THEN "look" ELSE "take"]
  /\ UNCHANGED <<config, cache, call, pool, frames, memoizer>>

\* stop_workers is read before a job is taken.
Look(w) ==
  /\ thread[w].at = "look"
  /\ thread' = [thread EXCEPT ![w].at = IF GivesUp /\ pool.error THEN "done" ELSE "take"]
  /\ UNCHANGED <<config, cache, call, pool, frames, memoizer>>

Take(w) ==
  /\ thread[w].at = "take"
  /\ pool' = [pool EXCEPT !.cursor = @ + 1]
  /\ thread' = [thread EXCEPT ![w] =
       IF pool.cursor < Len(pool.jobs)
       THEN [at |-> "ask", job |-> pool.cursor + 1, tries |-> 0]
       ELSE [Off EXCEPT !.at = "done"]]
  /\ UNCHANGED <<config, cache, call, frames, memoizer>>

Answer(w) ==
  LET j == thread[w].job IN
  /\ thread[w].at = "ask"
  /\ pool' = [pool EXCEPT !.results = With(@, j, Vector(pool.jobs[j], "server")),
                          !.asked[j] = @ + 1]
  /\ thread' = [thread EXCEPT ![w].at = "look"]
  /\ UNCHANGED <<config, cache, call, frames, memoizer>>

\* FetchEmbeddingWithRetry makes max_retries + 1 attempts; Embed of others one.
TriesOver(tries) == config.embedder # "llama" \/ tries >= MaxRetries

\* The request throws: an error status, a time out, an answer that is no vector.
Refuse(w) ==
  LET j == thread[w].job IN
  /\ thread[w].at = "ask"
  /\ IF TriesOver(thread[w].tries)
     THEN /\ pool' = [pool EXCEPT !.error = TRUE, !.asked[j] = @ + 1]
          /\ thread' = [thread EXCEPT ![w].at = IF GivesUp THEN "done" ELSE "look"]
     ELSE /\ pool' = [pool EXCEPT !.asked[j] = @ + 1]
          /\ thread' = [thread EXCEPT ![w].tries = @ + 1]
  /\ UNCHANGED <<config, cache, call, frames, memoizer>>

Joined == \A w \in Worker : thread[w].at \in {"off", "done"}

\* A slip: the results are taken in the order in which they came.
ResultByArrival(text) == pool.results[CHOOSE j \in DOMAIN pool.results : TRUE]

Result(text) == pool.results[CHOOSE j \in DOMAIN pool.jobs : pool.jobs[j] = text]

\* All threads are joined; nothing is memoized when one of them failed.
JoinFailed ==
  /\ call.stage = "fetch" /\ Joined /\ pool.error
  /\ Failed
  /\ UNCHANGED <<config, cache, frames, memoizer>>

JoinFetched ==
  /\ call.stage = "fetch" /\ Joined /\ ~pool.error
  /\ config.embedder = "llama"
  /\ call' = [call EXCEPT !.stage = "memoize"]
  /\ thread' = [w \in Worker |-> Off]
  /\ UNCHANGED <<config, cache, pool, frames, memoizer>>

JoinEach ==
  /\ call.stage = "fetch" /\ Joined /\ ~pool.error
  /\ config.embedder = "plain"
  /\ call' = [call EXCEPT !.stage = "embed",
                          !.out = [i \in DOMAIN call.texts |-> pool.results[i]]]
  /\ pool' = NoPool
  /\ thread' = [w \in Worker |-> Off]
  /\ UNCHANGED <<config, cache, frames, memoizer>>

\* The map of missing texts is walked in any order: each is memoized, and its
\* vector goes to every place of the slice that waits for it.
Memoize(j) ==
  LET text == pool.jobs[j]
      v == Result(text)
      out == [i \in DOMAIN call.out |->
               IF call.out[i] = None /\ call.texts[i] = text THEN v ELSE call.out[i]]
  IN  /\ call.stage = "memoize"
      /\ \E i \in Waiting : call.texts[i] = text
      /\ cache' = Memoized(cache, text, v)
      /\ IF \E i \in DOMAIN out : out[i] = None
         THEN /\ call' = [call EXCEPT !.out = out]
              /\ UNCHANGED pool
         ELSE /\ call' = [call EXCEPT !.stage = "embed", !.out = out]
              /\ pool' = NoPool
      /\ UNCHANGED <<config, thread, frames, memoizer>>

\* MiniLMEmbedderTorch, text by text.  A hit does not make an entry newer.
EmbedTorch ==
  /\ call.stage = "embed" /\ config.embedder = "minilm" /\ Missing # <<>>
  /\ LET text == Head(Missing) IN
       IF text \in DOMAIN cache.memo
       THEN /\ call' = [call EXCEPT !.out = Append(@, cache.memo[text])]
            /\ UNCHANGED <<cache, pool, thread>>
       ELSE \E by \in Makers(config.env) :
              IF by = "error" THEN Failed /\ UNCHANGED cache
              ELSE /\ cache' = Memoized(cache, text, Vector(text, by))
                   /\ call' = [call EXCEPT !.out = Append(@, Vector(text, by))]
                   /\ UNCHANGED <<pool, thread>>
  /\ UNCHANGED <<config, frames, memoizer>>

Embedded == call.stage = "embed" /\ Missing = <<>> /\ Waiting = {}

StartPuts ==
  /\ Embedded
  /\ call' = IF call.puts THEN [call EXCEPT !.stage = "put"] ELSE Idle
  /\ UNCHANGED <<config, cache, pool, thread, frames, memoizer>>

MorePut == Append(frames, [text |-> Head(call.texts), vector |-> Head(call.out)])

\* A chunk is put, its vector staged and persisted, and memoized under its id.
PutChunk ==
  /\ call.stage = "put"
  /\ frames' = MorePut
  /\ memoizer' = Set(memoizer, Len(frames) + 1, MemoCapacity)
  /\ call' = IF Len(call.texts) = 1 THEN Idle
             ELSE [call EXCEPT !.texts = Tail(@), !.out = Tail(@)]
  /\ UNCHANGED <<config, cache, pool, thread>>

\* Put throws, or what persists the vector: then the chunk stays put.
PutFails ==
  /\ call.stage = "put"
  /\ Failed
  /\ frames' \in {frames, MorePut}
  /\ UNCHANGED <<config, cache, memoizer>>

\* Get: an operation of the memoizer that nothing in the repository calls.
LookupFrame(id) ==
  /\ call.stage = "idle"
  /\ memoizer' = Get(memoizer, id)
  /\ UNCHANGED <<config, cache, call, pool, thread, frames>>

\* RebuildRuntimeStateFromStore clears it.
ClearMemoizer ==
  /\ call.stage = "idle"
  /\ memoizer' = NoEntries
  /\ UNCHANGED <<config, cache, call, pool, thread, frames>>

Init ==
  /\ \E c \in Config :
       \E e \in IF c.embedder = "minilm" THEN {e \in Env : ~Refused(e)} ELSE {None} :
         config = [embedder |-> c.embedder, strategy |-> c.strategy, vocab |-> c.vocab, env |-> e]
  /\ cache = [memo |-> <<>>, order |-> <<>>]
  /\ call = Idle
  /\ pool = NoPool
  /\ thread = [w \in Worker |-> Off]
  /\ frames = <<>>
  /\ memoizer = NoEntries

Run ==
  \/ Lookup \/ Fetch \/ EmbedEach \/ EmbedTorch
  \/ \E w \in Worker : Look(w) \/ Take(w) \/ Answer(w) \/ Refuse(w)
  \/ JoinFailed \/ JoinFetched \/ JoinEach
  \/ \E j \in DOMAIN pool.jobs : Memoize(j)
  \/ StartPuts \/ PutChunk \/ PutFails

Next ==
  \/ \E text \in Content : Remember(text)
  \/ \E text \in Query : EmbedQuery(text)
  \/ Run
  \/ \E id \in DOMAIN frames : LookupFrame(id)
  \/ ClearMemoizer

\* Threads run, and a request is answered or refused: it has a time limit.
Spec == Init /\ [][Next]_vars /\ WF_vars(Run)
-----------------------------------------------------------------------------
(* Properties.                                                              *)

TextsMatch ==
  /\ \A f \in ToSet(frames) : f.vector.of = f.text
  /\ \A i \in DOMAIN call.out : call.out[i] # None => call.out[i].of = call.texts[i]
  /\ \A text \in DOMAIN cache.memo : cache.memo[text].of = text

TriesBounded ==
  \A j \in DOMAIN pool.jobs :
    /\ pool.asked[j] <= (IF config.embedder = "llama" THEN MaxRetries + 1 ELSE 1)
    /\ config.embedder = "llama" => \A i \in DOMAIN pool.jobs : pool.jobs[i] = pool.jobs[j] => i = j

StrictAreTorch ==
  \A v \in {cache.memo[t] : t \in DOMAIN cache.memo} \cup {f.vector : f \in ToSet(frames)} :
    (v.by = "fallback" /\ config.env.strict) =>
      config.env.cuda_preferred /\ config.env.cuda /\ \A a \in config.env.manifest : ~a.cuda

\* Every vector is that of the text it is kept or returned for, whatever was
\* cached, evicted, asked twice in a batch or answered out of order; no text is
\* asked for more often than the retries allow, or by two threads; and a runtime
\* that must be torch makes no other vectors, but where a CUDA device is
\* preferred and the manifest has no artifact for one: then the constructor
\* settles for the fallback on a CPU without a word.
OwnVectors == TextsMatch /\ TriesBounded /\ StrictAreTorch

Words(text) == SelectSeq(text, LAMBDA t : t # Blank)

\* Of any file of up to five lines, each window starts behind the start of the one
\* before it, repeats no more than the overlap and leaves out no line; it keeps
\* to the target unless it is a single line; and every line with text is in a chunk.
WindowsCover ==
  \A lines \in UNION {[1..n -> 0..3] : n \in 0..5} : \A s \in {k.strategy : k \in Config} :
    LET windows == BuildChunkWindows(lines, s[1], s[2])
        chunks == ChunkRecords(lines, s[1], s[2])
        first(w) == windows[w][1]
        last(w) == windows[w][2]
    IN  /\ \A w \in DOMAIN windows :
             /\ last(w) > first(w) => Cost(lines, first(w), last(w)) <= Max({1, s[1]})
             /\ w > 1 => /\ first(w) \in (first(w - 1) + 1)..(last(w - 1) + 1)
                         /\ Cost(lines, first(w), last(w - 1)) <= Max({0, s[2]})
        /\ lines # <<>> => first(1) = 1 /\ last(Len(windows)) = Len(lines)
        /\ \A i \in DOMAIN lines : lines[i] > 0 =>
             \E c \in ToSet(chunks) : i \in c[1]..c[2]

\* The stream is the list, as far as it is asked for.  The chunks of a text, less
\* what each repeats of the one before it, are the text; none is longer than the
\* target, unless the text is kept whole.  Windows of lines cover a file alike.
ChunksCover ==
  /\ WindowsCover
  /\ (call.stage = "embed" /\ call.puts) =>
       LET texts == call.texts
           k == config
           Streamed(n) == Stream(call.content, k.vocab, k.strategy[1], k.strategy[2], n)
           overlap == Max({0, k.strategy[2]})
       IN  /\ \A n \in 1..Len(texts) : IsPrefix(Streamed(n), texts) /\ Len(Streamed(n)) <= n
           /\ Streamed(Len(texts)) \in {texts, <<>>}
           /\ \/ texts = <<call.content>>
              \/ /\ \A i \in DOMAIN texts : Len(texts[i]) \in 1..Max({1, k.strategy[1]})
                 /\ \E cut \in [DOMAIN texts -> 0..overlap] :
                      FlattenSeq([i \in DOMAIN texts |->
                        SubSeq(Words(texts[i]), cut[i] + 1, Len(texts[i]))]) = Words(call.content)

Texts == Query \cup
  UNION {ToSet(Chunk(c, k.vocab, k.strategy[1], k.strategy[2])) : c \in Content, k \in Config}

EmbedderCache == INSTANCE LruCache WITH Key <- Texts, recent <- Reverse(cache.order)

MemoizerCache == INSTANCE LruCache
  WITH Key <- 1..MaxFrames, Capacity <- MemoCapacity, recent <- Listed(memoizer)

\* Both caches, one a list beside a map and one a list inside a map, are caches
\* of bounded size that lose their oldest entry.
CachesAreLru == EmbedderCache!Spec /\ MemoizerCache!Spec

\* Every call comes to an end, however threads run and requests fail.
CallsReturn == call.stage # "idle" ~> call.stage = "idle"
=============================================================================
