# Wick in TLA+

A verification project for Wick (`waxcpp`), a C++20 memory store for agents. Paths are written `src/...`,
where `src/` is the root of the repository (so the store is `src/src/core/wax_store.cpp`).

Run a model with `tlc -config X.cfg M` and the proofs with `tlapm M.tla`, both in this directory.

## The system

A request travels MCP bridge -> JSON-RPC server -> `WaxRAGHandler` -> `MemoryOrchestrator` -> `WaxStore` -> one
`.mv2s` file. The store is the only thing that persists; text index, vector index and facts are rebuilt from it.

| Part | State | Operations | What is hard | What makes it correct |
|---|---|---|---|---|
| Write-ahead ring (`wal_ring.cpp`) | cursors, ring bytes | Append, AppendBatch, RecordCheckpoint, scan | wrap, padding, deaths between writes, full ring | an admitted batch goes in whole, pending cells kept, scan finds what is pending |
| Store (`wax_store.cpp`) | data area, header pages, caches of pending mutations | Put, PutBatch, Delete, Supersede, PutEmbedding, Commit, Close, Open, Verify, TryRefresh | deaths and failures between the writes of Commit, repair on open, stale header | nothing acknowledged is lost, commits atomic, file always reopens |
| Format (`mv2s_format.cpp`) and vacuum (`mv2s_vacuum.cpp`) | the fields of a file; source, copy and backup | encode, decode, select; copy, verify, rename | torn pages, stale copies, strings too long to be read again, deaths between two renames | what was put reads back, no moment without a whole copy |
| Writer lease (`wax_store.cpp`) | keys of the process, lease file, fcntl lock | acquire, release | processes race on a file that is unlinked | one writer, nothing leaks, calls return |
| Orchestrator (`memory_orchestrator.cpp`, `structured_memory_store.cpp`) | facts, staged facts, text and vector staging, surrogates | Remember, RememberFact, ForgetFact, Flush, Recall, Close | failure in the middle of Flush, visibility of staged facts | queries agree with the store |
| Maintenance (`maintenance.cpp`, `live_set_rewrite.cpp`) | surrogates, candidate files | OptimizeSurrogates, CompactIndexes, rewrite with validation and rollback | a second successor of a frame, a rewrite that loses links | live frames survive |
| Embedding (`embeddings.cpp`, `llama_cpp_embedding_provider.cpp`, `embedding_memoizer.cpp`, `text_chunker.cpp`) | caches, a pool of threads per batch | Embed, EmbedBatch, Get, Set, chunk | out of order answers, retries, doubles in a batch, eviction | each chunk keeps its own vector, caches bounded |
| Indexes (`fts5_search_engine.cpp`, `usearch_vector_engine.cpp`, `mv2v_format.cpp`) | documents or vectors, staged changes, a copy in sqlite, segments | stage, commit, rollback, search, save, load | a commit that stops half-way, a copy that failed | both copies answer alike, a segment restores what it was saved of |
| Search (`search.cpp`) | none | merge, fuse, rerank, filter, assemble | ties, doubles, budgets, hash maps | order does not matter, nothing found is lost but for want of room |
| Index job (`index_job_manager.cpp`, `wax_rag_handler.cpp`, `ue5_chunk_manifest.cpp`) | job status, checkpoint files, worker thread, cancel flag | start, stop, status, reap, auto-flush | threads, stop against completion, resume counters | a running job can be stopped, resume skips only what is stored |
| Text heuristics, enrichers, LLM clients, MCP bridge, analyzer | little or none | pure functions, HTTP | numeric and textual | left to unit tests |

Components talk by calls under two locks (the handler's and the orchestrator's); the only other shared
state is atomics of the handler and the file itself. `PROJECT.json` lists every component and every hazard with its line.

## Modules

Write-ahead ring and store:

`WalRing` - the writer of the ring. A cell of `disk` holds nothing or a piece of one record; `write_pos`,
`checkpoint_pos`, `pending_bytes`, `last_sequence` are the members of `WalRingWriter`. `AppendRecord`, `AppendBatch`
(its dry run, `BatchCursors` being the simulated cursor) and `AppendNext` (its records), `RecordCheckpoint` are the methods; `CrashInAppend` leaves
the ring as it is after any number of the file writes of an append. `Construct` is the constructor with cursors
from outside.

`WalRecovery` extends it with the reader, `Scan`, written as the loop of `ScanPendingMutationsWithState`, and with the
step in which a new process takes its cursors from it (`Reopen`). Three history variables record what recovery
ought to find. It refines `RingSpec`.

`WaxStore` - the store. Data cells are payloads, tables of contents and footers, the ring has a slot per record
(its byte geometry being `WalRing`'s subject), `mem` is the object. `Commit` is taken apart into its file writes (stages `toc`,
`footer`, `resize`, `pageA`, `pageB`, `finish`); at any stage the process may die (`CrashAt`) or the write may throw
(`FailAt`). `PutRefused` is a put or batch that throws, refused for room or at a write: of a payload, the first of the ring, or one between
two writes of the ring (`RingsLeft` is what that leaves). `Loaded` is what LoadState would make of the file now; `Open`, `Verify` and the refresh assign it.
`Verify` does not look whether the store is open: on a closed one it is a process at work again, which took no lease.

`DurableStore` - what a store promises: a list of frames that never loses one, and a published list replaced as a
whole. `WaxStore` implements it: `content` is the file read through LoadState with the pending mutations applied,
payloads included, in *every* state, so the refinement is a statement about each file write.

`FrameChain` - operators: what mutations do to frames, as readers see them (`View`, nothing checked) and as Commit applies them
(`Admits`, everything checked). The gap between the two is where a ring gets poisoned.

`WriterLease` - openers in processes, the key set, the lock of an inode and the name of the lease file; each system call a step.

`Mv2sFormat` - operators: what is encoded into header pages, footers, tables of contents and put records, field by field,
and what a decoder refuses or makes of it; a checksum is the fields it was taken of, so a page cut short is one whose
fields are partly those of the page before.

`StoreFiles` - a store file written and read through these, and `mv2s_vacuum`, which rewrites it. `disk` maps paths to
files; `WritePageA` and the other steps of Commit are single writes, `DiesInPage` and `DiesInToc` stop inside one. `CopyFrame`,
`CopyDone`, `Copied`, `Backup`, `Replace` are the tool, in place or into a copy; `BackupFails` is a rename that throws.

The orchestrator, from four sides, each with the parts of its state that matter there:

`StructuredMemory` - operators on the `StructuredMemoryStore` of a process: entries, staged entries, visibility.

`FactMemory` - the calls of the orchestrator on facts over these two and an abstract store (committed frames and a list of
pending mutations; `WaxStore` is the detailed one). A call appends one or two records; `Call` lets it return, throw at
any append, or die with the process after any, and `Rebuild` is what the next process makes of the file. `Flush`,
`FlushFails`, `FlushRebuilds` are the three ways through Flush. The history variable `upsets` names what has parted the facts of the
process from the file.

`FactPayload` - operators: a fact as the payload of a frame, which payloads a writer refuses, and what a restart makes of
its first 32 KiB. `FactMemory` puts what `Puttable` lets through and replays what `UpsertRead` makes of it.

`ContentMemory` - content over the same store: chunks with vectors of an embedder, hand-offs, surrogates; `text`, `vectors` and
`surrogates` are `store_text_index_`, `vector_index_` and `surrogate_map_`. `OptimizeSurrogates` is the maintenance job
with its batches, `CompactIndexes` and the rewrite of the live set write `candidates`. Each process starts with an
embedder of its own, so a store may meet vectors of another.

`Ingest` - a text on its way in: cut by `TextChunker` (which also has the windows of lines that source files are cut into), embedded through one of three embedders, put with its vector. `pool`
and `thread` are the threads of one batch; `TorchRuntime` chooses what makes the vectors of `MiniLMEmbedderTorch`;
`EmbeddingMemoizer` is the linked list inside a map. Both caches are shown to implement `LruCache`, the promise of a bounded cache.

`TextEngine` - operators: the documents of the text index, what is staged, and the copy in sqlite: a table (`rows`), the index of its words
(`postings`), and what a row, a trigger, a ROLLBACK without a journal and the two halves of a rebuild make of them.

`Recall` - a search, step by step (`Ask`, `Fuse`, `Filter`, `Rerank`, `Enrich`, `Assemble`, `Return`), with the operators of
`SearchRanking`; `AskWith` is a program that brings results of its own to the public functions. Before it, a commit of the text index, also step by
step: `Commit` changes the documents and begins a transaction on the copy, `ChangeRow`, `DropWords` and `AddWords` are a statement and its
triggers, and between any two of them `FailTransaction` may follow, with `EmptyCopy` and `FillCopy` (the rebuild), or `GiveUpCopy` when that fails too.
`VectorEngine` is changed, saved and loaded beside it.

The server:

`IndexJob` - background indexing: the job and its checkpoint file (`job`), the file manifest, the file of processed
chunk ids, the store (committed and put chunks), worker threads with the point of `run_index_job` each has reached,
`index_worker_` (`thread`), `index_active_` (`active`) and the call each client is in. An action is what happens
under one hold of the handler's mutex, or one file write. `Prepare` is the scan and what a resumed job decides to
skip; `SkipUnchanged`, `SkipCommitted`, `SkipProcessed` and `Take` are the second Build; `Ingest`, `IngestAndCommit`,
`Record` and `Report` are `flush_pending_ingest`. `Reap`, `Join`, `Start`, `Stop`, `Shutdown` are the calls and the
destructor; `Kill*` a death, also in the middle of a file write; `StartOverWorker` the assignment over a joinable
`std::thread`, which ends the process when a job completes between the reaper's look and the start. A chunk stands
for a file with one chunk; `Throw` for any exception; `Slot` gives worker threads names that are used again.

`*Proofs` and `SetInduction` - the proofs. `MC*` - values for TLC.

## Runs

| Run | Shows |
|---|---|
| `wal_recovery` | 11 cells, headers of 3, payloads of 1, 2 and 3 (the last undecodable), batches of two, at most 8 sequence numbers: every residue of the cursor, padding, short tails, wrap and an exactly full ring occur. |
| `wal_overrun` | The violation of `RecoveryExact`: a free gap shorter than a header is overwritten by the sentinel. |
| `wax_store` | Two rings in one run. 4 slots and 3 mutations: no wrap, all stages may die and all commit writes fail. 2 slots and 4 mutations: the ring wraps, fills and refuses, and writes of a payload, of the ring and of a table of contents fail; deaths at `resize` and `pageA` are excluded there, `stale_header` shows what they do to a ring that wraps. One frame gets an embedding. A closed store may be verified, which opens it. |
| `stale_header` | The violation of `PendingPutsReopen`. |
| `format` | Three frames with kinds, labels, metadata, too many entries or a string too long, two commits, two deaths, pages cut after 2 fields (a new page generation over old contents) or 7 (all but the snapshot), one vacuum with batches of two. |
| `vacuum_tail` | The violation of `VacuumKeepsActive`: the same files, vacuumed when the last frame is a deleted one. |
| `writer_lease` | Two openers in one process, one in another, deaths, four inodes (three openers and the name can hold at most four). |
| `facts` | Two keys, three frames, four pending records, all faults. A fact of an enricher may be updated to 40000 bytes, one carries metadata that a restart takes for content, one is too long to put; the limits are the program's. Three frames hold a revision, its update and a tombstone or a second update; that is all the poisoned rings TLC found need. Four frames (24 million states, too long for every day) gave no error either. |
| `content` | One fact, four frames, two embedders of equal dimensions that both name themselves, every append, commit and embedding failing, deaths: a root, its surrogate, the root's update and a chunk fit in, which is what the second successors need, and four pending records: with two, a surrogate that a failed commit leaves pending cannot be followed by an update of its source. A rewrite needs one dead frame (`MinDead`), as with the default thresholds; with 0 (531360 states, too long for every day) there was no error either, and the proofs hold for any. |
| `ingest` | Three texts whose chunks repeat, overlap or are blank, all three embedders, a runtime of each backend but `libtorch_cuda`, a pool of two threads, one retry, caches of two entries that the chunks overflow; and every file of up to five lines of 0 to 3 tokens, cut with the same strategies. |
| `recall` | Three frames, two of one text, up to two staged changes of the text index with every failure of their transaction and rebuild, a fact, a surrogate, five requests with tight and loose budgets and filters, lists of a program with ties and doubles, and segments of other engines that do not all fit. |
| `index_job` | Two scenarios in one run, of the same actions (`MCIndexJob`). One client, three chunks, one a blueprint, commits every two, batches of one: what the manifest, the count and the processed ids let a resumed job skip is in the store, after stops, failures and deaths at every point. One client is enough for that: the checkpoint files are written by workers, and an old worker outlives `stop` only in a second client's call. And two clients and two workers, which is all they can have, without chunks, because the threads never look at one: every order of start, status, stop, shutdown and worker, liveness included. |

Bounds are constants: `MaxSequence`, `MaxBatch`, `MaxGeneration`, `MaxCells`, `MaxFrames`, `MaxPending`, `MaxCandidates`, `MaxDeletes`, `MaxRuns` and
`MaxDeaths` cap counters in guards. Two generations are
enough for a commit to meet the remains of the one before; three or four mutations to have committed, pending and
new records in one ring. A store with two slots wraps after two records, as a 4 MiB ring does after many. `Alone` in
`Recall` keeps changes of the vector index and of the text index apart: a search finds in the one what it finds by the documents of the other.

Deadlock is checked in every run but `format` and `vacuum_tail`: there a store whose string is too long, or whose two pages are torn, cannot be
opened again and the program really stops.

Assumptions. In `WaxStore` a single file write happens or not; `StoreFiles` tears header pages and tables of contents.
`RefreshAfterFailure = TRUE`: the caller
that sees Commit throw calls `TryRefreshIfPublishedCommitVisible` before another mutation, which
`MemoryOrchestrator::Flush` does. With FALSE, TLC finds that a retried commit with other contents can overwrite the
table of contents the file has published. In `WriterLease` the processes call the kernel; its lock
semantics (per process and inode, dropped when any descriptor closes) is modelled, not proved.
A write throws, in `WaxStore`, only because its file cannot be opened, so it leaves nothing: what a stream buffers and fails to write when it is closed is
never reported by the code, and a Delete's or an embedding's append that fails is not modelled. `"between"`, a ring write that throws behind a whole record, is left out of
the runs' `FailAt` and of the theorems (`AppendsWhole`): see the findings.
In `ContentMemory` a Commit of `OptimizeSurrogates` or `RememberHandoff` throws in front of its footer. Behind the footer it would leave
the process the same, since neither caller refreshes the store (`memory_orchestrator.cpp:2588`, `:2667`; so `RefreshAfterFailure` does not hold of them either): the frames it sees are the old ones until a Flush looks
(`FlushRebuilds`). Only a process started after a death in between would find those mutations committed instead of pending.
In `index_job` files change only while a manifest exists and no worker runs (`EditsUnfinished = FALSE`), and
`max_chunks` is 0; see below for what happens otherwise.

Fairness. In `WriterLease`, `CallsReturn` assumes weak fairness of the steps of an Open or Close that has begun. These
are straight-line code without waiting, so a process that runs takes them; nothing is assumed of callers.
In `IndexJob`, `CallsReturn` and `JobsEnd` assume it of a worker thread and of a call that has begun. Both wait for
nothing but a mutex, which is held only inside an action, or (`Join`) for a worker. `Throw`, `Stop` and the
deaths are not fair: a job must end without them. In `Ingest` it is assumed of the step of *some* thread of a pool or of
the call, not of each: the caller joins threads that wait for nothing but the mutex of a cache.

## Findings

1. `wal_ring.cpp:790`, also 640-643: the sentinel is written when fewer than a header's bytes are free and zeroes the oldest pending record (`wal_overrun`).
2. `mv2s_vacuum.cpp:135`: the tool asks whether a batch is full behind a `continue`; when the last frame is deleted, the frames of the batch begun are not copied, and nothing notices, although line 14 says all active frames are (`vacuum_tail`). `VacuumCopiesOnce` is what remains true.
3. `wax_store.cpp:1884`: after a death between the footer and header page A, the checkpoint moves in memory only; records wrap over the one on disk and a second death loses pending puts, after which Commit refuses for ever (`stale_header`).

What follows is what the properties of the other runs had to make room for: each is an exception some property names, and
TLC finds a violation as soon as it is taken out.

Facts and content (`upsets` in both modules):
- After a failed flush the old revision of a fact is found and can be updated a second time; from then on no Commit succeeds (`memory_orchestrator.cpp:2215`; `hidden`).
- The same comes of updating a fact that has a surrogate, of a surrogate for a frame whose successor is pending or unknown, and of regenerating one (`updated`, `overtaken`, `regenerated`).
- `StageRemove` brings forgotten facts back when the last one has gone (`restored`); a death or failure between the two records of `DeleteFactById` leaves the older revision in force (`past`, `failed`).
- A restart reads 32 KiB of a fact that may have 8 MiB, and none of one whose metadata have `language`, `symbol`, `source_kind` or `chunk_id` without `enricher_kind`, which `fact.add` and `fact.update` accept. Such a revision is gone after a restart and the older one is back; updating that one again supersedes it twice, and no Commit succeeds any more (`memory_orchestrator.cpp:700`; `unread`).
- Mutations recovered at start are committed by the next Flush and not shown (`recovered`).
- `fact.add` and ForgetFact do not look at the pin of a fact; `wax-api-reference.md:479` speaks of updates and deletes by id, which do.
- The text index is rebuilt from the first 64 KiB of a frame only. RememberFact leaves the old text of a fact in the index until a restart.
- Two embedders of equal dimensions of which one says nothing of its identity are taken for one; the definition of `VectorsComparable` allows it.

Embedding (`Ingest`):
- A strict torch runtime for which a CUDA device is preferred and whose manifest has no artifact for one settles for the fallback on a CPU without a word (`StrictAreTorch`). A runtime that is not strict mixes fallback vectors with torch ones under one identity when torch fails on a text.
- A hit does not make an entry of `MiniLMEmbedderTorch`'s cache newer; a batch that fails memoizes nothing; `embedding_cache_` of the orchestrator is written and cleared and never read.

Search (`Recall`):
- `UnifiedSearchAdaptive` overwrites the weight, so `hybrid_alpha` has no effect. `BuildFastRAGContext` sorts again, so reranking never reaches a context. A frame that has a surrogate has a preview, so surrogate tiers are never shown by a recall, but for the next item.
- `ApplyFrameFilter` comes after `top_k` and drops all facts.
- sqlite runs with `journal_mode=OFF`, where ROLLBACK is undefined: the model lets table and index be left, each on its own, in any state they had since BEGIN. The rebuild empties the table, and its trigger drops from the index the words of the rows that are there; words the index has of rows that are not there stay. So documents of a failed transaction may be found by words they do not have, or after they were removed, until they are written again (`CopyFindsDocs` allows it for those; `ContextFits` knows that such a frame has no preview and may be shown by a surrogate's tier). `tests/unit/fts5_search_engine_test.cpp:88` expects otherwise of a removal that succeeds.
- A commit of the vector index that stops half-way and is tried again puts empty vectors in place of moved ones (`SegmentsRestore`).

Files (`StoreFiles`):
- Put and `EncodeTocV1` accept strings over 16 MiB, which the decoders refuse: the store does not open again (`AllShort`); nor does either look at the number of frames, of which a table may hold `kMaxArrayCount`. A table of contents over `kMaxTocBytes` is refused by every later Commit.
- Commit writes page A first, always. A death inside page B's write and then one inside page A's leaves no header that can be read (`Pages # {}`).
- Of the vacuum: pending puts are not copied, timestamps are rewritten, supersession links dropped, ids renumbered while records keep naming old ones. It says it opens the source read-only; Open repairs it.
- A death between its two renames leaves nothing at the source's path until somebody takes the backup (`BackupHolds`); the backup of an earlier run is removed first, and a leftover copy blocks later runs.
- No checksum covers generation and sequence of a footer.

Appends that fail (`WaxStore`): an append is one write or several. When a later one throws (a batch of records is one write each), the whole records in front of it stay in the ring although the put
threw and the process knows nothing of them: a reopened store has them. If a commit comes first, the payload they
name is overwritten or cut off, Open's check of pending payloads fails and the store does not open any more. With `"between"` in `FailAt` TLC finds `MemoryMatchesFile` and `AlwaysReopens` violated.

Index jobs (`IndexJob`):
- A resumed job without a manifest skips as many chunks as were committed, whatever the files hold now (`wax_rag_handler.cpp:1239`; `EditsUnfinished = TRUE` breaks `ManifestIsIndexed`). With a cap of chunks the manifest lists files nobody has read (`ChunkCap`).
- A failing checkpoint write is not modelled: it would leave a job that is marked running without a worker (`index_job_manager.cpp:147`) or an exception that leaves the worker thread (`wax_rag_handler.cpp:1536`). With an LLM concurrency above 1 the text of a chunk may be committed and counted while its facts are still being extracted (`wax_rag_handler.cpp:1475`).

Lease: unlock, close and unlink are three steps (`wax_store.cpp:186`): two processes can both hold the lease, of two inodes. `InodeExclusive` is what remains.

## Proofs

Types: `WalRing`, `IndexJob` and `WriterLease` have their type invariants proved (`RingTyped`, `JobTyped`, `LeaseTyped`), so no run repeats them. The other
modules' properties read every variable they have and fail on a value of another shape.

`WalRingProofs` proves for every ring, header and payload size that the cursors keep their geometry
(`RingGeometryHolds`), that the capacity check charges what an append consumes (`CapacityPrediction`), and that no append
touches a pending cell unless a sentinel meets a gap shorter than itself (`PendingCellsAreKept`).
The inductive invariant is the type invariant, the geometry and the fact that an admitted cursor stays in the ring; it is needed because the prediction
is computed from `pending_bytes` alone and says nothing of positions without the geometry. Lemmas state what each skip does to a cursor, and
every action is one step of the proof. `RingAssumption` is all that is assumed.

The second part of `WalRingProofs` proves for batches of any length that a batch AppendBatch has admitted is appended to its last record
(`AdmittedBatchesFit`). The dry run is a recursion over the batch, so this is induction over data, which the invariant
needs at each step: what was simulated from the cursor before a record is what would be simulated now, from the cursor
behind it and without the record (`CursorsOfTail`). `SetInduction` makes that possible without a theorem that takes an operator: a set that holds 0, and
n + 1 with each n, holds every natural number; the statement for n is put into the definition of the set. It follows from the
library's well-founded minimum. That the recursive function has a value at all is shown by the same induction (`CursorsExist`).

The third part of `WalRingProofs` is about the ring across deaths (`WalRecovery`), for every ring size, header size and set of payloads:
`RecoveryIsExact` (the scan finds the pending mutations, in order, up to one that does not decode, the append a death cut short whole or not at
all, unless a sentinel met a gap shorter than itself), `ScanGivesCursorsBack` (a running writer would be given its own cursors) and
`RecoveryImplementsWriter` (what `Reopen` makes of the scan is a `Construct` step, so the whole refines `RingSpec`). The last holds up to the
first reopening over an overrun ring (`harm = "lost"`); what may follow is left to TLC, which finds `RingSpec` kept there in its configuration.
No property is inductive: a scan is a loop over bytes, and the properties speak of its result only.
The invariant `RecInv` says, unless a sentinel has overrun the ring, that a *chain* of scan steps leads from the checkpoint to
the writer's cursor (`InChain`), or to the cursor at which the one who died in an append would have been, that behind the chain nothing
newer is in the ring (`NoNewer`), and what has been listed on the way. A state is on the chain if it is in every set that holds the start and, with a state, the next
(`OnChain`), which makes induction along it a choice of a set (`ChainInduction`). An append writes into free cells only, so the chain stays as it is
(`FreeWrite`, and `ChainAgrees`: a chain depends on the cells it has passed and on no other), and each of its writes adds a step or nothing
(`ChainAdvances` for padding and records, `ChainSkips` for a tail too short for a header, `AppendChained` for all the writes of an append). Where the chain ends the scan stops,
since what it meets is no header or is not newer than what it has seen (`ScanEndsChain`, `ScanOfChained`); from a chain with nothing pending it finds nothing (`ScanFindsNothing`).
`Scan` is a recursive function; that it has a value is shown as for `BatchCursors` (`LoopExists`). `RingAssumption` is all that is assumed.

`WriterLeaseProofs` proves for any number of processes and openers that a process has at most one opener at
work, that no key or lock outlives its opener, and that a lease file has one holder. The strengthening is
`HolderLocks`: whoever holds the lease has the lock of the inode it opened; without it a second lock of the same inode could not be excluded.

`IndexJobProofs` proves for any number of clients, workers and chunks, and any options, that types are kept
(`JobTyped`), that a running job always has a live, uncancelled worker in `index_worker_` (`RunningJobHasWorker`) and that no
thread is joined twice (`WorkerJoinedOnce`). The strengthening is `HeldIsThere`: a thread somebody holds has not been
joined yet. Without it a start could be given the name of a worker that another call still joins. `WorkerGoesOn` is the
one lemma about the seventeen steps of a worker; with it every call is one step of the proof. `JobAssumption` is all that is assumed.

The second part of `IndexJobProofs` proves that the manifest, the count and the processed ids list only what is in the store
(`ManifestListsIndexed`, `CheckpointBacked`) for any number of chunks, batch size and distance of commits, assuming
`ChunkCap = 0` and `~EditsUnfinished`, without which TLC refutes them. The properties say nothing of the
worker that will write the files, so the invariant `ResumeInv` (no error in the configuration of `index_job`, nor with two clients
and two chunks) adds what each worker keeps, `Keeps`: all files in front of the next one are in its batch, put by it or committed; what it may
skip is committed; its counters stay below its place in the scan, which is why a count of committed *chunks* may be used as a
place although facts-only chunks are not counted; and it writes ids or a manifest only when nothing it put is uncommitted. Steps of a
worker are lemmas about its locals and an arbitrary store, so that commits of others (`KeepsGrows`) come in once.

`ContentProofs` proves for any embedders, dimensions and tags that a query meets only vectors it may be compared with
(`VectorsStayComparable`), whatever was persisted by whom and whatever call, commit or embedder failed. The strengthening is the same of the vectors
searched, and the reason is `RebuiltComparable`: a rebuild reuses a persisted vector only when it is comparable, one by one.

Its second part proves that a validated candidate keeps the live set for good (`CandidatesKeepLive`). A candidate is a copy and the store goes on, so
the invariant `LiveSetInv` is about what no mutation can do: `Extends` (a frame keeps its content, and one that was superseded stays so) and
`Linked` (a fact is superseded by a later fact of its key or by a surrogate made from it), in the file and in what a reader
sees of the ring (`Good`). The half about facts is `RewrittenReplays`: a replay ends with the newest fact of each key (`ReplayNewest`), and of a key that
no surrogate hides the newest is live.

The third part proves that a refused commit can be repeated (`CommitStaysRetryable`): the ways of making a second successor that the property
names are all there are. The invariant `RetryInv` (TLC found no error in it) says that frames supersede older ones only (`Ordered`), that a commit can
apply what is pending, and that what memory holds of a key is its fact in force or one that a surrogate has superseded (`InForce`): without that an update
could supersede a fact twice. `NoCycle` bounds the walk of `WouldCreateSupersedeCycle`: each hop leads to an older frame, so it
runs out of frames before it runs out of hops. The loop of OptimizeSurrogates, with its commits in between and its stop after any record, is
`LoopRetry`: no two frames of its work have surrogates linked behind the same frame (`WorkDistinct`), so
what was free at the start is free when its turn comes (`Open`).

The fourth part proves that what the process searches is what the next one would build (`IndexesStayInStep`). Between commits that cannot be said of the
file, so the invariant `IndexInv` says it of the view of file and ring, in what is staged: `Searched` (documents, and a vector for all but hand-offs),
`Tells` (memory holds of each key its newest fact, with what that supersedes), `Leads` (the surrogate map leads from roots), and `SameChains`, without which
`Leads` would not be inductive: a pending mutation supersedes something only for a frame that is pending too, so no commit gives a committed chain another
root (`RootStays`). It holds while no mark says that a call threw half-way (`Settled`); a put (`PutMatched`), a link behind a new fact
(`RevisionMatched`) and a commit (`CommitMatched`) keep it, and a rebuild establishes it (`BuiltMatched`). TLC found no error in it.
Views, replays, the work list and the loop are recursive functions; that they have values, and what those are, is shown by set induction (`RecursionExists`).

`IngestProofs` proves `OwnVectors` (`OwnVectorsAlways`) for any texts, embedders, environments, slices, threads, retries and sizes of the cache.
The strengthening is `TeamInv`: each job that was taken is answered, asked for by exactly one thread, or the batch has failed, and a thread
is done only when no job is left or the batch has failed. So the threads can be joined only with all answers or an error (`AllAnswered`), which
is why a place of the batch never gets the vector of another text. `Kept` says of a cache that its list names only texts of its map, so that an
evicted entry takes its own vector with it. Which chunks there are does not matter, but that there is a sequence of them does: `FollowsExist`
shows that the recursion of `ComputeRanges` has a value because a range starts behind the one before, and `RangesTyped` what it is, both by set
induction. `IngestAssumption` (texts are sequences, there is a worker, sizes are numbers) is all that is assumed.

`WaxStoreProofs` proves for any sizes of ring, any bounds, and deaths and failing writes at any stages (but `"between"` two writes of the ring, `AppendsWhole`) that the file can always be opened
(`StoreAlwaysReopens`) and that Close leaves nothing unpublished (`StoreClosePublishes`), provided a caller that saw Commit throw looks
at the file before anything else (`RefreshAfterFailure`; without it the next commit writes over a footer that was published, and TLC
finds `Durable`, `NeverPoisoned` and `MemoryMatchesFile` violated).
`AlwaysReopens` alone is far from inductive: a scan runs from the checkpoint of the selected header page, which
a death between footer and page A leaves behind, through slots of several commits. The invariant `StoreInv` (`StoreInvariant`; TLC found no
error in it on rings of one to three slots with every fault) says of the *file* where the last footer is (`IsLatest`) and what a scan from the selected
page's checkpoint meets (`LaidAt`): records in sequence, each newer than the footer naming a payload in the file, behind the footer and behind the
payload of the one before. The next slot is unknown to a file, so it is bound by an existential quantifier, and a ring whose next slot
holds a record must be in sequence all round. Of a *process* it says that it agrees with the file (`UpToDate`, `Known`), of a
running Commit that it writes behind all that is needed (`PlanInv`). `Reopens` derives the property from the part about the file
alone. Parts are written over a data area or a ring given as arguments, so that one lemma speaks of the file before and after a
step: `Growing` (writes behind the footer), `RefusedWrites` (a put that threw), `NoneFresh` (a footer that publishes the ring), `Checkpoint` (page A), `AppendsToRing` (a record and
its sentinel), `Reopening` (Open's repair). Each action is one lemma.

Its second part proves that pending mutations can always be committed (`StoreNeverPoisoned`) and that an idle process
has in memory what reopening its file would give (`StoreMemoryMatchesFile`), for any sizes and bounds, under one more assumption, `HeaderFollows`: on a ring that may
wrap nobody dies, and no write fails, between the footer's write and header page A's. Without it both are false, and `stale_header` shows the
run that refutes them: the checkpoint in the file is older than the footer, records wrap over it, and the next process reads the tail of what
was pending. A ring too long to wrap (`Short`: fewer sequence numbers than slots) may be hit at any stage. `MCWaxStore`'s constants satisfy the assumption, with both kinds of ring.
Neither property is inductive, since ids are handed out from `next_id`, which LoadState recomputes as a maximum over the records it finds: the invariant `MatchInv`
(`StoreMatch`; TLC found no error in its parts on rings of two to four slots) says of the file that the records newer than the footer have dense ids behind its frames (`Fits`) and
that a scan starts at the first pending record or finds none (`Clean`), and of the process that its cache, last number and cursors are those of the scan (`Agrees`). Embeddings are
exempt from `Fits`, as in `NeverPoisoned`. The lemmas it rests on are about picking elements of sequences: `OnlyAppend` (what one more element
adds), `FitsNext` (the maximum LoadState takes is the next place) and `AgreesAfterOne` (a record behind what is read is read, and its
sentinel does not end the scan early).

The third part proves the refinement: `StoreDurable` says that the file, read at every step the way LoadState would, implements `DurableStore`, under
the assumptions of `StoreMatch`. Its invariant `DurableInv` adds to `MatchInv` that the payloads of the records a call has still to append are in
the file (`TodoWritten`) and that a running commit publishes what the process knows (`PlanApplied`); TLC found no error in either. `ReadShows` gives what
the file shows as a function of its last footer and of the records newer than it, and the steps are compared there: `ApplyAppend`
(one more record adds a frame, deletes one or changes nothing), `FooterPublishes` (the footer of a commit is the abstract
`Publish`), `SameView` (what lies behind the payloads that frames name cannot be seen, so payloads, tables of contents, growth and Open's repair are
stutters) and `FileStays`. `NextSteps` puts the actions together, one case each.

`FactProofs` proves the four properties of `FactMemory` for any keys, texts, metadata, limits and bounds, with calls and commits that fail and
processes that die as the constants allow. Its invariant `FactInv` (TLC found no error in it in the configuration of `facts`) has a part for each property, each under the property's
own exceptions: `Shape` (revisions supersede older ones of their key, in the file and in what readers see of the ring, and committed ones point at each other);
`Retry` (a commit accepts the ring, and what memory holds of a key is a frame that nothing has superseded: without it the next update
could make a second successor); `Sync` (what memory holds, staged or not, is what a restart would make of the frames *with* the pending ones, or a fact a restart does not read);
`Covered` (a frame that was deleted or superseded has a newer one of its key over it that is read). The property
speaks of states without staged and pending changes only, and says nothing of how they came about. The parts meet at a restart: memory is then a
replay, which is in step by definition, and it is `Covered` that shows that no superseded revision comes back with it (`ReplayInForce`). A call may stop after any record; `CallKeepsInv`
says once for all calls what must hold after each of its records and what after the last, and `Takes` and `Ends` are proved
call by call. `ReplayTold` gives a replay without its recursion: the newest frame of each key that is read (`Newest`).
The first part is about payloads: `UpsertReads` shows that a fact that fits into 32 KiB and does not look like content is read back as
it was said (what `PairsPair` and `MetaParsed` say of the encoding of metadata and its parser), and `UnreadNone` that any other reads as nothing.
`PayloadAssumption` and `FactAssumption` (strings have sizes, the order of keys repeats none, an entity and an attribute are not empty) are all that is assumed.

Only model-checked: the ring after it was reopened overrun, `StoreFiles`, `ChunksCover` and `CachesAreLru` of `Ingest`, `Recall` and its pure operators, and liveness, which is out of the prover's reach.

## Not modelled

Bytes: integers' encodings, checksum arithmetic (a torn or stale record is recognised by construction), fields that every file has the same.
Of the store: deep verification, the 32 MiB window of the footer scan, the Windows lease, a second process on the data while the
first has it open, Create over an open store (`wax_store.cpp:896`, which needs store and lease composed).
Of the index job: generations and phases, several repositories, files that change while they are read, the LLM futures and
failures to write a checkpoint. Of the orchestrator: sessions, access counts, configurations without a text or vector index.
Of embedding and search: tokenizing, numbers in vectors, distances, BM25, floating-point scores, heuristics of query analysis, answers and surrogate texts: they are numeric
or textual, keep no state, and a model would be a second program. HTTP, JSON-RPC, the MCP bridge, enrichers, blueprint tools and the analyzer keep no state of interest.

## Plan

1. `StoreLease` - store and lease composed: Create's truncation, Verify after Close.
2. The LLM futures of an index job, and checkpoint writes that fail.
3. Proofs: `ChunksCover` and `CopyFindsDocs`.
