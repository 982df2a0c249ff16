---------------------------- MODULE ContentMemory ----------------------------
(***************************************************************************)
(* Content in MemoryOrchestrator (src/src/orchestrator/                    *)
(* memory_orchestrator.cpp): chunks with their embeddings, hand-offs and   *)
(* surrogates, the text index, the vector index and the surrogate map of   *)
(* the process, and the two jobs that tidy a store: OptimizeSurrogates     *)
(* (src/src/rag/maintenance.cpp) and the rewrite of the live set           *)
(* (src/src/rag/live_set_rewrite.cpp).  Facts, which share the frames, are *)
(* here a single key that is remembered and updated.                       *)
(*                                                                         *)
(* As in FactMemory, mutex_ is held for a whole call, each append to the   *)
(* write-ahead ring may throw, and the process may die after any of them.  *)
(*                                                                         *)
(* Left out: texts and the numbers in vectors (a vector is known by the    *)
(* embedder that made it); the caps on what is read back; a configuration  *)
(* without text or vector search; sessions; the sizes of payloads and the  *)
(* time gates of a rewrite, which are a choice here.                       *)
(***************************************************************************)
EXTENDS Naturals, SequencesExt

CONSTANTS
  Key,           \* the fact: an entity and an attribute
  None,          \* no frame, no key, no tag
  Embedder,      \* embedding providers a process may be started with
  Tag,           \* identity tag of an embedder, or None
  Dims,          \* its dimensions
  Hierarchical,  \* options of OptimizeSurrogates: enable_hierarchical,
  Overwrite,     \*   the values overwrite_existing may have
  CommitEvery,   \* kBatchSize
  Rewrites,      \* live_set_rewrite_schedule.enabled
  KeepLatest,    \*   and keep_latest_candidates
  MinDead,       \* dead frames with which one of its thresholds may be met
  Facts,         \* whether facts are remembered
  CallsFail,     \* whether an append to the ring, or an embedder, may throw
  CommitsFail,   \* whether a commit may throw
  Deaths,        \* whether the process may die
  MaxFrames,     \* bounds on frames, pending mutations and candidates
  MaxPending,
  MaxCandidates

ASSUME ContentAssumption ==
  /\ None \notin Key \cup Nat \cup Embedder
  /\ Tag \in [Embedder -> UNION {{Tag[e]} : e \in Embedder}]
  /\ Dims \in [Embedder -> Nat \ {0}]
  /\ Overwrite \subseteq BOOLEAN
  /\ {Hierarchical, Rewrites, Facts, CallsFail, CommitsFail, Deaths} \subseteq BOOLEAN
  /\ CommitEvery \in Nat \ {0}
  /\ {KeepLatest, MinDead, MaxFrames, MaxPending, MaxCandidates} \subseteq Nat

INSTANCE FrameChain
INSTANCE StructuredMemory

VARIABLES
  frames,      \* committed frames
  pending,     \* mutations in the write-ahead ring, not committed
  local,       \* has_local_mutations_
  memory,      \* structured_memory_
  text,        \* store_text_index_: ids of the documents searched, and staged
  vectors,     \* vector_index_: id to embedder, searched and staged
  surrogates,  \* surrogate_map_
  embedder,    \* embedder_
  candidates,  \* files of rewritten live sets, oldest first
  upsets       \* history: what has parted process and file (see Upset)

runtime == <<memory, text, vectors, surrogates>>
vars == <<frames, pending, local, runtime, embedder, candidates, upsets>>

Upset == {"failed",       \* a call threw after it had changed something
          "partial",      \* an embedder threw while the runtime was rebuilt
          "hidden",       \* a call changed facts hidden by a failed flush
          "recovered",    \* the process found pending mutations when it started
          "past",         \* one of these, or a death inside a call, before the start
          "updated",      \* a fact that has a surrogate was updated
          "overtaken",    \* a surrogate was made for a frame with a pending successor
          "regenerated"}  \* or for a frame that had one, not known as its surrogate

\* of is the frame an embedding or a surrogate was made from, by the embedder.
Body(kind, of, by) ==
  [kind |-> kind, of |-> of, by |-> by, key |-> None, deleted |-> FALSE,
   supersedes |-> None, superseded_by |-> None]
Fact(k) == [Body("fact", None, None) EXCEPT !.key = k]

Now == View(frames, pending)
NextId == Len(Now) + 1

Active(f) == ~f.deleted
Live(f) == Active(f) /\ f.superseded_by = None

With(f, i, v) == [x \in DOMAIN f \cup {i} |-> IF x = i THEN v ELSE f[x]]
-----------------------------------------------------------------------------
(* RebuildRuntimeStateFromStore.                                           *)

ReplayFrame(fs, m, i) ==
  IF Active(fs[i]) /\ fs[i].kind = "fact"
  THEN StageUpsert(m, fs[i].key, Entry(i, fs[i].supersedes, FALSE))
  ELSE m

Replay(fs) ==
  LET m[i \in 0..Len(fs)] == IF i = 0 THEN Empty ELSE ReplayFrame(fs, m[i - 1], i)
  IN  CommitStaged(m[Len(fs)])

\* Payloads of facts and embedding records are internal; superseded frames are
\* indexed like any other.
Indexed(fs) == {i \in DOMAIN fs : Active(fs[i]) /\ fs[i].kind \notin {"fact", "embedding"}}

\* A later record of a frame replaces an earlier one of the same dimensions.
PersistedBy(fs, i) ==
  LET by[n \in 0..Len(fs)] ==
        IF n = 0 THEN None
        ELSE LET last == by[n - 1] IN
             IF /\ Active(fs[n]) /\ fs[n].kind = "embedding" /\ fs[n].of = i
                /\ last = None \/ Dims[last] = Dims[fs[n].by]
             THEN fs[n].by ELSE last
  IN  by[Len(fs)]

\* A slip: vectors of the right dimensions are taken whoever made them.
ReusesDims(by, e) == by # None /\ Dims[by] = Dims[e]

\* A process with embedder e uses a vector persisted by another, unless both
\* have a tag and the tags differ.
Reuses(by, e) ==
  /\ by # None
  /\ Dims[by] = Dims[e]
  /\ Tag[e] # None /\ Tag[by] # None => Tag[by] = Tag[e]

\* Vectors that are not persisted, or not to be used, are made again.
VectorsOf(fs, e) ==
  [i \in Indexed(fs) |-> LET by == PersistedBy(fs, i) IN IF Reuses(by, e) THEN by ELSE e]

\* When the embedder throws, persisted vectors have been staged, and no more.
PersistedVectors(fs, e) ==
  [i \in {j \in Indexed(fs) : Reuses(PersistedBy(fs, j), e)} |-> PersistedBy(fs, i)]

\* The walk back from the tip of a chain ends at the frame it began with.
Root(fs, i) ==
  LET back[n \in 0..Len(fs)] ==
        IF n = 0 THEN i
        ELSE LET last == back[n - 1] IN
             IF fs[last].supersedes = None THEN last ELSE fs[last].supersedes
  IN  back[Len(fs)]

\* A slip: the map goes from the frame a tip supersedes, not from the root.
SurrogateMapOneHop(fs) ==
  LET tips == {i \in DOMAIN fs : Live(fs[i]) /\ fs[i].supersedes # None}
  IN  [r \in {fs[i].supersedes : i \in tips} |-> CHOOSE i \in tips : fs[i].supersedes = r]

SurrogateMap(fs) ==
  LET tips == {i \in DOMAIN fs : Live(fs[i]) /\ fs[i].supersedes # None}
  IN  [r \in {Root(fs, i) : i \in tips} |-> CHOOSE i \in tips : Root(fs, i) = r]

Rebuilt(fs, e) ==
  LET docs == Indexed(fs)
      vecs == VectorsOf(fs, e)
  IN  /\ memory' = Replay(fs)
      /\ text' = [docs |-> docs, staged |-> docs]
      /\ vectors' = [docs |-> vecs, staged |-> vecs]
      /\ surrogates' = SurrogateMap(fs)

RebuiltPartly(fs, e) ==
  /\ CallsFail
  /\ \E i \in Indexed(fs) : ~Reuses(PersistedBy(fs, i), e)
  /\ memory' = Replay(fs)
  /\ text' = [docs |-> Indexed(fs), staged |-> Indexed(fs)]
  /\ vectors' = [docs |-> <<>>, staged |-> PersistedVectors(fs, e)]
  /\ surrogates' = SurrogateMap(fs)

\* A process that finds frames fs, and ms pending.
Start(fs, ms, past) ==
  /\ frames' = fs
  /\ pending' = ms
  /\ local' = FALSE
  /\ \E e \in Embedder : embedder' = e /\ Rebuilt(fs, e)
  /\ upsets' = IF upsets # {} \/ past THEN {"past"}
               ELSE IF ms # <<>> THEN {"recovered"} ELSE {}

\* The past excuses whatever follows.
Mark(up) == upsets' = IF "past" \in upsets THEN upsets ELSE upsets \cup up

IsHidden == memory.staging /\ ~memory.visible
-----------------------------------------------------------------------------
(* Calls that append records: after n of them the runtime is state[n].      *)

Staged(m, docs, vecs) == [memory |-> m, docs |-> docs, vecs |-> vecs]
Unstaged == Staged(memory, text.staged, vectors.staged)

Call(records, state, up) ==
  LET n == Len(records)
      After(k) ==
        /\ pending' = pending \o SubSeq(records, 1, k)
        /\ local' = (local \/ k > 0)
        /\ memory' = state[k].memory
        /\ text' = [text EXCEPT !.staged = state[k].docs]
        /\ vectors' = [vectors EXCEPT !.staged = state[k].vecs]
        /\ UNCHANGED <<frames, surrogates, embedder, candidates>>
  IN  /\ NextId <= MaxFrames
      /\ Len(pending) + n <= MaxPending
      /\ \/ /\ After(n)
            /\ Mark(up)
         \/ \E k \in 1..(n - 1) :
              /\ CallsFail
              /\ After(k)
              /\ Mark({"failed"} \cup up)
         \/ \E k \in 1..n :
              /\ Deaths
              /\ Start(frames, pending \o SubSeq(records, 1, k), k < n)
              /\ UNCHANGED candidates

\* Remember of one chunk, with its vector and the record that persists it.
\* Embeddings are computed before anything is put.
Remember ==
  LET id == NextId
      staged == Staged(memory, text.staged \cup {id}, With(vectors.staged, id, embedder))
  IN  Call(<<PutFrame(Body("chunk", None, None)), PutFrame(Body("embedding", id, embedder))>>,
           [n \in 0..2 |-> IF n > 0 THEN staged ELSE Unstaged], {})

RememberFact(k) ==
  LET m == StageUpsert(memory, k, Entry(NextId, None, FALSE))
  IN  /\ Facts
      /\ Call(<<PutFrame(Fact(k))>>,
              [n \in 0..1 |-> IF n > 0 THEN [Unstaged EXCEPT !.memory = m] ELSE Unstaged],
              IF IsHidden THEN {"hidden"} ELSE {})

\* The fact in force is superseded by its new revision; nobody asks whether
\* something else has superseded it.
UpdateFactById(id) ==
  LET new == NextId
      k == Now[id].key
      m == StageUpsert(memory, k, Entry(new, id, FALSE))
  IN  /\ Now[id].kind = "fact" /\ Active(Now[id])
      /\ Visible(memory)[k].id = id
      /\ Call(<<PutFrame(Fact(k)), SupersedeFrame(id, new)>>,
              [n \in 0..2 |-> IF n = 2 THEN [Unstaged EXCEPT !.memory = m] ELSE Unstaged],
              (IF IsHidden THEN {"hidden"} ELSE {})
              \cup (IF Now[id].superseded_by \in {i \in DOMAIN Now : Now[i].kind # "fact"}
                    THEN {"updated"} ELSE {}))
-----------------------------------------------------------------------------
(* Commits.                                                                 *)

\* RewriteLiveSet: every frame is put again under its id, without its payload
\* unless it is live, and without metadata, links and status.
Dropped == Body("empty", None, None)

\* A slip: frames that are not live are left out, and ids move up.
RewrittenDense(fs) ==
  LET Keep(f) == Live(f)
      Strip(f) == [f EXCEPT !.supersedes = None]
  IN  [i \in DOMAIN SelectSeq(fs, Keep) |-> Strip(SelectSeq(fs, Keep)[i])]

Rewritten(fs) ==
  [i \in DOMAIN fs |->
    IF Live(fs[i]) THEN [fs[i] EXCEPT !.supersedes = None] ELSE Dropped]

Candidate(fs, whole) == [frames |-> fs, whole |-> whole]

\* PruneScheduledRewriteCandidates: the newest files stay, whole or not.
Prune(files) ==
  IF Len(files) <= KeepLatest THEN files
  ELSE SubSeq(files, Len(files) - KeepLatest + 1, Len(files))

\* The threshold gate of a rewrite: with thresholds of 0 nothing need be dead.
EnoughDead(fs) == Cardinality({i \in DOMAIN fs : ~Live(fs[i])}) >= MinDead

\* RunScheduledLiveSetMaintenance after a flush: a gate closes, the rewrite or
\* its validation fails and the file is removed again, or there is a new candidate.
Maintenance(fs) ==
  \/ UNCHANGED candidates
  \/ /\ Rewrites
     /\ EnoughDead(fs)
     /\ Len(candidates) < MaxCandidates
     /\ candidates' = Prune(Append(candidates, Candidate(Rewritten(fs), TRUE)))

Flush ==
  /\ Applicable(frames, pending)
  /\ frames' = Now
  /\ pending' = <<>>
  /\ local' = FALSE
  /\ memory' = CommitStaged(memory)
  /\ text' = [text EXCEPT !.docs = text.staged]
  /\ vectors' = [vectors EXCEPT !.docs = vectors.staged]
  /\ Maintenance(Now)
  /\ UNCHANGED <<surrogates, embedder, upsets>>

\* Commit throws before its footer, or cannot apply the mutations.
FlushFails ==
  /\ pending # <<>>
  /\ CommitsFail \/ ~Applicable(frames, pending)
  /\ memory' = [memory EXCEPT !.visible = FALSE]
  /\ UNCHANGED <<frames, pending, local, text, vectors, surrogates, embedder, candidates, upsets>>

\* Commit throws behind its footer, or an index throws after the commit; the
\* embedder may throw in turn.
FlushRebuilds ==
  /\ CommitsFail
  /\ Applicable(frames, pending)
  /\ pending # <<>> \/ text.staged # text.docs \/ vectors.staged # vectors.docs
  /\ frames' = Now
  /\ pending' = <<>>
  /\ local' = FALSE
  /\ \/ Rebuilt(Now, embedder) /\ UNCHANGED upsets
     \/ RebuiltPartly(Now, embedder) /\ Mark({"partial"})
  /\ UNCHANGED <<embedder, candidates>>

\* The hand-off is put, indexed by its content and committed at once, with all
\* that is pending; it gets no vector, and facts and vectors stay staged.
RememberHandoff ==
  LET id == NextId
      ms == Append(pending, PutFrame(Body("handoff", None, None)))
      docs == text.staged \cup {id}
  IN  /\ id <= MaxFrames
      /\ \/ /\ Applicable(frames, ms)
            /\ frames' = View(frames, ms)
            /\ pending' = <<>>
            /\ local' = FALSE
            /\ text' = [docs |-> docs, staged |-> docs]
            /\ UNCHANGED upsets
         \/ /\ CommitsFail \/ ~Applicable(frames, ms)
            /\ Len(ms) <= MaxPending
            /\ pending' = ms
            /\ local' = TRUE
            /\ text' = [text EXCEPT !.staged = docs]
            /\ UNCHANGED <<frames, upsets>>
      /\ UNCHANGED <<memory, vectors, surrogates, embedder, candidates>>

CompactIndexes ==
  /\ Applicable(frames, pending)
  /\ frames' = Now
  /\ pending' = <<>>
  /\ local' = FALSE
  /\ text' = [text EXCEPT !.docs = text.staged]
  /\ vectors' = [vectors EXCEPT !.docs = vectors.staged]
  /\ UNCHANGED <<memory, surrogates, embedder, candidates, upsets>>
-----------------------------------------------------------------------------
(* OptimizeSurrogates: for each frame in turn a surrogate is put and linked *)
(* behind it, or behind its last surrogate; every CommitEvery of them, and  *)
(* at the end, are committed.  It looks at the frames committed when it     *)
(* starts, and may stop after any of them (max_frames, max_wall_time_ms).   *)

\* A surrogate is recognised by the magic of its tiers.
HasSurrogate(i) ==
  \E t \in DOMAIN frames :
    Live(frames[t]) /\ frames[t].kind = "surrogate" /\ frames[t].supersedes = i

Wanted(overwrite, i) ==
  /\ Active(frames[i])
  /\ frames[i].superseded_by = None \/ overwrite
  /\ frames[i].kind # "surrogate"
  /\ ~HasSurrogate(i) \/ overwrite

\* The frames that want one, in order.
Work(overwrite) ==
  LET work[i \in 0..Len(frames)] ==
        IF i = 0 THEN <<>>
        ELSE IF Wanted(overwrite, i) THEN Append(work[i - 1], i) ELSE work[i - 1]
  IN  work[Len(frames)]

\* A slip: a new surrogate is linked behind the source.
SupersededSource(i) == i

\* The frame a surrogate of i supersedes.
SupersededFor(i) ==
  IF HasSurrogate(i)
  THEN CHOOSE t \in DOMAIN frames : Live(frames[t]) /\ frames[t].supersedes = i
  ELSE i

Pair(i, id) ==
  <<PutFrame(Body(IF Hierarchical THEN "surrogate" ELSE "extract", i, None)),
    SupersedeFrame(SupersededFor(i), id)>>

\* Frames and ring when n surrogates are linked and earlier commits are done.
Progress(work) ==
  LET at[n \in 0..Len(work)] ==
        IF n = 0 THEN [frames |-> frames, pending |-> pending, thrown |-> FALSE]
        ELSE LET s == at[n - 1]
                 due == n > 1 /\ (n - 1) % CommitEvery = 0
                 fs == IF due THEN View(s.frames, s.pending) ELSE s.frames
                 ms == IF due THEN <<>> ELSE s.pending
             IN  [frames |-> fs,
                  pending |-> ms \o Pair(work[n], Len(View(fs, ms)) + 1),
                  thrown |-> s.thrown \/ (due /\ ~Applicable(s.frames, s.pending))]
  IN  at

\* What makes Commit refuse the links for good.
Conflicts(work) ==
  LET sources == ToSet(work)
      taken == {m.old : m \in {m \in ToSet(pending) : m.kind = "supersede"}}
  IN  (IF \E i \in sources : frames[i].superseded_by # None /\ ~HasSurrogate(i)
       THEN {"regenerated"} ELSE {})
      \cup (IF \E i \in sources : {i, SupersededFor(i)} \cap taken # {}
            THEN {"overtaken"} ELSE {})

OptimizeSurrogates(overwrite) ==
  \E n \in 1..Len(Work(overwrite)) :
    LET work == SubSeq(Work(overwrite), 1, n)
        s == Progress(work)[n]
        last == Len(s.pending)
    IN  /\ ~s.thrown
        /\ Len(View(s.frames, s.pending)) <= MaxFrames
        /\ last <= MaxPending + 2
        /\ \/ /\ Applicable(s.frames, s.pending)
              /\ frames' = View(s.frames, s.pending)
              /\ pending' = <<>>
              /\ local' = FALSE
              /\ \/ Rebuilt(frames', embedder) /\ Mark(Conflicts(work))
                 \/ /\ RebuiltPartly(frames', embedder)
                    /\ Mark(Conflicts(work) \cup {"partial"})
              /\ UNCHANGED <<embedder, candidates>>
           \/ \E k \in {last - 1, last} :
                /\ IF k = last THEN CommitsFail \/ ~Applicable(s.frames, s.pending) ELSE CallsFail
                /\ frames' = s.frames
                /\ pending' = SubSeq(s.pending, 1, k)
                /\ local' = TRUE
                /\ Mark(Conflicts(work) \cup {"failed"})
                /\ UNCHANGED <<runtime, embedder, candidates>>
           \/ \E k \in {last - 1, last} :
                /\ Deaths
                /\ Start(s.frames, SubSeq(s.pending, 1, k), TRUE)
                /\ UNCHANGED candidates
-----------------------------------------------------------------------------
(* The end of a process, and the next one.                                  *)

Close ==
  /\ IF local
     THEN Applicable(frames, pending) /\ Start(Now, <<>>, FALSE)
     ELSE Start(frames, pending, FALSE)
  /\ UNCHANGED candidates

ProcessDies ==
  /\ Deaths
  /\ \/ Start(frames, pending, FALSE)
     \/ Applicable(frames, pending) /\ Start(Now, <<>>, FALSE)
  /\ UNCHANGED candidates

\* A death while a candidate is written: its file stays.
DiesRewriting ==
  /\ Deaths /\ Rewrites
  /\ Applicable(frames, pending)
  /\ EnoughDead(Now)
  /\ Len(candidates) < MaxCandidates
  /\ Start(Now, <<>>, FALSE)
  /\ candidates' = Append(candidates, Candidate(<<>>, FALSE))

Init ==
  /\ frames = <<>>
  /\ pending = <<>>
  /\ local = FALSE
  /\ memory = Empty
  /\ text = [docs |-> {}, staged |-> {}]
  /\ vectors = [docs |-> <<>>, staged |-> <<>>]
  /\ surrogates = <<>>
  /\ embedder \in Embedder
  /\ candidates = <<>>
  /\ upsets = {}

Next ==
  \/ Remember
  \/ \E k \in Key : RememberFact(k)
  \/ \E id \in DOMAIN Now : UpdateFactById(id)
  \/ Flush
  \/ FlushFails
  \/ FlushRebuilds
  \/ RememberHandoff
  \/ CompactIndexes
  \/ \E overwrite \in Overwrite : OptimizeSurrogates(overwrite)
  \/ Close
  \/ ProcessDies
  \/ DiesRewriting

Spec == Init /\ [][Next]_vars
-----------------------------------------------------------------------------
(* Properties. *)

Quiet == pending = <<>> /\ ~memory.staging /\ text.staged = text.docs /\ vectors.staged = vectors.docs

\* What the process searches is what the next one would build from the file:
\* the same documents, vectors of all but hand-offs, and a surrogate map that
\* leads from a root to the tip of its chain.  Not so after a call that threw
\* half-way, and after mutations of an older process were committed unseen.
IndexesMatchStore ==
  (Quiet /\ upsets \cap {"failed", "partial", "recovered", "past"} = {}) =>
    /\ text.docs = Indexed(frames)
    /\ \A i \in Indexed(frames) \ DOMAIN vectors.docs : frames[i].kind = "handoff"
    /\ memory.entries = Replay(frames).entries
    /\ \A r \in DOMAIN surrogates : Live(frames[surrogates[r]]) => Root(frames, surrogates[r]) = r

\* A query vector is only compared with vectors of the same embedder, or of one
\* of the two that says nothing of its identity.
VectorsComparable ==
  \A i \in DOMAIN vectors.staged :
    LET by == vectors.staged[i] IN
    /\ Dims[by] = Dims[embedder]
    /\ Tag[by] # None /\ Tag[embedder] # None => Tag[by] = Tag[embedder]

\* Pending mutations can be committed, unless one of these made a second
\* successor for a frame: an update of a fact that has a surrogate, a surrogate for
\* a frame with a successor that is pending or is not known as its surrogate,
\* a write over hidden facts, or what an older process left behind.
CommitRetryableUnlessSuperseded ==
  upsets \cap {"updated", "overtaken", "regenerated", "hidden", "recovered", "past"} = {} =>
    Applicable(frames, pending)

\* A candidate that was validated holds every frame that is live to this day,
\* under its id; and a process that opened one written now would find the same
\* fact, unless a surrogate has taken its place.
CandidatesKeepLiveSet ==
  /\ \A c \in ToSet(candidates) : c.whole =>
       \A i \in DOMAIN c.frames :
         Live(frames[i]) => c.frames[i] = [frames[i] EXCEPT !.supersedes = None]
  /\ (\A f \in ToSet(frames) : f.kind \in {"surrogate", "extract"} => frames[f.of].kind # "fact") =>
       \A k \in Key : Replay(Rewritten(frames)).entries[k].id = Replay(frames).entries[k].id

=============================================================================
