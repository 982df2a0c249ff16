----------------------------- MODULE FactMemory -----------------------------
(***************************************************************************)
(* Facts in MemoryOrchestrator (src/src/orchestrator/                      *)
(* memory_orchestrator.cpp): revisions are frames of the store, the facts  *)
(* of the process live in a StructuredMemoryStore and in a text index, and *)
(* Flush brings the three together.  A restart rebuilds the last two from  *)
(* the committed frames.                                                   *)
(*                                                                         *)
(* mutex_ is held for a whole call.  A call appends one or two records to  *)
(* the write-ahead ring; each append may throw (ring full, disk full) and  *)
(* the process may die after any of them.  What is in the ring is          *)
(* recovered by the next process (WaxStore shows how, and when not).       *)
(*                                                                         *)
(* Left out: content frames, embeddings and surrogates; sessions.  The     *)
(* entry fact_pinned of a frame's metadata is its field pinned, and not    *)
(* looked for in its text.                                                 *)
(***************************************************************************)
EXTENDS FactPayload

CONSTANTS
  Key,          \* <<entity, attribute>>, neither of them empty
  Text,         \* what may be said of each key: a value with metadata
  None,         \* no frame, no key
  CallsFail,    \* whether an append to the ring may throw
  CommitsFail,  \* whether a commit or an index may throw
  Deaths,       \* whether the process may die
  MaxFrames,    \* bounds on frames and on pending mutations
  MaxPending

INSTANCE FrameChain
INSTANCE StructuredMemory

VARIABLES
  frames,   \* committed frames
  pending,  \* mutations in the write-ahead ring, not committed
  local,    \* has_local_mutations_
  memory,   \* structured_memory_
  index,    \* structured_text_index_: ids of facts searched, and staged
  upsets    \* history: what has parted memory, store and file (see Upset)

vars == <<frames, pending, local, memory, index, upsets>>

Upset == {"failed",     \* a call threw after it had changed something
          "restored",   \* StageRemove started over from the entries
          "hidden",     \* a call changed facts hidden by a failed flush
          "recovered",  \* the process found pending mutations when it started
          "unread",     \* or a fact that a restart does not read
          "past"}       \* one of these, or a death inside a call, before the start

Frame(op, k, text, pinned) ==
  [op |-> op, key |-> k, text |-> text, pinned |-> pinned, deleted |-> FALSE,
   supersedes |-> None, superseded_by |-> None]
Revision(k, text, pinned) == Frame("upsert", k, text, pinned)
Tombstone(k) == Frame("remove", k, None, FALSE)
Handoff == Frame("other", None, None, FALSE)

UpsertOf(k, text) == BuildUpsertPayload(k[1], k[2], text.value, text.meta)
RemoveOf(k) == BuildRemovePayload(k[1], k[2])

\* Facts are strings with the bytes Size gives them; None is none of them.
ASSUME FactAssumption ==
  /\ DOMAIN Text = Key
  /\ \A k \in Key :
       /\ k \in (DOMAIN Size) \X (DOMAIN Size)
       /\ Size[k[1]] > 0 /\ Size[k[2]] > 0
       /\ None # ParsePayload(RemoveOf(k))
       /\ \A text \in Text[k] :
            /\ text.value \in DOMAIN Size
            /\ DOMAIN text.meta \subseteq ToSet(KeyOrder)
            /\ text.meta \in [DOMAIN text.meta -> DOMAIN Size]
            /\ None # ParsePayload(UpsertOf(k, text))
  /\ None \notin Key \cup Nat
  /\ {CallsFail, CommitsFail, Deaths} \subseteq BOOLEAN
  /\ {MaxFrames, MaxPending} \subseteq Nat

\* What can be put of each key.
Puttable == [k \in Key |-> {text \in Text[k] : WithinLimits(UpsertOf(k, text))}]

\* FrameMeta and FrameContent with include_pending.
Now == View(frames, pending)
NextId == Len(Now) + 1

-----------------------------------------------------------------------------
(* ReplayStructuredFactsFromStore: frames in order, without the deleted     *)
(* ones, those taken for user content, and those that cannot be parsed.     *)

\* What a restart makes of the first bytes of a payload.
ReadBack(p) ==
  LET first == FirstBytes(p, MaxRead)
  IN  IF Readable(first) THEN ParsePayload(first) ELSE None

\* Its results, which depend on the constants only.
UpsertRead ==
  [k \in Key |-> [text \in Puttable[k] |->
    IF IsKnownUserContentFrame(text.meta) THEN None ELSE ReadBack(UpsertOf(k, text))]]
RemoveRead == [k \in Key |-> ReadBack(RemoveOf(k))]

\* The fact that frame f holds, if it is read.
FactOf(f) ==
  CASE f.deleted \/ f.op = "other" -> None
    [] ~f.deleted /\ f.op = "upsert" -> UpsertRead[f.key][f.text]
    [] ~f.deleted /\ f.op = "remove" -> RemoveRead[f.key]

StageFact(m, fact, entry) ==
  CASE fact = None -> m
    [] fact # None /\ fact.op = "remove" -> StageRemove(m, <<fact.entity, fact.attribute>>)
    [] fact # None /\ fact.op = "upsert" -> StageUpsert(m, <<fact.entity, fact.attribute>>, entry)

ReplayFrame(fs, m, i) == StageFact(m, FactOf(fs[i]), Entry(i, fs[i].supersedes, fs[i].pinned))

Replay(fs) ==
  LET m[i \in 0..Len(fs)] == IF i = 0 THEN Empty ELSE ReplayFrame(fs, m[i - 1], i)
  IN  CommitStaged(m[Len(fs)])

\* A fact that is too long for a restart, or taken for content.
UnreadTexts ==
  [k \in Key |-> {text \in Puttable[k] :
    Bytes(UpsertOf(k, text)) > MaxRead \/ IsKnownUserContentFrame(text.meta)}]

Unread(f) == f.op = "upsert" /\ f.text \in UnreadTexts[f.key]

Ids(entries) == {entries[k].id : k \in Key} \ {None}

\* RebuildRuntimeStateFromStore over committed frames fs, with ms pending.
Rebuild(fs, ms, past) ==
  LET m == Replay(fs)
  IN  /\ frames' = fs
      /\ pending' = ms
      /\ local' = FALSE
      /\ memory' = m
      /\ index' = [docs |-> Ids(m.entries), staged |-> Ids(m.entries)]
      /\ upsets' = (IF upsets # {} \/ past THEN {"past"} ELSE {})
                   \cup (IF ms # <<>> THEN {"recovered"} ELSE {})
                   \cup (IF \E f \in ToSet(fs) : Unread(f) THEN {"unread"} ELSE {})

IsHidden == memory.staging /\ ~memory.visible

\* A call appends records; after n of them memory is mems[n] and the
\* index stages docs[n].  It returns, or the next append throws, or the process
\* dies and another one starts.
Call(records, mems, docs, up) ==
  LET n == Len(records)
      After(k) ==
        /\ pending' = pending \o SubSeq(records, 1, k)
        /\ local' = (local \/ k > 0)
        /\ memory' = mems[k]
        /\ index' = [index EXCEPT !.staged = docs[k]]
        /\ UNCHANGED frames
      Hidden == IF IsHidden THEN {"hidden"} ELSE {}
  IN  /\ NextId <= MaxFrames
      /\ Len(pending) + n <= MaxPending
      /\ \/ /\ After(n)
            /\ upsets' = upsets \cup up \cup Hidden
         \/ \E k \in 0..(n - 1) :
              /\ CallsFail
              /\ After(k)
              /\ upsets' = upsets \cup (IF k > 0 \/ mems[k] # memory
                                        THEN {"failed"} \cup up \cup Hidden ELSE {})
         \/ \E k \in 1..n :
              /\ Deaths
              /\ Rebuild(frames, pending \o SubSeq(records, 1, k), k < n)
-----------------------------------------------------------------------------
(* The calls. *)

RememberFact(k, text) ==
  LET id == NextId
      pinned == MetadataFlagTrue(text.meta, "fact_pinned")
  IN  Call(<<PutFrame(Revision(k, text, pinned))>>,
           [n \in 0..1 |-> IF n = 1 THEN StageUpsert(memory, k, Entry(id, None, pinned)) ELSE memory],
           [n \in 0..1 |-> IF n = 1 THEN index.staged \cup {id} ELSE index.staged],
           {})

Restored == IF StartsOver(memory) /\ memory.entries # NoEntries THEN {"restored"} ELSE {}

\* The fact is taken out of memory before its tombstone is put.
ForgetFact(k) ==
  /\ RemovedId(memory, k) # None
  /\ Call(<<PutFrame(Tombstone(k))>>,
          [n \in 0..1 |-> StageRemove(memory, k)],
          [n \in 0..1 |-> index.staged \ {RemovedId(memory, k)}],
          Restored)

\* Nothing to forget: the call returns false.
ForgetNothing(k) ==
  /\ RemovedId(memory, k) = None
  /\ memory' = StageRemove(memory, k)
  /\ upsets' = upsets \cup Restored
  /\ UNCHANGED <<frames, pending, local, index>>

IsFact(id) == id \in DOMAIN Now /\ Now[id].op = "upsert" /\ ~Now[id].deleted
IsActive(id) == Visible(memory)[Now[id].key].id = id

Revise(id, text, pinned) ==
  LET new == NextId
      k == Now[id].key
  IN  Call(<<PutFrame(Revision(k, text, pinned)), SupersedeFrame(id, new)>>,
           [n \in 0..2 |-> IF n = 2 THEN StageUpsert(memory, k, Entry(new, id, pinned)) ELSE memory],
           [n \in 0..2 |-> IF n = 2 THEN (index.staged \ {id}) \cup {new} ELSE index.staged],
           {})

\* An update may change the metadata of a fact, and takes none away.
Updates(id) ==
  {text \in Puttable[Now[id].key] : DOMAIN Now[id].text.meta \subseteq DOMAIN text.meta}

\* A slip: any revision may be updated.
UpdateAnyRevision(id) ==
  /\ IsFact(id) /\ ~Now[id].pinned
  /\ \E text \in Updates(id) : Revise(id, text, FALSE)

UpdateFactById(id) ==
  /\ IsFact(id) /\ ~Now[id].pinned
  /\ IsActive(id)
  /\ \E text \in Updates(id) : Revise(id, text, FALSE)

SetFactPinned(id, pinned) ==
  /\ IsFact(id) /\ Now[id].pinned # pinned
  /\ IsActive(id)
  /\ Revise(id, Now[id].text, pinned)

\* A slip: the fact in force is deleted without a tombstone.
DeleteNoTombstone(id) ==
  LET k == Now[id].key
  IN  /\ IsFact(id) /\ ~Now[id].pinned
      /\ IF IsActive(id)
         THEN Call(<<DeleteFrame(id)>>,
                   [n \in 0..1 |-> IF n > 0 THEN StageRemove(memory, k) ELSE memory],
                   [n \in 0..1 |-> IF n > 0 THEN index.staged \ {id} ELSE index.staged],
                   Restored)
         ELSE Call(<<DeleteFrame(id)>>, [n \in 0..1 |-> memory], [n \in 0..1 |-> index.staged], {})

\* The frame is deleted first; if it is the fact in force, memory gives it
\* up and a tombstone follows.
DeleteFactById(id) ==
  LET k == Now[id].key
  IN  /\ IsFact(id) /\ ~Now[id].pinned
      /\ IF IsActive(id)
         THEN Call(<<DeleteFrame(id), PutFrame(Tombstone(k))>>,
                   [n \in 0..2 |-> IF n > 0 THEN StageRemove(memory, k) ELSE memory],
                   [n \in 0..2 |-> IF n > 0 THEN index.staged \ {RemovedId(memory, k)} ELSE index.staged],
                   Restored)
         ELSE Call(<<DeleteFrame(id)>>, [n \in 0..1 |-> memory], [n \in 0..1 |-> index.staged], {})

-----------------------------------------------------------------------------
(* Commits.  Commit returns at once when nothing is pending.                *)

Flush ==
  /\ Applicable(frames, pending)
  /\ frames' = Now
  /\ pending' = <<>>
  /\ local' = FALSE
  /\ memory' = CommitStaged(memory)
  /\ index' = [index EXCEPT !.docs = index.staged]
  /\ UNCHANGED upsets

\* Commit throws before its footer is written, or because it cannot apply
\* the mutations: staged facts are kept but hidden.
FlushFails ==
  /\ pending # <<>>
  /\ CommitsFail \/ ~Applicable(frames, pending)
  /\ memory' = [memory EXCEPT !.visible = FALSE]
  /\ UNCHANGED <<frames, pending, local, index, upsets>>

\* Commit throws behind its footer, or an index throws after the commit:
\* the runtime is rebuilt from the store.
FlushRebuilds ==
  /\ CommitsFail
  /\ Applicable(frames, pending)
  /\ pending # <<>> \/ index.staged # index.docs
  /\ Rebuild(Now, <<>>, FALSE)

\* A hand-off is put and committed at once, and what is pending with it;
\* the facts stay staged.
RememberHandoff ==
  LET ms == Append(pending, PutFrame(Handoff))
  IN  /\ NextId <= MaxFrames
      /\ \/ /\ Applicable(frames, ms)
            /\ frames' = View(frames, ms)
            /\ pending' = <<>>
            /\ local' = FALSE
         \/ /\ CommitsFail \/ ~Applicable(frames, ms)
            /\ Len(ms) <= MaxPending
            /\ frames' = frames
            /\ pending' = ms
            /\ local' = TRUE
      /\ UNCHANGED <<memory, index, upsets>>

CompactIndexes ==
  /\ Applicable(frames, pending)
  /\ frames' = Now
  /\ pending' = <<>>
  /\ local' = FALSE
  /\ index' = [index EXCEPT !.docs = index.staged]
  /\ UNCHANGED <<memory, upsets>>

\* Close commits what this process has put; the next one starts from that.
Close ==
  IF local
  THEN Applicable(frames, pending) /\ Rebuild(Now, <<>>, FALSE)
  ELSE Rebuild(frames, pending, FALSE)

\* A death between two calls, or in a commit: before its footer or behind it.
ProcessDies ==
  /\ Deaths
  /\ \/ Rebuild(frames, pending, FALSE)
     \/ Applicable(frames, pending) /\ Rebuild(Now, <<>>, FALSE)
-----------------------------------------------------------------------------
Init ==
  /\ frames = <<>>
  /\ pending = <<>>
  /\ local = FALSE
  /\ memory = Empty
  /\ index = [docs |-> {}, staged |-> {}]
  /\ upsets = {}

Next ==
  \/ \E k \in Key :
       \/ \E text \in Puttable[k] : RememberFact(k, text)
       \/ ForgetFact(k)
       \/ ForgetNothing(k)
  \/ \E id \in DOMAIN Now :
       \/ UpdateFactById(id)
       \/ \E pinned \in BOOLEAN : SetFactPinned(id, pinned)
       \/ DeleteFactById(id)
  \/ Flush
  \/ FlushFails
  \/ FlushRebuilds
  \/ RememberHandoff
  \/ CompactIndexes
  \/ Close
  \/ ProcessDies

Spec == Init /\ [][Next]_vars
-----------------------------------------------------------------------------
(* Properties. *)

ReadsWhole ==
  \A k \in Key : \A text \in Puttable[k] \ UnreadTexts[k] :
    UpsertRead[k][text] = [op |-> "upsert", entity |-> k[1], attribute |-> k[2],
                           value |-> text.value, meta |-> text.meta]

\* Facts of the process are what a restart would make of the committed
\* frames, once nothing is staged or pending: Flush keeps three stores in
\* step.  The exceptions are named by upsets (a call that threw half-way, a
\* write over hidden facts, recovered mutations, a restored fact), and a fact
\* longer than MaxRead or with metadata of content, which a restart passes over
\* for an older one.  Of any other it reads all that was said.
MemoryIsReplay ==
  /\ ReadsWhole
  /\ (upsets \subseteq {"past", "unread"} /\ ~memory.staging /\ pending = <<>>) =>
       LET replayed == Replay(frames).entries
           id(k) == memory.entries[k].id
       IN  \A k \in Key : memory.entries[k] # replayed[k] =>
             id(k) # None /\ Unread(frames[id(k)])

\* Pending mutations can be committed: a Flush that failed can be tried again.
CommitRetryable == Applicable(frames, pending)

\* They can, and a call that throws half-way does not change it, as long as
\* nobody changes hidden, recovered or restored facts, no older process was cut
\* short and the restart read every fact: each of these can leave an old revision
\* in force, and an update of that one makes a ring no commit accepts.
CommitRetryableUnlessUpset == upsets \subseteq {"failed"} => CommitRetryable

\* fact.history: revisions in the file point back at older ones of their
\* key, and each of those points forward at the same revision.
HistoryLinked ==
  \A i \in DOMAIN frames :
    LET old == frames[i].supersedes IN
    old # None => /\ old < i
                  /\ frames[old].key = frames[i].key
                  /\ frames[old].superseded_by = i

\* When a fact in force is deleted, no older revision comes back at a restart:
\* the tombstone hides them all.  A death or failure between the two records
\* breaks it, and so do a delete while other facts are in force and a fact that a
\* restart does not read.
NoOlderRevisionReturns ==
  (upsets = {} /\ ~(\E f \in ToSet(frames) : Unread(f))) =>
    LET replayed == Replay(frames).entries
        id(i) == replayed[frames[i].key].id
    IN  \A i \in DOMAIN frames : frames[i].deleted /\ id(i) # None => id(i) > i

=============================================================================
