------------------------------ MODULE WaxStore -------------------------------
(***************************************************************************)
(* The store behind an .mv2s file: WaxStore in src/src/core/wax_store.cpp, *)
(* one process at a time.  Mutations go to the payload area and the        *)
(* write-ahead ring, Commit publishes them in five file writes, LoadState  *)
(* rebuilds the memory of a store from whatever a dead process left.       *)
(*                                                                         *)
(* The data area is a sequence of cells: a payload, a table of contents    *)
(* and a footer take one cell each.  The ring has one slot per record or   *)
(* sentinel; its byte geometry is WalRing's subject.  Each file write is   *)
(* one step, after which the process may die, and which may fail instead   *)
(* and throw.  A payload is named by the number the model gives it.        *)
(*                                                                         *)
(* Left out: metadata, checksums of payloads (deep verification), the      *)
(* counters of WalStats, Supersede (FrameChain's subject; its ring use is  *)
(* Delete's), the 32 MiB window of the footer scan, the replay snapshot of *)
(* a header page, which only saves a scan that would find nothing.         *)
(***************************************************************************)
EXTENDS Integers, Sequences, SequencesExt, FiniteSetsExt

CONSTANTS
  RingSizes,            \* numbers of slots a ring may be created with; for each:
  MaxSequence,          \*   bound on WAL sequence numbers
  MaxCells,             \*   bound on the cells of the data area when a Put starts
  CrashAt,              \*   stages at which the process may die
  FailAt,               \*   stages whose file write may fail: of a commit, the
                        \*   "payload" of a put, the first of its "append", or
                        \*   one "between" its first and its last
  MaxBatch,             \* bound on the frames of one PutBatch
  Embedded,             \* frames for which embeddings are put
  MaxGeneration,        \* bound on commits
  RefreshAfterFailure   \* a caller that sees Commit throw calls
                        \* TryRefreshIfPublishedCommitVisible before anything else

ASSUME StoreAssumption ==
  /\ RingSizes \subseteq Nat \ {0}
  /\ {MaxSequence, MaxCells} \subseteq [RingSizes -> Nat]
  /\ RingSizes \subseteq DOMAIN CrashAt \cap DOMAIN FailAt
  /\ {MaxBatch, MaxGeneration} \cup Embedded \subseteq Nat
  /\ RefreshAfterFailure \in BOOLEAN

VARIABLES
  data, ring, pageA, pageB,   \* the file
  stage,    \* what the process is doing: "down" when there is none
  mem,      \* the members of the WaxStore object
  todo,     \* records an admitted Put or PutBatch has still to append
  plan,     \* what a running Commit has computed
  closing,  \* the running Commit was called by Close
  failed    \* the last Commit threw and the caller has not looked since

file == <<data, ring, pageA, pageB>>
call == <<todo, plan, closing>>
vars == <<file, stage, mem, call, failed>>

CommitStages == {"toc", "footer", "resize", "pageA", "pageB", "finish"}
Blank == <<>>
Slots == DOMAIN ring
WalSlots == Cardinality(Slots)
NoMem == <<>>
NoPlan == <<>>

PayloadCell(b) == [kind |-> "payload", bytes |-> b]
TocCell(fs) == [kind |-> "toc", frames |-> fs]
FooterCell(gen, cseq, fs) ==
  [kind |-> "footer", gen |-> gen, cseq |-> cseq, frames |-> fs]

PutCell(i, cell) ==
  IF i <= Len(data) THEN [data EXCEPT ![i] = cell] ELSE Append(data, cell)

-----------------------------------------------------------------------------
(***************************************************************************)
(* Applying mutations to frames.  ids are positions minus one.             *)
(***************************************************************************)
\* The elements of S among the first n of s, in their order, for each n.
OnlyAmong(s, S) ==
  LET kept[n \in 0 .. Len(s)] ==
        IF n = 0 THEN <<>>
        ELSE IF s[n] \in S THEN Append(kept[n - 1], s[n]) ELSE kept[n - 1]
  IN  kept

Only(s, S) == OnlyAmong(s, S)[Len(s)]

NewFrame(m) == [off |-> m.off, len |-> m.len, deleted |-> FALSE]
PutRecord == [seq : Nat, m : [kind : {"put"}, id : Nat, len : Nat, off : Nat]]
PutRecords(records) == Only(records, PutRecord)

\* The checks Commit makes: dense ids for puts, known ids for the rest.
Applicable(fs, records) ==
  \A i \in DOMAIN records :
    LET before == Len(fs) + Len(OnlyAmong(records, PutRecord)[i - 1])
        m == records[i].m
    IN  IF m.kind = "put" THEN m.id = before ELSE m.id < before

Apply(fs, records) ==
  LET puts == PutRecords(records)
      all == fs \o [i \in DOMAIN puts |-> NewFrame(puts[i].m)]
      gone == {r.m.id : r \in {q \in ToSet(records) : q.m.kind = "delete"}}
  IN  [i \in DOMAIN all |-> [all[i] EXCEPT !.deleted = @ \/ i - 1 \in gone]]

\* The last cell a set of frames or puts occupies, at least low.
EndOf(items, low) ==
  Max({low} \cup {x.off : x \in {y \in items : y.len > 0}})

Puts(records) == {r.m : r \in ToSet(records) \cap PutRecord}

-----------------------------------------------------------------------------
(***************************************************************************)
(* LoadState.                                                              *)
(***************************************************************************)
Selected == IF pageA.hpgen >= pageB.hpgen THEN pageA ELSE pageB

\* A footer counts when the table of contents before it is the one it hashes.
FooterAt(i) ==
  /\ i \in DOMAIN data
  /\ i > 1
  /\ data[i].kind = "footer"
  /\ data[i - 1] = TocCell(data[i].frames)

Footers == {i \in DOMAIN data : FooterAt(i)}

Latest ==
  CHOOSE i \in Footers :
    \A j \in Footers :
      \/ data[j].gen < data[i].gen
      \/ data[j].gen = data[i].gen /\ j <= i

\* The value e, computed once: TLC would otherwise expand e at each use.
Once(S) == CHOOSE e \in S : TRUE

\* The scan reads on from the checkpoint while records follow one another in
\* sequence, once round the ring at most.
Slot(start, k) == ring[(start + k) % WalSlots]

Follows(start, k) ==
  /\ Slot(start, k) # Blank
  /\ k > 0 => Slot(start, k).seq > Slot(start, k - 1).seq

ReadRing(start) ==
  LET n == CHOOSE n \in 0 .. WalSlots :
             /\ \A k \in 0 .. n - 1 : Follows(start, k)
             /\ n = WalSlots \/ ~Follows(start, n)
  IN  [i \in 1 .. n |-> Slot(start, i - 1)]

ScanRing(start, committed) ==
  Once({[n |-> Len(read),
         last |-> IF read = <<>> THEN 0 ELSE Last(read).seq,
         found |-> Only(read, {r \in ToSet(read) : r.seq > committed})]
          : read \in {ReadRing(start)}})

\* A slip: ids are counted from the published frames alone.
NextIdPublished(fs, records) == Len(fs)

NextId(fs, records) == Max({Len(fs)} \cup {m.id + 1 : m \in Puts(records)})

\* What the members become, from the latest footer f and the scan s.
Rebuilt(f, s) ==
  LET newer == s.last > data[f].cseq
      end == (Selected.cpos + s.n) % WalSlots
  IN  [gen |-> data[f].gen, hpgen |-> Selected.hpgen, cseq |-> data[f].cseq,
       wpos |-> end,
       cpos |-> IF newer THEN Selected.cpos ELSE end,
       pend |-> IF newer THEN s.n ELSE 0,
       last |-> IF newer THEN s.last ELSE data[f].cseq,
       foff |-> f,
       frames |-> data[f].frames,
       cache |-> s.found,
       next_id |-> NextId(data[f].frames, s.found),
       dirty |-> newer,
       local |-> FALSE]

Loaded ==
  Once({Once({Rebuilt(f, s) : s \in {ScanRing(Selected.cpos, data[f].cseq)}})
          : f \in {Latest}})

RangesValid(fs, footer) ==
  \A i, j \in DOMAIN fs :
    fs[i].len > 0 =>
      /\ fs[i].off < footer
      /\ fs[j].len > 0 /\ i # j => fs[i].off # fs[j].off

RequiredEnd == EndOf(Puts(Loaded.cache), Latest)

Loadable ==
  /\ Footers # {}
  /\ RangesValid(Loaded.frames, Latest)
  /\ RequiredEnd <= Len(data)

-----------------------------------------------------------------------------
\* Create leaves an empty table of contents, its footer and two header pages,
\* and opens the store.
FirstPage(hpgen) ==
  [hpgen |-> hpgen, fgen |-> 0, footer |-> 2, wpos |-> 0, cpos |-> 0, cseq |-> 0]

Init ==
  /\ data = <<TocCell(<<>>), FooterCell(0, 0, <<>>)>>
  /\ \E n \in RingSizes : ring = [i \in 0 .. n - 1 |-> Blank]
  /\ pageA = FirstPage(1)
  /\ pageB = FirstPage(0)
  /\ stage = "idle"
  /\ mem = Loaded
  /\ todo = <<>>
  /\ plan = NoPlan
  /\ closing = FALSE
  /\ failed = FALSE

Ready == stage = "idle" /\ ~failed

(***************************************************************************)
(* Mutations.  The payload is written behind the file's last cell before   *)
(* the ring is touched; a refused append leaves it there.                  *)
(***************************************************************************)
Stored == Nat \ {0}

PutsOf(lens) ==
  [i \in DOMAIN lens |->
    [kind |-> "put", id |-> mem.next_id + i - 1, len |-> lens[i],
     off |-> Len(data) + Len(OnlyAmong(lens, Stored)[i])]]

\* Payloads are numbered by the record that will name them.
PayloadCells(lens) ==
  LET numbered == [i \in DOMAIN lens |-> <<lens[i], mem.last + i>>]
      stored == Only(numbered, Stored \X Nat)
  IN  [i \in DOMAIN stored |-> PayloadCell(stored[i][2])]

LeavePayloads(lens) ==
  /\ Len(data) < MaxCells[WalSlots]
  /\ mem.last + Len(lens) <= MaxSequence[WalSlots]
  /\ data' = data \o PayloadCells(lens)
  /\ UNCHANGED <<pageA, pageB, mem, plan, closing, failed>>

WritePayloads(lens) == LeavePayloads(lens) /\ UNCHANGED ring

StartAppending(lens) ==
  /\ todo' = PutsOf(lens)
  /\ stage' = "append"

Put(len) ==
  /\ Ready
  /\ mem.pend < WalSlots
  /\ WritePayloads(<<len>>)
  /\ StartAppending(<<len>>)

\* AppendBatch admits a batch only if a sentinel still fits behind it.
PutBatch(lens) ==
  /\ Ready
  /\ mem.pend + Len(lens) < WalSlots
  /\ WritePayloads(lens)
  /\ StartAppending(lens)

\* What an append that throws leaves in the ring.  A write throws only when the
\* file cannot be opened for it.  A record and the sentinel behind it are one
\* write, but at the end of the ring; so the first write takes nothing along, and
\* one further on leaves n records that are whole, with a sentinel or without.
StopsBehind(m, n, sentinel) ==
  [i \in Slots |->
    LET k == (i - mem.wpos) % WalSlots
    IN  IF k < n THEN [seq |-> mem.last + 1 + k, m |-> m[k + 1]]
        ELSE IF k = n /\ sentinel THEN Blank ELSE ring[i]]

RingsLeft(m) ==
  {ring} \cup
    IF "between" \in FailAt[WalSlots] /\ mem.pend + Len(m) < WalSlots
    THEN {StopsBehind(m, n, TRUE) : n \in 1 .. Len(m) - 1} \cup
         {StopsBehind(m, n, FALSE) : n \in {k \in 1 .. Len(m) : (mem.wpos + k) % WalSlots = 0}}
    ELSE {}

\* A Put or PutBatch that throws, for want of room or for a write: members stay
\* as they are, and nothing but a record that was appended names its payloads.
\* When a payload of a batch is the one not written, lens has those before it.
PutRefused(lens) ==
  /\ Ready
  /\ \/ mem.pend + Len(lens) >= WalSlots
     \/ {"payload", "append", "between"} \cap FailAt[WalSlots] # {}
  /\ LeavePayloads(lens)
  /\ ring' \in RingsLeft(PutsOf(lens))
  /\ UNCHANGED <<stage, todo>>

\* One record and, unless the ring is full now, the sentinel behind it.
RingWith(r) ==
  LET next == (mem.wpos + 1) % WalSlots
      full == mem.pend + 1 = WalSlots
  IN  [i \in Slots |-> IF i = mem.wpos THEN r
                       ELSE IF i = next /\ ~full THEN Blank ELSE ring[i]]

AppendRecord(m) ==
  LET r == [seq |-> mem.last + 1, m |-> m]
  IN  /\ mem.pend < WalSlots
      /\ ring' = RingWith(r)
      /\ mem' = [mem EXCEPT !.wpos = (@ + 1) % WalSlots,
                            !.pend = @ + 1,
                            !.last = @ + 1,
                            !.cache = Append(@, r),
                            !.next_id = IF m.kind = "put" THEN m.id + 1 ELSE @,
                            !.dirty = TRUE,
                            !.local = TRUE]

AppendNext ==
  /\ stage = "append"
  /\ AppendRecord(Head(todo))
  /\ todo' = Tail(todo)
  /\ stage' = IF Len(todo) = 1 THEN "idle" ELSE "append"
  /\ UNCHANGED <<data, pageA, pageB, plan, closing, failed>>

Delete(id) ==
  /\ Ready
  /\ mem.last < MaxSequence[WalSlots]
  /\ id < mem.next_id
  /\ AppendRecord([kind |-> "delete", id |-> id])
  /\ UNCHANGED <<data, pageA, pageB, stage, call, failed>>

\* PutEmbeddingBatch, of one vector, takes any id.
PutEmbedding(id) ==
  /\ Ready
  /\ mem.last < MaxSequence[WalSlots]
  /\ AppendRecord([kind |-> "embedding", id |-> id])
  /\ UNCHANGED <<data, pageA, pageB, stage, call, failed>>

(***************************************************************************)
(* Commit: one stage per file write.                                       *)
(***************************************************************************)
Applied == Apply(data[mem.foff].frames, mem.cache)
Committable == Applicable(data[mem.foff].frames, mem.cache)

\* A slip: pending payloads behind the published footer are not skipped.
TocPlaceBehindFooter(fs) == mem.foff + 1

TocPlace(fs) == EndOf(ToSet(fs), mem.foff) + 1

StartCommit ==
  /\ mem.dirty
  /\ mem.gen < MaxGeneration
  /\ FooterAt(mem.foff)
  /\ Committable
  /\ plan' = [frames |-> Applied, at |-> TocPlace(Applied),
              gen |-> mem.gen + 1, cseq |-> Max({mem.cseq, mem.last})]
  /\ stage' = "toc"
  /\ UNCHANGED <<file, mem, todo, failed>>

Commit == Ready /\ StartCommit /\ closing' = FALSE

WriteToc ==
  /\ stage = "toc"
  /\ data' = PutCell(plan.at, TocCell(plan.frames))
  /\ stage' = "footer"
  /\ UNCHANGED <<ring, pageA, pageB, mem, call, failed>>

WriteFooter ==
  /\ stage = "footer"
  /\ data' = PutCell(plan.at + 1, FooterCell(plan.gen, plan.cseq, plan.frames))
  /\ stage' = "resize"
  /\ UNCHANGED <<ring, pageA, pageB, mem, call, failed>>

Resize ==
  /\ stage = "resize"
  /\ data' = SubSeq(data, 1, plan.at + 1)
  /\ stage' = "pageA"
  /\ UNCHANGED <<ring, pageA, pageB, mem, call, failed>>

NewPage(hpgen) ==
  [hpgen |-> hpgen, fgen |-> plan.gen, footer |-> plan.at + 1,
   wpos |-> mem.wpos, cpos |-> mem.wpos, cseq |-> plan.cseq]

WritePageA ==
  /\ stage = "pageA"
  /\ pageA' = NewPage(mem.hpgen + 1)
  /\ stage' = "pageB"
  /\ UNCHANGED <<data, ring, pageB, mem, call, failed>>

WritePageB ==
  /\ stage = "pageB"
  /\ pageB' = NewPage(mem.hpgen)
  /\ stage' = "finish"
  /\ UNCHANGED <<data, ring, pageA, mem, call, failed>>

\* A slip: the pending mutations are published but not forgotten.
FinishedKeepingCache ==
  [mem EXCEPT !.gen = plan.gen, !.hpgen = @ + 1, !.cseq = plan.cseq,
              !.cpos = mem.wpos, !.pend = 0, !.last = plan.cseq,
              !.foff = plan.at + 1, !.frames = plan.frames,
              !.next_id = Len(plan.frames), !.dirty = FALSE, !.local = FALSE]

Finished ==
  [mem EXCEPT !.gen = plan.gen, !.hpgen = @ + 1, !.cseq = plan.cseq,
              !.cpos = mem.wpos, !.pend = 0, !.last = plan.cseq,
              !.cache = <<>>, !.foff = plan.at + 1, !.frames = plan.frames,
              !.next_id = Len(plan.frames), !.dirty = FALSE, !.local = FALSE]

FinishCommit ==
  /\ stage = "finish"
  /\ mem' = Finished
  /\ stage' = IF closing THEN "closed" ELSE "idle"
  /\ plan' = NoPlan
  /\ closing' = FALSE
  /\ UNCHANGED <<file, todo, failed>>

\* A file write throws: the members keep the values they had before Commit.
CommitFails ==
  /\ stage \in FailAt[WalSlots] \cap CommitStages
  /\ stage' = "idle"
  /\ plan' = NoPlan
  /\ closing' = FALSE
  /\ failed' = RefreshAfterFailure
  /\ UNCHANGED <<file, mem, todo>>

\* A slip: Close lets go without committing.
CloseDropsLocal ==
  /\ Ready
  /\ stage' = "closed"
  /\ UNCHANGED <<file, mem, call, failed>>

\* Recovered mutations alone are not committed by Close.
CloseClean ==
  /\ Ready
  /\ ~(mem.dirty /\ mem.local)
  /\ stage' = "closed"
  /\ UNCHANGED <<file, mem, call, failed>>

CloseCommits ==
  /\ Ready
  /\ mem.local
  /\ StartCommit
  /\ closing' = TRUE

(***************************************************************************)
(* Opening and looking again.                                              *)
(***************************************************************************)
\* A slip: the repair cuts the file at the footer and drops pending payloads.
OpenCutsPending ==
  /\ stage \in {"down", "closed"}
  /\ Loadable
  /\ mem' = Loaded
  /\ data' = SubSeq(data, 1, Latest)
  /\ stage' = "idle"
  /\ UNCHANGED <<ring, pageA, pageB, call, failed>>

\* Open repairs: bytes behind the last one referenced are cut off.
Open ==
  /\ stage \in {"down", "closed"}
  /\ Loadable
  /\ mem' = Loaded
  /\ data' = SubSeq(data, 1, RequiredEnd)
  /\ stage' = "idle"
  /\ UNCHANGED <<ring, pageA, pageB, call, failed>>

\* Verify does not ask whether the store is open, and opens one that was closed.
Verify ==
  /\ stage \in {"idle", "closed"} /\ ~failed
  /\ Loadable
  /\ mem' = Loaded
  /\ stage' = "idle"
  /\ UNCHANGED <<file, call, failed>>

TryRefreshIfPublishedCommitVisible ==
  /\ stage = "idle"
  /\ Footers # {}
  /\ IF data[Latest].gen > mem.gen
       THEN Loadable /\ mem' = Loaded
       ELSE UNCHANGED mem
  /\ failed' = FALSE
  /\ UNCHANGED <<file, stage, call>>

ProcessDies ==
  /\ stage \in CrashAt[WalSlots] \ {"down"}
  /\ stage' = "down"
  /\ mem' = NoMem
  /\ todo' = <<>>
  /\ plan' = NoPlan
  /\ closing' = FALSE
  /\ failed' = FALSE
  /\ UNCHANGED file

Lengths == UNION {[1 .. n -> {0, 1}] : n \in 1 .. MaxBatch}

Next ==
  \/ \E len \in {0, 1} : Put(len)
  \/ \E lens \in Lengths : PutBatch(lens)
  \/ \E lens \in Lengths : PutRefused(lens)
  \/ AppendNext
  \/ \E id \in 0 .. MaxSequence[WalSlots] : Delete(id)
  \/ \E id \in Embedded : PutEmbedding(id)
  \/ Commit
  \/ WriteToc
  \/ WriteFooter
  \/ Resize
  \/ WritePageA
  \/ WritePageB
  \/ FinishCommit
  \/ CommitFails
  \/ CloseClean
  \/ CloseCommits
  \/ Open
  \/ Verify
  \/ TryRefreshIfPublishedCommitVisible
  \/ ProcessDies

Spec == Init /\ [][Next]_vars

-----------------------------------------------------------------------------
\* Whatever the process was doing when it died, the file can be opened again:
\* a footer is found, its frames lie before it, and every payload the pending
\* records name is in the file (LoadState throws otherwise).
AlwaysReopens == Loadable

\* What a reopened store would hold, read through to the payload bytes.
Bytes == UNION {0 .. MaxSequence[n] : n \in RingSizes}
Read(f) ==
  IF f.len = 0 THEN 0
  ELSE IF f.off \in DOMAIN data /\ data[f.off].kind = "payload"
    THEN data[f.off].bytes ELSE -1
View(fs) == [i \in DOMAIN fs |-> [bytes |-> Read(fs[i]), deleted |-> fs[i].deleted]]

OnDisk == INSTANCE DurableStore WITH
  content <- Once({View(fs) : fs \in {Apply(l.frames, l.cache) : l \in {Loaded}}}),
  published <- Once({View(l.frames) : l \in {Loaded}}),
  generation <- Loaded.gen

\* At every step the file, read the way LoadState would, behaves as the durable
\* store: nothing acknowledged is lost, changed or applied twice, commits are all
\* or nothing, and generations never go back.
Durable == OnDisk!Spec

\* A store that holds pending mutations can commit them: none is refused for an
\* id that is not dense or not known, after any sequence of crashes and reopens,
\* unless an embedding was put for a frame that was not there yet.
Premature(r) == r.m.kind = "embedding" /\ r.m.id >= Len(data[mem.foff].frames)
NeverPoisoned ==
  stage = "idle" =>
    /\ FooterAt(mem.foff)
    /\ Committable \/ \E r \in ToSet(mem.cache) : Premature(r)

\* Reopening right now would give a running store its own frames, ids and
\* pending mutations again, unless its last Commit failed part-way.
MemoryMatchesFile ==
  stage = "idle" /\ data[Latest].gen = mem.gen =>
    /\ Loaded.frames = mem.frames
    /\ Loaded.cache = mem.cache
    /\ Loaded.next_id = mem.next_id
    /\ Loaded.wpos = mem.wpos
    /\ Loaded.last = mem.last

\* A put that is pending in a running store is pending, or committed, in the
\* store a crash and a reopen give back.  tests/unit/wax_store_write_test.cpp:720
\* asks it of one put: "pending put must be visible after reopen".
PendingPutsReopen ==
  stage = "idle" =>
    \A m \in Puts(mem.cache) :
      \/ m \in Puts(Loaded.cache)
      \/ m.id < Len(Loaded.frames) /\ Loaded.frames[m.id + 1].off = m.off

\* Close never lets go of a store whose own mutations the file does not publish.
ClosePublishes ==
  [][stage' = "closed" /\ stage # "closed" /\ mem.local => Loaded.cache = <<>>]_vars
==============================================================================
