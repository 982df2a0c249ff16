------------------------------- MODULE WalRing -------------------------------
(***************************************************************************)
(* The writer of the write-ahead ring of an .mv2s store: WalRingWriter in  *)
(* src/src/core/wal_ring.cpp.                                              *)
(*                                                                         *)
(* The ring is WalSize cells.  A record is a header of HeaderSize cells    *)
(* followed by its payload; a cell holds either zero bytes (Blank) or the  *)
(* i-th piece of one record, so a header or a payload that was partly      *)
(* overwritten is recognisable, as the checksum makes it in the code.      *)
(* Records never straddle the end of the ring: a short tail is zeroed, a   *)
(* longer one is consumed by a padding record.  Each file write of an      *)
(* append (one WriteAll call) is a point where the process may die.        *)
(*                                                                         *)
(* Left out: the counters that only feed WalStats (wraps, checkpoints,     *)
(* sentinels, write calls) and the 32-bit limits on payload and padding    *)
(* length.  MaxSequence bounds the sequence numbers of the model: the      *)
(* overflow check at 2^64 - 1 is not reached.                              *)
(***************************************************************************)
EXTENDS Integers, Sequences

CONSTANTS
  HeaderSize,   \* cells of a record header (48 bytes in the code)
  WalSize,      \* cells of the ring
  Payload,      \* payloads a caller may append
  PayloadLen,   \* PayloadLen[p] is the length of payload p, never zero
  Padding,      \* body of a padding record
  MaxSequence,  \* bound on sequence numbers
  MaxBatch      \* bound on the payloads of one AppendBatch

ASSUME RingAssumption ==
  /\ HeaderSize \in Nat \ {0}
  /\ WalSize \in Nat
  /\ WalSize >= HeaderSize
  /\ PayloadLen \in [Payload -> Nat \ {0}]
  /\ Padding \notin Payload
  /\ MaxSequence \in Nat
  /\ MaxBatch \in Nat

VARIABLES
  disk,            \* the ring as the file holds it
  open,            \* a writer exists: the process is running
  write_pos,       \* next free cell
  checkpoint_pos,  \* first cell of the oldest record not yet checkpointed
  pending_bytes,   \* cells in use since the checkpoint
  last_sequence,   \* sequence of the newest record
  batch            \* payloads an AppendBatch call has still to append

cursors == <<write_pos, checkpoint_pos, pending_bytes, last_sequence>>
ringVars == <<disk, open, cursors, batch>>

Offsets == 0 .. WalSize - 1
Blank == <<>>

Records == [seq : Nat, len : Nat, body : Payload \cup {Padding}]

(***************************************************************************)
(* Cursor arithmetic.  w is the cursor of a writer: position, cells        *)
(* pending, last sequence.                                                 *)
(***************************************************************************)
Cursor == [pos |-> write_pos, pend |-> pending_bytes, seq |-> last_sequence]

EntrySize(p) == HeaderSize + PayloadLen[p]

Remaining(w) == WalSize - w.pos

\* A tail too short for a header is zeroed and skipped.
SkipTail(w) ==
  IF Remaining(w) < HeaderSize
    THEN [w EXCEPT !.pos = 0, !.pend = @ + Remaining(w)]
    ELSE w

\* A tail too short for the entry is consumed by a padding record.
PadTail(w, entry) ==
  IF Remaining(w) < entry
    THEN [pos |-> 0, pend |-> w.pend + Remaining(w), seq |-> w.seq + 1]
    ELSE w

Place(w, entry) ==
  [pos  |-> IF w.pos + entry = WalSize THEN 0 ELSE w.pos + entry,
   pend |-> w.pend + entry,
   seq  |-> w.seq + 1]

RecordCursor(w, p) == PadTail(SkipTail(w), EntrySize(p))

AfterAppend(w, p) == SkipTail(Place(RecordCursor(w, p), EntrySize(p)))

(***************************************************************************)
(* The capacity check made before anything is written.                     *)
(***************************************************************************)
ProbePos(w) == IF Remaining(w) < HeaderSize THEN 0 ELSE w.pos

ExtraPadding(w, entry) ==
  LET probe    == ProbePos(w)
      padded   == WalSize - probe < entry
      end      == (IF padded THEN 0 ELSE probe) + entry
  IN  (IF Remaining(w) < HeaderSize THEN Remaining(w) ELSE 0)
        + (IF padded THEN WalSize - probe ELSE 0)
        + (IF WalSize - end < HeaderSize THEN WalSize - end ELSE 0)

TotalNeeded(w, entry) == entry + ExtraPadding(w, entry)

CanAppend(w, p) ==
  /\ EntrySize(p) <= WalSize
  /\ TotalNeeded(w, EntrySize(p)) <= WalSize
  /\ w.pend <= WalSize - TotalNeeded(w, EntrySize(p))

(***************************************************************************)
(* What the writes of one append leave in the file.                        *)
(***************************************************************************)
DataRecord(seq, p) == [seq |-> seq, len |-> PayloadLen[p], body |-> p]
PadRecord(seq, skip) == [seq |-> seq, len |-> skip, body |-> Padding]

PutCells(d, at, n, r) ==
  [i \in Offsets |-> IF at <= i /\ i < at + n THEN <<r, i - at>> ELSE d[i]]

ZeroCells(d, at, n) ==
  [i \in Offsets |-> IF at <= i /\ i < at + n THEN Blank ELSE d[i]]

ZeroTail(d, w) ==
  IF Remaining(w) < HeaderSize THEN ZeroCells(d, w.pos, Remaining(w)) ELSE d

PadDisk(d, w, entry) ==
  IF Remaining(w) < entry
    THEN PutCells(d, w.pos, HeaderSize, PadRecord(w.seq + 1, Remaining(w) - HeaderSize))
    ELSE d

RecordDisk(d, w, p) ==
  PutCells(d, w.pos, EntrySize(p), DataRecord(w.seq + 1, p))

\* The record and the sentinel go out in one write.
InlineSentinel(w, entry) ==
  /\ w.pos + entry < WalSize
  /\ WalSize - (w.pos + entry) >= HeaderSize
  /\ w.pend + entry < WalSize

\* A slip: a sentinel is written even into a full ring.
SentinelAlways(d, w) == ZeroCells(d, w.pos, HeaderSize)

Sentinel(d, w) ==
  IF w.pend < WalSize THEN ZeroCells(d, w.pos, HeaderSize) ELSE d

TailDisk(d, w)         == ZeroTail(d, w)
PaddedDisk(d, w, p)    == PadDisk(TailDisk(d, w), SkipTail(w), EntrySize(p))
WrittenDisk(d, w, p)   == RecordDisk(PaddedDisk(d, w, p), RecordCursor(w, p), p)
AfterTailDisk(d, w, p) ==
  ZeroTail(WrittenDisk(d, w, p), Place(RecordCursor(w, p), EntrySize(p)))
FinalDisk(d, w, p)     == Sentinel(AfterTailDisk(d, w, p), AfterAppend(w, p))

\* Every state a dying process can leave: one per completed WriteAll call.
AppendStages(d, w, p) ==
  {d, TailDisk(d, w), PaddedDisk(d, w, p), FinalDisk(d, w, p)}
    \cup IF InlineSentinel(RecordCursor(w, p), EntrySize(p))
           THEN {}
           ELSE {WrittenDisk(d, w, p), AfterTailDisk(d, w, p)}

(***************************************************************************)
(* AppendBatch dry-runs the whole batch before it writes the first record. *)
(* The dry run differs from Append: it counts no sequence for a padding    *)
(* record, which only the overflow check could see, and refuses a record   *)
(* that leaves the ring exactly full.                                      *)
(***************************************************************************)
SimAccepts(w, p) ==
  /\ CanAppend(w, p)
  /\ \/ InlineSentinel(RecordCursor(w, p), EntrySize(p))
     \/ AfterAppend(w, p).pend < WalSize

\* The cursor before each payload of a batch, and behind the last.
BatchCursors(w, ps) ==
  LET at[n \in 0 .. Len(ps)] == IF n = 0 THEN w ELSE AfterAppend(at[n - 1], ps[n])
  IN  at

\* A slip: each payload is checked against the ring as it is before the batch.
BatchFitsEach(w, ps) == \A n \in DOMAIN ps : SimAccepts(w, ps[n])

BatchFits(w, ps) == \A n \in DOMAIN ps : SimAccepts(BatchCursors(w, ps)[n - 1], ps[n])

-----------------------------------------------------------------------------
RingInit ==
  /\ disk = [i \in Offsets |-> Blank]
  /\ open = TRUE
  /\ write_pos = 0
  /\ checkpoint_pos = 0
  /\ pending_bytes = 0
  /\ last_sequence = 0
  /\ batch = <<>>

\* The bound of the model: an append takes at most two sequence numbers.
SequenceRoom(n) == last_sequence + 2 * n <= MaxSequence

SetCursor(w) ==
  /\ write_pos' = w.pos
  /\ pending_bytes' = w.pend
  /\ last_sequence' = w.seq

WriteRecord(p) ==
  /\ CanAppend(Cursor, p)
  /\ disk' = FinalDisk(disk, Cursor, p)
  /\ SetCursor(AfterAppend(Cursor, p))
  /\ UNCHANGED <<checkpoint_pos, open>>

AppendRecord(p) ==
  /\ open
  /\ batch = <<>>
  /\ SequenceRoom(1)
  /\ WriteRecord(p)
  /\ UNCHANGED batch

AppendBatch(ps) ==
  /\ open
  /\ batch = <<>>
  /\ SequenceRoom(Len(ps))
  /\ BatchFits(Cursor, ps)
  /\ batch' = ps
  /\ UNCHANGED <<disk, open, cursors>>

AppendNext ==
  /\ open
  /\ batch # <<>>
  /\ WriteRecord(Head(batch))
  /\ batch' = Tail(batch)

RecordCheckpoint ==
  /\ open
  /\ batch = <<>>
  /\ checkpoint_pos' = write_pos
  /\ pending_bytes' = 0
  /\ UNCHANGED <<disk, open, write_pos, last_sequence, batch>>

\* The process dies inside an append of p, or between calls.
CrashInAppend(p) ==
  /\ open
  /\ IF batch = <<>> THEN SequenceRoom(1) ELSE p = Head(batch)
  /\ CanAppend(Cursor, p)
  /\ disk' \in AppendStages(disk, Cursor, p)
  /\ open' = FALSE
  /\ batch' = <<>>
  /\ UNCHANGED cursors

CrashIdle ==
  /\ open
  /\ open' = FALSE
  /\ batch' = <<>>
  /\ UNCHANGED <<disk, cursors>>

(***************************************************************************)
(* The cells in use run from checkpoint_pos, cyclically, to write_pos.     *)
(***************************************************************************)
Geometry(wp, cp, pend) ==
  /\ wp \in Offsets
  /\ cp \in Offsets
  /\ pend \in 0 .. WalSize
  /\ \/ wp = cp + pend
     \/ wp = cp + pend - WalSize

\* The constructor takes its cursors from the caller, who read them back from
\* the file; WalRecovery says how and is checked to stay within this step.
Construct ==
  /\ ~open
  /\ write_pos' \in Offsets
  /\ checkpoint_pos' \in Offsets
  /\ pending_bytes' \in 0 .. WalSize
  /\ Geometry(write_pos', checkpoint_pos', pending_bytes')
  /\ last_sequence' \in Nat
  /\ open' = TRUE
  /\ UNCHANGED <<disk, batch>>

Batches == UNION {[1 .. n -> Payload] : n \in 1 .. MaxBatch}

RingNext ==
  \/ \E p \in Payload : AppendRecord(p)
  \/ \E ps \in Batches : AppendBatch(ps)
  \/ AppendNext
  \/ RecordCheckpoint
  \/ \E p \in Payload : CrashInAppend(p)
  \/ CrashIdle
  \/ Construct

RingSpec == RingInit /\ [][RingNext]_ringVars

-----------------------------------------------------------------------------
RingTypeOK ==
  /\ disk \in [Offsets -> {Blank} \cup (Records \X Nat)]
  /\ open \in BOOLEAN
  /\ write_pos \in Offsets
  /\ checkpoint_pos \in Offsets
  /\ pending_bytes \in 0 .. WalSize
  /\ last_sequence \in Nat
  /\ batch \in Seq(Payload)

\* The cursors always delimit one cyclic region of pending_bytes cells, and the
\* region never exceeds the ring: Append's prediction covers every skip it makes.
RingGeometry == Geometry(write_pos, checkpoint_pos, pending_bytes)

\* What the capacity check charges for an append is what the append consumes:
\* skipped tails, padding and the short tail behind the record included.
PredictionExact ==
  \A p \in Payload :
    CanAppend(Cursor, p) =>
      AfterAppend(Cursor, p).pend = pending_bytes + TotalNeeded(Cursor, EntrySize(p))

\* A batch accepted by the dry run never stops half-way for lack of space.
AdmittedBatchFits == open /\ batch # <<>> => CanAppend(Cursor, Head(batch))

Occupied ==
  {i \in Offsets : \/ checkpoint_pos <= i /\ i < checkpoint_pos + pending_bytes
                   \/ i + WalSize < checkpoint_pos + pending_bytes}

FreeGap == WalSize - pending_bytes

\* The cells of records not yet checkpointed are never overwritten by an append,
\* provided the free gap it leaves is none or holds a whole sentinel.
PendingKept ==
  (/\ open
   /\ pending_bytes' > pending_bytes
   /\ FreeGap' = 0 \/ FreeGap' >= HeaderSize)
  => \A i \in Occupied : disk'[i] = disk[i]

PendingCellsKept == [][PendingKept]_ringVars
==============================================================================
