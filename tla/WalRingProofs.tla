---------------------------- MODULE WalRingProofs ----------------------------
(***************************************************************************)
(* Proofs about the write-ahead ring, for every ring size, header size and *)
(* set of payloads: first the writer, then what the scan of a reopened     *)
(* store makes of what the writer, cut short anywhere, left in the file.   *)
(***************************************************************************)
EXTENDS WalRecovery, SetInduction, TLAPS

\* The writer's cursors, and what the ring's cells may hold.
Cursors == [pos : Offsets, pend : 0 .. WalSize, seq : Nat]

Disks == [Offsets -> {Blank} \cup (Records \X Nat)]

\* What the remainder is, within one turn of the ring and beyond it.
LEMMA Remainder ==
  ASSUME NEW n \in Nat, NEW size \in Nat \ {0}
  PROVE  /\ n % size \in 0 .. size - 1
         /\ n < size => n % size = n
         /\ n = size => n % size = 0
<1>1. n % size \in 0 .. size - 1
  OBVIOUS
<1>2. n < size => n % size = n
  OBVIOUS
<1>3. n = size => n % size = 0
  OBVIOUS
<1> QED
  BY <1>1, <1>2, <1>3

USE RingAssumption

-----------------------------------------------------------------------------
(***************************************************************************)
(* Cursor arithmetic.                                                      *)
(***************************************************************************)

\* The position of the new record leaves it room before the end of the ring.
LEMMA RecordCursorFacts ==
  ASSUME NEW w \in Cursors, NEW p \in Payload, EntrySize(p) <= WalSize
  PROVE  /\ EntrySize(p) \in Nat
         /\ EntrySize(p) > HeaderSize
         /\ RecordCursor(w, p).pos \in Offsets
         /\ RecordCursor(w, p).pos + EntrySize(p) <= WalSize
         /\ RecordCursor(w, p).pend \in Nat
         /\ RecordCursor(w, p).seq \in Nat
         /\ RecordCursor(w, p).pos \in {w.pos, 0}
         /\ \/ /\ RecordCursor(w, p).pos = w.pos
               /\ RecordCursor(w, p).pend = w.pend
            \/ /\ RecordCursor(w, p).pos = 0
               /\ RecordCursor(w, p).pend = w.pend + (WalSize - w.pos)
<1>1. PayloadLen[p] \in Nat \ {0}
  OBVIOUS
<1>2. EntrySize(p) \in Nat /\ EntrySize(p) > HeaderSize
  BY <1>1 DEF EntrySize
<1>3. CASE Remaining(w) < HeaderSize
  <2>1. SkipTail(w) = [pos |-> 0, pend |-> w.pend + (WalSize - w.pos), seq |-> w.seq]
    BY <1>3 DEF SkipTail, Remaining, Cursors
  <2>2. RecordCursor(w, p) = SkipTail(w)
    BY <2>1, <1>2 DEF RecordCursor, PadTail, Remaining
  <2>3. QED
    BY <2>1, <2>2, <1>2 DEF Cursors, Offsets
<1>4. CASE ~(Remaining(w) < HeaderSize)
  <2>1. SkipTail(w) = w
    BY <1>4 DEF SkipTail
  <2>2. CASE Remaining(w) < EntrySize(p)
    <3>1. RecordCursor(w, p)
            = [pos |-> 0, pend |-> w.pend + (WalSize - w.pos), seq |-> w.seq + 1]
      BY <2>1, <2>2 DEF RecordCursor, PadTail, Remaining
    <3>2. QED
      BY <3>1, <1>2 DEF Cursors, Offsets
  <2>3. CASE ~(Remaining(w) < EntrySize(p))
    <3>1. RecordCursor(w, p) = w
      BY <2>1, <2>3 DEF RecordCursor, PadTail
    <3>2. QED
      BY <3>1, <2>3, <1>2 DEF Cursors, Offsets, Remaining
  <2>4. QED
    BY <2>2, <2>3
<1>5. QED
  BY <1>3, <1>4

\* What CanAppend charges is what the append consumes.
LEMMA ChargeIsExact ==
  ASSUME NEW w \in Cursors, NEW p \in Payload, EntrySize(p) <= WalSize
  PROVE  AfterAppend(w, p).pend = w.pend + TotalNeeded(w, EntrySize(p))
<1> DEFINE e == EntrySize(p)
<1>1. PayloadLen[p] \in Nat \ {0}
  OBVIOUS
<1>2. e \in Nat /\ e > HeaderSize
  BY <1>1 DEF EntrySize
<1>3. w.pos \in Offsets /\ w.pend \in Nat /\ w.seq \in Nat
  BY DEF Cursors
<1>4. PICK r : r = RecordCursor(w, p)
  OBVIOUS
<1>5. AfterAppend(w, p) = SkipTail(Place(r, e))
  BY <1>4 DEF AfterAppend
<1>6. Place(r, e) = [pos |-> IF r.pos + e = WalSize THEN 0 ELSE r.pos + e,
                     pend |-> r.pend + e, seq |-> r.seq + 1]
  BY DEF Place
<1>7. /\ r.pos \in Offsets /\ r.pend \in Nat /\ r.pos + e <= WalSize
      /\ r.pos = IF WalSize - ProbePos(w) < e THEN 0 ELSE ProbePos(w)
      /\ r.pend = w.pend
                    + (IF Remaining(w) < HeaderSize THEN Remaining(w) ELSE 0)
                    + (IF WalSize - ProbePos(w) < e THEN WalSize - ProbePos(w) ELSE 0)
  <2>1. CASE Remaining(w) < HeaderSize
    <3>1. SkipTail(w) = [pos |-> 0, pend |-> w.pend + (WalSize - w.pos), seq |-> w.seq]
      BY <2>1 DEF SkipTail, Remaining, Cursors
    <3>2. r = SkipTail(w)
      BY <3>1, <1>2, <1>4 DEF RecordCursor, PadTail, Remaining
    <3>3. QED
      BY <3>1, <3>2, <2>1, <1>2, <1>3 DEF ProbePos, Remaining, Offsets
  <2>2. CASE ~(Remaining(w) < HeaderSize)
    <3>1. SkipTail(w) = w
      BY <2>2 DEF SkipTail
    <3>2. CASE Remaining(w) < e
      BY <3>1, <3>2, <2>2, <1>2, <1>3, <1>4
         DEF RecordCursor, PadTail, ProbePos, Remaining, Offsets
    <3>3. CASE ~(Remaining(w) < e)
      BY <3>1, <3>3, <2>2, <1>2, <1>3, <1>4
         DEF RecordCursor, PadTail, ProbePos, Remaining, Offsets
    <3>4. QED
      BY <3>2, <3>3
  <2>3. QED
    BY <2>1, <2>2
<1>8. SkipTail(Place(r, e)).pend
        = r.pend + e + (IF WalSize - (r.pos + e) < HeaderSize THEN WalSize - (r.pos + e) ELSE 0)
  <2>1. CASE r.pos + e = WalSize
    BY <2>1, <1>2, <1>6, <1>7 DEF SkipTail, Remaining, Offsets
  <2>2. CASE r.pos + e # WalSize
    BY <2>2, <1>2, <1>6, <1>7 DEF SkipTail, Remaining, Offsets
  <2>3. QED
    BY <2>1, <2>2
<1>9. TotalNeeded(w, e)
        = e + (IF Remaining(w) < HeaderSize THEN Remaining(w) ELSE 0)
            + (IF WalSize - ProbePos(w) < e THEN WalSize - ProbePos(w) ELSE 0)
            + (IF WalSize - (r.pos + e) < HeaderSize THEN WalSize - (r.pos + e) ELSE 0)
  BY <1>2, <1>3, <1>7 DEF TotalNeeded, ExtraPadding, ProbePos, Remaining, Offsets
<1>10. QED
  BY <1>2, <1>3, <1>5, <1>7, <1>8, <1>9 DEF ProbePos, Remaining, Offsets

\* An append the check admits moves the cursor over exactly the cells it adds to
\* the pending count, at most once around the ring, and stays within it.
LEMMA AfterAppendFacts ==
  ASSUME NEW w \in Cursors, NEW p \in Payload, CanAppend(w, p)
  PROVE  /\ AfterAppend(w, p) \in Cursors
         /\ AfterAppend(w, p).pend > w.pend
         /\ \/ AfterAppend(w, p).pos = w.pos + (AfterAppend(w, p).pend - w.pend)
            \/ AfterAppend(w, p).pos = w.pos + (AfterAppend(w, p).pend - w.pend) - WalSize
<1> DEFINE e == EntrySize(p)
<1>1. PICK r : r = RecordCursor(w, p)
  OBVIOUS
<1>2. PICK q : q = Place(r, e)
  OBVIOUS
<1>3. PICK a : a = AfterAppend(w, p)
  OBVIOUS
<1>4. EntrySize(p) <= WalSize
  BY DEF CanAppend
<1>5. /\ e \in Nat /\ e > HeaderSize
      /\ r.pos \in Offsets /\ r.pos + e <= WalSize
      /\ r.pend \in Nat /\ r.seq \in Nat
      /\ \/ r.pos = w.pos /\ r.pend = w.pend
         \/ r.pos = 0 /\ r.pend = w.pend + (WalSize - w.pos)
  BY <1>1, <1>4, RecordCursorFacts
<1>6. w.pos \in Offsets /\ w.pend \in Nat
  BY DEF Cursors
<1>7. a.pend = w.pend + TotalNeeded(w, e) /\ TotalNeeded(w, e) <= WalSize
      /\ w.pend + TotalNeeded(w, e) <= WalSize /\ TotalNeeded(w, e) \in Int
  <2>1. a.pend = w.pend + TotalNeeded(w, e)
    BY <1>3, <1>4, ChargeIsExact
  <2>2. TotalNeeded(w, e) \in Int
    BY <1>5, <1>6 DEF TotalNeeded, ExtraPadding, ProbePos, Remaining, Offsets
  <2>3. QED
    BY <2>1, <2>2, <1>6 DEF CanAppend
<1> HIDE DEF e
<1>8. /\ q = [pos |-> IF r.pos + e = WalSize THEN 0 ELSE r.pos + e,
              pend |-> r.pend + e, seq |-> r.seq + 1]
      /\ a = SkipTail(q)
  BY <1>1, <1>2, <1>3 DEF Place, AfterAppend, e
<1>9. /\ a.pos \in Offsets /\ a.seq \in Nat /\ a.pend \in Nat /\ a.pend > w.pend
      /\ \/ a.pos = w.pos + (a.pend - w.pend)
         \/ a.pos = w.pos + (a.pend - w.pend) - WalSize
  <2>1. CASE r.pos + e = WalSize
    <3>1. a = [pos |-> 0, pend |-> r.pend + e, seq |-> r.seq + 1]
      BY <2>1, <1>5, <1>8 DEF SkipTail, Remaining, Offsets
    <3>2. a.pos = 0 /\ a.pend = r.pend + e /\ a.seq = r.seq + 1
      BY <3>1
    <3>3. a.pos \in Offsets /\ a.pend \in Nat /\ a.seq \in Nat
      BY <3>2, <2>1, <1>5 DEF Offsets
    <3>4. a.pend <= WalSize
      BY <1>6, <1>7
    <3>5. CASE r.pos = w.pos /\ r.pend = w.pend
      BY <3>2, <3>3, <3>5, <2>1, <1>5, <1>6 DEF Offsets
    <3>6. CASE r.pos = 0 /\ r.pend = w.pend + (WalSize - w.pos)
      BY <3>2, <3>3, <3>4, <3>6, <2>1, <1>5, <1>6 DEF Offsets
    <3>7. QED
      BY <3>5, <3>6, <1>5
  <2>2. CASE r.pos + e < WalSize /\ WalSize - (r.pos + e) < HeaderSize
    <3>1. a = [pos |-> 0, pend |-> r.pend + (WalSize - r.pos), seq |-> r.seq + 1]
      <4>1. q = [pos |-> r.pos + e, pend |-> r.pend + e, seq |-> r.seq + 1]
        BY <2>2, <1>5, <1>8 DEF Offsets
      <4>2. q.pos = r.pos + e /\ q.pend = r.pend + e
        BY <4>1
      <4>3. a = [q EXCEPT !.pos = 0, !.pend = q.pend + Remaining(q)]
        BY <2>2, <4>2, <1>8 DEF SkipTail, Remaining
      <4>4. q.pend + Remaining(q) = r.pend + (WalSize - r.pos)
        BY <4>2, <1>5 DEF Remaining, Offsets
      <4>5. QED
        BY <4>1, <4>3, <4>4
    <3>2. a.pos = 0 /\ a.pend = r.pend + (WalSize - r.pos) /\ a.seq = r.seq + 1
      BY <3>1
    <3>3. a.pos \in Offsets /\ a.pend \in Nat /\ a.seq \in Nat
      BY <3>2, <2>2, <1>5 DEF Offsets
    <3>4. a.pend <= WalSize
      BY <1>6, <1>7
    <3>5. CASE r.pos = w.pos /\ r.pend = w.pend
      BY <3>2, <3>3, <3>5, <2>2, <1>5, <1>6 DEF Offsets
    <3>6. CASE r.pos = 0 /\ r.pend = w.pend + (WalSize - w.pos)
      BY <3>2, <3>3, <3>4, <3>6, <2>2, <1>5, <1>6 DEF Offsets
    <3>7. QED
      BY <3>5, <3>6, <1>5
  <2>3. CASE r.pos + e < WalSize /\ WalSize - (r.pos + e) >= HeaderSize
    <3>1. a = [pos |-> r.pos + e, pend |-> r.pend + e, seq |-> r.seq + 1]
      BY <2>3, <1>5, <1>8 DEF SkipTail, Remaining, Offsets
    <3>2. a.pos = r.pos + e /\ a.pend = r.pend + e /\ a.seq = r.seq + 1
      BY <3>1
    <3>3. a.pos \in Offsets /\ a.pend \in Nat /\ a.seq \in Nat
      BY <3>2, <2>3, <1>5 DEF Offsets
    <3>4. a.pend <= WalSize
      BY <1>6, <1>7
    <3>5. CASE r.pos = w.pos /\ r.pend = w.pend
      BY <3>2, <3>3, <3>5, <2>3, <1>5, <1>6 DEF Offsets
    <3>6. CASE r.pos = 0 /\ r.pend = w.pend + (WalSize - w.pos)
      BY <3>2, <3>3, <3>4, <3>6, <2>3, <1>5, <1>6 DEF Offsets
    <3>7. QED
      BY <3>5, <3>6, <1>5
  <2>4. QED
    BY <2>1, <2>2, <2>3, <1>5 DEF Offsets
<1>10. a \in Cursors
  <2>1. \E x, y, z : a = [pos |-> x, pend |-> y, seq |-> z]
    BY <1>8 DEF SkipTail, Remaining
  <2>2. a.pend \in 0 .. WalSize
    BY <1>6, <1>7, <1>9
  <2>3. QED
    BY <2>1, <2>2, <1>9 DEF Cursors
<1>11. QED
  BY <1>3, <1>9, <1>10


-----------------------------------------------------------------------------
(***************************************************************************)
(* Type correctness and the geometry of the cursors.                       *)
(***************************************************************************)
RingInv == RingTypeOK /\ RingGeometry

\* The cursor of a well-typed writer is a cursor.
LEMMA CursorTyped == RingTypeOK => Cursor \in Cursors
BY DEF RingTypeOK, Cursor, Cursors

\* Every write of an append leaves a well-typed ring.
LEMMA DisksTyped ==
  ASSUME NEW d \in Disks,
         NEW w \in Cursors, NEW p \in Payload, EntrySize(p) <= WalSize
  PROVE  /\ TailDisk(d, w) \in Disks
         /\ PaddedDisk(d, w, p) \in Disks
         /\ WrittenDisk(d, w, p) \in Disks
         /\ AfterTailDisk(d, w, p) \in Disks
         /\ FinalDisk(d, w, p) \in Disks
<1>1. ASSUME NEW x \in Disks, NEW at \in Nat, NEW n
      PROVE  ZeroCells(x, at, n) \in Disks
  BY <1>1 DEF ZeroCells, Disks
<1>2. ASSUME NEW x \in Disks, NEW at \in Offsets, NEW n \in Nat, NEW r \in Records
      PROVE  PutCells(x, at, n, r) \in Disks
  <2>1. \A i \in Offsets : at <= i => i - at \in Nat
    BY DEF Offsets
  <2>2. QED
    BY <1>2, <2>1 DEF PutCells, Disks
<1>3. w.pos \in Offsets /\ w.pos \in Nat /\ w.seq \in Nat
  BY DEF Cursors, Offsets
<1>4. /\ EntrySize(p) \in Nat /\ EntrySize(p) > HeaderSize
      /\ RecordCursor(w, p).pos \in Offsets /\ RecordCursor(w, p).seq \in Nat
      /\ RecordCursor(w, p).pos + EntrySize(p) <= WalSize
      /\ RecordCursor(w, p).pend \in Nat
  BY RecordCursorFacts
<1>5. TailDisk(d, w) \in Disks
  BY <1>1, <1>3 DEF TailDisk, ZeroTail
<1>6. PaddedDisk(d, w, p) \in Disks
  <2>1. CASE Remaining(w) < HeaderSize
    <3>1. SkipTail(w).pos = 0
      BY <2>1 DEF SkipTail, Cursors
    <3>2. ~(Remaining(SkipTail(w)) < EntrySize(p))
      BY <3>1, <1>4 DEF Remaining
    <3>3. QED
      BY <3>2, <1>5 DEF PaddedDisk, PadDisk
  <2>2. CASE ~(Remaining(w) < HeaderSize)
    <3>1. SkipTail(w) = w
      BY <2>2 DEF SkipTail
    <3>2. PadRecord(w.seq + 1, Remaining(w) - HeaderSize) \in Records
      BY <2>2, <1>3 DEF PadRecord, Records, Remaining, Offsets
    <3>3. QED
      BY <3>1, <3>2, <1>2, <1>3, <1>5 DEF PaddedDisk, PadDisk
  <2>3. QED
    BY <2>1, <2>2
<1>7. WrittenDisk(d, w, p) \in Disks
  <2>1. PayloadLen[p] \in Nat
    OBVIOUS
  <2>2. DataRecord(RecordCursor(w, p).seq + 1, p) \in Records
    BY <2>1, <1>4 DEF DataRecord, Records
  <2>3. QED
    BY <2>2, <1>2, <1>4, <1>6 DEF WrittenDisk, RecordDisk
<1>8. AfterTailDisk(d, w, p) \in Disks
  <2>1. Place(RecordCursor(w, p), EntrySize(p)).pos \in Nat
    BY <1>4 DEF Place, Offsets
  <2>2. QED
    BY <2>1, <1>1, <1>7 DEF AfterTailDisk, ZeroTail
<1>9. FinalDisk(d, w, p) \in Disks
  <2>1. AfterAppend(w, p).pos \in Nat
    BY <1>4 DEF AfterAppend, Place, SkipTail, Remaining, Offsets
  <2>2. QED
    BY <2>1, <1>1, <1>8 DEF FinalDisk, Sentinel
<1>10. QED
  BY <1>5, <1>6, <1>7, <1>8, <1>9

\* A write that CanAppend admits keeps the cursors typed and in their geometry.
LEMMA WriteKeepsInv ==
  ASSUME RingInv, NEW p \in Payload, WriteRecord(p)
  PROVE  /\ disk' \in [Offsets -> {Blank} \cup (Records \X Nat)]
         /\ write_pos' \in Offsets /\ pending_bytes' \in 0 .. WalSize
         /\ last_sequence' \in Nat
         /\ Geometry(write_pos', checkpoint_pos', pending_bytes')
<1>1. PICK w : w = Cursor
  OBVIOUS
<1>2. w \in Cursors /\ w.pos = write_pos /\ w.pend = pending_bytes
  BY <1>1, CursorTyped DEF RingInv, Cursor
<1>3. PICK a : a = AfterAppend(w, p)
  OBVIOUS
<1>4. CanAppend(w, p) /\ EntrySize(p) <= WalSize
  BY <1>1 DEF WriteRecord, CanAppend
<1>5. /\ a \in Cursors /\ a.pend > w.pend
      /\ \/ a.pos = w.pos + (a.pend - w.pend)
         \/ a.pos = w.pos + (a.pend - w.pend) - WalSize
  BY <1>2, <1>3, <1>4, AfterAppendFacts
<1>6. write_pos' = a.pos /\ pending_bytes' = a.pend /\ last_sequence' = a.seq
  BY <1>1, <1>3 DEF WriteRecord, SetCursor
<1>7. a.pos \in Offsets /\ a.pend \in 0 .. WalSize /\ a.seq \in Nat
  BY <1>5 DEF Cursors
<1>8. disk' \in [Offsets -> {Blank} \cup (Records \X Nat)]
  BY <1>1, <1>2, <1>4, DisksTyped DEF WriteRecord, RingInv, RingTypeOK, Disks
<1>9. Geometry(a.pos, checkpoint_pos, a.pend)
  BY <1>2, <1>5, <1>7 DEF Geometry, RingInv, RingGeometry, Offsets
<1>10. checkpoint_pos' = checkpoint_pos
  BY DEF WriteRecord
<1>11. QED
  BY <1>6, <1>7, <1>8, <1>9, <1>10

\* The batches AppendBatch takes are sequences of payloads.
LEMMA BatchTyped == ASSUME NEW ps \in Batches PROVE ps \in Seq(Payload)
BY DEF Batches

\* The invariant is inductive.
LEMMA RingInvStep == RingInv /\ [RingNext]_ringVars => RingInv'
<1> SUFFICES ASSUME RingInv, [RingNext]_ringVars PROVE RingInv'
  OBVIOUS
<1> USE DEF RingInv, RingTypeOK, RingGeometry, cursors
<1>1. ASSUME NEW p \in Payload, AppendRecord(p) PROVE RingInv'
  BY <1>1, WriteKeepsInv DEF AppendRecord, WriteRecord
<1>2. ASSUME NEW ps \in Batches, AppendBatch(ps) PROVE RingInv'
  BY <1>2, BatchTyped DEF AppendBatch
<1>3. CASE AppendNext
  <2>1. Head(batch) \in Payload /\ Tail(batch) \in Seq(Payload)
    BY <1>3 DEF AppendNext
  <2>2. QED
    BY <2>1, <1>3, WriteKeepsInv DEF AppendNext, WriteRecord
<1>4. CASE RecordCheckpoint
  BY <1>4 DEF RecordCheckpoint, Geometry, Offsets
<1>5. ASSUME NEW p \in Payload, CrashInAppend(p) PROVE RingInv'
  <2>1. EntrySize(p) <= WalSize /\ Cursor \in Cursors
    BY <1>5, CursorTyped DEF CrashInAppend, CanAppend
  <2>2. disk' \in [Offsets -> {Blank} \cup (Records \X Nat)]
    BY <1>5, <2>1, DisksTyped DEF CrashInAppend, AppendStages, Disks
  <2>3. <<>> \in Seq(Payload)
    OBVIOUS
  <2>4. QED
    BY <1>5, <2>2, <2>3 DEF CrashInAppend
<1>6. CASE CrashIdle
  <2>1. <<>> \in Seq(Payload)
    OBVIOUS
  <2>2. QED
    BY <2>1, <1>6 DEF CrashIdle
<1>7. CASE Construct
  BY <1>7 DEF Construct
<1>8. CASE UNCHANGED ringVars
  BY <1>8 DEF ringVars
<1>9. QED
  BY <1>1, <1>2, <1>3, <1>4, <1>5, <1>6, <1>7, <1>8 DEF RingNext

\* The invariant holds of every state of the writer.
LEMMA RingInvariant == RingSpec => []RingInv
<1>1. RingInit => RingInv
  BY DEF RingInit, RingInv, RingTypeOK, RingGeometry, Geometry, Offsets
<1>2. QED
  BY <1>1, RingInvStep, PTL DEF RingSpec

\* The cursors of the ring writer delimit one cyclic region of pending_bytes cells,
\* never larger than the ring, whatever is appended, batched or checkpointed.
THEOREM RingGeometryHolds == RingSpec => []RingGeometry
<1>1. RingInv => RingGeometry
  BY DEF RingInv
<1>2. QED
  BY <1>1, RingInvariant, PTL

\* Every variable of the ring writer keeps its type.
THEOREM RingTyped == RingSpec => []RingTypeOK
<1>1. RingInv => RingTypeOK
  BY DEF RingInv
<1>2. QED
  BY <1>1, RingInvariant, PTL

\* The capacity check charges an append exactly what the append consumes.
THEOREM CapacityPrediction == RingSpec => []PredictionExact
<1>1. RingInv => PredictionExact
  <2> SUFFICES ASSUME RingInv, NEW p \in Payload, CanAppend(Cursor, p)
               PROVE  AfterAppend(Cursor, p).pend
                        = pending_bytes + TotalNeeded(Cursor, EntrySize(p))
    BY DEF PredictionExact
  <2>1. Cursor \in Cursors /\ Cursor.pend = pending_bytes
    BY CursorTyped DEF RingInv, Cursor
  <2>2. EntrySize(p) <= WalSize
    BY DEF CanAppend
  <2>3. QED
    BY <2>1, <2>2, ChargeIsExact
<1>2. QED
  BY <1>1, RingInvariant, PTL

-----------------------------------------------------------------------------
(***************************************************************************)
(* What an append may overwrite.                                           *)
(***************************************************************************)

\* A cell outside the five ranges an append writes keeps its content.
LEMMA Untouched ==
  ASSUME NEW d, NEW w \in Cursors, NEW p \in Payload, NEW i \in Offsets,
         EntrySize(p) <= WalSize,
         NEW r, r = RecordCursor(w, p),
         NEW q, q = Place(r, EntrySize(p)),
         NEW a, a = AfterAppend(w, p),
         Remaining(w) < HeaderSize => i < w.pos,
         i < w.pos \/ ~(Remaining(w) < EntrySize(p)) \/ ~(i < w.pos + HeaderSize),
         i < r.pos \/ i >= r.pos + EntrySize(p),
         Remaining(q) < HeaderSize => i < q.pos,
         a.pend < WalSize => i < a.pos \/ i >= a.pos + HeaderSize
  PROVE  FinalDisk(d, w, p)[i] = d[i]
<1>1. w.pos \in Offsets
  BY DEF Cursors
<1>2. EntrySize(p) \in Nat /\ EntrySize(p) > HeaderSize /\ r.pos \in Offsets
  BY RecordCursorFacts
<1>3. TailDisk(d, w)[i] = d[i]
  BY <1>1 DEF TailDisk, ZeroTail, ZeroCells, Offsets
<1>4. PaddedDisk(d, w, p)[i] = TailDisk(d, w)[i]
  <2>1. CASE Remaining(w) < HeaderSize
    <3>1. SkipTail(w).pos = 0
      BY <2>1 DEF SkipTail, Cursors
    <3>2. ~(Remaining(SkipTail(w)) < EntrySize(p))
      BY <3>1, <1>2 DEF Remaining
    <3>3. QED
      BY <3>2 DEF PaddedDisk, PadDisk
  <2>2. CASE ~(Remaining(w) < HeaderSize)
    <3>1. SkipTail(w) = w
      BY <2>2 DEF SkipTail
    <3>2. QED
      BY <3>1, <1>1, <1>2 DEF PaddedDisk, PadDisk, PutCells, Offsets
  <2>3. QED
    BY <2>1, <2>2
<1>5. WrittenDisk(d, w, p)[i] = PaddedDisk(d, w, p)[i]
  BY <1>2 DEF WrittenDisk, RecordDisk, PutCells, Offsets
<1>6. AfterTailDisk(d, w, p)[i] = WrittenDisk(d, w, p)[i]
  <2>1. q.pos \in Nat
    BY <1>2 DEF Place, Offsets
  <2>2. QED
    BY <2>1 DEF AfterTailDisk, ZeroTail, ZeroCells, Offsets
<1>7. FinalDisk(d, w, p)[i] = AfterTailDisk(d, w, p)[i]
  <2>1. a.pos \in Int
    BY <1>2 DEF AfterAppend, Place, SkipTail, Remaining, Offsets
  <2>2. QED
    BY <2>1 DEF FinalDisk, Sentinel, ZeroCells, Offsets
<1>8. QED
  BY <1>3, <1>4, <1>5, <1>6, <1>7

\* Where the record and the sentinel of an admitted append go, relative to the cursor.
LEMMA AppendPlaces ==
  ASSUME NEW w \in Cursors, NEW p \in Payload, CanAppend(w, p),
         NEW e, e = EntrySize(p),
         NEW r, r = RecordCursor(w, p),
         NEW q, q = Place(r, e),
         NEW a, a = AfterAppend(w, p)
  PROVE  /\ a.pend <= WalSize
         /\ \/ r.pos = w.pos /\ r.pend = w.pend
            \/ r.pos = 0 /\ r.pend = w.pend + (WalSize - w.pos)
         /\ \/ /\ ~(Remaining(q) < HeaderSize)
               /\ r.pos + e < WalSize
               /\ a.pos = r.pos + e /\ a.pend = r.pend + e
            \/ /\ a.pos = 0 /\ a.pend = r.pend + (WalSize - r.pos)
               /\ Remaining(q) < HeaderSize => q.pos = r.pos + e
         /\ Remaining(w) < e => r.pos = 0
<1>1. EntrySize(p) <= WalSize
  BY DEF CanAppend
<1>2. /\ e \in Nat /\ e > HeaderSize
      /\ r.pos \in Offsets /\ r.pos + e <= WalSize
      /\ r.pend \in Nat /\ r.seq \in Nat
      /\ \/ r.pos = w.pos /\ r.pend = w.pend
         \/ r.pos = 0 /\ r.pend = w.pend + (WalSize - w.pos)
  BY <1>1, RecordCursorFacts
<1>3. a.pend <= WalSize
  BY AfterAppendFacts DEF Cursors
<1>4. /\ q = [pos |-> IF r.pos + e = WalSize THEN 0 ELSE r.pos + e,
              pend |-> r.pend + e, seq |-> r.seq + 1]
      /\ a = SkipTail(q)
  BY DEF Place, AfterAppend
<1>5. \/ /\ ~(Remaining(q) < HeaderSize)
         /\ r.pos + e < WalSize
         /\ a.pos = r.pos + e /\ a.pend = r.pend + e
      \/ /\ a.pos = 0 /\ a.pend = r.pend + (WalSize - r.pos)
         /\ Remaining(q) < HeaderSize => q.pos = r.pos + e
  <2>1. CASE r.pos + e = WalSize
    <3>1. q = [pos |-> 0, pend |-> r.pend + e, seq |-> r.seq + 1]
      BY <2>1, <1>4
    <3>2. ~(Remaining(q) < HeaderSize)
      BY <3>1 DEF Remaining
    <3>3. a = q
      BY <3>2, <1>4 DEF SkipTail
    <3>4. a.pos = 0 /\ a.pend = r.pend + e
      BY <3>1, <3>3
    <3>5. QED
      BY <3>2, <3>4, <2>1, <1>2 DEF Offsets
  <2>2. CASE r.pos + e < WalSize
    <3>1. q.pos = r.pos + e /\ q.pend = r.pend + e
      BY <2>2, <1>2, <1>4 DEF Offsets
    <3>2. CASE Remaining(q) < HeaderSize
      <4>1. a.pos = 0 /\ a.pend = q.pend + Remaining(q)
        BY <3>2, <1>4 DEF SkipTail
      <4>2. q.pend + Remaining(q) = r.pend + (WalSize - r.pos)
        BY <3>1, <1>2 DEF Remaining, Offsets
      <4>3. QED
        BY <4>1, <4>2, <3>1
    <3>3. CASE ~(Remaining(q) < HeaderSize)
      BY <3>1, <3>3, <2>2, <1>4 DEF SkipTail
    <3>4. QED
      BY <3>2, <3>3
  <2>3. QED
    BY <2>1, <2>2, <1>2 DEF Offsets
<1>6. Remaining(w) < e => r.pos = 0
  <2> SUFFICES ASSUME Remaining(w) < e PROVE r.pos = 0
    OBVIOUS
  <2>1. w.pos \in Offsets
    BY DEF Cursors
  <2>2. QED
    BY <2>1, <1>2 DEF Remaining, Offsets
<1>7. QED
  BY <1>2, <1>3, <1>5, <1>6

\* An admitted append that leaves no gap, or room for a sentinel, stays off the
\* cells in use.
LEMMA AppendKeepsOccupied ==
  ASSUME NEW d, NEW w \in Cursors, NEW p \in Payload, CanAppend(w, p),
         NEW cp \in Offsets, Geometry(w.pos, cp, w.pend),
         AfterAppend(w, p).pend = WalSize
           \/ WalSize - AfterAppend(w, p).pend >= HeaderSize,
         NEW i \in Offsets,
         (cp <= i /\ i < cp + w.pend) \/ i + WalSize < cp + w.pend
  PROVE  FinalDisk(d, w, p)[i] = d[i]
<1>1. PICK e : e = EntrySize(p)
  OBVIOUS
<1>2. PICK r : r = RecordCursor(w, p)
  OBVIOUS
<1>3. PICK q : q = Place(r, e)
  OBVIOUS
<1>4. PICK a : a = AfterAppend(w, p)
  OBVIOUS
<1>5. EntrySize(p) <= WalSize
  BY DEF CanAppend
<1>6. e \in Nat /\ e > HeaderSize /\ r.pos \in Offsets /\ r.pos + e <= WalSize /\ r.pend \in Nat
  BY <1>1, <1>2, <1>5, RecordCursorFacts
<1>7. a.pend \in Nat /\ a.pos \in Offsets
  BY <1>4, AfterAppendFacts DEF Cursors
<1>8. /\ a.pend <= WalSize
      /\ \/ r.pos = w.pos /\ r.pend = w.pend
         \/ r.pos = 0 /\ r.pend = w.pend + (WalSize - w.pos)
      /\ \/ /\ ~(Remaining(q) < HeaderSize)
            /\ r.pos + e < WalSize
            /\ a.pos = r.pos + e /\ a.pend = r.pend + e
         \/ /\ a.pos = 0 /\ a.pend = r.pend + (WalSize - r.pos)
            /\ Remaining(q) < HeaderSize => q.pos = r.pos + e
      /\ Remaining(w) < e => r.pos = 0
  BY <1>1, <1>2, <1>3, <1>4, AppendPlaces
<1>9. w.pos \in Offsets /\ w.pend \in Nat /\ w.pend <= WalSize
  BY DEF Cursors
<1>10. a.pend = WalSize \/ WalSize - a.pend >= HeaderSize
  BY <1>4
<1>11. /\ Remaining(w) < HeaderSize => i < w.pos
       /\ i < w.pos \/ ~(Remaining(w) < e) \/ ~(i < w.pos + HeaderSize)
       /\ i < r.pos \/ i >= r.pos + e
       /\ Remaining(q) < HeaderSize => i < q.pos
       /\ a.pend < WalSize => i < a.pos \/ i >= a.pos + HeaderSize
  <2>1. CASE w.pos = cp + w.pend
    <3>1. cp <= i /\ i < w.pos
      BY <2>1, <1>9 DEF Offsets
    <3>2. CASE r.pos = w.pos /\ r.pend = w.pend
      BY <2>1, <3>1, <3>2, <1>6, <1>7, <1>8, <1>9, <1>10 DEF Offsets
    <3>3. CASE r.pos = 0 /\ r.pend = w.pend + (WalSize - w.pos)
      BY <2>1, <3>1, <3>3, <1>6, <1>7, <1>8, <1>9, <1>10 DEF Offsets
    <3>4. QED
      BY <3>2, <3>3, <1>8
  <2>2. CASE w.pos = cp + w.pend - WalSize
    <3>1. cp <= i \/ i < w.pos
      BY <2>2, <1>9 DEF Offsets
    <3>2. r.pos = w.pos /\ r.pend = w.pend
      BY <2>2, <1>6, <1>7, <1>8, <1>9 DEF Offsets
    <3>3. /\ a.pos = w.pos + e /\ a.pend = w.pend + e
          /\ ~(Remaining(q) < HeaderSize)
      BY <2>2, <3>2, <1>6, <1>7, <1>8, <1>9 DEF Offsets
    <3>4. w.pos + e <= cp
      BY <2>2, <3>3, <1>6, <1>8, <1>9 DEF Offsets
    <3>5. ~(Remaining(w) < e) /\ ~(Remaining(w) < HeaderSize)
      BY <3>4, <1>6, <1>9 DEF Remaining, Offsets
    <3>6. a.pend < WalSize => a.pos + HeaderSize <= cp
      BY <2>2, <3>3, <1>6, <1>9, <1>10 DEF Offsets
    <3>7. QED
      BY <3>1, <3>2, <3>3, <3>4, <3>5, <3>6, <1>6, <1>9 DEF Offsets
  <2>3. QED
    BY <2>1, <2>2 DEF Geometry
<1>12. QED
  BY <1>1, <1>2, <1>3, <1>4, <1>5, <1>11, Untouched

\* No append overwrites a cell of a record that is not yet checkpointed, when the
\* free gap it leaves is none or holds a whole sentinel.
THEOREM PendingCellsAreKept == RingSpec => PendingCellsKept
<1>1. RingInv /\ [RingNext]_ringVars => [PendingKept]_ringVars
  <2> SUFFICES ASSUME RingInv, RingNext, open, pending_bytes' > pending_bytes,
                      FreeGap' = 0 \/ FreeGap' >= HeaderSize,
                      NEW i \in Occupied
               PROVE  disk'[i] = disk[i]
    BY DEF PendingKept
  <2>1. ASSUME NEW p \in Payload, WriteRecord(p) PROVE disk'[i] = disk[i]
    <3>1. PICK w : w = Cursor
      OBVIOUS
    <3>2. w \in Cursors /\ w.pos = write_pos /\ w.pend = pending_bytes
      BY <3>1, CursorTyped DEF RingInv, Cursor
    <3>3. CanAppend(w, p) /\ disk' = FinalDisk(disk, w, p)
          /\ pending_bytes' = AfterAppend(w, p).pend
      BY <2>1, <3>1 DEF WriteRecord, SetCursor
    <3>4. AfterAppend(w, p).pend = WalSize \/ WalSize - AfterAppend(w, p).pend >= HeaderSize
      <4>1. AfterAppend(w, p).pend \in Nat
        BY <3>2, <3>3, AfterAppendFacts DEF Cursors
      <4>2. QED
        BY <4>1, <3>3 DEF FreeGap
    <3>5. checkpoint_pos \in Offsets /\ Geometry(w.pos, checkpoint_pos, w.pend)
      BY <3>2 DEF RingInv, RingTypeOK, RingGeometry
    <3>6. /\ i \in Offsets
          /\ \/ checkpoint_pos <= i /\ i < checkpoint_pos + w.pend
             \/ i + WalSize < checkpoint_pos + w.pend
      BY <3>2 DEF Occupied
    <3>7. FinalDisk(disk, w, p)[i] = disk[i]
      BY <3>2, <3>3, <3>4, <3>5, <3>6, AppendKeepsOccupied
    <3>8. QED
      BY <3>3, <3>7
  <2>2. ASSUME NEW p \in Payload, AppendRecord(p) PROVE disk'[i] = disk[i]
    BY <2>1, <2>2 DEF AppendRecord
  <2>3. CASE AppendNext
    BY <2>1, <2>3 DEF AppendNext, RingInv, RingTypeOK
  <2>4. ASSUME NEW ps \in Batches, AppendBatch(ps) PROVE FALSE
    BY <2>4 DEF AppendBatch, cursors, RingInv, RingTypeOK
  <2>5. CASE RecordCheckpoint
    BY <2>5 DEF RecordCheckpoint, RingInv, RingTypeOK
  <2>6. ASSUME NEW p \in Payload, CrashInAppend(p) PROVE FALSE
    BY <2>6 DEF CrashInAppend, cursors, RingInv, RingTypeOK
  <2>7. CASE CrashIdle
    BY <2>7 DEF CrashIdle
  <2>8. CASE Construct
    BY <2>8 DEF Construct
  <2>9. QED
    BY <2>2, <2>3, <2>4, <2>5, <2>6, <2>7, <2>8 DEF RingNext
<1>2. QED
  BY <1>1, RingInvariant, PTL DEF RingSpec, PendingCellsKept
-----------------------------------------------------------------------------
(***************************************************************************)
(* AppendBatch is all or nothing, for every ring and every batch: what its *)
(* dry run admits, the appends that follow find room for, one by one.      *)
(* BatchCursors is recursive, so each fact about it is proved by induction *)
(* over the length of a prefix of the batch.                               *)
(***************************************************************************)

\* f holds the cursors before the first n payloads of a batch, and behind them.
IsCursors(f, w, ps, n) ==
  f = [i \in 0 .. n |-> IF i = 0 THEN w ELSE AfterAppend(f[i - 1], ps[i])]

-----------------------------------------------------------------------------
(* The recursive definition defines something.                              *)

LEMMA CursorsExist ==
  ASSUME NEW w, NEW ps, NEW n \in Nat
  PROVE  \E f : IsCursors(f, w, ps, n)
<1> DEFINE S == {k \in Nat : \E f : IsCursors(f, w, ps, k)}
<1>1. 0 \in S
  <2> DEFINE f == [i \in 0 .. 0 |-> w]
  <2>1. IsCursors(f, w, ps, 0)
    BY DEF IsCursors
  <2> QED
    BY <2>1
<1>2. ASSUME NEW k \in Nat, k \in S
      PROVE  k + 1 \in S
  <2>1. PICK f : IsCursors(f, w, ps, k)
    BY <1>2
  <2> DEFINE g == [i \in 0 .. k + 1 |->
                    IF i <= k THEN f[i] ELSE AfterAppend(f[k], ps[k + 1])]
  <2>2. \A i \in 0 .. k + 1 :
          g[i] = IF i = 0 THEN w ELSE AfterAppend(g[i - 1], ps[i])
    <3> TAKE i \in 0 .. k + 1
    <3>1. CASE i = 0
      BY <2>1, <3>1 DEF IsCursors
    <3>2. CASE i \in 1 .. k
      <4>1. f[i] = AfterAppend(f[i - 1], ps[i])
        BY <2>1, <3>2 DEF IsCursors
      <4>2. g[i] = f[i] /\ g[i - 1] = f[i - 1]
        BY <3>2
      <4> QED
        BY <3>2, <4>1, <4>2
    <3>3. CASE i = k + 1
      <4>1. g[i] = AfterAppend(f[k], ps[i]) /\ g[i - 1] = f[k]
        BY <3>3
      <4> QED
        BY <3>3, <4>1
    <3> QED
      BY <3>1, <3>2, <3>3
  <2>3. IsCursors(g, w, ps, k + 1)
    <3>1. g = [i \in 0 .. k + 1 |-> g[i]]
      OBVIOUS
    <3> HIDE DEF g
    <3> QED
      BY <2>2, <3>1 DEF IsCursors
  <2> QED
    BY <2>3
<1>3. Nat \subseteq S
  <2> HIDE DEF S
  <2> QED
    BY <1>1, <1>2, SetInduction
<1> QED
  BY <1>3

LEMMA BatchCursorsDefined ==
  ASSUME NEW w, NEW ps, Len(ps) \in Nat
  PROVE  IsCursors(BatchCursors(w, ps), w, ps, Len(ps))
<1>1. \E f : IsCursors(f, w, ps, Len(ps))
  BY CursorsExist
<1> QED
  BY <1>1 DEF BatchCursors, IsCursors

LEMMA BatchCursorAt ==
  ASSUME NEW w, NEW ps, Len(ps) \in Nat
  PROVE  /\ BatchCursors(w, ps)[0] = w
         /\ \A i \in 1 .. Len(ps) :
              BatchCursors(w, ps)[i] = AfterAppend(BatchCursors(w, ps)[i - 1], ps[i])
<1> DEFINE f == BatchCursors(w, ps)
<1>1. f = [i \in 0 .. Len(ps) |-> IF i = 0 THEN w ELSE AfterAppend(f[i - 1], ps[i])]
  BY BatchCursorsDefined DEF IsCursors
<1> HIDE DEF f
<1>2. \A i \in 0 .. Len(ps) : f[i] = IF i = 0 THEN w ELSE AfterAppend(f[i - 1], ps[i])
  BY <1>1
<1>3. f[0] = w
  BY <1>2
<1>4. \A i \in 1 .. Len(ps) : f[i] = AfterAppend(f[i - 1], ps[i])
  BY <1>2
<1> QED
  BY <1>3, <1>4 DEF f

-----------------------------------------------------------------------------
(* Once the first payload is in the ring, the rest is a batch that fits.    *)

LEMMA CursorsOfTail ==
  ASSUME NEW w, NEW ps \in Seq(Payload), ps # <<>>, NEW i \in 0 .. Len(ps) - 1
  PROVE  BatchCursors(AfterAppend(w, Head(ps)), Tail(ps))[i] = BatchCursors(w, ps)[i + 1]
<1> DEFINE v == AfterAppend(w, Head(ps))
           rest == Tail(ps)
           f == BatchCursors(w, ps)
           g == BatchCursors(v, rest)
           S == {k \in Nat : k < Len(ps) => g[k] = f[k + 1]}
<1>1. /\ Len(ps) \in Nat /\ Len(rest) = Len(ps) - 1 /\ Len(rest) \in Nat
      /\ Head(ps) = ps[1]
      /\ \A k \in 1 .. Len(rest) : rest[k] = ps[k + 1]
  OBVIOUS
<1> HIDE DEF f, g
<1>2. /\ f[0] = w
      /\ \A k \in 1 .. Len(ps) : f[k] = AfterAppend(f[k - 1], ps[k])
  <2>1. Len(ps) \in Nat
    BY <1>1
  <2> QED
    BY <2>1, BatchCursorAt DEF f
<1>3. /\ g[0] = v
      /\ \A k \in 1 .. Len(rest) : g[k] = AfterAppend(g[k - 1], rest[k])
  <2> HIDE DEF v, rest
  <2> QED
    BY <1>1, BatchCursorAt DEF g
<1> HIDE DEF f, g
<1>4. 0 \in S
  <2>1. f[1] = AfterAppend(f[0], ps[1])
    BY <1>1, <1>2
  <2> QED
    BY <1>1, <1>2, <1>3, <2>1
<1>5. ASSUME NEW k \in Nat, k \in S
      PROVE  k + 1 \in S
  <2> SUFFICES ASSUME k + 1 < Len(ps)
               PROVE  g[k + 1] = f[k + 2]
    OBVIOUS
  <2>1. g[k] = f[k + 1]
    BY <1>1, <1>5
  <2>2. g[k + 1] = AfterAppend(g[k], ps[k + 2])
    <3>1. k + 1 \in 1 .. Len(rest)
      BY <1>1
    <3>2. g[k + 1] = AfterAppend(g[(k + 1) - 1], rest[k + 1])
      BY <1>3, <3>1
    <3>3. rest[k + 1] = ps[(k + 1) + 1]
      BY <1>1, <3>1
    <3> HIDE DEF rest
    <3> QED
      BY <3>2, <3>3
  <2>3. f[k + 2] = AfterAppend(f[k + 1], ps[k + 2])
    <3>1. k + 2 \in 1 .. Len(ps)
      BY <1>1
    <3>2. f[k + 2] = AfterAppend(f[(k + 2) - 1], ps[k + 2])
      BY <1>2, <3>1
    <3> QED
      BY <3>2
  <2> QED
    BY <2>1, <2>2, <2>3
<1>6. Nat \subseteq S
  <2> HIDE DEF S
  <2> QED
    BY <1>4, <1>5, SetInduction
<1>7. i \in Nat /\ i < Len(ps)
  BY <1>1
<1> QED
  BY <1>6, <1>7 DEF f, g

LEMMA RestFits ==
  ASSUME NEW w, NEW ps \in Seq(Payload), ps # <<>>, BatchFits(w, ps)
  PROVE  BatchFits(AfterAppend(w, Head(ps)), Tail(ps))
<1> DEFINE rest == Tail(ps)
           g == BatchCursors(AfterAppend(w, Head(ps)), rest)
<1>0. rest \in Seq(Payload) /\ DOMAIN rest = 1 .. Len(ps) - 1
  OBVIOUS
<1> SUFFICES ASSUME NEW n \in DOMAIN rest
             PROVE  SimAccepts(g[n - 1], rest[n])
  BY DEF BatchFits
<1>1. Len(ps) \in Nat /\ n + 1 \in DOMAIN ps /\ n - 1 \in 0 .. Len(ps) - 1
  BY <1>0
<1>2. g[n - 1] = BatchCursors(w, ps)[(n - 1) + 1]
  BY <1>1, CursorsOfTail
<1>3. rest[n] = ps[n + 1]
  BY <1>0
<1>4. SimAccepts(BatchCursors(w, ps)[(n + 1) - 1], ps[n + 1])
  BY <1>1 DEF BatchFits
<1>5. (n - 1) + 1 = n /\ (n + 1) - 1 = n
  BY <1>1
<1> HIDE DEF g, rest
<1> QED
  BY <1>2, <1>3, <1>4, <1>5

LEMMA FirstFits ==
  ASSUME NEW w, NEW ps \in Seq(Payload), ps # <<>>, BatchFits(w, ps)
  PROVE  CanAppend(w, Head(ps))
<1>1. 1 \in DOMAIN ps /\ Len(ps) \in Nat /\ Head(ps) = ps[1]
  OBVIOUS
<1>2. SimAccepts(BatchCursors(w, ps)[1 - 1], ps[1])
  BY <1>1 DEF BatchFits
<1>3. BatchCursors(w, ps)[0] = w
  BY <1>1, BatchCursorAt
<1> QED
  BY <1>1, <1>2, <1>3 DEF SimAccepts

-----------------------------------------------------------------------------
(* The invariant of a batch under way: what is left of it still fits.       *)
BatchInv ==
  /\ open /\ batch # <<>> => BatchFits(Cursor, batch)
  /\ ~open => batch = <<>>

LEMMA BatchInvStep == RingInv /\ BatchInv /\ [RingNext]_ringVars => BatchInv'
<1> SUFFICES ASSUME RingInv, BatchInv, [RingNext]_ringVars
             PROVE  BatchInv'
  OBVIOUS
<1> USE DEF BatchInv
<1>1. ASSUME NEW p \in Payload, AppendRecord(p)
      PROVE  BatchInv'
  BY <1>1 DEF AppendRecord, WriteRecord
<1>2. ASSUME NEW ps \in Batches, AppendBatch(ps)
      PROVE  BatchInv'
  BY <1>2 DEF AppendBatch, cursors, Cursor
<1>3. CASE AppendNext
  <2> DEFINE p == Head(batch)
             a == AfterAppend(Cursor, p)
  <2>1. /\ open /\ open' = open /\ batch # <<>> /\ batch' = Tail(batch)
        /\ CanAppend(Cursor, p) /\ SetCursor(a)
    BY <1>3 DEF AppendNext, WriteRecord
  <2>2. batch \in Seq(Payload) /\ p \in Payload
    BY <2>1 DEF RingInv, RingTypeOK
  <2>3. a \in Cursors
    BY <2>1, <2>2, CursorTyped, AfterAppendFacts DEF RingInv
  <2>4. Cursor' = a
    <3> HIDE DEF a
    <3> QED
      BY <2>1, <2>3 DEF SetCursor, Cursor, Cursors
  <2>5. BatchFits(a, Tail(batch))
    BY <2>1, <2>2, RestFits
  <2> HIDE DEF a
  <2> QED
    BY <2>1, <2>4, <2>5
<1>4. CASE RecordCheckpoint
  BY <1>4 DEF RecordCheckpoint
<1>5. ASSUME NEW p \in Payload, CrashInAppend(p)
      PROVE  BatchInv'
  BY <1>5 DEF CrashInAppend
<1>6. CASE CrashIdle
  BY <1>6 DEF CrashIdle
<1>7. CASE Construct
  BY <1>7 DEF Construct
<1>8. CASE UNCHANGED ringVars
  BY <1>8 DEF ringVars, cursors, Cursor
<1> QED
  BY <1>1, <1>2, <1>3, <1>4, <1>5, <1>6, <1>7, <1>8 DEF RingNext

\* A batch that AppendBatch has admitted never stops half-way for want of room,
\* whatever the size of the ring, of the payloads and of the batch
\* (WalRingWriter::AppendBatch).
THEOREM AdmittedBatchesFit == RingSpec => []AdmittedBatchFits
<1>1. RingInit => BatchInv
  BY DEF RingInit, BatchInv
<1>2. RingInv /\ BatchInv => AdmittedBatchFits
  BY FirstFits DEF RingInv, RingTypeOK, BatchInv, AdmittedBatchFits
<1> QED
  BY <1>1, <1>2, BatchInvStep, RingInvariant, PTL DEF RingSpec

-----------------------------------------------------------------------------
(***************************************************************************)
(* The scan, step by step.                                                 *)
(***************************************************************************)
\* The states of a scan.
ScanState ==
  [pos : Offsets, pend : Nat, last : Nat, found : Seq(Records),
   wrapped : BOOLEAN, stopped : BOOLEAN, done : BOOLEAN]

State(pos, pend, last, found, wrapped, stopped, done) ==
  [pos |-> pos, pend |-> pend, last |-> last, found |-> found,
   wrapped |-> wrapped, stopped |-> stopped, done |-> done]

LEMMA StateIs ==
  ASSUME NEW s \in ScanState
  PROVE  /\ s.pos \in Offsets /\ s.pend \in Nat /\ s.last \in Nat /\ s.found \in Seq(Records)
         /\ s.wrapped \in BOOLEAN /\ s.stopped \in BOOLEAN /\ s.done \in BOOLEAN
         /\ s = State(s.pos, s.pend, s.last, s.found, s.wrapped, s.stopped, s.done)
BY Zenon DEF ScanState, State

LEMMA StateTyped ==
  ASSUME NEW pos \in Offsets, NEW pend \in Nat, NEW last \in Nat, NEW found \in Seq(Records),
         NEW wrapped \in BOOLEAN, NEW stopped \in BOOLEAN, NEW done \in BOOLEAN
  PROVE  State(pos, pend, last, found, wrapped, stopped, done) \in ScanState
BY Zenon DEF ScanState, State

LEMMA SizePositive == WalSize \in Nat \ {0} /\ HeaderSize \in Nat \ {0} /\ 0 \in Offsets
BY DEF Offsets

\* A change of fields gives the state with those fields.
Move(s, pos, pend, last, wrapped, done) ==
  [s EXCEPT !.pos = pos, !.pend = pend, !.last = last, !.wrapped = wrapped, !.done = done]

\* A scan state moved to another place, its findings unchanged.
Skip(s, pos, pend, wrapped, done) ==
  [s EXCEPT !.pend = pend, !.pos = pos, !.wrapped = wrapped, !.done = done]

\* The same record update, written with State.
LEMMA Moved ==
  ASSUME NEW s \in ScanState, NEW pos \in Offsets, NEW pend \in Nat, NEW last \in Nat,
         NEW wrapped \in BOOLEAN, NEW done \in BOOLEAN
  PROVE  Move(s, pos, pend, last, wrapped, done)
           = State(pos, pend, last, s.found, wrapped, s.stopped, done)
<1>1. PICK t : t = [s EXCEPT !.pos = pos, !.pend = pend, !.last = last,
                             !.wrapped = wrapped, !.done = done]
  OBVIOUS
<1>2. t \in ScanState
  BY <1>1 DEF ScanState
<1>3. t.pos = pos /\ t.pend = pend /\ t.last = last /\ t.found = s.found
  BY <1>1 DEF ScanState
<1>4. t.wrapped = wrapped /\ t.stopped = s.stopped /\ t.done = done
  BY <1>1 DEF ScanState
<1>5. t = State(t.pos, t.pend, t.last, t.found, t.wrapped, t.stopped, t.done)
  BY <1>2, StateIs
<1> QED
  BY <1>1, <1>3, <1>4, <1>5 DEF Move

LEMMA Skipped ==
  ASSUME NEW s \in ScanState, NEW pos \in Offsets, NEW pend \in Nat,
         NEW wrapped \in BOOLEAN, NEW done \in BOOLEAN
  PROVE  Skip(s, pos, pend, wrapped, done)
           = State(pos, pend, s.last, s.found, wrapped, s.stopped, done)
<1>1. PICK t : t = [s EXCEPT !.pend = pend, !.pos = pos, !.wrapped = wrapped, !.done = done]
  OBVIOUS
<1>2. t \in ScanState
  BY <1>1 DEF ScanState
<1>3. t.pos = pos /\ t.pend = pend /\ t.last = s.last /\ t.found = s.found
  BY <1>1 DEF ScanState
<1>4. t.wrapped = wrapped /\ t.stopped = s.stopped /\ t.done = done
  BY <1>1 DEF ScanState
<1>5. t = State(t.pos, t.pend, t.last, t.found, t.wrapped, t.stopped, t.done)
  BY <1>2, StateIs
<1> QED
  BY <1>1, <1>3, <1>4, <1>5 DEF Skip

LEMMA StopIs ==
  ASSUME NEW s \in ScanState
  PROVE  ScanStop(s) = State(s.pos, s.pend, s.last, s.found, s.wrapped, s.stopped, TRUE)
<1>1. PICK b \in BOOLEAN : b = TRUE
  OBVIOUS
<1>2. PICK t : t = [s EXCEPT !.done = b]
  OBVIOUS
<1>3. t \in ScanState
  BY <1>2 DEF ScanState
<1>4. /\ t.pos = s.pos /\ t.pend = s.pend /\ t.last = s.last /\ t.found = s.found
      /\ t.wrapped = s.wrapped /\ t.stopped = s.stopped /\ t.done = b
  BY <1>2 DEF ScanState
<1>5. t = State(t.pos, t.pend, t.last, t.found, t.wrapped, t.stopped, t.done)
  BY <1>3, StateIs
<1>6. t = State(s.pos, s.pend, s.last, s.found, s.wrapped, s.stopped, b)
  BY <1>4, <1>5
<1> QED
  BY <1>1, <1>2, <1>6 DEF ScanStop

LEMMA SkipIs ==
  ASSUME NEW s \in ScanState, NEW start \in Offsets, s.wrapped = FALSE
  PROVE  ScanSkipTail(s, start)
           = State(0, s.pend + (WalSize - s.pos), s.last, s.found, TRUE, s.stopped, start = 0)
<1>1. PICK pos \in Offsets : pos = 0
  BY SizePositive
<1>2. PICK pend \in Nat : pend = s.pend + (WalSize - s.pos)
  BY StateIs DEF Offsets
<1>3. PICK wrapped \in BOOLEAN : wrapped = TRUE
  OBVIOUS
<1>4. PICK done \in BOOLEAN : done = (start = 0)
  BY Zenon
<1>5. ScanSkipTail(s, start) = Skip(s, pos, pend, wrapped, done)
  BY <1>1, <1>2, <1>3, <1>4 DEF ScanSkipTail, Skip
<1>6. ScanSkipTail(s, start) = State(pos, pend, s.last, s.found, wrapped, s.stopped, done)
  BY <1>5, Skipped
<1> QED
  BY <1>1, <1>2, <1>3, <1>4, <1>6

\* Where a record at the cursor ends.
Behind(s, r) == (s.pos + HeaderSize + r.len) % WalSize

LEMMA BehindTyped ==
  ASSUME NEW s \in ScanState, NEW r \in Records
  PROVE  /\ Behind(s, r) \in Offsets
         /\ HeaderSize + r.len <= WalSize - s.pos
              => Behind(s, r) = IF s.pos + HeaderSize + r.len = WalSize
                                THEN 0 ELSE s.pos + HeaderSize + r.len
<1>1. PICK n \in Nat : n = s.pos + HeaderSize + r.len
  BY StateIs DEF Offsets, Records
<1>2. PICK size \in Nat \ {0} : size = WalSize
  BY SizePositive
<1>3. PICK m : m = n % size
  OBVIOUS
<1>4. m \in 0 .. size - 1 /\ (n < size => m = n) /\ (n = size => m = 0)
  BY <1>3, Remainder, Zenon
<1>5. m = Behind(s, r)
  BY <1>1, <1>2, <1>3 DEF Behind
<1>6. s.pos \in Nat /\ r.len \in Nat
  BY StateIs DEF Offsets, Records
<1> QED
  BY <1>1, <1>2, <1>4, <1>5, <1>6 DEF Offsets

LEMMA AdvanceIs ==
  ASSUME NEW s \in ScanState, NEW start \in Offsets, NEW r \in Records
  PROVE  ScanAdvance(s, start, r)
           = State(Behind(s, r), s.pend + HeaderSize + r.len, r.seq, s.found,
                   s.wrapped \/ Behind(s, r) = 0, s.stopped, Behind(s, r) = start)
<1>1. PICK pos \in Offsets : pos = Behind(s, r)
  BY BehindTyped
<1>2. PICK pend \in Nat : pend = s.pend + HeaderSize + r.len
  BY StateIs DEF Records
<1>3. PICK wrapped \in BOOLEAN : wrapped = (s.wrapped \/ pos = 0)
  BY Zenon
<1>4. PICK done \in BOOLEAN : done = (pos = start)
  BY Zenon
<1>5. r.seq \in Nat
  BY DEF Records
<1>6. ScanAdvance(s, start, r)
        = Move(s, pos, pend, r.seq, wrapped, done)
  BY <1>1, <1>2, <1>3, <1>4 DEF ScanAdvance, Behind, Move
<1>7. ScanAdvance(s, start, r) = State(pos, pend, r.seq, s.found, wrapped, s.stopped, done)
  BY <1>5, <1>6, Moved
<1> QED
  BY <1>1, <1>2, <1>3, <1>4, <1>7

LEMMA KeepIs ==
  ASSUME NEW s \in ScanState, NEW r \in Records, NEW c \in Nat
  PROVE  /\ ScanKeep(s, r, c) \in ScanState
         /\ ScanKeep(s, r, c) = IF r.seq <= c \/ s.stopped THEN s
              ELSE IF r.body \in Decodable
              THEN State(s.pos, s.pend, s.last, Append(s.found, r), s.wrapped, s.stopped, s.done)
              ELSE State(s.pos, s.pend, s.last, s.found, s.wrapped, TRUE, s.done)
<1>1. PICK found \in Seq(Records) : found = Append(s.found, r)
  <2>1. s.found \in Seq(Records)
    BY StateIs
  <2>2. Append(s.found, r) \in Seq(Records)
    BY <2>1
  <2> QED
    BY <2>2
<1>2. PICK b \in BOOLEAN : b = TRUE
  OBVIOUS
<1>3. PICK t : t = [s EXCEPT !.found = found]
  OBVIOUS
<1>4. PICK u : u = [s EXCEPT !.stopped = b]
  OBVIOUS
<1>5. t \in ScanState /\ u \in ScanState
  BY <1>3, <1>4 DEF ScanState
<1>6. /\ t.pos = s.pos /\ t.pend = s.pend /\ t.last = s.last /\ t.found = found
      /\ t.wrapped = s.wrapped /\ t.stopped = s.stopped /\ t.done = s.done
  BY <1>3 DEF ScanState
<1>7. /\ u.pos = s.pos /\ u.pend = s.pend /\ u.last = s.last /\ u.found = s.found
      /\ u.wrapped = s.wrapped /\ u.stopped = b /\ u.done = s.done
  BY <1>4 DEF ScanState
<1>8. t = State(s.pos, s.pend, s.last, found, s.wrapped, s.stopped, s.done)
  BY <1>5, <1>6, StateIs
<1>9. u = State(s.pos, s.pend, s.last, s.found, s.wrapped, b, s.done)
  BY <1>5, <1>7, StateIs
<1>10. ScanKeep(s, r, c) = IF r.seq <= c \/ s.stopped THEN s
                           ELSE IF r.body \in Decodable THEN t ELSE u
  BY <1>1, <1>2, <1>3, <1>4 DEF ScanKeep
<1> QED
  BY <1>1, <1>2, <1>5, <1>8, <1>9, <1>10

\* Keeping a record moves nothing.
LEMMA KeepSame ==
  ASSUME NEW s \in ScanState, NEW r \in Records, NEW c \in Nat
  PROVE  LET k == ScanKeep(s, r, c)
         IN  k.pos = s.pos /\ k.pend = s.pend /\ k.last = s.last /\ k.wrapped = s.wrapped
<1>1. PICK k : k = ScanKeep(s, r, c)
  OBVIOUS
<1>2. CASE r.seq <= c \/ s.stopped
  BY <1>1, <1>2, KeepIs
<1>3. CASE ~(r.seq <= c \/ s.stopped) /\ r.body \in Decodable
  <2>1. k = State(s.pos, s.pend, s.last, Append(s.found, r), s.wrapped, s.stopped, s.done)
    BY <1>1, <1>3, KeepIs
  <2> QED
    BY <1>1, <2>1 DEF State
<1>4. CASE ~(r.seq <= c \/ s.stopped) /\ ~(r.body \in Decodable)
  <2>1. k = State(s.pos, s.pend, s.last, s.found, s.wrapped, TRUE, s.done)
    BY <1>1, <1>4, KeepIs
  <2> QED
    BY <1>1, <2>1 DEF State
<1> QED
  BY <1>2, <1>3, <1>4

LEMMA CellIs ==
  ASSUME NEW d \in Disks, NEW j \in Offsets, d[j] # Blank
  PROVE  d[j][1] \in Records
<1>1. d[j] \in {Blank} \cup (Records \X Nat)
  BY DEF Disks
<1> QED
  BY <1>1

\* What a header names is a record.
LEMMA HeaderIs ==
  ASSUME NEW d \in Disks, NEW at \in Offsets, HasHeader(d, at)
  PROVE  d[at][1] \in Records
BY CellIs DEF HasHeader

\* A record is taken unless it is older than the one before it.
Fresh(s, r) == s.last = 0 \/ ~(r.seq <= s.last)

\* The three steps that advance: over the tail, a padding record, a data record.
SkipsTail(start, s, t) ==
  WalSize - s.pos < HeaderSize /\ s.wrapped = FALSE /\ t = ScanSkipTail(s, start)

TakesPadding(d, start, s, t) ==
  /\ ~(WalSize - s.pos < HeaderSize)
  /\ HasHeader(d, s.pos)
  /\ Fresh(s, d[s.pos][1])
  /\ d[s.pos][1].body = Padding
  /\ t = ScanAdvance(s, start, d[s.pos][1])

TakesRecord(d, start, c, s, t) ==
  /\ ~(WalSize - s.pos < HeaderSize)
  /\ HasHeader(d, s.pos)
  /\ Fresh(s, d[s.pos][1])
  /\ d[s.pos][1].body # Padding
  /\ HasPayload(d, s.pos)
  /\ t = ScanAdvance(ScanKeep(s, d[s.pos][1], c), start, d[s.pos][1])

\* A step stops the scan or advances it in one of these ways.
LEMMA StepKinds ==
  ASSUME NEW d, NEW start, NEW c, NEW s \in ScanState, NEW t, t = ScanStep(d, start, c, s)
  PROVE  \/ t = ScanStop(s)
         \/ SkipsTail(start, s, t)
         \/ TakesPadding(d, start, s, t)
         \/ TakesRecord(d, start, c, s, t)
<1>1. CASE WalSize - s.pos < HeaderSize
  <2>1. t = ScanSkipTail(s, start)
    BY <1>1 DEF ScanStep
  <2>2. s.wrapped \in BOOLEAN
    BY StateIs
  <2> QED
    BY <1>1, <2>1, <2>2 DEF SkipsTail, ScanSkipTail
<1>2. CASE ~(WalSize - s.pos < HeaderSize)
  BY <1>2 DEF ScanStep, TakesPadding, TakesRecord, Fresh
<1> QED
  BY <1>1, <1>2

\* Each of them is the step the scan takes.
LEMMA KindsAreSteps ==
  ASSUME NEW d, NEW start, NEW c, NEW s \in ScanState, NEW t,
         \/ SkipsTail(start, s, t)
         \/ TakesPadding(d, start, s, t)
         \/ TakesRecord(d, start, c, s, t)
  PROVE  ScanStep(d, start, c, s) = t
<1>1. CASE SkipsTail(start, s, t)
  BY <1>1 DEF ScanStep, SkipsTail
<1>2. CASE TakesPadding(d, start, s, t)
  BY <1>2 DEF ScanStep, TakesPadding, Fresh
<1>3. CASE TakesRecord(d, start, c, s, t)
  BY <1>3 DEF ScanStep, TakesRecord, Fresh
<1> QED
  BY <1>1, <1>2, <1>3

\* How far each kind of step moves the cursor.
LEMMA SkipMoves ==
  ASSUME NEW start \in Offsets, NEW s \in ScanState, NEW t, SkipsTail(start, s, t)
  PROVE  /\ t \in ScanState
         /\ t = State(0, s.pend + (WalSize - s.pos), s.last, s.found, TRUE, s.stopped, start = 0)
<1>1. t = State(0, s.pend + (WalSize - s.pos), s.last, s.found, TRUE, s.stopped, start = 0)
  BY SkipIs DEF SkipsTail
<1>2. PICK done \in BOOLEAN : done = (start = 0)
  BY Zenon
<1>3. PICK wrapped \in BOOLEAN : wrapped = TRUE
  OBVIOUS
<1>4. s.pend + (WalSize - s.pos) \in Nat
  BY StateIs DEF Offsets
<1>5. t = State(0, s.pend + (WalSize - s.pos), s.last, s.found, wrapped, s.stopped, done)
  BY <1>1, <1>2, <1>3
<1>6. t \in ScanState
  BY <1>4, <1>5, SizePositive, StateIs, StateTyped
<1> QED
  BY <1>1, <1>6

LEMMA AdvanceMoves ==
  ASSUME NEW start \in Offsets, NEW s \in ScanState, NEW r \in Records,
         NEW t, t = ScanAdvance(s, start, r)
  PROVE  /\ t \in ScanState
         /\ t.pos = Behind(s, r)
         /\ t.pend = s.pend + HeaderSize + r.len
         /\ t.last = r.seq
         /\ t.found = s.found
<1>1. t = State(Behind(s, r), s.pend + HeaderSize + r.len, r.seq, s.found,
                s.wrapped \/ Behind(s, r) = 0, s.stopped, Behind(s, r) = start)
  BY AdvanceIs
<1>2. PICK done \in BOOLEAN : done = (Behind(s, r) = start)
  BY Zenon
<1>3. PICK wrapped \in BOOLEAN : wrapped = (s.wrapped \/ Behind(s, r) = 0)
  BY Zenon
<1>4. s.pend + HeaderSize + r.len \in Nat /\ r.seq \in Nat
  BY StateIs DEF Records
<1>5. t = State(Behind(s, r), s.pend + HeaderSize + r.len, r.seq, s.found,
                wrapped, s.stopped, done)
  BY <1>1, <1>2, <1>3
<1>6. t \in ScanState
  BY <1>4, <1>5, BehindTyped, StateIs, StateTyped
<1>7. /\ t.pos = Behind(s, r) /\ t.pend = s.pend + HeaderSize + r.len
      /\ t.last = r.seq /\ t.found = s.found
  BY <1>5 DEF State
<1> QED
  BY <1>6, <1>7

LEMMA StopMoves ==
  ASSUME NEW s \in ScanState, NEW t, t = ScanStop(s)
  PROVE  /\ t \in ScanState
         /\ t.pos = s.pos /\ t.pend = s.pend /\ t.last = s.last /\ t.found = s.found
<1>1. PICK b \in BOOLEAN : b = TRUE
  OBVIOUS
<1>2. t = State(s.pos, s.pend, s.last, s.found, s.wrapped, s.stopped, b)
  BY <1>1, StopIs
<1>3. t \in ScanState
  <2>1. /\ s.pos \in Offsets /\ s.pend \in Nat /\ s.last \in Nat /\ s.found \in Seq(Records)
        /\ s.wrapped \in BOOLEAN /\ s.stopped \in BOOLEAN
    BY StateIs
  <2> QED
    BY <1>2, <2>1, StateTyped
<1>4. t.pos = s.pos /\ t.pend = s.pend /\ t.last = s.last /\ t.found = s.found
  BY <1>2 DEF State
<1> QED
  BY <1>3, <1>4

LEMMA StepTyped ==
  ASSUME NEW d \in Disks, NEW start \in Offsets, NEW c \in Nat, NEW s \in ScanState
  PROVE  ScanStep(d, start, c, s) \in ScanState
<1>1. PICK t : t = ScanStep(d, start, c, s)
  OBVIOUS
<1> SUFFICES t \in ScanState
  BY <1>1
<1>2. s.pos \in Offsets
  BY StateIs
<1>3. CASE t = ScanStop(s)
  BY <1>3, StopMoves
<1>4. CASE SkipsTail(start, s, t)
  BY <1>4, SkipMoves
<1>5. CASE TakesPadding(d, start, s, t)
  BY <1>2, <1>5, HeaderIs, AdvanceMoves DEF TakesPadding
<1>6. CASE TakesRecord(d, start, c, s, t)
  <2>1. PICK r : r = d[s.pos][1]
    OBVIOUS
  <2>2. r \in Records /\ t = ScanAdvance(ScanKeep(s, r, c), start, r)
    BY <1>2, <1>6, <2>1, HeaderIs DEF TakesRecord
  <2> QED
    BY <2>2, KeepIs, AdvanceMoves
<1> QED
  BY <1>1, <1>3, <1>4, <1>5, <1>6, StepKinds

\* Against a ring that holds nothing newer than the commit nothing is found.
NoNewer(d, seq) == \A j \in Offsets : d[j] # Blank => d[j][1].seq <= seq

\* With nothing newer than the commit in the ring, a step finds nothing.
LEMMA StaleStep ==
  ASSUME NEW d \in Disks, NEW start \in Offsets, NEW c \in Nat, NEW s \in ScanState,
         NoNewer(d, c), s.found = <<>>, s.last <= c,
         NEW t, t = ScanStep(d, start, c, s)
  PROVE  t.found = <<>> /\ t.last <= c
<1>2. s.pos \in Offsets
  BY StateIs
<1>3. CASE t = ScanStop(s)
  BY <1>3, StopMoves
<1>4. CASE SkipsTail(start, s, t)
  <2>1. t = State(0, s.pend + (WalSize - s.pos), s.last, s.found, TRUE, s.stopped, start = 0)
    BY <1>4, SkipMoves
  <2> QED
    BY <2>1 DEF State
<1>5. CASE TakesPadding(d, start, s, t)
  <2>1. PICK r : r = d[s.pos][1]
    OBVIOUS
  <2>2. r \in Records /\ t = ScanAdvance(s, start, r)
    BY <1>2, <1>5, <2>1, HeaderIs DEF TakesPadding
  <2>3. r.seq <= c
    BY <1>2, <1>5, <2>1 DEF TakesPadding, HasHeader, NoNewer
  <2> QED
    BY <2>2, <2>3, AdvanceMoves
<1>6. CASE TakesRecord(d, start, c, s, t)
  <2>1. PICK r : r = d[s.pos][1]
    OBVIOUS
  <2>2. r \in Records /\ t = ScanAdvance(ScanKeep(s, r, c), start, r)
    BY <1>2, <1>6, <2>1, HeaderIs DEF TakesRecord
  <2>3. r.seq <= c
    BY <1>2, <1>6, <2>1 DEF TakesRecord, HasHeader, NoNewer
  <2>4. ScanKeep(s, r, c) = s
    BY <2>3 DEF ScanKeep
  <2>5. t = ScanAdvance(s, start, r)
    BY <2>2, <2>4
  <2> QED
    BY <2>2, <2>3, <2>5, AdvanceMoves
<1> QED
  BY <1>3, <1>4, <1>5, <1>6, StepKinds

-----------------------------------------------------------------------------
(* A step that advances reads only the cells it advances over.              *)
\* The disks d and e hold the same in the n cells from at.
SameCells(d, e, at, n) == \A j \in Offsets : at <= j /\ j < at + n => e[j] = d[j]

LEMMA HeaderKept ==
  ASSUME NEW d, NEW e, NEW at \in Offsets, NEW n \in Nat, n >= HeaderSize,
         ~(WalSize - at < HeaderSize), SameCells(d, e, at, n), HasHeader(d, at)
  PROVE  HasHeader(e, at) /\ e[at] = d[at]
<1>1. \A i \in 0 .. HeaderSize - 1 : at + i \in Offsets /\ at <= at + i /\ at + i < at + n
  BY DEF Offsets
<1>2. e[at] = d[at]
  BY SizePositive DEF SameCells, Offsets
<1>3. \A i \in 0 .. HeaderSize - 1 : e[at + i] = d[at + i]
  BY <1>1 DEF SameCells
<1> QED
  BY <1>2, <1>3 DEF HasHeader

LEMMA PayloadKept ==
  ASSUME NEW d, NEW e, NEW at \in Offsets, NEW n \in Nat, d[at][1] \in Records,
         n = HeaderSize + d[at][1].len, SameCells(d, e, at, n), e[at] = d[at],
         HasPayload(d, at)
  PROVE  HasPayload(e, at)
<1>1. PICK r : r = d[at][1]
  OBVIOUS
<1>2. r.len \in Nat
  BY <1>1 DEF Records
<1>3. /\ HeaderSize + r.len <= WalSize - at
      /\ \A i \in HeaderSize .. HeaderSize + r.len - 1 : d[at + i] = <<r, i>>
  BY <1>1 DEF HasPayload
<1>4. \A i \in HeaderSize .. HeaderSize + r.len - 1 : e[at + i] = <<r, i>>
  <2> TAKE i \in HeaderSize .. HeaderSize + r.len - 1
  <2>1. at + i \in Offsets /\ at <= at + i /\ at + i < at + n
    BY <1>1, <1>2, <1>3 DEF Offsets
  <2>2. e[at + i] = d[at + i]
    BY <2>1 DEF SameCells
  <2> QED
    BY <1>3, <2>2
<1> QED
  BY <1>1, <1>3, <1>4 DEF HasPayload

\* A step that advances is the same on a disk with the same cells there.
LEMMA StepLocal ==
  ASSUME NEW d \in Disks, NEW e, NEW start \in Offsets, NEW c \in Nat, NEW s \in ScanState,
         NEW t, t = ScanStep(d, start, c, s), t.pend > s.pend,
         SameCells(d, e, s.pos, t.pend - s.pend)
  PROVE  t = ScanStep(e, start, c, s)
<1>1. s.pos \in Offsets /\ s.pend \in Nat
  BY StateIs
<1>2. t # ScanStop(s)
  <2> SUFFICES ASSUME t = ScanStop(s) PROVE FALSE
    OBVIOUS
  <2>1. t.pend = s.pend
    BY StopMoves
  <2> QED
    BY <1>1, <2>1
<1>3. CASE SkipsTail(start, s, t)
  BY <1>3, KindsAreSteps
<1>4. PICK r : r = d[s.pos][1]
  OBVIOUS
<1>5. CASE TakesPadding(d, start, s, t)
  <2>1. r \in Records /\ t = ScanAdvance(s, start, r)
    BY <1>1, <1>4, <1>5, HeaderIs DEF TakesPadding
  <2>2. t.pend = s.pend + HeaderSize + r.len
    BY <2>1, AdvanceMoves
  <2>3. PICK n \in Nat : n = t.pend - s.pend
    BY <1>1, <2>1, <2>2 DEF Records
  <2>4. n >= HeaderSize
    BY <1>1, <2>1, <2>2, <2>3 DEF Records
  <2>5. HasHeader(e, s.pos) /\ e[s.pos] = d[s.pos]
    BY <1>1, <1>5, <2>3, <2>4, HeaderKept DEF TakesPadding
  <2>6. TakesPadding(e, start, s, t)
    BY <1>5, <2>5 DEF TakesPadding
  <2> QED
    BY <2>6, KindsAreSteps
<1>6. CASE TakesRecord(d, start, c, s, t)
  <2>1. r \in Records /\ t = ScanAdvance(ScanKeep(s, r, c), start, r)
    BY <1>1, <1>4, <1>6, HeaderIs DEF TakesRecord
  <2>2. t.pend = s.pend + HeaderSize + r.len
    <3>1. PICK k : k = ScanKeep(s, r, c)
      OBVIOUS
    <3>2. k \in ScanState
      BY <2>1, <3>1, KeepIs
    <3>3. k.pend = s.pend
      BY <2>1, <3>1, KeepSame
    <3> QED
      BY <2>1, <3>1, <3>2, <3>3, AdvanceMoves
  <2>3. PICK n \in Nat : n = t.pend - s.pend
    BY <1>1, <2>1, <2>2 DEF Records
  <2>4. n >= HeaderSize /\ n = HeaderSize + r.len
    BY <1>1, <2>1, <2>2, <2>3 DEF Records
  <2>5. HasHeader(e, s.pos) /\ e[s.pos] = d[s.pos]
    BY <1>1, <1>6, <2>3, <2>4, HeaderKept DEF TakesRecord
  <2>6. HasPayload(e, s.pos)
    BY <1>1, <1>4, <1>6, <2>1, <2>3, <2>4, <2>5, PayloadKept DEF TakesRecord
  <2>7. TakesRecord(e, start, c, s, t)
    BY <1>6, <2>5, <2>6 DEF TakesRecord
  <2> QED
    BY <2>7, KindsAreSteps
<1> QED
  BY <1>2, <1>3, <1>5, <1>6, StepKinds

-----------------------------------------------------------------------------
(***************************************************************************)
(* A chain: the states a scan goes through while it advances, each behind  *)
(* one more piece of the ring.  A state is on the chain when it belongs to *)
(* every set that holds the start and the next state of each of its own.   *)
(***************************************************************************)
\* An advancing step that keeps within one turn of the ring.
Pace(d, start, c, s, t) ==
  /\ s.done = FALSE
  /\ t = ScanStep(d, start, c, s)
  /\ t.pend > s.pend
  /\ Geometry(t.pos, start, t.pend)

Closed(X, d, start, c) ==
  /\ ScanStart(start) \in X
  /\ \A s, t \in ScanState : s \in X /\ Pace(d, start, c, s, t) => t \in X

OnChain(d, start, c, s) ==
  s \in ScanState /\ \A X \in SUBSET ScanState : Closed(X, d, start, c) => s \in X

LEMMA StartTyped ==
  ASSUME NEW start \in Offsets
  PROVE  /\ ScanStart(start) \in ScanState
         /\ ScanStart(start).pos = start /\ ScanStart(start).pend = 0
         /\ ScanStart(start).found = <<>> /\ ScanStart(start).last = 0
<1>1. PICK b \in BOOLEAN : b = FALSE
  OBVIOUS
<1>2. ScanStart(start) = State(start, 0, 0, <<>>, b, b, b)
  BY <1>1 DEF ScanStart, State
<1>3. State(start, 0, 0, <<>>, b, b, b) \in ScanState
  <2>1. <<>> \in Seq(Records) /\ 0 \in Nat
    OBVIOUS
  <2> QED
    BY <2>1, StateTyped
<1> QED
  BY <1>2, <1>3 DEF State

\* The start is on the chain, and with a state the one a pace ahead.
LEMMA ChainStarts ==
  ASSUME NEW d, NEW start \in Offsets, NEW c
  PROVE  OnChain(d, start, c, ScanStart(start))
BY StartTyped DEF OnChain, Closed

LEMMA ChainGoesOn ==
  ASSUME NEW d, NEW start, NEW c, NEW s, NEW t \in ScanState,
         OnChain(d, start, c, s), Pace(d, start, c, s, t)
  PROVE  OnChain(d, start, c, t)
<1> SUFFICES ASSUME NEW X \in SUBSET ScanState, Closed(X, d, start, c)
             PROVE  t \in X
  BY DEF OnChain
<1>1. s \in X /\ s \in ScanState
  BY DEF OnChain
<1> QED
  BY <1>1 DEF Closed

\* What holds of the start, and of the next state with each state, holds on the chain.
LEMMA ChainInduction ==
  ASSUME NEW d, NEW start, NEW c, NEW s, OnChain(d, start, c, s),
         NEW X \in SUBSET ScanState, Closed(X, d, start, c)
  PROVE  s \in X
BY DEF OnChain

\* The n cells from start, around the end of the ring.
InRegion(j, start, n) == (start <= j /\ j < start + n) \/ j + WalSize < start + n

AgreeIn(d, e, start, n) == \A j \in Offsets : InRegion(j, start, n) => e[j] = d[j]

\* A piece of the region is the same on both disks.
LEMMA RegionCells ==
  ASSUME NEW start \in Offsets, NEW pos \in Offsets, NEW u \in Nat, NEW v \in Nat, NEW n \in Nat,
         Geometry(pos, start, u), u < v, v <= n,
         NEW d, NEW e, AgreeIn(d, e, start, n)
  PROVE  SameCells(d, e, pos, v - u)
<1> SUFFICES ASSUME NEW j \in Offsets, pos <= j, j < pos + (v - u)
             PROVE  e[j] = d[j]
  BY DEF SameCells
<1>1. pos = start + u \/ pos = start + u - WalSize
  BY DEF Geometry
<1>2. InRegion(j, start, n)
  BY <1>1 DEF InRegion, Offsets
<1> QED
  BY <1>2 DEF AgreeIn

\* As far as n cells, the chain of d is a chain of e.
FollowedTo(n, e, start, c, s) ==
  /\ Geometry(s.pos, start, s.pend)
  /\ s.pend <= n => OnChain(e, start, c, s)

\* A chain depends on the cells it has passed, and on no other.
LEMMA ChainAgrees ==
  ASSUME NEW d \in Disks, NEW e, NEW start \in Offsets, NEW c \in Nat, NEW s,
         OnChain(d, start, c, s), AgreeIn(d, e, start, s.pend)
  PROVE  OnChain(e, start, c, s)
<1>1. s \in ScanState /\ s.pend \in Nat
  BY StateIs DEF OnChain
<1> DEFINE X == {u \in ScanState : FollowedTo(s.pend, e, start, c, u)}
<1>2. ScanStart(start) \in X
  <2>1. Geometry(start, start, 0)
    BY DEF Geometry, Offsets
  <2>2. OnChain(e, start, c, ScanStart(start))
    BY ChainStarts
  <2> QED
    BY <2>1, <2>2, StartTyped DEF FollowedTo
<1>3. ASSUME NEW u \in ScanState, NEW t \in ScanState, u \in X, Pace(d, start, c, u, t)
      PROVE  t \in X
  <2>1. Geometry(t.pos, start, t.pend) /\ t.pend > u.pend
    BY <1>3 DEF Pace
  <2>2. Geometry(u.pos, start, u.pend) /\ (u.pend <= s.pend => OnChain(e, start, c, u))
    BY <1>3 DEF FollowedTo
  <2> SUFFICES ASSUME t.pend <= s.pend PROVE OnChain(e, start, c, t)
    BY <2>1 DEF FollowedTo
  <2>3. u.pend \in Nat /\ t.pend \in Nat /\ u.pos \in Offsets
    BY StateIs
  <2>4. OnChain(e, start, c, u)
    BY <1>1, <2>1, <2>2, <2>3
  <2>5. SameCells(d, e, u.pos, t.pend - u.pend)
    BY <1>1, <2>1, <2>2, <2>3, RegionCells
  <2>6. t = ScanStep(e, start, c, u)
    BY <1>3, <2>1, <2>5, StepLocal DEF Pace
  <2>7. Pace(e, start, c, u, t)
    BY <1>3, <2>6 DEF Pace
  <2> QED
    BY <2>4, <2>7, ChainGoesOn
<1>4. s \in X
  <2>1. X \in SUBSET ScanState
    OBVIOUS
  <2> HIDE DEF X
  <2>2. Closed(X, d, start, c)
    BY <1>2, <1>3 DEF Closed
  <2> QED
    BY <2>1, <2>2, ChainInduction
<1>5. s.pend <= s.pend
  BY <1>1
<1> QED
  BY <1>4, <1>5 DEF FollowedTo

-----------------------------------------------------------------------------
(***************************************************************************)
(* Scan is recursive: it has a value, and that is where the chain ends.    *)
(***************************************************************************)
\* The steps Scan allows itself.
Bound == 2 * WalSize

\* One turn of the loop.
GoOn(d, start, c, s) == IF s.done THEN s ELSE ScanStep(d, start, c, s)

\* The function Scan defines recursively, and the same without the recursion.
IsLoop(f, d, start, c) ==
  f = [i \in 0 .. Bound |-> IF i = 0 THEN ScanStart(start) ELSE GoOn(d, start, c, f[i - 1])]

Loops(f, d, start, c) ==
  /\ f \in [0 .. Bound -> ScanState]
  /\ f[0] = ScanStart(start)
  /\ \A i \in 1 .. Bound : f[i] = GoOn(d, start, c, f[i - 1])

LEMMA BoundIs == Bound \in Nat /\ Bound > WalSize
BY DEF Bound

\* Such a function exists: by induction on its length.
LEMMA LoopExists ==
  ASSUME NEW d \in Disks, NEW start \in Offsets, NEW c \in Nat
  PROVE  \E f : Loops(f, d, start, c)
<1> DEFINE step == [q \in (1 .. Bound) \X ScanState |-> GoOn(d, start, c, q[2])]
<1>1. ASSUME NEW s \in ScanState PROVE GoOn(d, start, c, s) \in ScanState
  BY StepTyped DEF GoOn
<1>2. step \in Steps(Bound, ScanState)
  BY <1>1 DEF Steps
<1>3. \A i \in 1 .. Bound : \A s \in ScanState : step[<<i, s>>] = GoOn(d, start, c, s)
  OBVIOUS
<1> HIDE DEF step
<1>4. PICK f : f \in [0 .. Bound -> ScanState] /\ Iterates(f, ScanStart(start), step, Bound)
  BY <1>2, StartTyped, BoundIs, RecursionExists
<1>5. \A i \in 1 .. Bound : f[i] = GoOn(d, start, c, f[i - 1])
  <2> TAKE i \in 1 .. Bound
  <2>1. f[i - 1] \in ScanState
    BY <1>4, BoundIs
  <2>2. f[i] = step[<<i, f[i - 1]>>]
    BY <1>4 DEF Iterates
  <2> QED
    BY <1>3, <2>1, <2>2
<1> QED
  BY <1>4, <1>5 DEF Loops, Iterates

LEMMA LoopIs ==
  ASSUME NEW f, NEW d, NEW start, NEW c, Loops(f, d, start, c)
  PROVE  IsLoop(f, d, start, c)
<1>1. f = [i \in 0 .. Bound |-> f[i]]
  BY DEF Loops
<1>2. ASSUME NEW i \in 0 .. Bound
      PROVE  f[i] = IF i = 0 THEN ScanStart(start) ELSE GoOn(d, start, c, f[i - 1])
  <2>1. CASE i = 0
    BY <2>1 DEF Loops
  <2>2. CASE i # 0
    <3>1. i \in 1 .. Bound
      BY <2>2, BoundIs
    <3> QED
      BY <2>2, <3>1 DEF Loops
  <2> QED
    BY <2>1, <2>2
<1> QED
  BY <1>1, <1>2 DEF IsLoop

\* So Scan is its last value.
LEMMA ScanLoops ==
  ASSUME NEW d \in Disks, NEW start \in Offsets, NEW c \in Nat
  PROVE  \E f : Loops(f, d, start, c) /\ Scan(d, start, c) = f[Bound]
<1>1. PICK f : Loops(f, d, start, c)
  BY LoopExists
<1>2. IsLoop(f, d, start, c)
  BY <1>1, LoopIs
<1> DEFINE h == CHOOSE loop : IsLoop(loop, d, start, c)
<1>3. IsLoop(h, d, start, c)
  BY <1>2
<1>4. Scan(d, start, c) = h[Bound]
  BY DEF Scan, IsLoop, GoOn, Bound
<1> HIDE DEF h
<1>5. /\ h[0] = ScanStart(start)
      /\ \A i \in 1 .. Bound : h[i] = GoOn(d, start, c, h[i - 1])
  <2>1. \A i \in 0 .. Bound : h[i] = IF i = 0 THEN ScanStart(start) ELSE GoOn(d, start, c, h[i - 1])
    BY <1>3 DEF IsLoop
  <2>2. 0 \in 0 .. Bound /\ 1 .. Bound \subseteq 0 .. Bound
    BY BoundIs
  <2> QED
    BY <2>1, <2>2
<1>6. InStep(h, f, Bound)
  BY <1>1, <1>5 DEF InStep, Loops
<1>7. h[Bound] = f[Bound]
  BY <1>6, BoundIs, SameSteps DEF Agree
<1> QED
  BY <1>1, <1>4, <1>7

\* Once done, the loop keeps what it has.
LEMMA LoopKeeps ==
  ASSUME NEW f, NEW d, NEW start, NEW c, Loops(f, d, start, c),
         NEW k \in 0 .. Bound, f[k].done = TRUE
  PROVE  f[Bound] = f[k]
<1> DEFINE S == {j \in 0 .. Bound : j >= k => f[j] = f[k]}
<1>1. 0 \in S
  BY BoundIs
<1>2. ASSUME NEW i \in 1 .. Bound, i - 1 \in S
      PROVE  i \in S
  <2> SUFFICES ASSUME i >= k PROVE f[i] = f[k]
    OBVIOUS
  <2>1. CASE i = k
    BY <2>1
  <2>2. CASE i # k
    <3>1. i - 1 >= k
      BY <2>2, BoundIs
    <3>2. f[i - 1] = f[k]
      BY <1>2, <3>1
    <3>3. f[i] = GoOn(d, start, c, f[i - 1])
      BY DEF Loops
    <3> QED
      BY <3>2, <3>3 DEF GoOn
  <2> QED
    BY <2>1, <2>2
<1>3. 0 .. Bound \subseteq S
  <2> HIDE DEF S
  <2> QED
    BY <1>1, <1>2, BoundIs, InductionUpTo
<1>4. Bound \in S
  <2> HIDE DEF S
  <2> QED
    BY <1>3, BoundIs
<1> QED
  BY <1>4, BoundIs

\* The loop follows the chain: each state of it costs a step, and advances.
LEMMA LoopFollows ==
  ASSUME NEW f, NEW d, NEW start \in Offsets, NEW c, Loops(f, d, start, c),
         NEW s, OnChain(d, start, c, s)
  PROVE  \E i \in 0 .. WalSize : f[i] = s
<1> DEFINE X == {u \in ScanState : \E i \in 0 .. WalSize : i <= u.pend /\ f[i] = u}
<1>1. ScanStart(start) \in X
  <2>1. f[0] = ScanStart(start)
    BY DEF Loops
  <2>2. 0 \in 0 .. WalSize /\ 0 <= 0
    OBVIOUS
  <2> QED
    BY <2>1, <2>2, StartTyped
<1>2. ASSUME NEW u \in ScanState, NEW t \in ScanState, u \in X, Pace(d, start, c, u, t)
      PROVE  t \in X
  <2>1. PICK i \in 0 .. WalSize : i <= u.pend /\ f[i] = u
    BY <1>2
  <2>2. /\ u.done = FALSE /\ t = ScanStep(d, start, c, u)
        /\ t.pend > u.pend /\ t.pend \in 0 .. WalSize
    BY <1>2 DEF Pace, Geometry
  <2>3. u.pend \in Nat
    BY StateIs
  <2>4. i + 1 \in 0 .. WalSize /\ i + 1 <= t.pend /\ i + 1 \in 1 .. Bound /\ (i + 1) - 1 = i
    BY <2>1, <2>2, <2>3, BoundIs
  <2>5. f[i + 1] = GoOn(d, start, c, f[(i + 1) - 1])
    BY <2>4 DEF Loops
  <2>6. f[i + 1] = t
    BY <2>1, <2>2, <2>4, <2>5 DEF GoOn
  <2> QED
    BY <2>4, <2>6
<1>3. s \in X
  <2>1. X \in SUBSET ScanState
    OBVIOUS
  <2> HIDE DEF X
  <2>2. Closed(X, d, start, c)
    BY <1>1, <1>2 DEF Closed
  <2> QED
    BY <2>1, <2>2, ChainInduction
<1> QED
  BY <1>3

\* A chain that ends, because the ring is full or because what follows is no newer,
\* is all the scan finds.
Ends(d, start, c, s) == s.done = TRUE \/ ScanStep(d, start, c, s) = ScanStop(s)

LEMMA ScanEndsChain ==
  ASSUME NEW d \in Disks, NEW start \in Offsets, NEW c \in Nat,
         NEW s, OnChain(d, start, c, s), Ends(d, start, c, s)
  PROVE  LET r == Scan(d, start, c)
         IN  r.pos = s.pos /\ r.pend = s.pend /\ r.last = s.last /\ r.found = s.found
<1>1. PICK f : Loops(f, d, start, c) /\ Scan(d, start, c) = f[Bound]
  BY ScanLoops
<1>2. PICK i \in 0 .. WalSize : f[i] = s
  BY <1>1, LoopFollows
<1>3. s \in ScanState
  BY DEF OnChain
<1>4. i \in 0 .. Bound /\ i + 1 \in 0 .. Bound /\ i + 1 \in 1 .. Bound /\ (i + 1) - 1 = i
  BY BoundIs
<1>5. CASE s.done = TRUE
  BY <1>1, <1>2, <1>4, <1>5, LoopKeeps
<1>6. CASE s.done # TRUE
  <2>1. PICK t : t = ScanStop(s)
    OBVIOUS
  <2>2. f[i + 1] = GoOn(d, start, c, f[(i + 1) - 1])
    BY <1>1, <1>4 DEF Loops
  <2>3. f[i + 1] = t
    BY <1>2, <1>4, <1>6, <2>1, <2>2 DEF GoOn, Ends
  <2>4. t.done = TRUE
    BY <1>3, <2>1, StopIs DEF State
  <2>5. f[Bound] = t
    BY <1>1, <1>4, <2>3, <2>4, LoopKeeps
  <2> QED
    BY <1>1, <1>3, <2>1, <2>5, StopMoves
<1> QED
  BY <1>5, <1>6

\* A ring that holds nothing newer than the commit yields nothing.
LEMMA ScanFindsNothing ==
  ASSUME NEW d \in Disks, NEW start \in Offsets, NEW c \in Nat, NoNewer(d, c)
  PROVE  LET r == Scan(d, start, c)
         IN  r.pos \in Offsets /\ r.found = <<>> /\ r.last \in Nat /\ r.last <= c
<1>1. PICK f : Loops(f, d, start, c) /\ Scan(d, start, c) = f[Bound]
  BY ScanLoops
<1> DEFINE S == {i \in 0 .. Bound : f[i].found = <<>> /\ f[i].last <= c}
<1>2. 0 \in S
  BY <1>1, StartTyped, BoundIs DEF Loops
<1>3. ASSUME NEW i \in 1 .. Bound, i - 1 \in S
      PROVE  i \in S
  <2>1. i - 1 \in 0 .. Bound
    BY <1>3
  <2>2. PICK s \in ScanState : s = f[i - 1]
    BY <1>1, <2>1 DEF Loops
  <2>3. f[i] = IF s.done THEN s ELSE ScanStep(d, start, c, s)
    BY <1>1, <2>2 DEF Loops, GoOn
  <2>4. s.found = <<>> /\ s.last <= c
    BY <1>3, <2>2
  <2>5. f[i].found = <<>> /\ f[i].last <= c
    BY <2>3, <2>4, StaleStep
  <2>6. i \in 0 .. Bound
    BY BoundIs
  <2> QED
    BY <2>5, <2>6
<1>4. 0 .. Bound \subseteq S
  <2> HIDE DEF S
  <2> QED
    BY <1>2, <1>3, BoundIs, InductionUpTo
<1>5. Bound \in S
  <2> HIDE DEF S
  <2> QED
    BY <1>4, BoundIs
<1>6. f[Bound] \in ScanState
  BY <1>1, BoundIs DEF Loops
<1> QED
  BY <1>1, <1>5, <1>6, StateIs

-----------------------------------------------------------------------------
(***************************************************************************)
(* The list of mutations ends before the first payload that does not       *)
(* decode.                                                                 *)
(***************************************************************************)
\* The places of the payloads that do not decode.
Bad(rs) == {i \in DOMAIN rs : rs[i].body \notin Decodable}

LeastOf(S) == CHOOSE i \in S : \A j \in S : i <= j

LEMMA LeastIs ==
  ASSUME NEW S \in SUBSET Nat, S # {}
  PROVE  LeastOf(S) \in S /\ \A j \in S : LeastOf(S) <= j
<1>1. PICK i \in S : \A j \in S : i <= j
  BY LeastExists
<1> QED
  BY <1>1, Zenon DEF LeastOf

LEMMA LeastUnique ==
  ASSUME NEW S \in SUBSET Nat, NEW i \in S, \A j \in S : i <= j
  PROVE  LeastOf(S) = i
<1>1. PICK m : m = LeastOf(S)
  OBVIOUS
<1>2. m \in S /\ \A j \in S : m <= j
  BY <1>1, LeastIs
<1>3. m \in Nat /\ i \in Nat /\ m <= i /\ i <= m
  BY <1>2
<1> QED
  BY <1>1, <1>3

LEMMA PrefixIs ==
  ASSUME NEW rs \in Seq(Records)
  PROVE  /\ Bad(rs) \in SUBSET Nat
         /\ Bad(rs) = {} => DecodablePrefix(rs) = rs
         /\ Bad(rs) # {} => /\ LeastOf(Bad(rs)) \in DOMAIN rs
                            /\ DecodablePrefix(rs) = SubSeq(rs, 1, LeastOf(Bad(rs)) - 1)
         /\ DecodablePrefix(rs) \in Seq(Records)
<1>1. Bad(rs) \in SUBSET Nat /\ Bad(rs) \in SUBSET DOMAIN rs
  BY DEF Bad
<1>2. Bad(rs) = {} => DecodablePrefix(rs) = rs
  BY Zenon DEF DecodablePrefix, Bad
<1>3. Bad(rs) # {} => DecodablePrefix(rs) = SubSeq(rs, 1, LeastOf(Bad(rs)) - 1)
  BY Zenon DEF DecodablePrefix, Bad, LeastOf
<1>4. Bad(rs) # {} => LeastOf(Bad(rs)) \in DOMAIN rs
  BY <1>1, LeastIs
<1>5. Bad(rs) # {} => SubSeq(rs, 1, LeastOf(Bad(rs)) - 1) \in Seq(Records)
  <2> SUFFICES ASSUME Bad(rs) # {} PROVE SubSeq(rs, 1, LeastOf(Bad(rs)) - 1) \in Seq(Records)
    OBVIOUS
  <2>1. PICK m : m = LeastOf(Bad(rs)) - 1
    OBVIOUS
  <2>2. m \in 0 .. Len(rs)
    BY <1>4, <2>1
  <2>3. SubSeq(rs, 1, m) \in Seq(Records)
    BY <2>2
  <2> QED
    BY <2>1, <2>3
<1> QED
  BY <1>1, <1>2, <1>3, <1>4, <1>5

\* The prefix of a longer list.
LEMMA PrefixOfAppend ==
  ASSUME NEW rs \in Seq(Records), NEW r \in Records
  PROVE  /\ Bad(rs) # {} => /\ Bad(Append(rs, r)) # {}
                            /\ DecodablePrefix(Append(rs, r)) = DecodablePrefix(rs)
         /\ Bad(rs) = {} /\ r.body \in Decodable
              => /\ Bad(Append(rs, r)) = {}
                 /\ DecodablePrefix(Append(rs, r)) = Append(DecodablePrefix(rs), r)
         /\ Bad(rs) = {} /\ r.body \notin Decodable
              => /\ Bad(Append(rs, r)) # {}
                 /\ DecodablePrefix(Append(rs, r)) = DecodablePrefix(rs)
<1>1. PICK q \in Seq(Records) : q = Append(rs, r)
  <2>1. Append(rs, r) \in Seq(Records)
    OBVIOUS
  <2> QED
    BY <2>1
<1>2. PICK n \in Nat : n = Len(rs)
  OBVIOUS
<1>3. /\ DOMAIN rs = 1 .. n /\ DOMAIN q = 1 .. n + 1 /\ Len(q) = n + 1
      /\ q[n + 1] = r
      /\ \A i \in 1 .. n : q[i] = rs[i]
  BY <1>1, <1>2
<1>4. Bad(q) = IF r.body \in Decodable THEN Bad(rs) ELSE Bad(rs) \cup {n + 1}
  <2>1. \A i \in 1 .. n + 1 : i \in Bad(q) <=> q[i].body \notin Decodable
    BY <1>3 DEF Bad
  <2>2. \A i \in 1 .. n : i \in Bad(rs) <=> rs[i].body \notin Decodable
    BY <1>3 DEF Bad
  <2>3. Bad(q) \subseteq 1 .. n + 1 /\ Bad(rs) \subseteq 1 .. n
    BY <1>3 DEF Bad
  <2>4. \A i \in 1 .. n : i \in Bad(q) <=> i \in Bad(rs)
    BY <1>3, <2>1, <2>2
  <2>5. n + 1 \in Bad(q) <=> r.body \notin Decodable
    BY <1>3, <2>1
  <2>6. CASE r.body \in Decodable
    <3>1. \A i : i \in Bad(q) <=> i \in Bad(rs)
      BY <2>3, <2>4, <2>5, <2>6
    <3> QED
      BY <2>6, <3>1
  <2>7. CASE r.body \notin Decodable
    <3>1. \A i : i \in Bad(q) <=> i \in Bad(rs) \cup {n + 1}
      BY <2>3, <2>4, <2>5, <2>7
    <3> QED
      BY <2>7, <3>1
  <2> QED
    BY <2>6, <2>7
<1>5. \A m \in 0 .. n : SubSeq(q, 1, m) = SubSeq(rs, 1, m)
  <2> TAKE m \in 0 .. n
  <2>1. SubSeq(q, 1, m) = [i \in 1 .. m |-> q[i]]
    BY <1>2, <1>3
  <2>2. SubSeq(rs, 1, m) = [i \in 1 .. m |-> rs[i]]
    BY <1>2, <1>3
  <2>3. \A i \in 1 .. m : q[i] = rs[i]
    BY <1>3
  <2> QED
    BY <2>1, <2>2, <2>3
<1>6. ASSUME Bad(rs) # {}
      PROVE  Bad(q) # {} /\ DecodablePrefix(q) = DecodablePrefix(rs)
  <2>1. PICK m \in 1 .. n : m = LeastOf(Bad(rs))
    BY <1>3, <1>6, PrefixIs
  <2>2. m \in Bad(rs) /\ \A j \in Bad(rs) : m <= j
    BY <1>6, <2>1, PrefixIs, LeastIs
  <2>3. m \in Bad(q) /\ \A j \in Bad(q) : m <= j
    BY <1>4, <2>2
  <2>4. LeastOf(Bad(q)) = m
    BY <2>3, PrefixIs, LeastUnique
  <2>5. DecodablePrefix(q) = SubSeq(q, 1, m - 1)
    BY <2>3, <2>4, PrefixIs
  <2>6. DecodablePrefix(rs) = SubSeq(rs, 1, m - 1)
    BY <1>6, <2>1, PrefixIs
  <2> QED
    BY <1>5, <2>3, <2>5, <2>6
<1>7. ASSUME Bad(rs) = {}, r.body \in Decodable
      PROVE  Bad(q) = {} /\ DecodablePrefix(q) = Append(DecodablePrefix(rs), r)
  <2>1. Bad(q) = {}
    BY <1>4, <1>7
  <2> QED
    BY <1>1, <1>7, <2>1, PrefixIs
<1>8. ASSUME Bad(rs) = {}, r.body \notin Decodable
      PROVE  Bad(q) # {} /\ DecodablePrefix(q) = DecodablePrefix(rs)
  <2>1. Bad(q) = {n + 1}
    BY <1>4, <1>8
  <2>2. LeastOf(Bad(q)) = n + 1
    BY <2>1, PrefixIs, LeastUnique
  <2>3. DecodablePrefix(q) = SubSeq(q, 1, (n + 1) - 1)
    BY <2>1, <2>2, PrefixIs
  <2>4. (n + 1) - 1 = n /\ n \in 0 .. n
    OBVIOUS
  <2>5. SubSeq(q, 1, n) = SubSeq(rs, 1, n)
    BY <1>5, <2>4
  <2>6. SubSeq(rs, 1, n) = rs
    BY <1>2
  <2>7. DecodablePrefix(rs) = rs
    BY <1>8, PrefixIs
  <2>8. DecodablePrefix(q) = rs
    BY <2>3, <2>4, <2>5, <2>6
  <2> QED
    BY <2>1, <2>7, <2>8
<1> QED
  BY <1>1, <1>6, <1>7, <1>8

-----------------------------------------------------------------------------
(***************************************************************************)
(* The state a scan is in behind the records of list, at the writer's      *)
(* cursor w.                                                               *)
(***************************************************************************)
\* A Boolean for a formula.
Flag(b) == IF b THEN TRUE ELSE FALSE

\* Behind list, at w, with the newest sequence seen.
Reached(w, start, last, list) ==
  State(w.pos, w.pend, last, DecodablePrefix(list),
        Flag(start + w.pend >= WalSize), Flag(Bad(list) # {}), Flag(w.pend = WalSize))

LEMMA ReachedIs ==
  ASSUME NEW w \in Cursors, NEW start \in Offsets, NEW last \in Nat, NEW list \in Seq(Records),
         NEW s, s = Reached(w, start, last, list)
  PROVE  /\ s \in ScanState
         /\ s.pos = w.pos /\ s.pend = w.pend /\ s.last = last
         /\ s.found = DecodablePrefix(list)
         /\ s.wrapped = Flag(start + w.pend >= WalSize)
         /\ s.stopped = Flag(Bad(list) # {})
         /\ s.done = Flag(w.pend = WalSize)
<1>1. PICK wrapped \in BOOLEAN : wrapped = Flag(start + w.pend >= WalSize)
  BY DEF Flag
<1>2. PICK stopped \in BOOLEAN : stopped = Flag(Bad(list) # {})
  BY DEF Flag
<1>3. PICK done \in BOOLEAN : done = Flag(w.pend = WalSize)
  BY DEF Flag
<1>4. PICK found \in Seq(Records) : found = DecodablePrefix(list)
  BY PrefixIs
<1>5. s = State(w.pos, w.pend, last, found, wrapped, stopped, done)
  BY <1>1, <1>2, <1>3, <1>4 DEF Reached
<1>6. w.pos \in Offsets /\ w.pend \in Nat
  BY DEF Cursors
<1>7. s \in ScanState
  BY <1>5, <1>6, StateTyped
<1>8. /\ s.pos = w.pos /\ s.pend = w.pend /\ s.last = last /\ s.found = found
      /\ s.wrapped = wrapped /\ s.stopped = stopped /\ s.done = done
  BY <1>5 DEF State
<1> QED
  BY <1>1, <1>2, <1>3, <1>4, <1>7, <1>8

\* The skip of a short tail is a step of the chain.
LEMMA ChainSkips ==
  ASSUME NEW d, NEW start \in Offsets, NEW c \in Nat, NEW w \in Cursors, NEW last \in Nat,
         NEW list \in Seq(Records), Geometry(w.pos, start, w.pend),
         Remaining(w) < HeaderSize, w.pend + Remaining(w) <= WalSize,
         OnChain(d, start, c, Reached(w, start, last, list)),
         NEW v \in Cursors, v.pos = 0, v.pend = w.pend + Remaining(w)
  PROVE  /\ OnChain(d, start, c, Reached(v, start, last, list))
         /\ Geometry(v.pos, start, v.pend)
<1>1. PICK s : s = Reached(w, start, last, list)
  OBVIOUS
<1>2. PICK t : t = Reached(v, start, last, list)
  OBVIOUS
<1>3. /\ w.pos \in Offsets /\ w.pend \in 0 .. WalSize /\ v.pend \in 0 .. WalSize
      /\ Remaining(w) = WalSize - w.pos /\ start \in Nat /\ start < WalSize
  BY DEF Cursors, Offsets, Remaining
<1>4. /\ s \in ScanState /\ s.pos = w.pos /\ s.pend = w.pend
      /\ s.wrapped = Flag(start + w.pend >= WalSize) /\ s.done = Flag(w.pend = WalSize)
      /\ s.last = last /\ s.found = DecodablePrefix(list) /\ s.stopped = Flag(Bad(list) # {})
  BY <1>1, ReachedIs
<1>5. t \in ScanState /\ t.pos = v.pos /\ t.pend = v.pend
  BY <1>2, ReachedIs
<1>6. w.pos = start + w.pend
  BY <1>3 DEF Geometry, Offsets
<1>7. ~(start + w.pend >= WalSize) /\ ~(w.pend = WalSize)
  BY <1>3, <1>6 DEF Offsets
<1>8. s.wrapped = FALSE /\ s.done = FALSE
  BY <1>4, <1>7 DEF Flag
<1>9. v.pend = WalSize - start /\ start + v.pend >= WalSize /\ ((v.pend = WalSize) <=> (start = 0))
  <2>1. w.pend \in Nat /\ w.pos \in Nat /\ WalSize \in Nat
    BY <1>3, SizePositive DEF Offsets
  <2>2. v.pend = WalSize - start
    BY <1>3, <1>6, <2>1
  <2> QED
    BY <1>3, <2>1, <2>2
<1>10. Geometry(v.pos, start, v.pend)
  BY <1>3, <1>9, SizePositive DEF Geometry
<1>11. t = State(0, s.pend + (WalSize - s.pos), s.last, s.found, TRUE, s.stopped, start = 0)
  <2>1. PICK wrapped \in BOOLEAN : wrapped = TRUE
    OBVIOUS
  <2>2. PICK done \in BOOLEAN : done = (start = 0)
    BY Zenon
  <2>3. PICK stopped \in BOOLEAN : stopped = s.stopped
    BY <1>4, StateIs
  <2>4. done = Flag(v.pend = WalSize)
    BY <1>9, <2>2 DEF Flag
  <2>5. wrapped = Flag(start + v.pend >= WalSize)
    BY <1>9, <2>1 DEF Flag
  <2>6. stopped = Flag(Bad(list) # {})
    BY <1>4, <2>3
  <2>7. t = State(v.pos, v.pend, last, s.found, wrapped, stopped, done)
    BY <1>2, <1>4, <2>4, <2>5, <2>6 DEF Reached
  <2>8. v.pend = s.pend + (WalSize - s.pos)
    BY <1>3, <1>4
  <2> QED
    BY <1>4, <2>1, <2>2, <2>3, <2>7, <2>8
<1>12. t = ScanSkipTail(s, start)
  BY <1>4, <1>8, <1>11, SkipIs
<1>13. SkipsTail(start, s, t)
  BY <1>3, <1>4, <1>8, <1>12 DEF SkipsTail
<1>14. t = ScanStep(d, start, c, s)
  BY <1>4, <1>13, KindsAreSteps
<1>15. t.pend > s.pend
  BY <1>3, <1>4, <1>5 DEF Offsets
<1>16. Pace(d, start, c, s, t)
  BY <1>5, <1>8, <1>10, <1>14, <1>15 DEF Pace
<1> QED
  BY <1>1, <1>2, <1>5, <1>10, <1>16, ChainGoesOn

\* Where a record of n cells takes the cursor.
LEMMA PlaceGeometry ==
  ASSUME NEW start \in Offsets, NEW pos \in Offsets, NEW pend \in 0 .. WalSize,
         Geometry(pos, start, pend), NEW n \in Nat, n > 0, n <= WalSize - pos,
         pend + n <= WalSize, NEW at, at = IF pos + n = WalSize THEN 0 ELSE pos + n
  PROVE  /\ Geometry(at, start, pend + n)
         /\ (start + (pend + n) >= WalSize) <=> (start + pend >= WalSize \/ at = 0)
         /\ (pend + n = WalSize) <=> (at = start)
         /\ at \in Offsets
         /\ pend # WalSize
<1>1. at \in Offsets /\ pend # WalSize
  BY DEF Offsets
<1>2. Geometry(at, start, pend + n)
  BY DEF Geometry, Offsets
<1>3. (start + (pend + n) >= WalSize) <=> (start + pend >= WalSize \/ at = 0)
  BY DEF Geometry, Offsets
<1>4. (pend + n = WalSize) <=> (at = start)
  BY DEF Geometry, Offsets
<1> QED
  BY <1>1, <1>2, <1>3, <1>4

\* What the step over a data record keeps of the state before it.
LEMMA KeepsListing ==
  ASSUME NEW list \in Seq(Records), NEW r \in Records, NEW c \in Nat, r.seq > c,
         NEW s \in ScanState, s.found = DecodablePrefix(list), s.stopped = Flag(Bad(list) # {}),
         NEW k, k = ScanKeep(s, r, c)
  PROVE  /\ k \in ScanState
         /\ k.pos = s.pos /\ k.pend = s.pend /\ k.wrapped = s.wrapped
         /\ k.found = DecodablePrefix(Append(list, r))
         /\ k.stopped = Flag(Bad(Append(list, r)) # {})
<1>1. k \in ScanState
  BY KeepIs
<1>2. k.pos = s.pos /\ k.pend = s.pend /\ k.wrapped = s.wrapped
  BY KeepSame
<1>3. ~(r.seq <= c)
  BY DEF Records
<1>4. CASE Bad(list) # {}
  <2>1. s.stopped = TRUE
    BY <1>4 DEF Flag
  <2>2. k = s
    BY <2>1 DEF ScanKeep
  <2>3. DecodablePrefix(Append(list, r)) = DecodablePrefix(list) /\ Bad(Append(list, r)) # {}
    BY <1>4, PrefixOfAppend
  <2> QED
    BY <1>1, <2>1, <2>2, <2>3 DEF Flag
<1>5. CASE Bad(list) = {} /\ r.body \in Decodable
  <2>1. s.stopped = FALSE
    BY <1>5 DEF Flag
  <2>2. k = State(s.pos, s.pend, s.last, Append(s.found, r), s.wrapped, s.stopped, s.done)
    BY <1>3, <1>5, <2>1, KeepIs
  <2>3. k.found = Append(s.found, r) /\ k.stopped = FALSE
    BY <2>1, <2>2 DEF State
  <2>4. /\ DecodablePrefix(Append(list, r)) = Append(DecodablePrefix(list), r)
        /\ Bad(Append(list, r)) = {}
    BY <1>5, PrefixOfAppend
  <2> QED
    BY <1>1, <1>2, <2>3, <2>4 DEF Flag
<1>6. CASE Bad(list) = {} /\ r.body \notin Decodable
  <2>1. s.stopped = FALSE
    BY <1>6 DEF Flag
  <2>2. k = State(s.pos, s.pend, s.last, s.found, s.wrapped, TRUE, s.done)
    BY <1>3, <1>6, <2>1, KeepIs
  <2>3. k.found = s.found /\ k.stopped = TRUE
    BY <2>2 DEF State
  <2>4. DecodablePrefix(Append(list, r)) = DecodablePrefix(list) /\ Bad(Append(list, r)) # {}
    BY <1>6, PrefixOfAppend
  <2> QED
    BY <1>1, <1>2, <2>3, <2>4 DEF Flag
<1> QED
  BY <1>4, <1>5, <1>6

\* Padding is not listed.
Listing(list, r) == IF r.body = Padding THEN list ELSE Append(list, r)

\* A record at the cursor, newer than what is behind it, is a step of the chain.
HoldsRecord(d, at, r) ==
  /\ HasHeader(d, at)
  /\ d[at][1] = r
  /\ r.body # Padding => HasPayload(d, at)

LEMMA ChainAdvances ==
  ASSUME NEW d, NEW start \in Offsets, NEW c \in Nat, NEW w \in Cursors, NEW last \in Nat,
         NEW list \in Seq(Records), Geometry(w.pos, start, w.pend),
         OnChain(d, start, c, Reached(w, start, last, list)),
         NEW r \in Records, HoldsRecord(d, w.pos, r),
         HeaderSize + r.len <= Remaining(w), w.pend + (HeaderSize + r.len) <= WalSize,
         r.seq > last, r.seq > c,
         NEW v \in Cursors, v.pend = w.pend + (HeaderSize + r.len),
         v.pos = IF w.pos + (HeaderSize + r.len) = WalSize
                 THEN 0 ELSE w.pos + (HeaderSize + r.len)
  PROVE  /\ OnChain(d, start, c, Reached(v, start, r.seq, Listing(list, r)))
         /\ Geometry(v.pos, start, v.pend)
         /\ Listing(list, r) \in Seq(Records)
<1>1. PICK ls : ls = Listing(list, r)
  OBVIOUS
<1>2. PICK n : n = HeaderSize + r.len
  OBVIOUS
<1>3. PICK pos : pos = w.pos
  OBVIOUS
<1>4. PICK pend : pend = w.pend
  OBVIOUS
<1>5. PICK at : at = v.pos
  OBVIOUS
<1>6. n \in Nat /\ n > 0 /\ n >= HeaderSize /\ r.seq \in Nat
  BY <1>2 DEF Records
<1>7. pos \in Offsets /\ pend \in 0 .. WalSize
  BY <1>3, <1>4 DEF Cursors
<1>8. n <= WalSize - pos /\ pend + n <= WalSize
  BY <1>2, <1>3, <1>4 DEF Remaining
<1>9. at = IF pos + n = WalSize THEN 0 ELSE pos + n
  BY <1>2, <1>3, <1>5
<1>10. Geometry(pos, start, pend)
  BY <1>3, <1>4
<1>11. /\ Geometry(at, start, pend + n)
       /\ (start + (pend + n) >= WalSize) <=> (start + pend >= WalSize \/ at = 0)
       /\ (pend + n = WalSize) <=> (at = start)
       /\ at \in Offsets
       /\ pend # WalSize
  BY <1>6, <1>7, <1>8, <1>9, <1>10, PlaceGeometry
<1>12. v.pend = pend + n /\ v.pos = at
  BY <1>2, <1>4, <1>5
<1>13. ls \in Seq(Records)
  BY <1>1 DEF Listing
<1>14. PICK s : s = Reached(w, start, last, list)
  OBVIOUS
<1>15. /\ s \in ScanState /\ s.pos = pos /\ s.pend = pend
       /\ s.wrapped = Flag(start + pend >= WalSize) /\ s.done = Flag(pend = WalSize)
       /\ s.last = last /\ s.found = DecodablePrefix(list) /\ s.stopped = Flag(Bad(list) # {})
  BY <1>3, <1>4, <1>14, ReachedIs
<1>16. PICK k : k = IF r.body = Padding THEN s ELSE ScanKeep(s, r, c)
  OBVIOUS
<1>17. /\ k \in ScanState
       /\ k.pos = pos /\ k.pend = pend /\ k.wrapped = s.wrapped
       /\ k.found = DecodablePrefix(ls) /\ k.stopped = Flag(Bad(ls) # {})
  <2>1. CASE r.body = Padding
    BY <1>1, <1>15, <1>16, <2>1 DEF Listing
  <2>2. CASE r.body # Padding
    <3>1. k = ScanKeep(s, r, c) /\ ls = Append(list, r)
      BY <1>1, <1>16, <2>2 DEF Listing
    <3> QED
      BY <1>15, <3>1, KeepsListing
  <2> QED
    BY <2>1, <2>2
<1>18. PICK t : t = ScanAdvance(k, start, r)
  OBVIOUS
<1>19. Behind(k, r) = at
  <2>1. Behind(k, r) = IF k.pos + HeaderSize + r.len = WalSize
                       THEN 0 ELSE k.pos + HeaderSize + r.len
    BY <1>2, <1>8, <1>17, BehindTyped
  <2>2. k.pos + HeaderSize + r.len = pos + n
    BY <1>2, <1>7, <1>17 DEF Offsets, Records
  <2> QED
    BY <1>9, <2>1, <2>2
<1>20. t = State(at, k.pend + HeaderSize + r.len, r.seq, k.found,
                 k.wrapped \/ at = 0, k.stopped, at = start)
  BY <1>17, <1>18, <1>19, AdvanceIs
<1>21. t = Reached(v, start, r.seq, ls)
  <2>1. PICK wrapped \in BOOLEAN : wrapped = (k.wrapped \/ at = 0)
    BY Zenon
  <2>2. PICK done \in BOOLEAN : done = (at = start)
    BY Zenon
  <2>3. PICK stopped \in BOOLEAN : stopped = k.stopped
    BY <1>17, StateIs
  <2>4. PICK found : found = k.found
    OBVIOUS
  <2>5. done = Flag(v.pend = WalSize)
    BY <1>11, <1>12, <2>2 DEF Flag
  <2>6. wrapped = Flag(start + v.pend >= WalSize)
    <3>1. k.wrapped <=> start + pend >= WalSize
      BY <1>15, <1>17 DEF Flag
    <3> QED
      BY <1>11, <1>12, <2>1, <3>1 DEF Flag
  <2>7. stopped = Flag(Bad(ls) # {})
    BY <1>17, <2>3
  <2>8. found = DecodablePrefix(ls)
    BY <1>17, <2>4
  <2>9. Reached(v, start, r.seq, ls) = State(v.pos, v.pend, r.seq, found, wrapped, stopped, done)
    BY <2>5, <2>6, <2>7, <2>8 DEF Reached
  <2>10. v.pend = k.pend + HeaderSize + r.len
    BY <1>2, <1>7, <1>12, <1>17 DEF Records
  <2> QED
    BY <1>12, <1>20, <2>1, <2>2, <2>3, <2>4, <2>9, <2>10
<1>22. t \in ScanState
  BY <1>17, <1>18, AdvanceMoves
<1>23. ~(WalSize - s.pos < HeaderSize)
  BY <1>6, <1>7, <1>8, <1>15 DEF Offsets
<1>24. Fresh(s, r)
  BY <1>6, <1>15 DEF Fresh
<1>25. HasHeader(d, s.pos) /\ d[s.pos][1] = r /\ (r.body # Padding => HasPayload(d, s.pos))
  BY <1>3, <1>15 DEF HoldsRecord
<1>26. TakesPadding(d, start, s, t) \/ TakesRecord(d, start, c, s, t)
  BY <1>16, <1>18, <1>23, <1>24, <1>25 DEF TakesPadding, TakesRecord
<1>27. t = ScanStep(d, start, c, s)
  BY <1>15, <1>26, KindsAreSteps
<1>28. Geometry(t.pos, start, t.pend) /\ t.pend > s.pend
  <2>1. t.pos = v.pos /\ t.pend = v.pend
    BY <1>6, <1>13, <1>21, ReachedIs
  <2> QED
    BY <1>6, <1>7, <1>11, <1>12, <1>15, <2>1
<1>29. s.done = FALSE
  BY <1>11, <1>15 DEF Flag
<1>30. OnChain(d, start, c, t)
  <2>1. Pace(d, start, c, s, t)
    BY <1>27, <1>28, <1>29 DEF Pace
  <2> QED
    BY <1>14, <1>22, <2>1, ChainGoesOn
<1> QED
  BY <1>1, <1>11, <1>12, <1>13, <1>21, <1>30

-----------------------------------------------------------------------------
(***************************************************************************)
(* A ring whose chain reaches the writer's cursor, and what each write of  *)
(* an append makes of it.                                                  *)
(***************************************************************************)
\* The chain from start reaches the cursor w behind the records of list.
At(d, start, c, w, last, list) ==
  /\ d \in Disks
  /\ Geometry(w.pos, start, w.pend)
  /\ last <= w.seq
  /\ c <= w.seq
  /\ NoNewer(d, w.seq)
  /\ OnChain(d, start, c, Reached(w, start, last, list))

\* The disks differ in the n cells from at only.
OutsideSame(d, e, at, n) == \A j \in Offsets : ~(at <= j /\ j < at + n) => e[j] = d[j]

\* A write into the free cells behind the cursor leaves the chain as it is.
LEMMA FreeWrite ==
  ASSUME NEW start \in Offsets, NEW pos \in Offsets, NEW pend \in 0 .. WalSize,
         Geometry(pos, start, pend), NEW n \in Nat, pend + n <= WalSize,
         NEW d, NEW e, OutsideSame(d, e, pos, n)
  PROVE  AgreeIn(d, e, start, pend)
<1> SUFFICES ASSUME NEW j \in Offsets, InRegion(j, start, pend)
             PROVE  e[j] = d[j]
  BY DEF AgreeIn
<1>1. ~(pos <= j /\ j < pos + n)
  BY DEF InRegion, Geometry, Offsets
<1> QED
  BY <1>1 DEF OutsideSame

\* So the cursor stays reached.
LEMMA AtKept ==
  ASSUME NEW start \in Offsets, NEW c \in Nat, NEW w \in Cursors, NEW last \in Nat,
         NEW list \in Seq(Records), NEW d, At(d, start, c, w, last, list),
         NEW e \in Disks, NoNewer(e, w.seq), NEW n \in Nat, w.pend + n <= WalSize,
         OutsideSame(d, e, w.pos, n)
  PROVE  At(e, start, c, w, last, list)
<1>1. w.pos \in Offsets /\ w.pend \in 0 .. WalSize
  BY DEF Cursors
<1>2. d \in Disks /\ Geometry(w.pos, start, w.pend)
  BY DEF At
<1>3. PICK s : s = Reached(w, start, last, list)
  OBVIOUS
<1>4. s.pend = w.pend
  BY <1>3, ReachedIs
<1>5. AgreeIn(d, e, start, w.pend)
  BY <1>1, <1>2, FreeWrite
<1>6. OnChain(d, start, c, s)
  BY <1>3 DEF At
<1>7. OnChain(e, start, c, s)
  BY <1>2, <1>4, <1>5, <1>6, ChainAgrees
<1> QED
  BY <1>3, <1>7 DEF At

LEMMA ZeroTyped ==
  ASSUME NEW d \in Disks, NEW at \in Nat, NEW n
  PROVE  /\ ZeroCells(d, at, n) \in Disks
         /\ OutsideSame(d, ZeroCells(d, at, n), at, n)
         /\ \A seq \in Nat : NoNewer(d, seq) => NoNewer(ZeroCells(d, at, n), seq)
<1>1. ZeroCells(d, at, n) \in Disks
  BY DEF ZeroCells, Disks
<1>2. OutsideSame(d, ZeroCells(d, at, n), at, n)
  BY DEF ZeroCells, OutsideSame
<1>3. \A seq \in Nat : NoNewer(d, seq) => NoNewer(ZeroCells(d, at, n), seq)
  BY DEF ZeroCells, NoNewer
<1> QED
  BY <1>1, <1>2, <1>3

LEMMA PutTyped ==
  ASSUME NEW d \in Disks, NEW at \in Offsets, NEW n \in Nat, NEW r \in Records,
         NEW seq \in Nat, NoNewer(d, seq), seq <= r.seq
  PROVE  /\ PutCells(d, at, n, r) \in Disks
         /\ OutsideSame(d, PutCells(d, at, n, r), at, n)
         /\ NoNewer(PutCells(d, at, n, r), r.seq)
<1>1. \A i \in Offsets : at <= i => i - at \in Nat
  BY DEF Offsets
<1>2. PutCells(d, at, n, r) \in Disks
  BY <1>1 DEF PutCells, Disks
<1>3. OutsideSame(d, PutCells(d, at, n, r), at, n)
  BY DEF PutCells, OutsideSame
<1>4. NoNewer(PutCells(d, at, n, r), r.seq)
  <2> SUFFICES ASSUME NEW j \in Offsets, PutCells(d, at, n, r)[j] # Blank
               PROVE  PutCells(d, at, n, r)[j][1].seq <= r.seq
    BY DEF NoNewer
  <2>1. r.seq \in Nat
    BY DEF Records
  <2>2. CASE at <= j /\ j < at + n
    <3>1. PutCells(d, at, n, r)[j] = <<r, j - at>>
      BY <2>2 DEF PutCells
    <3> QED
      BY <2>1, <3>1
  <2>3. CASE ~(at <= j /\ j < at + n)
    <3>1. PutCells(d, at, n, r)[j] = d[j]
      BY <2>3 DEF PutCells
    <3>2. d[j][1] \in Records /\ d[j][1].seq <= seq
      BY <3>1, CellIs DEF NoNewer
    <3>3. d[j][1].seq \in Nat
      BY <3>2 DEF Records
    <3> QED
      BY <2>1, <3>1, <3>2, <3>3
  <2> QED
    BY <2>2, <2>3
<1> QED
  BY <1>2, <1>3, <1>4

\* The zeroed tail, before and behind the skip.
LEMMA AtTail ==
  ASSUME NEW start \in Offsets, NEW c \in Nat, NEW w \in Cursors, NEW last \in Nat,
         NEW list \in Seq(Records), NEW d, At(d, start, c, w, last, list),
         NEW v \in Cursors, v = SkipTail(w), NEW e, e = ZeroTail(d, w)
  PROVE  /\ At(e, start, c, w, last, list)
         /\ At(e, start, c, v, last, list)
         /\ At(d, start, c, v, last, list)
<1>1. w.pos \in Offsets /\ w.pend \in 0 .. WalSize /\ w.seq \in Nat /\ w.pos \in Nat
  BY DEF Cursors, Offsets
<1>2. CASE ~(Remaining(w) < HeaderSize)
  BY <1>2 DEF SkipTail, ZeroTail
<1>3. CASE Remaining(w) < HeaderSize
  <2>1. v.pos = 0 /\ v.pend = w.pend + Remaining(w) /\ v.seq = w.seq
    BY <1>3 DEF SkipTail, Cursors
  <2>2. Remaining(w) \in Nat /\ w.pend + Remaining(w) <= WalSize
    BY <1>1, <2>1 DEF Cursors, Remaining, Offsets
  <2>3. e = ZeroCells(d, w.pos, Remaining(w))
    BY <1>3 DEF ZeroTail
  <2>4. e \in Disks /\ OutsideSame(d, e, w.pos, Remaining(w)) /\ NoNewer(e, w.seq)
    BY <1>1, <2>3, ZeroTyped DEF At
  <2>5. At(e, start, c, w, last, list)
    BY <2>2, <2>4, AtKept
  <2>6. ASSUME NEW x, At(x, start, c, w, last, list)
        PROVE  At(x, start, c, v, last, list)
    <3>1. OnChain(x, start, c, Reached(w, start, last, list)) /\ Geometry(w.pos, start, w.pend)
      BY <2>6 DEF At
    <3>2. /\ OnChain(x, start, c, Reached(v, start, last, list))
          /\ Geometry(v.pos, start, v.pend)
      BY <1>3, <2>1, <2>2, <3>1, ChainSkips
    <3> QED
      BY <2>1, <2>6, <3>2 DEF At
  <2> QED
    BY <2>5, <2>6
<1> QED
  BY <1>2, <1>3

\* The sentinel, where it fits.
LEMMA AtSentinel ==
  ASSUME NEW start \in Offsets, NEW c \in Nat, NEW w \in Cursors, NEW last \in Nat,
         NEW list \in Seq(Records), NEW d, At(d, start, c, w, last, list),
         ~SentinelOverruns(w)
  PROVE  At(Sentinel(d, w), start, c, w, last, list)
<1>1. w.pos \in Offsets /\ w.pend \in 0 .. WalSize /\ w.seq \in Nat /\ w.pos \in Nat
  BY DEF Cursors, Offsets
<1>2. CASE w.pend < WalSize
  <2>1. PICK e : e = ZeroCells(d, w.pos, HeaderSize)
    OBVIOUS
  <2>2. e \in Disks /\ OutsideSame(d, e, w.pos, HeaderSize) /\ NoNewer(e, w.seq)
    BY <1>1, <2>1, ZeroTyped DEF At
  <2>3. HeaderSize \in Nat /\ w.pend + HeaderSize <= WalSize
    BY <1>1, <1>2, SizePositive DEF SentinelOverruns
  <2> QED
    BY <1>2, <2>1, <2>2, <2>3, AtKept DEF Sentinel
<1>3. CASE ~(w.pend < WalSize)
  BY <1>3 DEF Sentinel
<1> QED
  BY <1>2, <1>3

\* A record put at a place is there, padding without its payload.
LEMMA PutHolds ==
  ASSUME NEW d, NEW at \in Offsets, NEW r \in Records, NEW n \in Nat, n >= HeaderSize,
         at + n <= WalSize, r.body # Padding => n = HeaderSize + r.len
  PROVE  HoldsRecord(PutCells(d, at, n, r), at, r)
<1>1. PICK e : e = PutCells(d, at, n, r)
  OBVIOUS
<1>2. \A i \in 0 .. n - 1 : e[at + i] = <<r, i>>
  <2> TAKE i \in 0 .. n - 1
  <2>1. at + i \in Offsets /\ at <= at + i /\ at + i < at + n /\ (at + i) - at = i
    BY DEF Offsets
  <2>2. e[at + i] = <<r, (at + i) - at>>
    BY <1>1, <2>1 DEF PutCells
  <2> QED
    BY <2>1, <2>2
<1>3. e[at] = <<r, 0>>
  <2>1. at + 0 = at /\ 0 \in 0 .. n - 1
    BY SizePositive DEF Offsets
  <2> QED
    BY <1>2, <2>1
<1>4. HasHeader(e, at)
  BY <1>2, <1>3 DEF HasHeader, Blank
<1>5. e[at][1] = r
  BY <1>3
<1>6. ASSUME r.body # Padding PROVE HasPayload(e, at)
  <2>1. r.len \in Nat /\ n = HeaderSize + r.len /\ at \in Nat
    BY <1>6 DEF Records, Offsets
  <2>2. \A i \in HeaderSize .. HeaderSize + r.len - 1 : e[at + i] = <<r, i>>
    BY <1>2, <2>1
  <2> QED
    BY <1>5, <2>1, <2>2 DEF HasPayload
<1> QED
  BY <1>1, <1>4, <1>5, <1>6 DEF HoldsRecord

\* A record put at the cursor.
LEMMA AtPut ==
  ASSUME NEW start \in Offsets, NEW c \in Nat, NEW w \in Cursors, NEW last \in Nat,
         NEW list \in Seq(Records), NEW d, At(d, start, c, w, last, list),
         NEW r \in Records, r.seq = w.seq + 1,
         NEW n \in Nat, n >= HeaderSize, n <= HeaderSize + r.len,
         r.body # Padding => n = HeaderSize + r.len,
         HeaderSize + r.len <= Remaining(w),
         NEW v \in Cursors, v = Place(w, HeaderSize + r.len)
  PROVE  /\ At(PutCells(d, w.pos, n, r), start, c, v, v.seq, Listing(list, r))
         /\ Listing(list, r) \in Seq(Records)
<1>1. PICK e : e = PutCells(d, w.pos, n, r)
  OBVIOUS
<1>2. w.pos \in Offsets /\ w.pend \in 0 .. WalSize /\ w.seq \in Nat /\ r.len \in Nat
  BY DEF Cursors, Records
<1>3. /\ v.pend = w.pend + (HeaderSize + r.len)
      /\ v.pos = IF w.pos + (HeaderSize + r.len) = WalSize
                 THEN 0 ELSE w.pos + (HeaderSize + r.len)
      /\ v.seq = w.seq + 1
  BY DEF Place
<1>4. v.pend \in 0 .. WalSize
  BY DEF Cursors
<1>5. w.pend + (HeaderSize + r.len) <= WalSize /\ w.pend + n <= WalSize
  BY <1>2, <1>3, <1>4
<1>6. d \in Disks /\ NoNewer(d, w.seq) /\ last <= w.seq /\ c <= w.seq
  BY DEF At
<1>7. w.seq <= r.seq
  BY <1>2
<1>8. e \in Disks /\ OutsideSame(d, e, w.pos, n) /\ NoNewer(e, r.seq)
  BY <1>1, <1>2, <1>6, <1>7, PutTyped
<1>9. OnChain(e, start, c, Reached(w, start, last, list)) /\ Geometry(w.pos, start, w.pend)
  <2>1. Geometry(w.pos, start, w.pend)
    BY DEF At
  <2>2. AgreeIn(d, e, start, w.pend)
    BY <1>2, <1>5, <1>8, <2>1, FreeWrite
  <2>3. PICK s : s = Reached(w, start, last, list)
    OBVIOUS
  <2>4. OnChain(d, start, c, s) /\ s.pend = w.pend
    BY <2>3, ReachedIs DEF At
  <2>5. OnChain(e, start, c, s)
    BY <1>6, <2>2, <2>4, ChainAgrees
  <2> QED
    BY <2>1, <2>3, <2>5
<1>10. HoldsRecord(e, w.pos, r)
  <2>1. w.pos + n <= WalSize
    BY <1>2 DEF Remaining, Offsets
  <2> QED
    BY <1>1, <1>2, <2>1, PutHolds
<1>11. r.seq > last /\ r.seq > c
  BY <1>2, <1>6
<1>12. /\ OnChain(e, start, c, Reached(v, start, r.seq, Listing(list, r)))
       /\ Geometry(v.pos, start, v.pend)
       /\ Listing(list, r) \in Seq(Records)
  BY <1>3, <1>5, <1>9, <1>10, <1>11, ChainAdvances
<1>13. r.seq = v.seq /\ v.seq <= v.seq /\ c <= v.seq
  BY <1>2, <1>3, <1>6
<1> QED
  BY <1>1, <1>8, <1>12, <1>13 DEF At

\* The padding record, where the tail is too short for the entry.
LEMMA AtPad ==
  ASSUME NEW start \in Offsets, NEW c \in Nat, NEW w \in Cursors, NEW last \in Nat,
         NEW list \in Seq(Records), NEW d, At(d, start, c, w, last, list),
         ~(Remaining(w) < HeaderSize), NEW entry, Remaining(w) < entry,
         NEW v \in Cursors, v = PadTail(w, entry)
  PROVE  At(PadDisk(d, w, entry), start, c, v, v.seq, list)
<1>1. w.pos \in Offsets /\ w.pend \in 0 .. WalSize /\ w.seq \in Nat
  BY DEF Cursors
<1>2. Remaining(w) \in Nat /\ Remaining(w) >= HeaderSize
  BY <1>1 DEF Remaining, Offsets
<1>3. PICK r : r = PadRecord(w.seq + 1, Remaining(w) - HeaderSize)
  OBVIOUS
<1>4. r \in Records /\ r.seq = w.seq + 1 /\ r.body = Padding /\ r.len = Remaining(w) - HeaderSize
  BY <1>1, <1>2, <1>3 DEF PadRecord, Records
<1>5. HeaderSize + r.len = Remaining(w)
  BY <1>2, <1>4
<1>6. v = Place(w, HeaderSize + r.len)
  <2>1. w.pos + Remaining(w) = WalSize
    BY <1>1 DEF Remaining, Offsets
  <2> QED
    BY <1>5, <2>1 DEF Place, PadTail
<1>7. PadDisk(d, w, entry) = PutCells(d, w.pos, HeaderSize, r)
  BY <1>3 DEF PadDisk
<1>8. Listing(list, r) = list
  BY <1>4 DEF Listing
<1>9. /\ HeaderSize \in Nat /\ HeaderSize >= HeaderSize /\ HeaderSize <= HeaderSize + r.len
      /\ HeaderSize + r.len <= Remaining(w)
  BY <1>2, <1>5, SizePositive
<1>10. At(PutCells(d, w.pos, HeaderSize, r), start, c, v, v.seq, Listing(list, r))
  BY <1>4, <1>6, <1>9, AtPut
<1> QED
  BY <1>7, <1>8, <1>10

\* The data record.
LEMMA AtRecord ==
  ASSUME NEW start \in Offsets, NEW c \in Nat, NEW w \in Cursors, NEW last \in Nat,
         NEW list \in Seq(Records), NEW d, At(d, start, c, w, last, list),
         NEW p \in Payload, EntrySize(p) <= Remaining(w),
         NEW v \in Cursors, v = Place(w, EntrySize(p)),
         NEW r, r = DataRecord(w.seq + 1, p)
  PROVE  At(RecordDisk(d, w, p), start, c, v, v.seq, Append(list, r)) /\ r \in Records
<1>1. w.pos \in Offsets /\ w.pend \in 0 .. WalSize /\ w.seq \in Nat
  BY DEF Cursors
<1>2. PayloadLen[p] \in Nat \ {0}
  OBVIOUS
<1>3. r \in Records /\ r.seq = w.seq + 1 /\ r.body = p /\ r.len = PayloadLen[p]
  BY <1>1, <1>2 DEF DataRecord, Records
<1>4. p # Padding
  OBVIOUS
<1>5. HeaderSize + r.len = EntrySize(p)
  BY <1>3 DEF EntrySize
<1>6. PICK n \in Nat : n = EntrySize(p)
  BY <1>2 DEF EntrySize
<1>7. n = HeaderSize + r.len /\ n >= HeaderSize /\ n <= HeaderSize + r.len
  BY <1>2, <1>3, <1>5, <1>6
<1>8. Listing(list, r) = Append(list, r)
  BY <1>3, <1>4 DEF Listing
<1>9. HeaderSize + r.len <= Remaining(w) /\ v = Place(w, HeaderSize + r.len)
  BY <1>5
<1>10. At(PutCells(d, w.pos, n, r), start, c, v, v.seq, Listing(list, r))
  BY <1>3, <1>7, <1>9, AtPut
<1>11. RecordDisk(d, w, p) = PutCells(d, w.pos, n, r)
  BY <1>6 DEF RecordDisk
<1> QED
  BY <1>3, <1>8, <1>10, <1>11

-----------------------------------------------------------------------------
(***************************************************************************)
(* The writes of an append, one after the other.                           *)
(***************************************************************************)
LEMMA AppendCursors ==
  ASSUME NEW w \in Cursors, NEW p \in Payload, CanAppend(w, p),
         NEW e, e = EntrySize(p),
         NEW u, u = SkipTail(w),
         NEW r, r = RecordCursor(w, p),
         NEW q, q = Place(r, e),
         NEW a, a = AfterAppend(w, p)
  PROVE  /\ u \in Cursors /\ r \in Cursors /\ q \in Cursors /\ a \in Cursors
         /\ r = PadTail(u, e) /\ a = SkipTail(q)
         /\ ~(Remaining(u) < HeaderSize) /\ ~(Remaining(a) < HeaderSize)
         /\ e <= Remaining(r)
         /\ u.seq = w.seq /\ w.seq <= r.seq /\ q.seq = r.seq + 1 /\ a.seq = q.seq
         /\ a.pend > 0
         /\ Remaining(u) < e => u = w /\ r.pos = 0 /\ r.pend > 0 /\ r.seq = w.seq + 1
         /\ ~(Remaining(u) < e) => r = u
<1>1. /\ EntrySize(p) <= WalSize
      /\ e \in Nat /\ e > HeaderSize /\ r.pos \in Offsets /\ r.pos + e <= WalSize
      /\ r.pend \in Nat /\ r.seq \in Nat
  <2>1. EntrySize(p) <= WalSize
    BY DEF CanAppend
  <2> QED
    BY <2>1, RecordCursorFacts
<1>2. a \in Cursors /\ a.pend > w.pend
  BY AfterAppendFacts
<1>3. w.pos \in Offsets /\ w.pend \in 0 .. WalSize /\ w.seq \in Nat
  BY DEF Cursors
<1>4. r = PadTail(u, e) /\ a = SkipTail(q)
  BY DEF RecordCursor, AfterAppend
<1>5. a.pend \in 0 .. WalSize /\ a.pos \in Offsets
  BY <1>2 DEF Cursors
<1>6. q = [pos |-> IF r.pos + e = WalSize THEN 0 ELSE r.pos + e,
           pend |-> r.pend + e, seq |-> r.seq + 1]
  BY DEF Place
<1>7. q.pos \in Offsets /\ q.pend = r.pend + e /\ q.seq = r.seq + 1
  <2>1. q.pos = IF r.pos + e = WalSize THEN 0 ELSE r.pos + e
    BY <1>6
  <2>2. q.pos \in Offsets
    BY <1>1, <2>1 DEF Offsets
  <2> QED
    BY <1>6, <2>2
<1>8. a.pend >= q.pend /\ a.seq = q.seq /\ ~(Remaining(a) < HeaderSize)
  <2>1. CASE Remaining(q) < HeaderSize
    <3>1. a = [q EXCEPT !.pos = 0, !.pend = q.pend + Remaining(q)]
      BY <1>4, <2>1 DEF SkipTail
    <3>2. a.pos = 0 /\ a.pend = q.pend + Remaining(q) /\ a.seq = q.seq
      BY <1>6, <3>1
    <3>3. Remaining(q) >= 0
      BY <1>7 DEF Remaining, Offsets
    <3> QED
      BY <1>1, <1>7, <3>2, <3>3 DEF Remaining, Offsets
  <2>2. CASE ~(Remaining(q) < HeaderSize)
    <3>1. a = q
      BY <1>4, <2>2 DEF SkipTail
    <3> QED
      BY <1>1, <1>7, <2>2, <3>1
  <2> QED
    BY <2>1, <2>2
<1>9. q \in Cursors
  <2>1. q.pend \in 0 .. WalSize /\ q.seq \in Nat
    BY <1>1, <1>5, <1>7, <1>8
  <2> QED
    BY <1>6, <1>7, <2>1 DEF Cursors
<1>10. r.pend \in 0 .. WalSize
  BY <1>1, <1>5, <1>7, <1>8
<1>11. /\ u \in Cursors /\ r \in Cursors
       /\ ~(Remaining(u) < HeaderSize) /\ u.seq = w.seq /\ w.seq <= r.seq
       /\ Remaining(u) < e => u = w /\ r.pos = 0 /\ r.pend > 0 /\ r.seq = w.seq + 1
       /\ ~(Remaining(u) < e) => r = u
  <2>1. CASE Remaining(w) < HeaderSize
    <3>1. u = [pos |-> 0, pend |-> w.pend + (WalSize - w.pos), seq |-> w.seq]
      BY <2>1 DEF SkipTail, Remaining, Cursors
    <3>2. u.pos = 0 /\ u.pend = w.pend + (WalSize - w.pos) /\ u.seq = w.seq
      BY <3>1
    <3>3. Remaining(u) = WalSize
      BY <3>2 DEF Remaining
    <3>4. r = u
      BY <1>1, <1>4, <3>3 DEF PadTail
    <3>5. u.pend \in 0 .. WalSize
      BY <1>10, <3>4
    <3>6. u \in Cursors
      BY <1>3, <3>1, <3>5, SizePositive DEF Cursors
    <3> QED
      BY <1>1, <1>3, <3>2, <3>3, <3>4, <3>6
  <2>2. CASE ~(Remaining(w) < HeaderSize)
    <3>1. u = w
      BY <2>2 DEF SkipTail
    <3>2. CASE Remaining(u) < e
      <4>1. r = [pos |-> 0, pend |-> w.pend + Remaining(w), seq |-> w.seq + 1]
        BY <1>4, <3>1, <3>2 DEF PadTail
      <4>2. r.pos = 0 /\ r.pend = w.pend + Remaining(w) /\ r.seq = w.seq + 1
        BY <4>1
      <4>3. r \in Cursors
        BY <1>3, <1>10, <4>1, <4>2, SizePositive DEF Cursors
      <4>4. r.pend > 0 /\ w.seq <= r.seq
        BY <1>3, <2>2, <4>2, SizePositive DEF Remaining, Offsets
      <4> QED
        BY <2>2, <3>1, <3>2, <4>2, <4>3, <4>4
    <3>3. CASE ~(Remaining(u) < e)
      <4>1. r = w
        BY <1>4, <3>1, <3>3 DEF PadTail
      <4> QED
        BY <1>3, <2>2, <3>1, <3>3, <4>1
    <3> QED
      BY <3>2, <3>3
  <2> QED
    BY <2>1, <2>2
<1>12. e <= Remaining(r)
  BY <1>1 DEF Remaining, Offsets
<1>13. a.pend > 0
  BY <1>2, <1>3, <1>5
<1> QED
  BY <1>2, <1>4, <1>7, <1>8, <1>9, <1>11, <1>12, <1>13

\* The newest sequence a scan has seen at the cursor.
LastOf(w) == IF w.pend = 0 THEN 0 ELSE w.seq

\* The chain reaches the cursor: it is empty, or it holds something newer than the commit.
Chained(d, start, c, w, list) ==
  /\ At(d, start, c, w, LastOf(w), list)
  /\ IF w.pend = 0 THEN w.seq = c /\ list = <<>>
                   ELSE w.seq > c /\ ~(Remaining(w) < HeaderSize)

\* The chain ends somewhere before the record.
ChainedBefore(d, start, c, rec, list) ==
  \E v \in Cursors : v.seq < rec.seq /\ Chained(d, start, c, v, list)

\* What each write of an append leaves on the chain.
LEMMA AppendChained ==
  ASSUME NEW start \in Offsets, NEW c \in Nat, NEW w \in Cursors, NEW list \in Seq(Records),
         NEW d, Chained(d, start, c, w, list),
         NEW p \in Payload, CanAppend(w, p),
         NEW a, a = AfterAppend(w, p),
         NEW rec, rec = DataRecord(RecordCursor(w, p).seq + 1, p)
  PROVE  /\ rec \in Records /\ w.seq < rec.seq /\ a.seq = rec.seq /\ a \in Cursors
         /\ Chained(TailDisk(d, w), start, c, w, list)
         /\ ChainedBefore(PaddedDisk(d, w, p), start, c, rec, list)
         /\ Chained(WrittenDisk(d, w, p), start, c, a, Append(list, rec))
         /\ Chained(AfterTailDisk(d, w, p), start, c, a, Append(list, rec))
         /\ ~SentinelOverruns(a)
              => Chained(FinalDisk(d, w, p), start, c, a, Append(list, rec))
<1>1. PICK e : e = EntrySize(p)
  OBVIOUS
<1>2. PICK u : u = SkipTail(w)
  OBVIOUS
<1>3. PICK r : r = RecordCursor(w, p)
  OBVIOUS
<1>4. PICK q : q = Place(r, e)
  OBVIOUS
<1>5. /\ u \in Cursors /\ r \in Cursors /\ q \in Cursors /\ a \in Cursors
      /\ r = PadTail(u, e) /\ a = SkipTail(q)
      /\ ~(Remaining(u) < HeaderSize) /\ ~(Remaining(a) < HeaderSize)
      /\ e <= Remaining(r)
      /\ u.seq = w.seq /\ w.seq <= r.seq /\ q.seq = r.seq + 1 /\ a.seq = q.seq
      /\ a.pend > 0
      /\ Remaining(u) < e => u = w /\ r.pos = 0 /\ r.pend > 0 /\ r.seq = w.seq + 1
      /\ ~(Remaining(u) < e) => r = u
  BY <1>1, <1>2, <1>3, <1>4, AppendCursors
<1>6. w.seq \in Nat /\ r.seq \in Nat /\ w.pend \in Nat /\ r.pend \in Nat /\ a.pend \in Nat
  BY <1>5 DEF Cursors
<1>7. PICK last \in Nat : last = LastOf(w)
  BY <1>6 DEF LastOf
<1>8. c <= w.seq /\ At(d, start, c, w, last, list)
  BY <1>7 DEF Chained, At
<1>9. PICK t : t = TailDisk(d, w)
  OBVIOUS
<1>10. At(t, start, c, w, last, list) /\ At(t, start, c, u, last, list)
  BY <1>2, <1>5, <1>8, <1>9, AtTail DEF TailDisk
<1>11. Chained(t, start, c, w, list)
  BY <1>7, <1>10 DEF Chained
<1>12. PICK x : x = PaddedDisk(d, w, p)
  OBVIOUS
<1>13. x = PadDisk(t, u, e)
  BY <1>1, <1>2, <1>9, <1>12 DEF PaddedDisk
<1>14. PICK l2 \in Nat : /\ l2 \in Nat /\ At(x, start, c, r, l2, list)
                         /\ Remaining(u) < e => l2 = r.seq
  <2>1. CASE Remaining(u) < e
    <3>1. At(x, start, c, r, r.seq, list)
      BY <1>5, <1>10, <1>13, <2>1, AtPad
    <3> QED
      BY <1>6, <3>1
  <2>2. CASE ~(Remaining(u) < e)
    <3>1. x = t
      BY <1>13, <2>2 DEF PadDisk
    <3> QED
      BY <1>5, <1>10, <2>2, <3>1
  <2> QED
    BY <2>1, <2>2
<1>15. rec = DataRecord(r.seq + 1, p) /\ rec.seq = r.seq + 1
  BY <1>3 DEF DataRecord
<1>16. w.seq < rec.seq /\ a.seq = rec.seq
  BY <1>5, <1>6, <1>15
<1>17. ChainedBefore(x, start, c, rec, list)
  <2>1. CASE Remaining(u) < e
    <3>1. r.pend # 0 /\ r.seq > c /\ r.seq < rec.seq
      BY <1>5, <1>6, <1>8, <1>15, <2>1
    <3>2. Remaining(r) = WalSize
      BY <1>5, <2>1 DEF Remaining
    <3>3. ~(Remaining(r) < HeaderSize)
      BY <3>2
    <3>4. LastOf(r) = l2
      BY <1>14, <2>1, <3>1 DEF LastOf
    <3>5. Chained(x, start, c, r, list)
      BY <1>14, <3>1, <3>3, <3>4 DEF Chained
    <3> QED
      BY <1>5, <3>1, <3>5 DEF ChainedBefore
  <2>2. CASE ~(Remaining(u) < e)
    <3>1. x = t
      BY <1>13, <2>2 DEF PadDisk
    <3> QED
      BY <1>11, <1>16, <3>1 DEF ChainedBefore
  <2> QED
    BY <2>1, <2>2
<1>18. PICK y : y = WrittenDisk(d, w, p)
  OBVIOUS
<1>19. y = RecordDisk(x, r, p)
  BY <1>3, <1>12, <1>18 DEF WrittenDisk
<1>20. PICK rs : rs = Append(list, rec)
  OBVIOUS
<1>21. At(y, start, c, q, q.seq, rs) /\ rec \in Records
  BY <1>1, <1>4, <1>5, <1>14, <1>15, <1>19, <1>20, AtRecord
<1>22. rs \in Seq(Records) /\ q.seq \in Nat
  BY <1>5, <1>6, <1>20, <1>21
<1>23. PICK z : z = AfterTailDisk(d, w, p)
  OBVIOUS
<1>24. z = ZeroTail(y, q)
  BY <1>1, <1>3, <1>4, <1>18, <1>23 DEF AfterTailDisk
<1>25. At(z, start, c, a, q.seq, rs) /\ At(y, start, c, a, q.seq, rs)
  BY <1>5, <1>21, <1>22, <1>24, AtTail
<1>26. a.pend # 0 /\ a.seq > c /\ LastOf(a) = q.seq
  BY <1>5, <1>6, <1>8, <1>16 DEF LastOf
<1>27. Chained(y, start, c, a, rs) /\ Chained(z, start, c, a, rs)
  BY <1>5, <1>25, <1>26 DEF Chained
<1>28. ASSUME ~SentinelOverruns(a) PROVE Chained(FinalDisk(d, w, p), start, c, a, rs)
  <2>1. At(Sentinel(z, a), start, c, a, q.seq, rs)
    BY <1>5, <1>22, <1>25, <1>28, AtSentinel
  <2>2. FinalDisk(d, w, p) = Sentinel(z, a)
    BY <1>23 DEF FinalDisk
  <2> QED
    BY <1>5, <1>26, <2>1, <2>2 DEF Chained
<1> QED
  BY <1>5, <1>9, <1>11, <1>12, <1>16, <1>17, <1>18, <1>20, <1>21, <1>23, <1>27, <1>28

\* What a scan makes of a chain.
LEMMA ScanOfChained ==
  ASSUME NEW start \in Offsets, NEW c \in Nat, NEW w \in Cursors, NEW list \in Seq(Records),
         NEW d, Chained(d, start, c, w, list),
         NEW s, s = Scan(d, start, c)
  PROVE  /\ w.pend = 0 => s.pos \in Offsets /\ s.found = <<>> /\ s.last \in Nat /\ s.last <= c
         /\ w.pend # 0 => /\ s.pos = w.pos /\ s.pend = w.pend /\ s.last = w.seq
                          /\ s.found = DecodablePrefix(list)
<1>1. d \in Disks /\ NoNewer(d, w.seq)
  BY DEF Chained, At
<1>2. w.pos \in Offsets /\ w.pend \in 0 .. WalSize /\ w.seq \in Nat
  BY DEF Cursors
<1>3. CASE w.pend = 0
  <2>1. w.seq = c
    BY <1>3 DEF Chained
  <2>2. NoNewer(d, c)
    BY <1>1, <2>1
  <2> QED
    BY <1>1, <1>3, <2>2, ScanFindsNothing
<1>4. CASE w.pend # 0
  <2>1. PICK last \in Nat : last = LastOf(w)
    BY <1>2 DEF LastOf
  <2>2. last = w.seq /\ w.seq > c /\ ~(Remaining(w) < HeaderSize)
    BY <1>4, <2>1 DEF LastOf, Chained
  <2>3. PICK t : t = Reached(w, start, last, list)
    OBVIOUS
  <2>4. OnChain(d, start, c, t)
    BY <2>1, <2>3 DEF Chained, At
  <2>5. /\ t.pos = w.pos /\ t.pend = w.pend /\ t.last = last
        /\ t.found = DecodablePrefix(list) /\ t.done = Flag(w.pend = WalSize)
    BY <2>3, ReachedIs
  <2>6. ScanStep(d, start, c, t) = ScanStop(t)
    <3>1. ~(WalSize - t.pos < HeaderSize)
      BY <2>2, <2>5 DEF Remaining
    <3>2. t.last # 0
      BY <1>2, <2>2, <2>5
    <3>3. HasHeader(d, t.pos) => d[t.pos][1].seq <= t.last
      BY <1>1, <1>2, <2>2, <2>5 DEF HasHeader, NoNewer
    <3> QED
      BY <3>1, <3>2, <3>3 DEF ScanStep
  <2>7. /\ s.pos = t.pos /\ s.pend = t.pend /\ s.last = t.last /\ s.found = t.found
    <3>1. Ends(d, start, c, t)
      BY <2>6 DEF Ends
    <3> QED
      BY <1>1, <2>4, <3>1, ScanEndsChain
  <2> QED
    BY <1>4, <2>2, <2>5, <2>7
<1> QED
  BY <1>3, <1>4

\* The chain of a ring with nothing pending.
LEMMA EmptyChained ==
  ASSUME NEW d \in Disks, NEW w \in Cursors, w.pend = 0, NoNewer(d, w.seq)
  PROVE  Chained(d, w.pos, w.seq, w, <<>>)
<1>1. w.pos \in Offsets /\ w.seq \in Nat
  BY DEF Cursors
<1>2. Geometry(w.pos, w.pos, w.pend)
  BY <1>1 DEF Geometry, Offsets
<1>3. <<>> \in Seq(Records) /\ Bad(<<>>) = {}
  BY DEF Bad
<1>4. DecodablePrefix(<<>>) = <<>>
  BY <1>3, PrefixIs
<1>5. Reached(w, w.pos, 0, <<>>) = ScanStart(w.pos)
  <2>1. ~(w.pos + w.pend >= WalSize) /\ ~(w.pend = WalSize)
    BY <1>1, SizePositive DEF Offsets
  <2> QED
    BY <1>3, <1>4, <2>1 DEF Reached, ScanStart, State, Flag
<1>6. OnChain(d, w.pos, w.seq, Reached(w, w.pos, 0, <<>>))
  BY <1>1, <1>5, ChainStarts
<1> QED
  BY <1>1, <1>2, <1>6 DEF Chained, At, LastOf

\* An append makes its record the newest one, overrun or not.
LEMMA AppendNewest ==
  ASSUME NEW w \in Cursors, NEW d \in Disks, NoNewer(d, w.seq),
         NEW p \in Payload, CanAppend(w, p),
         NEW a, a = AfterAppend(w, p),
         NEW rec, rec = DataRecord(RecordCursor(w, p).seq + 1, p)
  PROVE  /\ rec \in Records /\ a \in Cursors /\ a.seq = rec.seq /\ w.seq < rec.seq
         /\ FinalDisk(d, w, p) \in Disks
         /\ NoNewer(FinalDisk(d, w, p), a.seq)
<1>1. PICK e : e = EntrySize(p)
  OBVIOUS
<1>2. PICK u : u = SkipTail(w)
  OBVIOUS
<1>3. PICK r : r = RecordCursor(w, p)
  OBVIOUS
<1>4. PICK q : q = Place(r, e)
  OBVIOUS
<1>5. /\ u \in Cursors /\ r \in Cursors /\ q \in Cursors /\ a \in Cursors
      /\ r = PadTail(u, e) /\ a = SkipTail(q)
      /\ ~(Remaining(u) < HeaderSize) /\ ~(Remaining(a) < HeaderSize)
      /\ e <= Remaining(r)
      /\ u.seq = w.seq /\ w.seq <= r.seq /\ q.seq = r.seq + 1 /\ a.seq = q.seq
      /\ a.pend > 0
      /\ Remaining(u) < e => u = w /\ r.pos = 0 /\ r.pend > 0 /\ r.seq = w.seq + 1
      /\ ~(Remaining(u) < e) => r = u
  BY <1>1, <1>2, <1>3, <1>4, AppendCursors
<1>6. /\ w.seq \in Nat /\ r.seq \in Nat /\ a.seq \in Nat
      /\ w.pos \in Nat /\ u.pos \in Offsets /\ r.pos \in Offsets
      /\ q.pos \in Nat /\ a.pos \in Nat
  BY <1>5 DEF Cursors, Offsets
<1>7. PICK t : t = TailDisk(d, w)
  OBVIOUS
<1>8. t \in Disks /\ NoNewer(t, w.seq)
  BY <1>6, <1>7, ZeroTyped DEF TailDisk, ZeroTail
<1>9. PICK x : x = PaddedDisk(d, w, p)
  OBVIOUS
<1>10. x = PadDisk(t, u, e)
  BY <1>1, <1>2, <1>7, <1>9 DEF PaddedDisk
<1>11. x \in Disks /\ NoNewer(x, r.seq)
  <2>1. CASE Remaining(u) < e
    <3>1. PICK pad : pad = PadRecord(u.seq + 1, Remaining(u) - HeaderSize)
      OBVIOUS
    <3>2. Remaining(u) - HeaderSize \in Nat
      BY <1>5, <1>6, SizePositive DEF Remaining, Offsets
    <3>3. pad \in Records /\ pad.seq = r.seq
      BY <1>5, <1>6, <2>1, <3>1, <3>2 DEF PadRecord, Records
    <3>4. x = PutCells(t, u.pos, HeaderSize, pad)
      BY <1>10, <2>1, <3>1 DEF PadDisk
    <3>5. w.seq <= pad.seq
      BY <1>5, <3>3
    <3>6. x \in Disks /\ NoNewer(x, pad.seq)
      BY <1>6, <1>8, <3>3, <3>4, <3>5, SizePositive, PutTyped
    <3> QED
      BY <3>3, <3>6
  <2>2. CASE ~(Remaining(u) < e)
    BY <1>5, <1>8, <1>10, <2>2 DEF PadDisk
  <2> QED
    BY <2>1, <2>2
<1>12. PICK y : y = WrittenDisk(d, w, p)
  OBVIOUS
<1>13. PayloadLen[p] \in Nat \ {0}
  OBVIOUS
<1>14. rec = DataRecord(r.seq + 1, p) /\ rec.seq = r.seq + 1 /\ rec \in Records
  BY <1>3, <1>6, <1>13 DEF DataRecord, Records
<1>15. y \in Disks /\ NoNewer(y, rec.seq)
  <2>1. y = PutCells(x, r.pos, e, rec)
    BY <1>1, <1>3, <1>9, <1>12, <1>14 DEF WrittenDisk, RecordDisk
  <2>2. e \in Nat /\ r.seq <= rec.seq
    BY <1>1, <1>6, <1>13, <1>14 DEF EntrySize
  <2> QED
    BY <1>6, <1>11, <1>14, <2>1, <2>2, PutTyped
<1>16. PICK z : z = AfterTailDisk(d, w, p)
  OBVIOUS
<1>17. rec.seq \in Nat /\ a.seq = rec.seq /\ w.seq < rec.seq
  BY <1>5, <1>6, <1>14
<1>18. z \in Disks /\ NoNewer(z, rec.seq)
  <2>1. z = ZeroTail(y, q)
    BY <1>1, <1>3, <1>4, <1>12, <1>16 DEF AfterTailDisk
  <2> QED
    BY <1>6, <1>15, <1>17, <2>1, ZeroTyped DEF ZeroTail
<1>19. PICK f : f = FinalDisk(d, w, p)
  OBVIOUS
<1>20. f \in Disks /\ NoNewer(f, rec.seq)
  <2>1. f = Sentinel(z, a)
    BY <1>16, <1>19 DEF FinalDisk
  <2> QED
    BY <1>6, <1>17, <1>18, <2>1, ZeroTyped DEF Sentinel
<1> QED
  BY <1>5, <1>14, <1>17, <1>19, <1>20

-----------------------------------------------------------------------------
(***************************************************************************)
(* The invariant of the ring across process deaths.                        *)
(***************************************************************************)
\* What is in the ring at a cursor: the cut-off append too, once it is behind it.
Listed(list, cut, w) ==
  IF cut # <<>> /\ w.seq >= cut[1].seq THEN list \o cut ELSE list

\* The types, and what a live writer adds: nothing newer than its own sequence.
RecoveryTyped ==
  /\ RingInv
  /\ committed_seq \in Nat
  /\ pending \in Seq(Records)
  /\ attempt \in {<<>>} \cup {<<r>> : r \in Records}
  /\ open => NoNewer(disk, last_sequence) /\ attempt = <<>>

\* The chain from the checkpoint reaches w.
InChain(w) ==
  Chained(disk, checkpoint_pos, committed_seq, w, Listed(pending, attempt, w))

\* Unless a sentinel has overrun the ring, the chain reaches the cursor of the
\* writer, or that of one who died in an append.
RecInv ==
  /\ harm \in {"none", "overrun", "lost"}
  /\ harm # "lost" => RecoveryTyped
  /\ harm = "none" => \E w \in Cursors : (open => w = Cursor) /\ InChain(w)

LEMMA ListedTyped ==
  ASSUME NEW list \in Seq(Records), NEW cut \in {<<>>} \cup {<<r>> : r \in Records}, NEW w
  PROVE  Listed(list, cut, w) \in Seq(Records)
<1>1. cut \in Seq(Records)
  <2>1. <<>> \in Seq(Records) /\ \A r \in Records : <<r>> \in Seq(Records)
    OBVIOUS
  <2> QED
    BY <2>1
<1>2. list \o cut \in Seq(Records)
  BY <1>1
<1> QED
  BY <1>2 DEF Listed

\* What reading a ring back finds.
LEMMA ScanOfInv ==
  ASSUME RecoveryTyped, NEW w \in Cursors, InChain(w),
         NEW s, s = Scan(disk, checkpoint_pos, committed_seq)
  PROVE  /\ w.pend = 0 => /\ s.pos \in Offsets /\ s.found = <<>>
                          /\ s.last \in Nat /\ s.last <= committed_seq
                          /\ w.seq = committed_seq
                          /\ pending = <<>> /\ Listed(pending, attempt, w) = <<>>
                          /\ ~(attempt # <<>> /\ s.last >= attempt[1].seq)
         /\ w.pend # 0 => /\ s.pos = w.pos /\ s.pend = w.pend /\ s.last = w.seq
                          /\ s.found = DecodablePrefix(Listed(pending, attempt, w))
                          /\ w.seq > committed_seq
<1>1. PICK list : list = Listed(pending, attempt, w)
  OBVIOUS
<1>2. list \in Seq(Records)
  BY <1>1, ListedTyped DEF RecoveryTyped
<1>3. checkpoint_pos \in Offsets /\ committed_seq \in Nat
  BY DEF RecoveryTyped, RingInv, RingTypeOK
<1>4. Chained(disk, checkpoint_pos, committed_seq, w, list)
  BY <1>1 DEF InChain
<1>5. /\ w.pend = 0 => /\ s.pos \in Offsets /\ s.found = <<>>
                       /\ s.last \in Nat /\ s.last <= committed_seq
      /\ w.pend # 0 => /\ s.pos = w.pos /\ s.pend = w.pend /\ s.last = w.seq
                       /\ s.found = DecodablePrefix(list)
  <2>1. PICK start \in Offsets : start = checkpoint_pos
    BY <1>3
  <2>2. PICK c \in Nat : c = committed_seq
    BY <1>3
  <2>3. PICK d : d = disk
    OBVIOUS
  <2>4. Chained(d, start, c, w, list) /\ s = Scan(d, start, c)
    BY <1>4, <2>1, <2>2, <2>3
  <2>5. w.pend = 0 => s.pos \in Offsets /\ s.found = <<>> /\ s.last \in Nat /\ s.last <= c
    BY <1>2, <2>4, ScanOfChained
  <2>6. w.pend # 0 => /\ s.pos = w.pos /\ s.pend = w.pend /\ s.last = w.seq
                      /\ s.found = DecodablePrefix(list)
    BY <1>2, <2>4, ScanOfChained
  <2> QED
    BY <2>2, <2>5, <2>6
<1>6. /\ w.pend = 0 => w.seq = committed_seq /\ list = <<>>
      /\ w.pend # 0 => w.seq > committed_seq
  BY <1>4 DEF Chained
<1>7. ASSUME w.pend = 0
      PROVE  pending = <<>> /\ ~(attempt # <<>> /\ s.last >= attempt[1].seq)
  <2>1. pending \in Seq(Records) /\ attempt \in {<<>>} \cup {<<r>> : r \in Records}
    BY DEF RecoveryTyped
  <2>2. ~(attempt # <<>> /\ w.seq >= attempt[1].seq)
    <3> SUFFICES ASSUME attempt # <<>>, w.seq >= attempt[1].seq PROVE FALSE
      OBVIOUS
    <3>1. pending \o attempt = <<>>
      BY <1>1, <1>6, <1>7 DEF Listed
    <3>2. PICK r \in Records : attempt = <<r>>
      BY <2>1
    <3>3. Len(pending \o attempt) = Len(pending) + 1
      BY <2>1, <3>2
    <3> QED
      BY <2>1, <3>1, <3>3
  <2>3. pending = <<>>
    BY <1>1, <1>6, <1>7, <2>2 DEF Listed
  <2>4. ~(attempt # <<>> /\ s.last >= attempt[1].seq)
    <3> SUFFICES ASSUME attempt # <<>>, s.last >= attempt[1].seq PROVE FALSE
      OBVIOUS
    <3>1. PICK r \in Records : attempt = <<r>>
      BY <2>1
    <3>2. attempt[1].seq \in Nat
      BY <3>1 DEF Records
    <3>3. w.seq >= attempt[1].seq
      BY <1>3, <1>5, <1>6, <1>7, <3>2
    <3> QED
      BY <2>2, <3>3
  <2> QED
    BY <2>3, <2>4
<1> QED
  BY <1>1, <1>5, <1>6, <1>7

\* An append that completes adds its record to the chain, or overruns it.
LEMMA WriteKeepsRecInv ==
  ASSUME RecInv, NEW p \in Payload, open, WriteRecord(p), Noted(p), RingInv => RingInv'
  PROVE  RecInv'
<1>1. PICK w : w = Cursor
  OBVIOUS
<1>2. PICK d : d = disk
  OBVIOUS
<1>3. PICK a : a = AfterAppend(w, p)
  OBVIOUS
<1>4. PICK rec : rec = DataRecord(RecordCursor(w, p).seq + 1, p)
  OBVIOUS
<1>5. /\ CanAppend(w, p) /\ disk' = FinalDisk(d, w, p)
      /\ write_pos' = a.pos /\ pending_bytes' = a.pend /\ last_sequence' = a.seq
      /\ checkpoint_pos' = checkpoint_pos /\ open' = open
  BY <1>1, <1>2, <1>3 DEF WriteRecord, SetCursor
<1>6. /\ pending' = Append(pending, rec)
      /\ harm' = IF harm = "none" /\ SentinelOverruns(a) THEN "overrun" ELSE harm
      /\ committed_seq' = committed_seq /\ attempt' = attempt
  BY <1>1, <1>3, <1>4 DEF Noted, Written, Harm
<1>7. harm' \in {"none", "overrun", "lost"} /\ (harm' # "lost" => harm # "lost")
  BY <1>6 DEF RecInv
<1>8. SUFFICES ASSUME harm # "lost"
               PROVE  /\ RecoveryTyped'
                      /\ harm' = "none" =>
                           \E v \in Cursors : (open' => v = Cursor') /\ InChain(v)'
  BY <1>7 DEF RecInv
<1>9. /\ RingInv /\ committed_seq \in Nat /\ pending \in Seq(Records) /\ attempt = <<>>
      /\ NoNewer(d, last_sequence) /\ checkpoint_pos \in Offsets /\ d \in Disks
  BY <1>2, <1>8 DEF RecInv, RecoveryTyped, RingInv, RingTypeOK, Disks
<1>10. w \in Cursors /\ w.seq = last_sequence
  BY <1>1, <1>9, CursorTyped DEF RingInv, Cursor
<1>11. /\ rec \in Records /\ a \in Cursors /\ a.seq = rec.seq
       /\ NoNewer(FinalDisk(d, w, p), a.seq)
  BY <1>3, <1>4, <1>5, <1>9, <1>10, AppendNewest
<1>12. RecoveryTyped'
  <2>1. Append(pending, rec) \in Seq(Records)
    BY <1>9, <1>11
  <2> QED
    BY <1>5, <1>6, <1>9, <1>11, <2>1 DEF RecoveryTyped
<1>13. ASSUME harm' = "none"
       PROVE  \E v \in Cursors : (open' => v = Cursor') /\ InChain(v)'
  <2>1. harm = "none" /\ ~SentinelOverruns(a)
    BY <1>6, <1>13
  <2>2. InChain(w)
    BY <1>1, <2>1 DEF RecInv
  <2>3. PICK start \in Offsets : start = checkpoint_pos
    BY <1>9
  <2>4. PICK c \in Nat : c = committed_seq
    BY <1>9
  <2>5. PICK list \in Seq(Records) : list = pending
    BY <1>9
  <2>6. Chained(d, start, c, w, list)
    BY <1>2, <1>9, <2>2, <2>3, <2>4, <2>5 DEF InChain, Listed
  <2>7. Chained(FinalDisk(d, w, p), start, c, a, Append(list, rec))
    BY <1>3, <1>4, <1>5, <1>10, <2>1, <2>6, AppendChained
  <2>8. Cursor' = a
    BY <1>5, <1>11 DEF Cursor, Cursors
  <2>9. InChain(a)'
    BY <1>5, <1>6, <1>9, <2>3, <2>4, <2>5, <2>7 DEF InChain, Listed
  <2> QED
    BY <1>11, <2>8, <2>9
<1> QED
  BY <1>12, <1>13

\* A checkpoint starts an empty chain at the cursor.
LEMMA CheckpointKeepsRecInv ==
  ASSUME RecInv, Checkpoint, RingInv => RingInv'
  PROVE  RecInv'
<1>1. /\ open /\ open' = open /\ disk' = disk
      /\ checkpoint_pos' = write_pos /\ pending_bytes' = 0
      /\ write_pos' = write_pos /\ last_sequence' = last_sequence
      /\ committed_seq' = last_sequence /\ pending' = <<>> /\ attempt' = attempt
      /\ harm' = IF harm = "overrun" THEN "none" ELSE harm
  BY DEF Checkpoint, RecordCheckpoint
<1>2. harm' \in {"none", "overrun", "lost"} /\ (harm' # "lost" => harm # "lost")
  BY <1>1 DEF RecInv
<1>3. SUFFICES ASSUME harm # "lost"
               PROVE  /\ RecoveryTyped'
                      /\ harm' = "none" =>
                           \E v \in Cursors : (open' => v = Cursor') /\ InChain(v)'
  BY <1>2 DEF RecInv
<1>4. /\ RingInv /\ attempt = <<>> /\ NoNewer(disk, last_sequence) /\ disk \in Disks
      /\ write_pos \in Offsets /\ last_sequence \in Nat
  BY <1>1, <1>3 DEF RecInv, RecoveryTyped, RingInv, RingTypeOK, Disks
<1>5. RecoveryTyped'
  <2>1. <<>> \in Seq(Records)
    OBVIOUS
  <2> QED
    BY <1>1, <1>4, <2>1 DEF RecoveryTyped
<1>6. PICK v : v = [pos |-> write_pos, pend |-> 0, seq |-> last_sequence]
  OBVIOUS
<1>7. v \in Cursors /\ v.pos = write_pos /\ v.pend = 0 /\ v.seq = last_sequence
  BY <1>4, <1>6 DEF Cursors
<1>8. Cursor' = v
  BY <1>1, <1>6 DEF Cursor
<1>9. PICK d \in Disks : d = disk
  BY <1>4
<1>10. Chained(d, v.pos, v.seq, v, <<>>)
  BY <1>4, <1>7, <1>9, EmptyChained
<1>11. InChain(v)'
  BY <1>1, <1>4, <1>7, <1>9, <1>10 DEF InChain, Listed
<1> QED
  BY <1>5, <1>7, <1>8, <1>11

\* A crash leaves the chain at the cursor, behind the padding, or behind the record.
LEMMA CrashKeepsRecInv ==
  ASSUME RecInv, NEW p \in Payload, Crash(p), RingInv => RingInv'
  PROVE  RecInv'
<1>1. PICK w : w = Cursor
  OBVIOUS
<1>2. PICK d : d = disk
  OBVIOUS
<1>3. PICK a : a = AfterAppend(w, p)
  OBVIOUS
<1>4. PICK rec : rec = DataRecord(RecordCursor(w, p).seq + 1, p)
  OBVIOUS
<1>5. /\ open /\ open' = FALSE /\ CanAppend(w, p) /\ disk' \in AppendStages(d, w, p)
      /\ checkpoint_pos' = checkpoint_pos
      /\ attempt' = <<rec>> /\ committed_seq' = committed_seq /\ pending' = pending
      /\ harm' = IF harm = "none" /\ disk' = FinalDisk(d, w, p) /\ SentinelOverruns(a)
                 THEN "overrun" ELSE harm
  BY <1>1, <1>2, <1>3, <1>4 DEF Crash, CrashInAppend, Written, Harm, cursors
<1>6. harm' \in {"none", "overrun", "lost"} /\ (harm' # "lost" => harm # "lost")
  BY <1>5 DEF RecInv
<1>7. SUFFICES ASSUME harm # "lost"
               PROVE  /\ RecoveryTyped'
                      /\ harm' = "none" => \E v \in Cursors : InChain(v)'
  BY <1>5, <1>6 DEF RecInv
<1>8. /\ RingInv /\ committed_seq \in Nat /\ pending \in Seq(Records) /\ attempt = <<>>
      /\ NoNewer(d, last_sequence) /\ checkpoint_pos \in Offsets /\ d \in Disks
  BY <1>2, <1>5, <1>7 DEF RecInv, RecoveryTyped, RingInv, RingTypeOK, Disks
<1>9. w \in Cursors /\ w.seq = last_sequence
  BY <1>1, <1>8, CursorTyped DEF RingInv, Cursor
<1>10. rec \in Records /\ w.seq < rec.seq /\ a.seq = rec.seq /\ a \in Cursors
  BY <1>3, <1>4, <1>5, <1>8, <1>9, AppendNewest
<1>11. RecoveryTyped'
  BY <1>5, <1>8, <1>10 DEF RecoveryTyped
<1>12. ASSUME harm' = "none"
       PROVE  \E v \in Cursors : InChain(v)'
  <2>1. harm = "none" /\ ~(disk' = FinalDisk(d, w, p) /\ SentinelOverruns(a))
    BY <1>5, <1>12
  <2>2. InChain(w)
    BY <1>1, <1>5, <2>1 DEF RecInv
  <2>3. PICK start \in Offsets : start = checkpoint_pos
    BY <1>8
  <2>4. PICK c \in Nat : c = committed_seq
    BY <1>8
  <2>5. PICK list \in Seq(Records) : list = pending
    BY <1>8
  <2>6. PICK x : x = disk'
    OBVIOUS
  <2>7. Chained(d, start, c, w, list)
    BY <1>2, <1>8, <2>2, <2>3, <2>4, <2>5 DEF InChain, Listed
  <2>8. /\ w.seq < rec.seq /\ a.seq = rec.seq /\ a \in Cursors
        /\ Chained(TailDisk(d, w), start, c, w, list)
        /\ \E v \in Cursors : /\ v.seq < rec.seq
                              /\ Chained(PaddedDisk(d, w, p), start, c, v, list)
        /\ Chained(WrittenDisk(d, w, p), start, c, a, Append(list, rec))
        /\ Chained(AfterTailDisk(d, w, p), start, c, a, Append(list, rec))
        /\ ~SentinelOverruns(a)
             => Chained(FinalDisk(d, w, p), start, c, a, Append(list, rec))
    <3>1. CanAppend(w, p) /\ w \in Cursors
      BY <1>5, <1>9
    <3>2. Chained(TailDisk(d, w), start, c, w, list)
      BY <1>3, <1>4, <2>7, <3>1, AppendChained
    <3>3. \E v \in Cursors : /\ v.seq < rec.seq
                              /\ Chained(PaddedDisk(d, w, p), start, c, v, list)
      <4>1. ChainedBefore(PaddedDisk(d, w, p), start, c, rec, list)
        BY <1>3, <1>4, <2>7, <3>1, AppendChained
      <4> QED
        BY <4>1 DEF ChainedBefore
    <3>4. Chained(WrittenDisk(d, w, p), start, c, a, Append(list, rec))
      BY <1>3, <1>4, <2>7, <3>1, AppendChained
    <3>5. Chained(AfterTailDisk(d, w, p), start, c, a, Append(list, rec))
      BY <1>3, <1>4, <2>7, <3>1, AppendChained
    <3>6. ~SentinelOverruns(a)
             => Chained(FinalDisk(d, w, p), start, c, a, Append(list, rec))
      BY <1>3, <1>4, <2>7, <3>1, AppendChained
    <3> QED
      BY <1>10, <3>2, <3>3, <3>4, <3>5, <3>6
  <2>9. ASSUME NEW v \in Cursors, v.seq < rec.seq, Chained(x, start, c, v, list)
        PROVE  InChain(v)'
    <3>1. ~(v.seq >= rec.seq)
      BY <1>10, <2>9 DEF Cursors, Records
    <3>2. Listed(pending', attempt', v) = list
      BY <1>5, <2>5, <3>1 DEF Listed
    <3> QED
      BY <1>5, <2>3, <2>4, <2>6, <2>9, <3>2 DEF InChain
  <2>10. ASSUME Chained(x, start, c, a, Append(list, rec))
         PROVE  InChain(a)'
    <3>1. a.seq >= rec.seq
      BY <1>10, <2>8 DEF Records
    <3>2. list \o <<rec>> = Append(list, rec)
      BY <1>10
    <3>3. Listed(pending', attempt', a) = Append(list, rec)
      BY <1>5, <2>5, <3>1, <3>2 DEF Listed
    <3> QED
      BY <1>5, <2>3, <2>4, <2>6, <2>10, <3>3 DEF InChain
  <2>11. \/ x = d \/ x = TailDisk(d, w) \/ x = PaddedDisk(d, w, p)
         \/ x = WrittenDisk(d, w, p) \/ x = AfterTailDisk(d, w, p) \/ x = FinalDisk(d, w, p)
    BY <1>5, <2>6 DEF AppendStages
  <2>12. \/ \E v \in Cursors : v.seq < rec.seq /\ Chained(x, start, c, v, list)
         \/ Chained(x, start, c, a, Append(list, rec))
    BY <1>9, <2>1, <2>6, <2>7, <2>8, <2>11, Zenon
  <2> QED
    BY <2>8, <2>9, <2>10, <2>12
<1> QED
  BY <1>11, <1>12

\* Reopening takes the chain for the pending records, and its end for the cursor.
LEMMA ReopenKeepsRecInv ==
  ASSUME RecInv, Reopen
  PROVE  RecInv'
<1>1. PICK s : s = Scan(disk, checkpoint_pos, committed_seq)
  OBVIOUS
<1>2. /\ ~open /\ open' = TRUE /\ pending' = InRing(s) /\ attempt' = <<>>
      /\ harm' = IF harm = "overrun" THEN "lost" ELSE harm
      /\ write_pos' = s.pos
      /\ last_sequence' = IF s.last > committed_seq THEN s.last ELSE committed_seq
      /\ IF s.last <= committed_seq
           THEN checkpoint_pos' = s.pos /\ pending_bytes' = 0
           ELSE pending_bytes' = s.pend /\ checkpoint_pos' = checkpoint_pos
      /\ disk' = disk /\ batch' = batch /\ committed_seq' = committed_seq
  BY <1>1 DEF Reopen
<1>3. harm' \in {"none", "overrun", "lost"} /\ (harm' # "lost" => harm = "none")
  BY <1>2 DEF RecInv
<1>4. SUFFICES ASSUME harm = "none"
               PROVE  RecoveryTyped' /\ \E v \in Cursors : v = Cursor' /\ InChain(v)'
  BY <1>2, <1>3 DEF RecInv
<1>5. RecoveryTyped
  BY <1>4 DEF RecInv
<1>6. PICK w \in Cursors : InChain(w)
  BY <1>4 DEF RecInv
<1>7. PICK list : list = Listed(pending, attempt, w)
  OBVIOUS
<1>8. /\ w.pend = 0 => /\ s.pos \in Offsets /\ s.found = <<>>
                       /\ s.last \in Nat /\ s.last <= committed_seq
                       /\ w.seq = committed_seq
                       /\ pending = <<>> /\ list = <<>>
                       /\ ~(attempt # <<>> /\ s.last >= attempt[1].seq)
      /\ w.pend # 0 => /\ s.pos = w.pos /\ s.pend = w.pend /\ s.last = w.seq
                       /\ s.found = DecodablePrefix(list)
                       /\ w.seq > committed_seq
  BY <1>1, <1>5, <1>6, <1>7, ScanOfInv
<1>9. /\ RingInv /\ committed_seq \in Nat /\ disk \in Disks /\ list \in Seq(Records)
      /\ checkpoint_pos \in Offsets
  BY <1>5, <1>7, ListedTyped DEF RecoveryTyped, RingInv, RingTypeOK, Disks
<1>10. /\ w.pos \in Offsets /\ w.pend \in 0 .. WalSize /\ w.seq \in Nat
       /\ w = [pos |-> w.pos, pend |-> w.pend, seq |-> w.seq]
  BY DEF Cursors
<1>11. Chained(disk, checkpoint_pos, committed_seq, w, list)
  BY <1>6, <1>7 DEF InChain
<1>12. PICK v : v = Cursor'
  OBVIOUS
<1>13. NoNewer(disk, w.seq) /\ Geometry(w.pos, checkpoint_pos, w.pend)
  BY <1>11 DEF Chained, At
<1>14. /\ v \in Cursors /\ v.seq = last_sequence' /\ v.pos = write_pos' /\ v.pend = pending_bytes'
       /\ NoNewer(disk, v.seq)
       /\ Geometry(v.pos, checkpoint_pos', v.pend) /\ checkpoint_pos' \in Offsets
       /\ Chained(disk, checkpoint_pos', committed_seq, v, list)
       /\ pending' = list
  <2>1. CASE w.pend = 0
    <3>1. /\ write_pos' = s.pos /\ pending_bytes' = 0 /\ checkpoint_pos' = s.pos
          /\ last_sequence' = committed_seq /\ s.pos \in Offsets
      BY <1>2, <1>8, <1>9, <2>1
    <3>2. pending' = list
      BY <1>2, <1>4, <1>8, <2>1 DEF InRing
    <3>3. /\ v = [pos |-> s.pos, pend |-> 0, seq |-> committed_seq]
          /\ v \in Cursors /\ v.pos = s.pos /\ v.pend = 0 /\ v.seq = committed_seq
      BY <1>9, <1>12, <3>1 DEF Cursor, Cursors
    <3>4. NoNewer(disk, v.seq)
      BY <1>8, <1>13, <2>1, <3>3
    <3>5. PICK d \in Disks : d = disk
      BY <1>9
    <3>6. Chained(d, v.pos, v.seq, v, <<>>)
      BY <3>3, <3>4, <3>5, EmptyChained
    <3>7. Chained(disk, checkpoint_pos', committed_seq, v, list)
      BY <1>8, <2>1, <3>1, <3>3, <3>5, <3>6
    <3>8. Geometry(v.pos, checkpoint_pos', v.pend)
      BY <3>1, <3>3 DEF Geometry, Offsets
    <3> QED
      BY <3>1, <3>2, <3>3, <3>4, <3>7, <3>8
  <2>2. CASE w.pend # 0
    <3>1. s.last > committed_seq /\ ~(s.last <= committed_seq)
      BY <1>8, <1>9, <1>10, <2>2
    <3>2. /\ write_pos' = w.pos /\ pending_bytes' = w.pend
          /\ checkpoint_pos' = checkpoint_pos /\ last_sequence' = w.seq
      BY <1>2, <1>8, <2>2, <3>1
    <3>3. pending' = list
      <4>1. InRing(s) = IF attempt # <<>> /\ s.last >= attempt[1].seq
                          THEN pending \o attempt ELSE pending
        BY <1>4 DEF InRing
      <4> QED
        BY <1>2, <1>7, <1>8, <2>2, <4>1 DEF Listed
    <3>4. v = w
      BY <1>10, <1>12, <3>2 DEF Cursor
    <3> QED
      BY <1>9, <1>11, <1>13, <3>2, <3>3, <3>4
  <2> QED
    BY <2>1, <2>2
<1>15. v.pos \in Offsets /\ v.pend \in 0 .. WalSize /\ v.seq \in Nat
  BY <1>14 DEF Cursors
<1>16. RecoveryTyped'
  <2>1. RingTypeOK'
    BY <1>2, <1>9, <1>14, <1>15 DEF RingInv, RingTypeOK
  <2>2. RingGeometry'
    BY <1>14 DEF RingGeometry
  <2> QED
    BY <1>2, <1>9, <1>14, <2>1, <2>2 DEF RecoveryTyped, RingInv
<1>17. InChain(v)'
  <2>1. Listed(pending', attempt', v) = list
    BY <1>2, <1>14 DEF Listed
  <2> QED
    BY <1>2, <1>14, <2>1 DEF InChain
<1> QED
  BY <1>12, <1>14, <1>16, <1>17

\* The invariant holds at the start, and every step keeps it.
LEMMA RecInvInit == Init => RecInv
<1> SUFFICES ASSUME Init PROVE RecInv
  OBVIOUS
<1>1. RingInv
  BY DEF Init, RingInit, RingInv, RingTypeOK, RingGeometry, Geometry, Offsets
<1>2. /\ open /\ committed_seq = 0 /\ pending = <<>> /\ attempt = <<>> /\ harm = "none"
      /\ disk = [i \in Offsets |-> Blank] /\ write_pos = 0 /\ checkpoint_pos = 0
      /\ pending_bytes = 0 /\ last_sequence = 0
  BY DEF Init, RingInit
<1>3. NoNewer(disk, 0) /\ disk \in Disks
  BY <1>2 DEF NoNewer, Disks
<1>4. RecoveryTyped
  <2>1. <<>> \in Seq(Records)
    OBVIOUS
  <2> QED
    BY <1>1, <1>2, <1>3, <2>1 DEF RecoveryTyped
<1>5. PICK v : v = Cursor
  OBVIOUS
<1>6. v \in Cursors /\ v.pos = 0 /\ v.pend = 0 /\ v.seq = 0
  BY <1>2, <1>5, SizePositive DEF Cursor, Cursors
<1>7. PICK d \in Disks : d = disk
  BY <1>3
<1>8. Chained(d, v.pos, v.seq, v, <<>>)
  BY <1>3, <1>6, <1>7, EmptyChained
<1>9. InChain(v)
  BY <1>2, <1>6, <1>7, <1>8 DEF InChain, Listed
<1> QED
  BY <1>2, <1>4, <1>5, <1>6, <1>9 DEF RecInv

LEMMA RecInvStep == RecInv /\ [Next]_vars => RecInv'
<1> SUFFICES ASSUME RecInv, [Next]_vars
             PROVE  RecInv'
  OBVIOUS
<1>1. ASSUME NEW p \in Payload, RecoveredAppend(p)
      PROVE  RecInv'
  <2>1. open /\ WriteRecord(p) /\ Noted(p) /\ AppendRecord(p)
    BY <1>1 DEF RecoveredAppend, AppendRecord
  <2>2. RingInv => RingInv'
    BY <2>1, RingInvStep DEF RingNext
  <2> QED
    BY <2>1, <2>2, WriteKeepsRecInv
<1>2. ASSUME NEW ps \in Batches, RecoveredBatch(ps)
      PROVE  RecInv'
  <2>1. AppendBatch(ps) /\ UNCHANGED recoveryVars /\ UNCHANGED <<disk, open, cursors>>
    BY <1>2 DEF RecoveredBatch, AppendBatch
  <2>2. RingInv => RingInv'
    BY <2>1, RingInvStep DEF RingNext
  <2> QED
    BY <2>1, <2>2 DEF RecInv, RecoveryTyped, InChain, Cursor, recoveryVars, cursors
<1>3. CASE RecoveredNext
  <2>1. AppendNext /\ Noted(Head(batch)) /\ open /\ batch # <<>> /\ WriteRecord(Head(batch))
    BY <1>3 DEF RecoveredNext, AppendNext
  <2>2. RingInv => RingInv'
    BY <2>1, RingInvStep DEF RingNext
  <2>3. CASE harm = "lost"
    <3>1. harm' = "lost"
      BY <2>1, <2>3 DEF Noted, Harm
    <3> QED
      BY <3>1 DEF RecInv
  <2>4. CASE harm # "lost"
    <3>1. Head(batch) \in Payload
      BY <2>1, <2>4 DEF RecInv, RecoveryTyped, RingInv, RingTypeOK
    <3> QED
      BY <2>1, <2>2, <3>1, WriteKeepsRecInv
  <2> QED
    BY <2>3, <2>4
<1>4. CASE Checkpoint
  <2>1. RingInv => RingInv'
    BY <1>4, RingInvStep DEF RingNext, Checkpoint
  <2> QED
    BY <1>4, <2>1, CheckpointKeepsRecInv
<1>5. ASSUME NEW p \in Payload, Crash(p)
      PROVE  RecInv'
  <2>1. RingInv => RingInv'
    BY <1>5, RingInvStep DEF RingNext, Crash
  <2> QED
    BY <1>5, <2>1, CrashKeepsRecInv
<1>6. CASE CrashBetween
  <2>1. CrashIdle /\ UNCHANGED recoveryVars /\ UNCHANGED <<disk, cursors>> /\ open' = FALSE
    BY <1>6 DEF CrashBetween, CrashIdle
  <2>2. RingInv => RingInv'
    BY <2>1, RingInvStep DEF RingNext
  <2> QED
    BY <2>1, <2>2 DEF RecInv, RecoveryTyped, InChain, recoveryVars, cursors
<1>7. CASE Reopen
  BY <1>7, ReopenKeepsRecInv
<1>8. CASE UNCHANGED vars
  <2>1. RingInv => RingInv'
    BY <1>8, RingInvStep DEF vars
  <2> QED
    BY <1>8, <2>1 DEF RecInv, RecoveryTyped, InChain, Cursor, vars, recoveryVars, ringVars, cursors
<1> QED
  BY <1>1, <1>2, <1>3, <1>4, <1>5, <1>6, <1>7, <1>8 DEF Next

\* The invariant holds of the ring and its recovery.
LEMMA RecoveryInvariant == Spec => []RecInv
BY RecInvInit, RecInvStep, PTL DEF Spec

\* Whenever the process dies, reading the ring back finds exactly the pending
\* mutations, and the append the crash cut short whole or not at all, for every ring
\* size, header size, set of payloads and number of crashes, as long as no sentinel
\* was written into a gap shorter than itself (ScanPendingMutationsWithState).
THEOREM RecoveryIsExact == Spec => []RecoveryExactUnlessOverrun
<1>1. RecInv => RecoveryExactUnlessOverrun
  <2> SUFFICES ASSUME RecInv, harm = "none"
               PROVE  Scan(disk, checkpoint_pos, committed_seq).found
                        \in {DecodablePrefix(pending), DecodablePrefix(pending \o attempt)}
    BY DEF RecoveryExactUnlessOverrun, RecoveryExact, Promised
  <2>1. PICK s : s = Scan(disk, checkpoint_pos, committed_seq)
    OBVIOUS
  <2>2. RecoveryTyped
    BY DEF RecInv
  <2>3. PICK w \in Cursors : InChain(w)
    BY DEF RecInv
  <2>4. CASE w.pend = 0
    <3>1. s.found = <<>> /\ pending = <<>>
      BY <2>1, <2>2, <2>3, <2>4, ScanOfInv
    <3>2. <<>> \in Seq(Records) /\ Bad(<<>>) = {}
      BY DEF Bad
    <3>3. DecodablePrefix(<<>>) = <<>>
      BY <3>2, PrefixIs
    <3> QED
      BY <2>1, <3>1, <3>3
  <2>5. CASE w.pend # 0
    <3>1. s.found = DecodablePrefix(Listed(pending, attempt, w))
      BY <2>1, <2>2, <2>3, <2>5, ScanOfInv
    <3>2. Listed(pending, attempt, w) \in {pending, pending \o attempt}
      BY DEF Listed
    <3> QED
      BY <2>1, <3>1, <3>2
  <2> QED
    BY <2>4, <2>5
<1> QED
  BY <1>1, RecoveryInvariant, PTL

\* Reading the file back gives a running writer its own position, pending count and
\* sequence, whatever was appended, checkpointed and recovered before.
THEOREM ScanGivesCursorsBack == Spec => []ScanRestoresCursors
<1>1. RecInv => ScanRestoresCursors
  <2> SUFFICES ASSUME RecInv, open, harm = "none", pending # <<>>,
                      NEW s, s = Scan(disk, checkpoint_pos, committed_seq)
               PROVE  s.pos = write_pos /\ s.pend = pending_bytes /\ s.last = last_sequence
    BY DEF ScanRestoresCursors
  <2>1. PICK w \in Cursors : w = Cursor /\ InChain(w)
    BY DEF RecInv
  <2>2. w.pos = write_pos /\ w.pend = pending_bytes /\ w.seq = last_sequence
    BY <2>1 DEF Cursor
  <2>3. RecoveryTyped
    BY DEF RecInv
  <2>4. w.pend # 0
    BY <2>1, <2>3, ScanOfInv
  <2>5. s.pos = w.pos /\ s.pend = w.pend /\ s.last = w.seq
    BY <2>1, <2>3, <2>4, ScanOfInv
  <2> QED
    BY <2>2, <2>5
<1> QED
  BY <1>1, RecoveryInvariant, PTL

\* No store has been reopened over an overrun ring.
NeverLost == harm # "lost"

\* The ring with its recovery is a ring as the writer's specification has it, which lets
\* the cursors of a reopened store be any that fit together (Construct): up to the first
\* time a store is reopened over an overrun ring, the scan gives such cursors.
THEOREM RecoveryImplementsWriter == Spec /\ []NeverLost => RingSpec
<1>1. Init => RingInit
  BY DEF Init
<1>2. RecInv' /\ NeverLost' /\ [Next]_vars => [RingNext]_ringVars
  <2> SUFFICES ASSUME RecInv', NeverLost', [Next]_vars
               PROVE  [RingNext]_ringVars
    OBVIOUS
  <2>1. ASSUME NEW p \in Payload, RecoveredAppend(p)
        PROVE  RingNext
    BY <2>1 DEF RecoveredAppend, RingNext
  <2>2. ASSUME NEW ps \in Batches, RecoveredBatch(ps)
        PROVE  RingNext
    BY <2>2 DEF RecoveredBatch, RingNext
  <2>3. CASE RecoveredNext
    BY <2>3 DEF RecoveredNext, RingNext
  <2>4. CASE Checkpoint
    BY <2>4 DEF Checkpoint, RingNext
  <2>5. ASSUME NEW p \in Payload, Crash(p)
        PROVE  RingNext
    BY <2>5 DEF Crash, RingNext
  <2>6. CASE CrashBetween
    BY <2>6 DEF CrashBetween, RingNext
  <2>7. CASE Reopen
    <3>1. RingInv'
      BY DEF RecInv, RecoveryTyped, NeverLost
    <3>2. ~open /\ open' = TRUE /\ disk' = disk /\ batch' = batch
      BY <2>7 DEF Reopen
    <3>3. /\ write_pos' \in Offsets /\ checkpoint_pos' \in Offsets
          /\ pending_bytes' \in 0 .. WalSize /\ last_sequence' \in Nat
          /\ Geometry(write_pos', checkpoint_pos', pending_bytes')
      BY <3>1 DEF RingInv, RingTypeOK, RingGeometry
    <3> QED
      BY <3>2, <3>3 DEF Construct, RingNext
  <2>8. CASE UNCHANGED vars
    BY <2>8 DEF vars
  <2> QED
    BY <2>1, <2>2, <2>3, <2>4, <2>5, <2>6, <2>7, <2>8 DEF Next
<1> QED
  BY <1>1, <1>2, RecoveryInvariant, PTL DEF Spec, RingSpec
==============================================================================
