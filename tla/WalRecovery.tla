----------------------------- MODULE WalRecovery -----------------------------
(***************************************************************************)
(* The write-ahead ring across process deaths: the writer of WalRing and   *)
(* the reader that rebuilds its cursors and the pending mutations from the *)
(* file, ScanPendingMutationsWithState in src/src/core/wal_ring.cpp, used  *)
(* as WaxStore::LoadState uses it.                                         *)
(*                                                                         *)
(* Here a checkpoint also publishes the committed sequence and the header  *)
(* in one step; WaxStore takes that step apart.                            *)
(***************************************************************************)
EXTENDS WalRing

CONSTANTS
  Decodable     \* payloads that decode as a mutation; a caller may append others

VARIABLES
  committed_seq,  \* newest sequence covered by a commit
  pending,        \* history: data records appended since the checkpoint
  attempt,        \* history: the record whose append the last crash cut short
  harm            \* history: "overrun" once a sentinel has reached into the oldest
                  \* pending record, "lost" once a scan has read such a ring

recoveryVars == <<committed_seq, pending, attempt, harm>>
vars == <<ringVars, recoveryVars>>

-----------------------------------------------------------------------------
(***************************************************************************)
(* The scan.  Its state is the cursor of the loop and what it has found.   *)
(***************************************************************************)
\* The header at a cursor is that of a record exactly when all its cells are.
HasHeader(d, at) ==
  /\ d[at] # Blank
  /\ \A i \in 0 .. HeaderSize - 1 : d[at + i] = <<d[at][1], i>>

HasPayload(d, at) ==
  LET r == d[at][1]
  IN  /\ HeaderSize + r.len <= WalSize - at
      /\ \A i \in HeaderSize .. HeaderSize + r.len - 1 : d[at + i] = <<r, i>>

ScanStop(s) == [s EXCEPT !.done = TRUE]

\* Both record kinds advance the cursor the same way, modulo the ring.
ScanAdvance(s, start, r) ==
  LET next == (s.pos + HeaderSize + r.len) % WalSize
  IN  [s EXCEPT !.pos = next,
                !.pend = @ + HeaderSize + r.len,
                !.last = r.seq,
                !.wrapped = @ \/ next = 0,
                !.done = next = start]

\* A payload that does not decode ends the list of mutations, not the scan.
ScanKeep(s, r, committed) ==
  IF r.seq <= committed \/ s.stopped
    THEN s
    ELSE IF r.body \in Decodable
      THEN [s EXCEPT !.found = Append(@, r)]
      ELSE [s EXCEPT !.stopped = TRUE]

\* A slip: the skipped tail is not counted as pending.
ScanSkipTailUncounted(s, start) ==
  IF s.wrapped
    THEN ScanStop(s)
    ELSE [s EXCEPT !.pos = 0, !.wrapped = TRUE, !.done = start = 0]

ScanSkipTail(s, start) ==
  IF s.wrapped
    THEN ScanStop(s)
    ELSE [s EXCEPT !.pend = @ + (WalSize - s.pos),
                   !.pos = 0, !.wrapped = TRUE, !.done = start = 0]

\* A slip: a record older than the one before it is not recognised as stale.
ScanStepNoOrder(d, start, committed, s) ==
  IF WalSize - s.pos < HeaderSize
    THEN ScanSkipTail(s, start)
    ELSE IF ~HasHeader(d, s.pos) \/ s.pos + HeaderSize + d[s.pos][1].len > WalSize
      THEN ScanStop(s)
      ELSE LET r == d[s.pos][1]
           IN  IF r.body = Padding THEN ScanAdvance(s, start, r)
               ELSE IF HasPayload(d, s.pos)
                 THEN ScanAdvance(ScanKeep(s, r, committed), start, r)
                 ELSE ScanStop(s)

ScanStep(d, start, committed, s) ==
  IF WalSize - s.pos < HeaderSize
    THEN ScanSkipTail(s, start)
    ELSE IF ~HasHeader(d, s.pos)
      THEN ScanStop(s)
      ELSE LET r == d[s.pos][1]
           IN  IF s.last # 0 /\ r.seq <= s.last THEN ScanStop(s)
               ELSE IF r.body = Padding THEN ScanAdvance(s, start, r)
               ELSE IF HasPayload(d, s.pos)
                 THEN ScanAdvance(ScanKeep(s, r, committed), start, r)
                 ELSE ScanStop(s)

ScanStart(start) ==
  [pos |-> start, pend |-> 0, last |-> 0, found |-> <<>>,
   wrapped |-> FALSE, stopped |-> FALSE, done |-> FALSE]

\* The loop ends within WalSize steps: each consumes cells, and sequences rise.
Scan(d, start, committed) ==
  LET loop[i \in 0 .. 2 * WalSize] ==
        IF i = 0 THEN ScanStart(start)
        ELSE LET s == loop[i - 1]
             IN  IF s.done THEN s ELSE ScanStep(d, start, committed, s)
  IN  loop[2 * WalSize]

-----------------------------------------------------------------------------
Init ==
  /\ RingInit
  /\ committed_seq = 0
  /\ pending = <<>>
  /\ attempt = <<>>
  /\ harm = "none"

\* The record an append of p writes.
Written(p) == DataRecord(RecordCursor(Cursor, p).seq + 1, p)

SentinelOverruns(w) == w.pend < WalSize /\ WalSize - w.pend < HeaderSize

Harm(overrun) == IF harm = "none" /\ overrun THEN "overrun" ELSE harm

Noted(p) ==
  /\ pending' = Append(pending, Written(p))
  /\ harm' = Harm(SentinelOverruns(AfterAppend(Cursor, p)))
  /\ UNCHANGED <<committed_seq, attempt>>

RecoveredAppend(p) == AppendRecord(p) /\ Noted(p)

RecoveredBatch(ps) == AppendBatch(ps) /\ UNCHANGED recoveryVars

RecoveredNext == AppendNext /\ Noted(Head(batch))

Checkpoint ==
  /\ RecordCheckpoint
  /\ committed_seq' = last_sequence
  /\ pending' = <<>>
  /\ harm' = IF harm = "overrun" THEN "none" ELSE harm
  /\ UNCHANGED attempt

Crash(p) ==
  /\ CrashInAppend(p)
  /\ attempt' = <<Written(p)>>
  /\ harm' = Harm(/\ disk' = FinalDisk(disk, Cursor, p)
                  /\ SentinelOverruns(AfterAppend(Cursor, p)))
  /\ UNCHANGED <<committed_seq, pending>>

\* The records the ring holds after a crash, undecodable ones included.
InRing(s) ==
  IF harm # "none" THEN s.found
  ELSE IF attempt # <<>> /\ s.last >= attempt[1].seq THEN pending \o attempt
  ELSE pending

CrashBetween == CrashIdle /\ UNCHANGED recoveryVars

\* A slip: recovery resumes writing at the checkpoint instead of behind the scan.
ReopenAtCheckpoint ==
  LET s == Scan(disk, checkpoint_pos, committed_seq)
  IN  /\ ~open
      /\ open' = TRUE
      /\ pending' = InRing(s)
      /\ attempt' = <<>>
      /\ harm' = IF harm = "overrun" THEN "lost" ELSE harm
      /\ last_sequence' = IF s.last > committed_seq THEN s.last ELSE committed_seq
      /\ pending_bytes' = IF s.last > committed_seq THEN s.pend ELSE 0
      /\ UNCHANGED <<disk, batch, committed_seq, write_pos, checkpoint_pos>>

\* LoadState: the cursors come from the scan; a ring that holds nothing newer
\* than the committed sequence is taken as empty where the scan stopped.
Reopen ==
  LET s == Scan(disk, checkpoint_pos, committed_seq)
  IN  /\ ~open
      /\ open' = TRUE
      /\ pending' = InRing(s)
      /\ attempt' = <<>>
      /\ harm' = IF harm = "overrun" THEN "lost" ELSE harm
      /\ write_pos' = s.pos
      /\ last_sequence' = IF s.last > committed_seq THEN s.last ELSE committed_seq
      /\ IF s.last <= committed_seq
           THEN checkpoint_pos' = s.pos /\ pending_bytes' = 0
           ELSE pending_bytes' = s.pend /\ UNCHANGED checkpoint_pos
      /\ UNCHANGED <<disk, batch, committed_seq>>

Next ==
  \/ \E p \in Payload : RecoveredAppend(p)
  \/ \E ps \in Batches : RecoveredBatch(ps)
  \/ RecoveredNext
  \/ Checkpoint
  \/ \E p \in Payload : Crash(p)
  \/ CrashBetween
  \/ Reopen

Spec == Init /\ [][Next]_vars

-----------------------------------------------------------------------------
\* What the reader is expected to find: the records up to the first undecodable one.
DecodablePrefix(rs) ==
  LET bad == {i \in DOMAIN rs : rs[i].body \notin Decodable}
  IN  IF bad = {} THEN rs
      ELSE SubSeq(rs, 1, (CHOOSE i \in bad : \A j \in bad : i <= j) - 1)

Promised == {DecodablePrefix(pending), DecodablePrefix(pending \o attempt)}

\* Were the process to die now and the file be read back, every pending mutation
\* is found, in order, and nothing else; the append a crash cut short is found
\* whole or not at all.  This is what tests/unit/wax_store_write_test.cpp:720
\* ("pending put must be visible after reopen") asks of every interleaving.
RecoveryExact ==
  Scan(disk, checkpoint_pos, committed_seq).found \in Promised

\* The same, while no sentinel has been written into a free gap shorter than itself.
RecoveryExactUnlessOverrun == harm = "none" => RecoveryExact

\* Reading the file back gives a running writer its own cursors again.
ScanRestoresCursors ==
  LET s == Scan(disk, checkpoint_pos, committed_seq)
  IN  (open /\ harm = "none" /\ pending # <<>>)
        => /\ s.pos = write_pos
           /\ s.pend = pending_bytes
           /\ s.last = last_sequence
==============================================================================
