--------------------------- MODULE IndexJobProofs ---------------------------
(***************************************************************************)
(* Proofs about IndexJob, for any number of clients and chunks, any batch  *)
(* size and any distance of commits: its workers first, then what its      *)
(* checkpoint files say.                                                   *)
(***************************************************************************)
EXTENDS IndexJob, FiniteSetTheorems, TLAPS

USE JobAssumption

-----------------------------------------------------------------------------
(***************************************************************************)
(* Types.                                                                  *)
(***************************************************************************)

\* Sets of chunks are finite.
LEMMA ChunksFinite ==
  ASSUME NEW S \in SUBSET Contents
  PROVE  IsFiniteSet(S) /\ Cardinality(S) \in Nat
<1>1. IsFiniteSet(Chunk)
  BY FS_Interval DEF Chunk
<1>2. IsFiniteSet({1, 2})
  <2>1. IsFiniteSet({1})
    BY FS_Singleton
  <2>2. IsFiniteSet({1} \cup {2})
    BY <2>1, FS_AddElement
  <2>3. {1} \cup {2} = {1, 2}
    OBVIOUS
  <2> QED BY <2>2, <2>3
<1>3. IsFiniteSet(Contents)
  BY <1>1, <1>2, FS_Product DEF Contents
<1>4. IsFiniteSet(S)
  BY <1>3, FS_Subset
<1> QED BY <1>4, FS_CardinalityType

\* What a file holds is something the repository may hold.
LEMMA NowTyped ==
  ASSUME TypeOK, NEW i \in Chunk
  PROVE  Now(i) \in Contents
  BY DEF TypeOK, Now, Contents

LEMMA ThreadsTyped ==
  ASSUME NEW b \in BOOLEAN
  PROVE  Gone \in Threads /\ Fresh(b) \in Threads
<1>1. Gone \in Threads
  BY DEF Gone, Threads, Places
<1>2. Fresh(b) \in Threads
  BY <1>1 DEF Fresh, Threads, Places
<1> QED BY <1>1, <1>2

\* One worker changes, the others do not.
LEMMA OneWorker ==
  ASSUME TypeOK, NEW w \in Slot, NEW r \in Threads, Set(w, r)
  PROVE  /\ worker' \in [Slot -> Threads]
         /\ worker'[w] = r
         /\ \A v \in Slot : v # w => worker'[v] = worker[v]
  BY DEF TypeOK, Set

LEMMA InitTyped == ASSUME Init PROVE TypeOK
<1>1. Gone \in Threads
  BY ThreadsTyped
<1> QED BY <1>1 DEF Init, TypeOK, Ops, Idle

\* Leaving run_index_job leaves a typed worker.
LEMMA LeaveTyped ==
  ASSUME TypeOK, NEW w \in Slot, NEW at \in Places, LeaveFor(w, at)
  PROVE  /\ worker' \in [Slot -> Threads]
         /\ worker'[w] = [Gone EXCEPT !.at = at]
         /\ \A v \in Slot : v # w => worker'[v] = worker[v]
<1>1. [Gone EXCEPT !.at = at] \in Threads
  BY ThreadsTyped DEF Threads
<1> QED BY <1>1, OneWorker DEF LeaveFor

LEMMA MoveTyped ==
  ASSUME TypeOK, NEW w \in Slot, NEW at \in Places, Move(w, at)
  PROVE  /\ worker' \in [Slot -> Threads]
         /\ worker'[w] = [worker[w] EXCEPT !.at = at]
         /\ \A v \in Slot : v # w => worker'[v] = worker[v]
<1>1. worker[w] \in Threads
  BY DEF TypeOK
<1>2. [worker[w] EXCEPT !.at = at] \in Threads
  BY <1>1 DEF Threads
<1> QED BY <1>2, OneWorker DEF Move

\* What IndexedAfter counts is a number.
LEMMA CountsTyped ==
  ASSUME TypeOK, NEW w \in Slot
  PROVE  /\ worker[w] \in Threads
         /\ Texts(worker[w].batch) \in SUBSET Contents
         /\ Cardinality(Texts(worker[w].batch)) \in Nat
         /\ IndexedAfter(w) \in Nat
<1>1. worker[w] \in Threads
  BY DEF TypeOK
<1>2. worker[w].batch \in SUBSET Contents /\ worker[w].indexed \in Nat
  BY <1>1 DEF Threads
<1>3. Texts(worker[w].batch) \in SUBSET Contents
  BY <1>2 DEF Texts
<1>4. Cardinality(Texts(worker[w].batch)) \in Nat
  BY <1>3, ChunksFinite
<1> QED BY <1>1, <1>2, <1>3, <1>4 DEF IndexedAfter

\* A step of a worker keeps the types.
LEMMA WorkerStepTyped ==
  ASSUME TypeOK, NEW w \in Slot, WorkerStep(w) \/ Throw(w) \/ ThrowInIngest(w)
  PROVE  TypeOK'
<1> DEFINE r == worker[w]
<1>r. r \in Threads /\ r.batch \in SUBSET Contents
  BY CountsTyped DEF Threads
<1>m. r.next \in Nat \ {0} /\ r.next + 1 \in Nat \ {0}
  BY <1>r DEF Threads
<1>n. \A i \in Chunk : Now(i) \in Contents
  BY NowTyped
<1> USE DEF jobVars, storeVars, serverVars
<1>1. CASE Begin(w)
  <2>1. worker' \in [Slot -> Threads]
    BY <1>1, MoveTyped DEF Begin, Places
  <2> QED BY <2>1, <1>1 DEF Begin, TypeOK
<1>2. CASE CancelledInScan(w) \/ CancelledInIngest(w)
  <2>1. worker' \in [Slot -> Threads]
    BY <1>2, LeaveTyped DEF CancelledInScan, CancelledInIngest, Places
  <2> QED BY <2>1, <1>2 DEF CancelledInScan, CancelledInIngest, TypeOK
<1>3. CASE Prepare(w)
  <2> DEFINE q == [r EXCEPT !.at = "build",
               !.skip = IF r.resume /\ ~manifest.exists THEN job.committed ELSE 0,
               !.same = IF r.resume THEN Unchanged(manifest.digests) ELSE {},
               !.known = processed',
               !.digests = {Now(i) : i \in Chunk}]
  <2>1. processed' \in SUBSET Contents
    BY <1>3 DEF Prepare, TypeOK
  <2>2. {Now(i) : i \in Chunk} \in SUBSET Contents
    BY <1>n
  <2>3. Unchanged(manifest.digests) \in SUBSET Chunk
    BY DEF Unchanged
  <2>4. job.committed \in Nat
    BY DEF TypeOK
  <2>5. q \in Threads
    BY <1>r, <2>1, <2>2, <2>3, <2>4 DEF Threads, Places
  <2>6. Set(w, q)
    BY <1>3 DEF Prepare
  <2>7. worker' \in [Slot -> Threads]
    BY <2>5, <2>6, OneWorker
  <2> QED BY <2>1, <2>7, <1>3 DEF Prepare, TypeOK
<1>4. CASE SkipUnchanged(w) \/ SkipCommitted(w) \/ SkipProcessed(w)
  <2>1. [r EXCEPT !.next = @ + 1] \in Threads
    BY <1>r DEF Threads
  <2>2. ASSUME r.skip > 0
        PROVE  [r EXCEPT !.next = @ + 1, !.skip = @ - 1] \in Threads
    <3>1. r.skip \in Nat
      BY <1>r DEF Threads
    <3>2. r.skip - 1 \in Nat
      BY <3>1, <2>2
    <3> QED BY <1>r, <1>m, <3>2 DEF Threads
  <2>3. worker' \in [Slot -> Threads]
    BY <2>1, <2>2, <1>4, OneWorker DEF SkipUnchanged, SkipCommitted, SkipProcessed
  <2> QED BY <2>3, <1>4 DEF SkipUnchanged, SkipCommitted, SkipProcessed, TypeOK
<1>5. CASE Take(w)
  <2>1. r.next \in Chunk
    BY <1>5, <1>m DEF Take, Building, BuildOver, Chunk
  <2>2. PICK at \in {"ingest", "build"} :
          Set(w, [r EXCEPT !.next = r.next + 1, !.batch = r.batch \cup {Now(r.next)},
                           !.ids = r.ids \cup {Now(r.next)}, !.at = at])
    BY <1>5 DEF Take
  <2>3. [r EXCEPT !.next = r.next + 1, !.batch = r.batch \cup {Now(r.next)},
                  !.ids = r.ids \cup {Now(r.next)}, !.at = at] \in Threads
    <3>1. Now(r.next) \in Contents
      BY <2>1, <1>n
    <3>2. r.batch \cup {Now(r.next)} \in SUBSET Contents
      BY <1>r, <3>1
    <3>3. r.ids \cup {Now(r.next)} \in SUBSET Contents
      BY <1>r, <3>1 DEF Threads
    <3> HIDE DEF r
    <3> QED BY <1>r, <1>m, <3>2, <3>3 DEF Threads, Places
  <2>4. worker' \in [Slot -> Threads]
    BY <2>2, <2>3, OneWorker
  <2> QED BY <2>4, <1>5 DEF Take, TypeOK
<1>6. CASE EndBuild(w)
  <2>1. [r EXCEPT !.at = "ingest", !.last = TRUE] \in Threads
    BY <1>r DEF Threads, Places
  <2>2. worker' \in [Slot -> Threads]
    BY <1>6, <2>1, OneWorker DEF EndBuild
  <2> QED BY <2>2, <1>6 DEF EndBuild, TypeOK
<1>7. ASSUME NEW committed \in Nat, NEW unflushed \in BOOLEAN, AfterIngest(w, committed, unflushed)
      PROVE  worker' \in [Slot -> Threads]
  <2>1. PICK at \in {"record", "report"} :
          Set(w, [r EXCEPT !.batch = {}, !.indexed = IndexedAfter(w), !.committed = committed,
                           !.unflushed = unflushed, !.at = at])
    BY <1>7 DEF AfterIngest
  <2>2. [r EXCEPT !.batch = {}, !.indexed = IndexedAfter(w), !.committed = committed,
                  !.unflushed = unflushed, !.at = at] \in Threads
    BY <1>r, CountsTyped DEF Threads, Places
  <2> QED BY <2>1, <2>2, OneWorker
<1>8. CASE Ingest(w)
  <2>1. r.committed \in Nat /\ Unflushed(w) \in BOOLEAN
    BY <1>r DEF Threads, Unflushed
  <2>2. worker' \in [Slot -> Threads]
    BY <1>8, <1>7, <2>1 DEF Ingest
  <2> QED BY <1>8, <2>2, <1>r DEF Ingest, TypeOK
<1>9. CASE IngestAndCommit(w)
  <2>1. IndexedAfter(w) \in Nat
    BY CountsTyped
  <2>2. worker' \in [Slot -> Threads]
    BY <1>9, <1>7, <2>1 DEF IngestAndCommit
  <2> QED BY <1>9, <2>2, <1>r DEF IngestAndCommit, TypeOK
<1>10. CASE Record(w)
  <2>1. processed' \in SUBSET Contents
    BY <1>10, <1>r DEF Record, Threads
  <2>2. [r EXCEPT !.at = "report", !.known = processed', !.ids = {}] \in Threads
    BY <2>1, <1>r DEF Threads, Places
  <2>3. worker' \in [Slot -> Threads]
    BY <1>10, <2>2, OneWorker DEF Record
  <2> QED BY <1>10, <2>1, <2>3 DEF Record, TypeOK
<1>11. CASE Report(w)
  <2>1. worker' \in [Slot -> Threads]
    BY <1>11, MoveTyped DEF Report, Places
  <2>2. job' \in [state : {"idle", "running", "stopped", "failed"}, committed : Nat]
    BY <1>11, <1>r DEF Report, UpdateProgress, TypeOK, Threads
  <2> QED BY <1>11, <2>1, <2>2 DEF Report, TypeOK
<1>12. CASE WriteManifests(w)
  <2>1. worker' \in [Slot -> Threads]
    BY <1>12, MoveTyped DEF WriteManifests, Places
  <2>2. manifest' \in [exists : BOOLEAN, digests : SUBSET Contents]
    BY <1>12, <1>r DEF WriteManifests, Threads
  <2> QED BY <1>12, <2>1, <2>2 DEF WriteManifests, TypeOK
<1>13. CASE CompleteJob(w)
  <2>1. worker' \in [Slot -> Threads]
    BY <1>13, LeaveTyped DEF CompleteJob, Places
  <2>2. job' \in [state : {"idle", "running", "stopped", "failed"}, committed : Nat]
    BY <1>13, <1>r DEF CompleteJob, Complete, TypeOK, Threads
  <2> QED BY <1>13, <2>1, <2>2 DEF CompleteJob, TypeOK
<1>14. CASE Throw(w) \/ ThrowInIngest(w)
  <2>1. worker' \in [Slot -> Threads]
    BY <1>14, LeaveTyped DEF Throw, ThrowInIngest, Places
  <2>2. staged' \in SUBSET Contents
    BY <1>14, <1>r DEF Throw, ThrowInIngest, TypeOK, Texts
  <2> QED BY <1>14, <2>1, <2>2 DEF Throw, ThrowInIngest, TypeOK
<1>15. CASE FailJob(w)
  <2>1. worker' \in [Slot -> Threads]
    BY <1>15, LeaveTyped DEF FailJob, Places
  <2>2. job' \in [state : {"idle", "running", "stopped", "failed"}, committed : Nat]
    BY <1>15 DEF FailJob, Fail, TypeOK
  <2> QED BY <1>15, <2>1, <2>2 DEF FailJob, TypeOK
<1>16. CASE Exit(w)
  <2>1. worker' \in [Slot -> Threads]
    BY <1>16, LeaveTyped DEF Exit, Places
  <2> QED BY <1>16, <2>1 DEF Exit, TypeOK
<1> QED
  BY <1>1, <1>2, <1>3, <1>4, <1>5, <1>6, <1>8, <1>9, <1>10, <1>11, <1>12, <1>13, <1>14,
     <1>15, <1>16 DEF WorkerStep

\* A new process is typed.
LEMMA ReloadTyped ==
  ASSUME NEW loaded, loaded \in [state : {"idle", "running", "stopped", "failed"}, committed : Nat],
         Reload(loaded)
  PROVE  /\ job' \in [state : {"idle", "stopped", "failed"}, committed : Nat]
         /\ worker' = [w \in Slot |-> Gone]
         /\ worker' \in [Slot -> Threads]
         /\ thread' = None
         /\ active' \in BOOLEAN
         /\ call' = [c \in Client |-> Idle]
         /\ call' \in [Client -> [op : Ops, join : Slot \cup {None}]]
<1>1. Gone \in Threads
  BY ThreadsTyped
<1>2. Idle \in [op : Ops, join : Slot \cup {None}]
  BY DEF Idle, Ops
<1>3. job' \in [state : {"idle", "stopped", "failed"}, committed : Nat]
  BY DEF Reload
<1> QED BY <1>1, <1>2, <1>3 DEF Reload

\* What the calls change of the workers.
LEMMA CancelledTyped ==
  ASSUME TypeOK
  PROVE  /\ Cancelled \in [Slot -> Threads]
         /\ \A w \in Slot : w # thread => Cancelled[w] = worker[w]
         /\ \A w \in Slot : Cancelled[w] = worker[w] \/ Cancelled[w] = [worker[w] EXCEPT !.cancelled = TRUE]
<1>1. ASSUME NEW w \in Slot
      PROVE  [worker[w] EXCEPT !.cancelled = TRUE] \in Threads
  <2>1. worker[w] \in Threads
    BY DEF TypeOK
  <2> QED BY <2>1 DEF Threads
<1> QED BY <1>1 DEF TypeOK, Cancelled

\* A step of a call keeps the types, and so does any other step of the system.
LEMMA CallStepTyped ==
  ASSUME TypeOK, NEW c \in Client, CallStep(c)
  PROVE  TypeOK'
<1> USE DEF jobVars, storeVars, serverVars
<1>c. call[c] \in [op : Ops, join : Slot \cup {None}]
  BY DEF TypeOK
<1>i. Idle \in [op : Ops, join : Slot \cup {None}]
  BY DEF Idle, Ops
<1>e. \A op \in Ops, join \in Slot \cup {None} :
        Enter(c, op, join) => call' \in [Client -> [op : Ops, join : Slot \cup {None}]]
  BY DEF Enter, TypeOK
<1>l. Leave(c) => call' \in [Client -> [op : Ops, join : Slot \cup {None}]]
  BY <1>i DEF Leave, TypeOK
<1>s. \A resume \in BOOLEAN : Started(resume) \in [state : {"running"}, committed : Nat]
  BY DEF Started, TypeOK
<1>g. Gone \in Threads /\ Fresh(TRUE) \in Threads /\ Fresh(FALSE) \in Threads
  BY ThreadsTyped
<1>1. CASE Join(c)
  <2>1. call[c].join \in Slot
    BY <1>1, <1>c DEF Join
  <2>2. worker' \in [Slot -> Threads]
    BY <1>1, <2>1, <1>g, OneWorker DEF Join
  <2>3. call' \in [Client -> [op : Ops, join : Slot \cup {None}]]
    BY <1>1, <1>c, <1>e, <1>l DEF Join
  <2> QED BY <1>1, <2>2, <2>3 DEF Join, TypeOK
<1>2. CASE Answer(c) \/ StartRefused(c)
  BY <1>2, <1>l DEF Answer, StartRefused, TypeOK
<1>3. CASE Start(c)
  <2>1. FreeSlot \in Slot
    BY <1>3 DEF Start, FreeSlot
  <2>2. worker' \in [Slot -> Threads]
    BY <1>3, <2>1, <1>g, OneWorker DEF Start
  <2>3. job' \in [state : {"idle", "running", "stopped", "failed"}, committed : Nat]
    BY <1>3, <1>s DEF Start
  <2> QED BY <1>3, <1>l, <2>1, <2>2, <2>3 DEF Start, TypeOK
<1>4. CASE StartOverWorker(c)
  <2>1. Started(call[c].op = "resume") \in [state : {"idle", "running", "stopped", "failed"}, committed : Nat]
    BY <1>s
  <2> QED BY <1>4, <2>1, ReloadTyped DEF StartOverWorker, TypeOK
<1>5. CASE ShutdownEnd(c)
  <2>1. job \in [state : {"idle", "running", "stopped", "failed"}, committed : Nat]
    BY DEF TypeOK
  <2>2. stored' \in SUBSET Contents /\ staged' \in SUBSET Contents
    BY <1>5 DEF ShutdownEnd, TypeOK
  <2> QED BY <1>5, <2>1, <2>2, ReloadTyped DEF ShutdownEnd, TypeOK
<1> QED BY <1>1, <1>2, <1>3, <1>4, <1>5 DEF CallStep

LEMMA OtherStepTyped ==
  ASSUME TypeOK,
         \/ \E c \in Client, op \in {"start", "resume", "status"} : Reap(c, op)
         \/ \E c \in Client : Stop(c) \/ Shutdown(c)
         \/ Flush \/ AutoFlush
         \/ Kill \/ KillInPersist \/ KillInRecord \/ KillInManifest
         \/ \E i \in Editable : Edit(i)
  PROVE  TypeOK'
<1> USE DEF jobVars, storeVars, serverVars
<1>j. job \in [state : {"idle", "running", "stopped", "failed"}, committed : Nat]
  BY DEF TypeOK
<1>e. \A c \in Client, op \in Ops, join \in Slot \cup {None} :
        Enter(c, op, join) => call' \in [Client -> [op : Ops, join : Slot \cup {None}]]
  BY DEF Enter, TypeOK
<1>t. thread \in Slot \cup {None}
  BY DEF TypeOK
<1>s. Stopped \in [state : {"idle", "running", "stopped", "failed"}, committed : Nat]
  BY DEF Stopped, TypeOK
<1>1. ASSUME NEW c \in Client, NEW op \in {"start", "resume", "status"}, Reap(c, op)
      PROVE  TypeOK'
  <2>1. op \in Ops
    BY DEF Ops
  <2>2. call' \in [Client -> [op : Ops, join : Slot \cup {None}]]
    BY <1>1, <1>e, <1>t, <2>1 DEF Reap
  <2> QED BY <1>1, <2>2, <1>t DEF Reap, TypeOK
<1>2. ASSUME NEW c \in Client, Stop(c) \/ Shutdown(c)
      PROVE  TypeOK'
  <2>1. call' \in [Client -> [op : Ops, join : Slot \cup {None}]]
    BY <1>2, <1>e, <1>t DEF Stop, Shutdown, Ops, TypeOK
  <2>2. worker' \in [Slot -> Threads]
    BY <1>2, CancelledTyped DEF Stop, Shutdown
  <2> QED BY <1>2, <1>s, <2>1, <2>2 DEF Stop, Shutdown, TypeOK
<1>3. CASE Flush \/ AutoFlush
  BY <1>3 DEF Flush, AutoFlush, TypeOK
<1>4. CASE Kill
  BY <1>4, <1>j, ReloadTyped DEF Kill, TypeOK
<1>5. CASE KillInPersist
  <2>1. [state |-> "idle", committed |-> 0] \in [state : {"idle", "running", "stopped", "failed"}, committed : Nat]
    OBVIOUS
  <2> QED BY <1>5, <2>1, ReloadTyped DEF KillInPersist, TypeOK
<1>6. CASE KillInRecord
  <2>1. processed' \in SUBSET Contents
    BY <1>6 DEF KillInRecord, TypeOK, Threads
  <2> QED BY <1>6, <1>j, <2>1, ReloadTyped DEF KillInRecord, TypeOK
<1>7. CASE KillInManifest
  <2>1. manifest' \in [exists : BOOLEAN, digests : SUBSET Contents]
    BY <1>7 DEF KillInManifest, TypeOK, Threads
  <2> QED BY <1>7, <1>j, <2>1, ReloadTyped DEF KillInManifest, TypeOK
<1>8. ASSUME NEW i \in Editable, Edit(i)
      PROVE  TypeOK'
  BY <1>8 DEF Edit, TypeOK
<1> QED BY <1>1, <1>2, <1>3, <1>4, <1>5, <1>6, <1>7, <1>8

LEMMA NextTyped ==
  ASSUME TypeOK, [Next]_vars
  PROVE  TypeOK'
<1>1. CASE UNCHANGED vars
  BY <1>1 DEF vars, TypeOK
<1>2. CASE Next
  BY <1>2, WorkerStepTyped, CallStepTyped, OtherStepTyped DEF Next
<1> QED BY <1>1, <1>2

\* Every variable keeps its type.
THEOREM JobTyped == Spec => []TypeOK
<1>1. Init => TypeOK
  BY InitTyped
<1>2. TypeOK /\ [Next]_vars => TypeOK'
  BY NextTyped
<1> QED BY <1>1, <1>2, PTL DEF Spec

-----------------------------------------------------------------------------
(* Who joins which worker.                                                 *)

\* Whoever holds a worker holds one that has not been joined yet.
HeldIsThere ==
  /\ thread # None => worker[thread].at # "gone"
  /\ \A c \in Client : call[c].join # None => worker[call[c].join].at # "gone"

ThreadInv == JobHasWorker /\ JoinedOnce /\ HeldIsThere

\* A step of a worker leaves every other worker alone and, while the job runs
\* and the worker is not cancelled, does not end it.
LEMMA WorkerGoesOn ==
  ASSUME TypeOK, NEW w \in Slot, WorkerStep(w) \/ Throw(w) \/ ThrowInIngest(w)
  PROVE  /\ \A v \in Slot : v # w => worker'[v] = worker[v]
         /\ worker[w].at # "gone" /\ worker'[w].at # "gone"
         /\ thread' = thread /\ call' = call
         /\ Running' => Running
         /\ Running' /\ ~worker[w].cancelled /\ worker[w].at # "exit"
              => worker'[w].at \notin {"gone", "exit", "done"} /\ ~worker'[w].cancelled
<1> USE DEF jobVars, storeVars, serverVars, Set, Running
<1>1. worker \in [Slot -> Threads] /\ worker[w] \in Threads
  BY DEF TypeOK
<1>2. Gone.cancelled = FALSE
  BY DEF Gone
<1>3. \A at : [Gone EXCEPT !.at = at].at = at /\ [Gone EXCEPT !.at = at].cancelled = FALSE
  BY DEF Gone
<1>4. \A at : [worker[w] EXCEPT !.at = at].at = at
              /\ [worker[w] EXCEPT !.at = at].cancelled = worker[w].cancelled
  BY <1>1 DEF Threads
<1>5. CASE Begin(w)
  BY <1>1, <1>4, <1>5 DEF Begin, Move
<1>6. CASE CancelledInScan(w) \/ CancelledInIngest(w)
  BY <1>1, <1>3, <1>6 DEF CancelledInScan, CancelledInIngest, LeaveFor
<1>7. CASE Prepare(w)
  BY <1>1, <1>7 DEF Prepare, Threads
<1>8. CASE SkipUnchanged(w) \/ SkipCommitted(w) \/ SkipProcessed(w)
  <2>1. CASE SkipUnchanged(w)
    BY <1>1, <2>1 DEF SkipUnchanged, Building, Threads
  <2>2. CASE SkipCommitted(w)
    BY <1>1, <2>2 DEF SkipCommitted, Building, Threads
  <2>3. CASE SkipProcessed(w)
    BY <1>1, <2>3 DEF SkipProcessed, Building, Threads
  <2> QED BY <1>8, <2>1, <2>2, <2>3
<1>9. CASE Take(w)
  BY <1>1, <1>9 DEF Take, Building, Threads
<1>10. CASE EndBuild(w)
  BY <1>1, <1>10 DEF EndBuild, Threads
<1>11. CASE Ingest(w) \/ IngestAndCommit(w)
  <2>1. CASE Ingest(w)
    BY <1>1, <2>1 DEF Ingest, AfterIngest, Threads
  <2>2. CASE IngestAndCommit(w)
    BY <1>1, <2>2 DEF IngestAndCommit, AfterIngest, Threads
  <2> QED BY <1>11, <2>1, <2>2
<1>12. CASE Record(w)
  BY <1>1, <1>12 DEF Record, Threads
<1>13. CASE Report(w)
  BY <1>1, <1>4, <1>13 DEF Report, Move, UpdateProgress, TypeOK
<1>14. CASE WriteManifests(w)
  BY <1>1, <1>4, <1>14 DEF WriteManifests, Move
<1>15. CASE CompleteJob(w) \/ FailJob(w)
  <2>1. ~Running'
    BY <1>15 DEF CompleteJob, FailJob, Complete, Fail, TypeOK
  <2>2. worker' = [worker EXCEPT ![w] = [Gone EXCEPT !.at = "exit"]]
    BY <1>15 DEF CompleteJob, FailJob, LeaveFor
  <2>3. worker[w].at # "gone" /\ thread' = thread /\ call' = call
    BY <1>15 DEF CompleteJob, FailJob
  <2> QED BY <1>1, <1>3, <2>1, <2>2, <2>3
<1>16. CASE Exit(w)
  BY <1>1, <1>3, <1>16 DEF Exit, LeaveFor
<1>17. CASE Throw(w) \/ ThrowInIngest(w)
  <2>1. worker' = [worker EXCEPT ![w] =
                     [Gone EXCEPT !.at = IF worker[w].cancelled THEN "exit" ELSE "failing"]]
    BY <1>17 DEF Throw, ThrowInIngest, LeaveFor
  <2>2. worker[w].at # "gone" /\ thread' = thread /\ call' = call /\ job' = job
    BY <1>17 DEF Throw, ThrowInIngest
  <2> QED BY <1>1, <1>3, <2>1, <2>2
<1> QED
  BY <1>5, <1>6, <1>7, <1>8, <1>9, <1>10, <1>11, <1>12, <1>13, <1>14, <1>15, <1>16, <1>17
  DEF WorkerStep

\* A new process has neither a job that runs nor a worker that can be joined.
LEMMA ReloadHoldsNothing ==
  ASSUME TypeOK, NEW loaded \in [state : {"idle", "running", "stopped", "failed"}, committed : Nat],
         Reload(loaded)
  PROVE  ThreadInv'
<1>1. ~Running'
  BY DEF Reload, Running
<1>2. thread' = None /\ \A c \in Client : call'[c].join = None
  BY DEF Reload, Idle
<1> QED BY <1>1, <1>2 DEF ThreadInv, JobHasWorker, JoinedOnce, HeldIsThere

LEMMA CallKeepsThreads ==
  ASSUME TypeOK, ThreadInv, NEW c \in Client, CallStep(c)
  PROVE  ThreadInv'
<1> USE DEF jobVars, storeVars, serverVars, Set, Enter, Leave
<1>t. /\ worker \in [Slot -> Threads] /\ thread \in Slot \cup {None}
      /\ call \in [Client -> [op : Ops, join : Slot \cup {None}]]
      /\ job \in [state : {"idle", "running", "stopped", "failed"}, committed : Nat]
  BY DEF TypeOK
<1>i. Idle.join = None /\ Gone.at = "gone"
  BY DEF Idle, Gone
<1>s. \A resume \in BOOLEAN : Started(resume) \in [state : {"running"}, committed : Nat]
  BY <1>t DEF Started
<1>1. CASE Join(c)
  <2>1. call[c].join \in Slot /\ call[c].join # thread
    BY <1>1, <1>t DEF Join, ThreadInv, JoinedOnce
  <2>2. \A w \in Slot : w # call[c].join => worker'[w] = worker[w]
    BY <1>1, <1>t, <2>1 DEF Join
  <2>3. call'[c].join = None /\ \A d \in Client : d # c => call'[d] = call[d]
    BY <1>1, <1>t, <1>i DEF Join
  <2>4. JobHasWorker'
    BY <1>1, <1>t, <2>1, <2>2 DEF Join, ThreadInv, JobHasWorker, Running, Live
  <2>5. JoinedOnce'
    BY <1>1, <2>3 DEF Join, ThreadInv, JoinedOnce
  <2>6. HeldIsThere'
    BY <1>1, <1>t, <2>1, <2>2, <2>3 DEF Join, ThreadInv, JoinedOnce, HeldIsThere
  <2> QED BY <2>4, <2>5, <2>6 DEF ThreadInv
<1>2. CASE Answer(c) \/ StartRefused(c)
  <2>1. call'[c].join = None /\ \A d \in Client : d # c => call'[d] = call[d]
    BY <1>2, <1>t, <1>i DEF Answer, StartRefused
  <2>2. UNCHANGED <<job, worker, thread>>
    BY <1>2 DEF Answer, StartRefused
  <2> QED BY <2>1, <2>2 DEF ThreadInv, JobHasWorker, JoinedOnce, HeldIsThere, Running, Live
<1>3. CASE Start(c)
  <2>1. FreeSlot \in Slot /\ worker[FreeSlot] = Gone
    BY <1>3 DEF Start, FreeSlot
  <2>2. thread' = FreeSlot /\ thread' # None
    BY <1>3, <2>1, JobAssumption DEF Start
  <2>3. worker'[FreeSlot] = Fresh(call[c].op = "resume")
    BY <1>3, <1>t, <2>1 DEF Start
  <2>4. worker'[FreeSlot].at = "begin" /\ worker'[FreeSlot].cancelled = FALSE
    BY <2>3 DEF Fresh, Gone
  <2>5. \A w \in Slot : w # FreeSlot => worker'[w] = worker[w]
    BY <1>3, <1>t, <2>1 DEF Start
  <2>6. call'[c].join = None /\ \A d \in Client : d # c => call'[d] = call[d]
    BY <1>3, <1>t, <1>i DEF Start
  <2>7. \A d \in Client : call[d].join # None => call[d].join # FreeSlot
    BY <1>i, <2>1 DEF ThreadInv, HeldIsThere
  <2>8. JobHasWorker'
    BY <2>2, <2>4 DEF JobHasWorker, Live
  <2>9. JoinedOnce'
    BY <2>2, <2>6, <2>7 DEF ThreadInv, JoinedOnce
  <2>10. HeldIsThere'
    BY <1>t, <2>2, <2>4, <2>5, <2>6, <2>7 DEF ThreadInv, HeldIsThere
  <2> QED BY <2>8, <2>9, <2>10 DEF ThreadInv
<1>4. CASE StartOverWorker(c)
  BY <1>4, <1>s, ReloadHoldsNothing DEF StartOverWorker
<1>5. CASE ShutdownEnd(c)
  BY <1>5, <1>t, ReloadHoldsNothing DEF ShutdownEnd
<1> QED BY <1>1, <1>2, <1>3, <1>4, <1>5 DEF CallStep

\* A call that takes the worker out of its place leaves no job running.
LEMMA TakenOutKeepsThreads ==
  ASSUME TypeOK, ThreadInv, NEW c \in Client,
         ~Running', call[c].join = None, thread' = None,
         \A w \in Slot : worker'[w].at = worker[w].at,
         \A d \in Client : d # c => call'[d] = call[d],
         call'[c].join = thread
  PROVE  ThreadInv'
<1>1. JobHasWorker'
  BY DEF JobHasWorker
<1>2. JoinedOnce'
  BY DEF ThreadInv, JoinedOnce
<1>3. HeldIsThere'
  BY DEF ThreadInv, HeldIsThere, TypeOK
<1> QED BY <1>1, <1>2, <1>3 DEF ThreadInv

LEMMA NextKeepsThreads ==
  ASSUME TypeOK, ThreadInv, [Next]_vars
  PROVE  ThreadInv'
<1> USE DEF jobVars, storeVars, serverVars
<1>t. /\ worker \in [Slot -> Threads] /\ thread \in Slot \cup {None}
      /\ call \in [Client -> [op : Ops, join : Slot \cup {None}]]
      /\ job \in [state : {"idle", "running", "stopped", "failed"}, committed : Nat]
  BY DEF TypeOK
<1>i. Idle.join = None
  BY DEF Idle
<1>c. \A w \in Slot : Cancelled[w].at = worker[w].at
  <2>1. \A w \in Slot : [worker[w] EXCEPT !.cancelled = TRUE].at = worker[w].at
    BY <1>t DEF Threads
  <2> QED BY <2>1 DEF Cancelled
<1>1. CASE UNCHANGED <<job, worker, thread, call>>
  BY <1>1 DEF ThreadInv, JobHasWorker, JoinedOnce, HeldIsThere, Running, Live
<1>2. ASSUME NEW w \in Slot, WorkerStep(w) \/ Throw(w) \/ ThrowInIngest(w)
      PROVE  ThreadInv'
  <2>1. /\ \A v \in Slot : v # w => worker'[v] = worker[v]
        /\ worker[w].at # "gone" /\ worker'[w].at # "gone"
        /\ thread' = thread /\ call' = call
        /\ Running' => Running
        /\ Running' /\ ~worker[w].cancelled /\ worker[w].at # "exit"
             => worker'[w].at \notin {"gone", "exit", "done"} /\ ~worker'[w].cancelled
    BY <1>2, WorkerGoesOn
  <2>2. JobHasWorker'
    BY <1>t, <2>1 DEF ThreadInv, JobHasWorker, Live
  <2>3. JoinedOnce'
    BY <2>1 DEF ThreadInv, JoinedOnce
  <2>4. HeldIsThere'
    BY <1>t, <2>1 DEF ThreadInv, HeldIsThere
  <2> QED BY <2>2, <2>3, <2>4 DEF ThreadInv
<1>3. ASSUME NEW c \in Client, CallStep(c)
      PROVE  ThreadInv'
  BY <1>3, CallKeepsThreads
<1>4. ASSUME NEW c \in Client, NEW op \in {"start", "resume", "status"}, Reap(c, op)
      PROVE  ThreadInv'
  <2>1. call[c].join = None /\ \A d \in Client : d # c => call'[d] = call[d]
    BY <1>4, <1>t, <1>i DEF Reap, Enter
  <2>2. CASE Running
    <3>1. call'[c].join = None /\ UNCHANGED <<job, worker, thread>>
      BY <1>4, <1>t, <2>2 DEF Reap, Enter
    <3> QED BY <2>1, <3>1 DEF ThreadInv, JobHasWorker, JoinedOnce, HeldIsThere, Running, Live
  <2>3. CASE ~Running
    <3>1. call'[c].join = thread /\ UNCHANGED <<job, worker>> /\ thread' = None
      BY <1>4, <1>t, <2>3 DEF Reap, Enter
    <3> QED BY <2>1, <2>3, <3>1, TakenOutKeepsThreads DEF Running
  <2> QED BY <2>2, <2>3
<1>5. ASSUME NEW c \in Client, Stop(c)
      PROVE  ThreadInv'
  <2>1. ~Running'
    BY <1>5, <1>t DEF Stop, Stopped, Running
  <2>2. call[c].join = None /\ \A d \in Client : d # c => call'[d] = call[d]
    BY <1>5, <1>t, <1>i DEF Stop, Enter
  <2>3. call'[c].join = thread
    BY <1>5, <1>t, <1>i DEF Stop, Enter
  <2> QED BY <1>5, <1>c, <2>1, <2>2, <2>3, TakenOutKeepsThreads DEF Stop
<1>6. ASSUME NEW c \in Client, Shutdown(c)
      PROVE  ThreadInv'
  <2>1. ~Running'
    BY <1>6, <1>t DEF Shutdown, Stopped, Running
  <2>2. call[c].join = None /\ \A d \in Client : d # c => call'[d] = call[d]
    BY <1>6, <1>t, <1>i DEF Shutdown, Enter
  <2>3. call'[c].join = thread
    BY <1>6, <1>t DEF Shutdown, Enter
  <2> QED BY <1>6, <1>c, <2>1, <2>2, <2>3, TakenOutKeepsThreads DEF Shutdown
<1>7. CASE Flush \/ AutoFlush
  BY <1>1, <1>7 DEF Flush, AutoFlush
<1>8. CASE Kill \/ KillInPersist \/ KillInRecord \/ KillInManifest
  <2>1. [state |-> "idle", committed |-> 0]
          \in [state : {"idle", "running", "stopped", "failed"}, committed : Nat]
    OBVIOUS
  <2> QED BY <1>8, <1>t, <2>1, ReloadHoldsNothing DEF Kill, KillInPersist, KillInRecord, KillInManifest
<1>9. ASSUME NEW i \in Editable, Edit(i)
      PROVE  ThreadInv'
  BY <1>1, <1>9 DEF Edit
<1>10. CASE UNCHANGED vars
  BY <1>1, <1>10 DEF vars
<1> QED BY <1>2, <1>3, <1>4, <1>5, <1>6, <1>7, <1>8, <1>9, <1>10 DEF Next

\* Types and threads together.
LEMMA ThreadsInvariant == Spec => [](TypeOK /\ ThreadInv)
<1>1. Init => TypeOK /\ ThreadInv
  <2>1. Init => ThreadInv
    BY DEF Init, ThreadInv, JobHasWorker, JoinedOnce, HeldIsThere, Running, Idle
  <2> QED BY <2>1, InitTyped
<1>2. TypeOK /\ ThreadInv /\ [Next]_vars => (TypeOK /\ ThreadInv)'
  BY NextTyped, NextKeepsThreads
<1> QED BY <1>1, <1>2, PTL DEF Spec

\* A job that runs has a worker that index.stop can reach and that will end
\* the job, for any number of clients, workers and chunks.
THEOREM RunningJobHasWorker == Spec => []JobHasWorker
<1>1. ThreadInv => JobHasWorker
  BY DEF ThreadInv
<1> QED BY <1>1, ThreadsInvariant, PTL

\* No thread is joined twice, whichever calls come together.
THEOREM WorkerJoinedOnce == Spec => []JoinedOnce
<1>1. ThreadInv => JoinedOnce
  BY DEF ThreadInv
<1> QED BY <1>1, ThreadsInvariant, PTL

-----------------------------------------------------------------------------
(***************************************************************************)
(* What the checkpoint files let a resumed job skip is in the              *)
(* store, for jobs without a cap and files that change only once a         *)
(* manifest exists.                                                        *)
(*                                                                         *)
(* The invariant says what the locals r of a worker that builds or ingests *)
(* have to do with the store: st committed, sg put, and ver in the files.  *)
(* Its parts are operators of the constant level, so that a step can be    *)
(* applied to the store and to the locals one after the other.             *)
(***************************************************************************)
Busy(r) == r.at \in {"build", "ingest", "record", "report", "manifest", "complete"}

\* What the worker has seen to: in its batch, put by it, or committed.
SeenTo(r, st, sg) == r.batch \cup st \cup (IF r.unflushed THEN sg ELSE {})

\* The files in front of the next one, and those still to be skipped.
PassesWhatIsSeenTo(r, st, sg, ver) ==
  \A i \in Chunk : i < r.next + r.skip => <<i, ver[i]>> \in SeenTo(r, st, sg)

SkipsWhatIsStored(r, st, ver) ==
  /\ r.skip > 0 => r.same = {}
  /\ \A i \in r.same : <<i, ver[i]>> \in st
  /\ r.known \subseteq st

\* Chunks are counted at most once each, and only those in front of the next.
CountsWhatIsStored(r, st, ver) ==
  /\ r.indexed + Cardinality(Texts(r.batch)) < r.next
  /\ \A i \in Chunk : i <= r.committed => <<i, ver[i]>> \in st

WritesWhatIsStored(r, st, sg, ver) ==
  /\ r.digests = {<<i, ver[i]>> : i \in Chunk}
  /\ r.ids \subseteq SeenTo(r, st, sg)
  /\ r.at \in {"record", "report", "manifest", "complete"} => r.batch = {}
  /\ r.at \in {"record", "manifest", "complete"} \/ (r.at = "report" /\ r.last) => ~r.unflushed
  /\ r.at \in {"manifest", "complete"} => r.last
  /\ r.last /\ ~r.cancelled => r.next > NumChunks

Keeps(r, st, sg, ver) ==
  /\ PassesWhatIsSeenTo(r, st, sg, ver)
  /\ SkipsWhatIsStored(r, st, ver)
  /\ CountsWhatIsStored(r, st, ver)
  /\ WritesWhatIsStored(r, st, sg, ver)

\* A worker that has not begun to build has its locals as they were created.
Unused(r) ==
  /\ r.next = 1 /\ r.batch = {} /\ r.ids = {} /\ r.indexed = 0 /\ r.committed = 0
  /\ ~r.unflushed /\ ~r.last

WorkersKeep ==
  \A w \in Slot : /\ Busy(worker[w]) => Keeps(worker[w], stored, staged, version)
                  /\ worker[w].at \in {"begin", "prepare"} => Unused(worker[w])

NoManifestNoDigests == ~manifest.exists => manifest.digests = {}

FilesListStored == NoManifestNoDigests /\ ManifestIsIndexed /\ CheckpointIsBacked

ResumeInv == WorkersKeep /\ FilesListStored

-----------------------------------------------------------------------------
(* What a step does to the locals, for any store.                          *)

\* Commits and puts of others take nothing away from a worker.
LEMMA KeepsGrows ==
  ASSUME NEW r \in Threads, NEW st, NEW sg, NEW st2, NEW sg2, NEW ver,
         st \subseteq st2, st \cup sg \subseteq st2 \cup sg2,
         Keeps(r, st, sg, ver)
  PROVE  Keeps(r, st2, sg2, ver)
<1>1. SeenTo(r, st, sg) \subseteq SeenTo(r, st2, sg2)
  BY DEF SeenTo
<1>2. PassesWhatIsSeenTo(r, st2, sg2, ver)
  BY <1>1 DEF Keeps, PassesWhatIsSeenTo
<1>3. SkipsWhatIsStored(r, st2, ver)
  BY DEF Keeps, SkipsWhatIsStored
<1>4. CountsWhatIsStored(r, st2, ver)
  BY DEF Keeps, CountsWhatIsStored
<1>5. WritesWhatIsStored(r, st2, sg2, ver)
  BY <1>1 DEF Keeps, WritesWhatIsStored
<1> QED BY <1>2, <1>3, <1>4, <1>5 DEF Keeps

\* A file that is passed because it is in the store.
LEMMA PassKeeps ==
  ASSUME NEW r \in Threads, NEW st, NEW sg, NEW ver,
         Keeps(r, st, sg, ver), r.at = "build", r.skip = 0,
         r.next \in Chunk => <<r.next, ver[r.next]>> \in st
  PROVE  Keeps([r EXCEPT !.next = r.next + 1], st, sg, ver)
<1> DEFINE q == [r EXCEPT !.next = r.next + 1]
<1>1. /\ q.at = r.at /\ q.cancelled = r.cancelled /\ q.next = r.next + 1 /\ q.skip = r.skip
      /\ q.digests = r.digests /\ q.same = r.same /\ q.known = r.known /\ q.batch = r.batch
      /\ q.ids = r.ids /\ q.indexed = r.indexed /\ q.committed = r.committed
      /\ q.unflushed = r.unflushed /\ q.last = r.last
  BY DEF Threads
<1>2. /\ r.next \in Nat /\ r.indexed \in Nat
      /\ Cardinality(Texts(r.batch)) \in Nat /\ NumChunks \in Nat
  <2>1. Texts(r.batch) \in SUBSET Contents
    BY DEF Threads, Texts
  <2> QED BY <2>1, ChunksFinite, JobAssumption DEF Threads
<1> HIDE DEF q
<1>3. SeenTo(q, st, sg) = SeenTo(r, st, sg) /\ st \subseteq SeenTo(r, st, sg)
  BY <1>1 DEF SeenTo
<1>4. PassesWhatIsSeenTo(q, st, sg, ver)
  <2>1. ASSUME NEW i \in Chunk, i < q.next + q.skip
        PROVE  i < r.next + r.skip \/ i = r.next
    BY <1>1, <1>2, <2>1 DEF Chunk
  <2> QED BY <1>3, <2>1 DEF Keeps, PassesWhatIsSeenTo
<1>5. SkipsWhatIsStored(q, st, ver)
  BY <1>1 DEF Keeps, SkipsWhatIsStored
<1>6. CountsWhatIsStored(q, st, ver)
  BY <1>1, <1>2 DEF Keeps, CountsWhatIsStored
<1>7. WritesWhatIsStored(q, st, sg, ver)
  BY <1>1, <1>2, <1>3 DEF Keeps, WritesWhatIsStored
<1>8. Keeps(q, st, sg, ver)
  BY <1>4, <1>5, <1>6, <1>7 DEF Keeps
<1> QED BY <1>8 DEF q

\* A file that is passed because the count of committed chunks covers it.
LEMMA SkipKeeps ==
  ASSUME NEW r \in Threads, NEW st, NEW sg, NEW ver,
         Keeps(r, st, sg, ver), r.at = "build", r.skip > 0
  PROVE  Keeps([r EXCEPT !.next = r.next + 1, !.skip = r.skip - 1], st, sg, ver)
<1> DEFINE q == [r EXCEPT !.next = r.next + 1, !.skip = r.skip - 1]
<1>1. /\ q.at = r.at /\ q.cancelled = r.cancelled /\ q.next = r.next + 1 /\ q.skip = r.skip - 1
      /\ q.digests = r.digests /\ q.same = r.same /\ q.known = r.known /\ q.batch = r.batch
      /\ q.ids = r.ids /\ q.indexed = r.indexed /\ q.committed = r.committed
      /\ q.unflushed = r.unflushed /\ q.last = r.last
  BY DEF Threads
<1>2. /\ r.next \in Nat /\ r.indexed \in Nat /\ r.skip \in Nat
      /\ Cardinality(Texts(r.batch)) \in Nat /\ NumChunks \in Nat
  <2>1. Texts(r.batch) \in SUBSET Contents
    BY DEF Threads, Texts
  <2> QED BY <2>1, ChunksFinite, JobAssumption DEF Threads
<1> HIDE DEF q
<1>3. SeenTo(q, st, sg) = SeenTo(r, st, sg)
  BY <1>1 DEF SeenTo
<1>4. PassesWhatIsSeenTo(q, st, sg, ver)
  <2>1. q.next + q.skip = r.next + r.skip
    BY <1>1, <1>2
  <2> QED BY <1>3, <2>1 DEF Keeps, PassesWhatIsSeenTo
<1>5. SkipsWhatIsStored(q, st, ver)
  <2>1. r.same = {}
    BY DEF Keeps, SkipsWhatIsStored
  <2> QED BY <1>1, <2>1 DEF Keeps, SkipsWhatIsStored
<1>6. CountsWhatIsStored(q, st, ver)
  BY <1>1, <1>2 DEF Keeps, CountsWhatIsStored
<1>7. WritesWhatIsStored(q, st, sg, ver)
  BY <1>1, <1>2, <1>3 DEF Keeps, WritesWhatIsStored
<1>8. Keeps(q, st, sg, ver)
  BY <1>4, <1>5, <1>6, <1>7 DEF Keeps
<1> QED BY <1>8 DEF q

\* A file that goes into the batch.
LEMMA TakeKeeps ==
  ASSUME NEW r \in Threads, NEW st, NEW sg, NEW ver \in [Chunk -> {1, 2}],
         Keeps(r, st, sg, ver), r.at = "build", r.skip = 0, r.next \in Chunk,
         NEW at \in {"build", "ingest"}
  PROVE  Keeps([r EXCEPT !.next = r.next + 1,
                         !.batch = r.batch \cup {<<r.next, ver[r.next]>>},
                         !.ids = r.ids \cup {<<r.next, ver[r.next]>>},
                         !.at = at], st, sg, ver)
<1> DEFINE now == <<r.next, ver[r.next]>>
           q == [r EXCEPT !.next = r.next + 1, !.batch = r.batch \cup {now},
                          !.ids = r.ids \cup {now}, !.at = at]
<1> HIDE DEF now
<1>1. /\ q.at = at /\ q.cancelled = r.cancelled /\ q.next = r.next + 1 /\ q.skip = r.skip
      /\ q.digests = r.digests /\ q.same = r.same /\ q.known = r.known
      /\ q.batch = r.batch \cup {now} /\ q.ids = r.ids \cup {now}
      /\ q.indexed = r.indexed /\ q.committed = r.committed
      /\ q.unflushed = r.unflushed /\ q.last = r.last
  BY DEF Threads
<1>2. r.next \in Nat /\ r.indexed \in Nat /\ NumChunks \in Nat
  BY JobAssumption DEF Threads
<1>c. Cardinality(Texts(q.batch)) \in Nat /\ Cardinality(Texts(r.batch)) \in Nat
      /\ Cardinality(Texts(q.batch)) <= Cardinality(Texts(r.batch)) + 1
  <2>1. now \in Contents
    BY DEF now, Contents
  <2>2. Texts(r.batch) \in SUBSET Contents
    BY DEF Threads, Texts
  <2>3. IsFiniteSet(Texts(r.batch)) /\ Cardinality(Texts(r.batch)) \in Nat
    BY <2>2, ChunksFinite
  <2>4. Texts(q.batch) = Texts(r.batch) \/ Texts(q.batch) = Texts(r.batch) \cup {now}
    BY <1>1 DEF Texts
  <2>5. Cardinality(Texts(r.batch) \cup {now})
          = IF now \in Texts(r.batch) THEN Cardinality(Texts(r.batch))
                                      ELSE Cardinality(Texts(r.batch)) + 1
    BY <2>3, FS_AddElement
  <2>6. CASE Texts(q.batch) = Texts(r.batch)
    BY <2>3, <2>6
  <2>7. CASE Texts(q.batch) = Texts(r.batch) \cup {now}
    <3> DEFINE n == Cardinality(Texts(r.batch))
               m == Cardinality(Texts(q.batch))
    <3>1. n \in Nat /\ (m = n \/ m = n + 1)
      BY <2>3, <2>5, <2>7
    <3> HIDE DEF n, m
    <3>2. m \in Nat /\ n \in Nat /\ m <= n + 1
      BY <3>1
    <3> QED BY <3>2 DEF n, m
  <2> QED BY <2>4, <2>6, <2>7
<1> HIDE DEF q
<1>3. SeenTo(q, st, sg) = SeenTo(r, st, sg) \cup {now}
  BY <1>1 DEF SeenTo
<1>4. PassesWhatIsSeenTo(q, st, sg, ver)
  <2>1. ASSUME NEW i \in Chunk, i < q.next + q.skip
        PROVE  i < r.next + r.skip \/ i = r.next
    BY <1>1, <1>2, <2>1 DEF Chunk
  <2> QED BY <1>3, <2>1 DEF Keeps, PassesWhatIsSeenTo, now
<1>5. SkipsWhatIsStored(q, st, ver)
  BY <1>1 DEF Keeps, SkipsWhatIsStored
<1>6. CountsWhatIsStored(q, st, ver)
  <2>1. q.indexed + Cardinality(Texts(q.batch)) < q.next
    BY <1>1, <1>2, <1>c DEF Keeps, CountsWhatIsStored
  <2> QED BY <1>1, <2>1 DEF Keeps, CountsWhatIsStored
<1>7. WritesWhatIsStored(q, st, sg, ver)
  BY <1>1, <1>2, <1>3 DEF Keeps, WritesWhatIsStored
<1>8. Keeps(q, st, sg, ver)
  BY <1>4, <1>5, <1>6, <1>7 DEF Keeps
<1> QED BY <1>8 DEF q, now

\* The second Build ends.
LEMMA EndBuildKeeps ==
  ASSUME NEW r \in Threads, NEW st, NEW sg, NEW ver,
         Keeps(r, st, sg, ver), r.at = "build", r.next > NumChunks \/ r.cancelled
  PROVE  Keeps([r EXCEPT !.at = "ingest", !.last = TRUE], st, sg, ver)
<1> DEFINE q == [r EXCEPT !.at = "ingest", !.last = TRUE]
<1>1. /\ q.at = "ingest" /\ q.cancelled = r.cancelled /\ q.next = r.next /\ q.skip = r.skip
      /\ q.digests = r.digests /\ q.same = r.same /\ q.known = r.known /\ q.batch = r.batch
      /\ q.ids = r.ids /\ q.indexed = r.indexed /\ q.committed = r.committed
      /\ q.unflushed = r.unflushed /\ q.last = TRUE
  BY DEF Threads
<1> HIDE DEF q
<1>2. SeenTo(q, st, sg) = SeenTo(r, st, sg)
  BY <1>1 DEF SeenTo
<1>3. PassesWhatIsSeenTo(q, st, sg, ver)
  BY <1>1, <1>2 DEF Keeps, PassesWhatIsSeenTo
<1>4. SkipsWhatIsStored(q, st, ver)
  BY <1>1 DEF Keeps, SkipsWhatIsStored
<1>5. CountsWhatIsStored(q, st, ver)
  BY <1>1 DEF Keeps, CountsWhatIsStored
<1>6. WritesWhatIsStored(q, st, sg, ver)
  BY <1>1, <1>2 DEF Keeps, WritesWhatIsStored
<1>7. Keeps(q, st, sg, ver)
  BY <1>3, <1>4, <1>5, <1>6 DEF Keeps
<1> QED BY <1>7 DEF q

\* The batch is put, and with it everything the worker has put may be committed.
LEMMA IngestKeeps ==
  ASSUME NEW r \in Threads, NEW st, NEW sg, NEW st2, NEW sg2, NEW ver,
         Keeps(r, st, sg, ver), r.at = "ingest",
         NEW committed \in Nat, NEW unflushed \in BOOLEAN, NEW at \in {"record", "report"},
         NEW n \in Nat, n = r.indexed + Cardinality(Texts(r.batch)),
         st \subseteq st2,
         \/ st2 = st /\ sg2 = sg \cup r.batch /\ committed = r.committed
            /\ unflushed = (r.unflushed \/ r.batch # {})
         \/ st2 = st \cup sg \cup r.batch /\ committed = n /\ ~unflushed,
         at = "record" \/ r.last => ~unflushed
  PROVE  Keeps([r EXCEPT !.batch = {}, !.indexed = n, !.committed = committed,
                         !.unflushed = unflushed, !.at = at], st2, sg2, ver)
<1> DEFINE q == [r EXCEPT !.batch = {}, !.indexed = n, !.committed = committed,
                          !.unflushed = unflushed, !.at = at]
<1>1. /\ q.at = at /\ q.cancelled = r.cancelled /\ q.next = r.next /\ q.skip = r.skip
      /\ q.digests = r.digests /\ q.same = r.same /\ q.known = r.known /\ q.batch = {}
      /\ q.ids = r.ids /\ q.indexed = n /\ q.committed = committed
      /\ q.unflushed = unflushed /\ q.last = r.last
  BY DEF Threads
<1>2. /\ r.next \in Nat /\ r.skip \in Nat
      /\ n < r.next /\ \A i \in Chunk : i <= n => i < r.next + r.skip
  BY DEF Threads, Keeps, CountsWhatIsStored, Chunk
<1> HIDE DEF q
<1>3. SeenTo(r, st, sg) \subseteq SeenTo(q, st2, sg2)
  BY <1>1 DEF SeenTo
<1>4. ~unflushed /\ committed = n /\ st2 = st \cup sg \cup r.batch => SeenTo(r, st, sg) \subseteq st2
  BY DEF SeenTo
<1>5. PassesWhatIsSeenTo(q, st2, sg2, ver)
  BY <1>1, <1>3 DEF Keeps, PassesWhatIsSeenTo
<1>6. SkipsWhatIsStored(q, st2, ver)
  BY <1>1 DEF Keeps, SkipsWhatIsStored
<1>7. CountsWhatIsStored(q, st2, ver)
  <2>1. Texts({}) = {} /\ Cardinality({}) = 0
    BY FS_EmptySet DEF Texts
  <2>2. q.indexed + Cardinality(Texts(q.batch)) < q.next
    BY <1>1, <1>2, <2>1
  <2>3. \A i \in Chunk : i <= q.committed => <<i, ver[i]>> \in st2
    BY <1>1, <1>2, <1>4 DEF Keeps, PassesWhatIsSeenTo, CountsWhatIsStored
  <2> QED BY <2>2, <2>3 DEF CountsWhatIsStored
<1>8. WritesWhatIsStored(q, st2, sg2, ver)
  BY <1>1, <1>3 DEF Keeps, WritesWhatIsStored
<1>9. Keeps(q, st2, sg2, ver)
  BY <1>5, <1>6, <1>7, <1>8 DEF Keeps
<1> QED BY <1>9 DEF q

\* The ids of what is committed become known.
LEMMA RecordKeeps ==
  ASSUME NEW r \in Threads, NEW st, NEW sg, NEW ver,
         Keeps(r, st, sg, ver), r.at = "record"
  PROVE  /\ r.known \cup r.ids \subseteq st
         /\ Keeps([r EXCEPT !.at = "report", !.known = r.known \cup r.ids, !.ids = {}], st, sg, ver)
<1> DEFINE q == [r EXCEPT !.at = "report", !.known = r.known \cup r.ids, !.ids = {}]
<1>1. /\ q.at = "report" /\ q.cancelled = r.cancelled /\ q.next = r.next /\ q.skip = r.skip
      /\ q.digests = r.digests /\ q.same = r.same /\ q.known = r.known \cup r.ids
      /\ q.batch = r.batch /\ q.ids = {} /\ q.indexed = r.indexed /\ q.committed = r.committed
      /\ q.unflushed = r.unflushed /\ q.last = r.last
  BY DEF Threads
<1> HIDE DEF q
<1>2. SeenTo(q, st, sg) = SeenTo(r, st, sg)
  BY <1>1 DEF SeenTo
<1>3. SeenTo(r, st, sg) = st
  BY DEF SeenTo, Keeps, WritesWhatIsStored
<1>4. r.known \cup r.ids \subseteq st
  BY <1>3 DEF Keeps, SkipsWhatIsStored, WritesWhatIsStored
<1>5. PassesWhatIsSeenTo(q, st, sg, ver)
  BY <1>1, <1>2 DEF Keeps, PassesWhatIsSeenTo
<1>6. SkipsWhatIsStored(q, st, ver)
  BY <1>1, <1>4 DEF Keeps, SkipsWhatIsStored
<1>7. CountsWhatIsStored(q, st, ver)
  BY <1>1 DEF Keeps, CountsWhatIsStored
<1>8. WritesWhatIsStored(q, st, sg, ver)
  BY <1>1, <1>2 DEF Keeps, WritesWhatIsStored
<1>9. Keeps(q, st, sg, ver)
  BY <1>5, <1>6, <1>7, <1>8 DEF Keeps
<1> QED BY <1>4, <1>9 DEF q

\* From the report on to the next file or to the manifests, and past them.
LEMMA MoveKeeps ==
  ASSUME NEW r \in Threads, NEW st, NEW sg, NEW ver, NEW at,
         Keeps(r, st, sg, ver),
         \/ r.at = "report" /\ at = "build" /\ ~r.last
         \/ r.at = "report" /\ at = "manifest" /\ r.last
         \/ r.at = "manifest" /\ at = "complete"
  PROVE  Keeps([r EXCEPT !.at = at], st, sg, ver)
<1> DEFINE q == [r EXCEPT !.at = at]
<1>1. /\ q.at = at /\ q.cancelled = r.cancelled /\ q.next = r.next /\ q.skip = r.skip
      /\ q.digests = r.digests /\ q.same = r.same /\ q.known = r.known /\ q.batch = r.batch
      /\ q.ids = r.ids /\ q.indexed = r.indexed /\ q.committed = r.committed
      /\ q.unflushed = r.unflushed /\ q.last = r.last
  BY DEF Threads
<1> HIDE DEF q
<1>2. SeenTo(q, st, sg) = SeenTo(r, st, sg)
  BY <1>1 DEF SeenTo
<1>3. PassesWhatIsSeenTo(q, st, sg, ver)
  BY <1>1, <1>2 DEF Keeps, PassesWhatIsSeenTo
<1>4. SkipsWhatIsStored(q, st, ver)
  BY <1>1 DEF Keeps, SkipsWhatIsStored
<1>5. CountsWhatIsStored(q, st, ver)
  BY <1>1 DEF Keeps, CountsWhatIsStored
<1>6. WritesWhatIsStored(q, st, sg, ver)
  BY <1>1, <1>2 DEF Keeps, WritesWhatIsStored
<1>7. Keeps(q, st, sg, ver)
  BY <1>3, <1>4, <1>5, <1>6 DEF Keeps
<1> QED BY <1>7 DEF q

\* A worker whose flag is set goes on as it was.
LEMMA CancelKeeps ==
  ASSUME NEW r \in Threads, NEW st, NEW sg, NEW ver, Keeps(r, st, sg, ver)
  PROVE  Keeps([r EXCEPT !.cancelled = TRUE], st, sg, ver)
<1> DEFINE q == [r EXCEPT !.cancelled = TRUE]
<1>1. /\ q.at = r.at /\ q.cancelled = TRUE /\ q.next = r.next /\ q.skip = r.skip
      /\ q.digests = r.digests /\ q.same = r.same /\ q.known = r.known /\ q.batch = r.batch
      /\ q.ids = r.ids /\ q.indexed = r.indexed /\ q.committed = r.committed
      /\ q.unflushed = r.unflushed /\ q.last = r.last
  BY DEF Threads
<1> HIDE DEF q
<1>2. SeenTo(q, st, sg) = SeenTo(r, st, sg)
  BY <1>1 DEF SeenTo
<1>3. PassesWhatIsSeenTo(q, st, sg, ver)
  BY <1>1, <1>2 DEF Keeps, PassesWhatIsSeenTo
<1>4. SkipsWhatIsStored(q, st, ver)
  BY <1>1 DEF Keeps, SkipsWhatIsStored
<1>5. CountsWhatIsStored(q, st, ver)
  BY <1>1 DEF Keeps, CountsWhatIsStored
<1>6. WritesWhatIsStored(q, st, sg, ver)
  BY <1>1, <1>2 DEF Keeps, WritesWhatIsStored
<1>7. Keeps(q, st, sg, ver)
  BY <1>3, <1>4, <1>5, <1>6 DEF Keeps
<1> QED BY <1>7 DEF q

\* A worker that is about to build may skip what the checkpoint files list.
LEMMA PrepareKeeps ==
  ASSUME NEW r \in Threads, NEW st, NEW sg, NEW ver, Unused(r),
         NEW skip \in Nat, NEW same, NEW known, NEW digests,
         \A i \in Chunk : i <= skip => <<i, ver[i]>> \in st,
         skip > 0 => same = {},
         \A i \in same : <<i, ver[i]>> \in st,
         known \subseteq st,
         digests = {<<i, ver[i]>> : i \in Chunk}
  PROVE  Keeps([r EXCEPT !.at = "build", !.skip = skip, !.same = same,
                         !.known = known, !.digests = digests], st, sg, ver)
<1> DEFINE q == [r EXCEPT !.at = "build", !.skip = skip, !.same = same,
                          !.known = known, !.digests = digests]
<1>1. /\ q.at = "build" /\ q.next = 1 /\ q.skip = skip
      /\ q.digests = digests /\ q.same = same /\ q.known = known /\ q.batch = {}
      /\ q.ids = {} /\ q.indexed = 0 /\ q.committed = 0 /\ ~q.unflushed /\ ~q.last
  BY DEF Threads, Unused
<1> HIDE DEF q
<1>2. SeenTo(q, st, sg) = st
  BY <1>1 DEF SeenTo
<1>3. PassesWhatIsSeenTo(q, st, sg, ver)
  BY <1>1, <1>2 DEF PassesWhatIsSeenTo, Chunk
<1>4. SkipsWhatIsStored(q, st, ver)
  BY <1>1 DEF SkipsWhatIsStored
<1>5. CountsWhatIsStored(q, st, ver)
  <2>1. Cardinality(Texts({})) = 0
    BY FS_EmptySet DEF Texts
  <2> QED BY <1>1, <2>1 DEF CountsWhatIsStored, Chunk
<1>6. WritesWhatIsStored(q, st, sg, ver)
  BY <1>1, <1>2 DEF WritesWhatIsStored
<1> QED BY <1>3, <1>4, <1>5, <1>6 DEF Keeps, q

\* A worker that may write the manifest has seen every file into the store.
LEMMA ManifestMayBeWritten ==
  ASSUME NEW r \in Threads, NEW st, NEW sg, NEW ver,
         Keeps(r, st, sg, ver), r.at = "manifest", ~r.cancelled
  PROVE  r.digests \subseteq st
<1>1. SeenTo(r, st, sg) = st /\ r.next > NumChunks /\ r.digests = {<<i, ver[i]>> : i \in Chunk}
  BY DEF SeenTo, Keeps, WritesWhatIsStored
<1>2. \A i \in Chunk : i < r.next + r.skip
  BY <1>1, JobAssumption DEF Threads, Chunk
<1> QED BY <1>1, <1>2 DEF Keeps, PassesWhatIsSeenTo

-----------------------------------------------------------------------------
(* Steps.                                                                  *)

\* A store that only grows keeps what unchanged files list.
LEMMA FilesKeep ==
  ASSUME FilesListStored, UNCHANGED <<manifest, processed, version>>,
         stored \subseteq stored', job'.committed = job.committed
  PROVE  FilesListStored'
  BY DEF FilesListStored, NoManifestNoDigests, ManifestIsIndexed, CheckpointIsBacked, Now

LEMMA WorkerStepKeeps ==
  ASSUME TypeOK, ResumeInv, ChunkCap = 0,
         NEW w \in Slot, WorkerStep(w) \/ Throw(w) \/ ThrowInIngest(w)
  PROVE  /\ version' = version
         /\ stored \subseteq stored' /\ stored \cup staged \subseteq stored' \cup staged'
         /\ Busy(worker'[w]) => Keeps(worker'[w], stored', staged', version)
         /\ worker'[w].at \in {"begin", "prepare"} => Unused(worker'[w])
         /\ FilesListStored'
<1> DEFINE r == worker[w]
           q == worker'[w]
<1>r. r \in Threads /\ worker \in [Slot -> Threads]
  BY DEF TypeOK
<1>k. /\ Busy(r) => Keeps(r, stored, staged, version)
      /\ r.at \in {"begin", "prepare"} => Unused(r)
      /\ FilesListStored
  BY DEF ResumeInv, WorkersKeep
<1>l. ASSUME NEW at \in {"exit", "failing", "done"}, LeaveFor(w, at)
      PROVE  ~Busy(q) /\ q.at \notin {"begin", "prepare"}
  <2>1. q = [Gone EXCEPT !.at = at]
    BY <1>l, <1>r DEF LeaveFor, Set
  <2>2. q.at = at
    BY <2>1 DEF Gone
  <2> QED BY <2>2 DEF Busy
<1>v. \A i \in Chunk : Now(i) = <<i, version[i]>>
  BY DEF Now
<1> USE DEF jobVars, storeVars, serverVars
<1>1. CASE Begin(w)
  <2>1. q = [r EXCEPT !.at = "prepare"]
    BY <1>1, <1>r DEF Begin, Move, Set
  <2>2. q.at = "prepare" /\ Unused(r) => Unused(q)
    BY <2>1, <1>r DEF Unused, Threads
  <2>3. ~Busy(q) /\ Unused(q)
    BY <2>1, <2>2, <1>1, <1>k, <1>r DEF Busy, Begin, Threads
  <2> QED BY <1>1, <2>3, <1>k, FilesKeep DEF Begin
<1>2. CASE CancelledInScan(w) \/ CancelledInIngest(w)
  <2>1. ~Busy(q) /\ q.at \notin {"begin", "prepare"}
    BY <1>2, <1>l DEF CancelledInScan, CancelledInIngest
  <2> QED BY <1>2, <2>1, <1>k, FilesKeep DEF CancelledInScan, CancelledInIngest
<1>3. CASE Prepare(w)
  <2> DEFINE skip == IF r.resume /\ ~manifest.exists THEN job.committed ELSE 0
             same == IF r.resume THEN Unchanged(manifest.digests) ELSE {}
             digests == {Now(i) : i \in Chunk}
  <2>1. q = [r EXCEPT !.at = "build", !.skip = skip, !.same = same, !.known = processed',
                      !.digests = digests]
    BY <1>3, <1>r DEF Prepare, Set
  <2>2. skip \in Nat
    BY DEF TypeOK
  <2>3. \A i \in Chunk : i <= skip => <<i, version[i]>> \in stored
    BY <1>k, <1>v DEF FilesListStored, CheckpointIsBacked, Chunk
  <2>4. skip > 0 => same = {}
    BY <1>k DEF FilesListStored, NoManifestNoDigests, Unchanged
  <2>5. \A i \in same : <<i, version[i]>> \in stored
    BY <1>k, <1>v DEF FilesListStored, ManifestIsIndexed, Unchanged
  <2>6. processed' \subseteq stored
    BY <1>3, <1>k DEF Prepare, FilesListStored, CheckpointIsBacked
  <2>7. digests = {<<i, version[i]>> : i \in Chunk}
    BY <1>v
  <2>8. Unused(r)
    BY <1>3, <1>k DEF Prepare
  <2> HIDE DEF skip, same, digests
  <2>9. Keeps(q, stored, staged, version)
    <3> HIDE DEF r, q
    <3> QED BY <2>1, <2>2, <2>3, <2>4, <2>5, <2>6, <2>7, <2>8, <1>r, PrepareKeeps
  <2>10. q.at = "build"
    BY <2>1, <1>r DEF Threads
  <2>11. FilesListStored'
    BY <1>3, <1>k, <2>6
    DEF Prepare, FilesListStored, NoManifestNoDigests, ManifestIsIndexed, CheckpointIsBacked, Now
  <2> QED BY <1>3, <2>9, <2>10, <2>11 DEF Prepare
<1>4. CASE SkipUnchanged(w) \/ SkipProcessed(w)
  <2>1. r.at = "build" /\ Keeps(r, stored, staged, version)
    BY <1>4, <1>k DEF SkipUnchanged, SkipProcessed, Building, Busy
  <2>2. q = [r EXCEPT !.next = r.next + 1]
    BY <1>4, <1>r DEF SkipUnchanged, SkipProcessed, Set
  <2>3. r.skip = 0
    BY <1>4, <2>1, <1>r DEF SkipUnchanged, SkipProcessed, Keeps, SkipsWhatIsStored, Threads
  <2>4. r.next \in Chunk => <<r.next, version[r.next]>> \in stored
    BY <1>4, <2>1, <1>v DEF SkipUnchanged, SkipProcessed, IsKnown, Keeps, SkipsWhatIsStored
  <2>5. Keeps(q, stored, staged, version)
    <3> HIDE DEF r, q
    <3> QED BY <2>1, <2>2, <2>3, <2>4, <1>r, PassKeeps
  <2>6. q.at = "build"
    BY <2>1, <2>2, <1>r DEF Threads
  <2> QED BY <1>4, <2>5, <2>6, <1>k, FilesKeep DEF SkipUnchanged, SkipProcessed
<1>5. CASE SkipCommitted(w)
  <2>1. r.at = "build" /\ r.skip > 0 /\ Keeps(r, stored, staged, version)
    BY <1>5, <1>k DEF SkipCommitted, Building, Busy
  <2>2. q = [r EXCEPT !.next = r.next + 1, !.skip = r.skip - 1]
    BY <1>5, <1>r DEF SkipCommitted, Set
  <2>3. Keeps(q, stored, staged, version)
    <3> HIDE DEF r, q
    <3> QED BY <2>1, <2>2, <1>r, SkipKeeps
  <2>4. q.at = "build"
    BY <2>1, <2>2, <1>r DEF Threads
  <2> QED BY <1>5, <2>3, <2>4, <1>k, FilesKeep DEF SkipCommitted
<1>6. CASE Take(w)
  <2>1. r.at = "build" /\ r.skip = 0 /\ Keeps(r, stored, staged, version)
    BY <1>6, <1>k DEF Take, Building, Busy
  <2>2. r.next \in Chunk
    BY <1>6, <1>r, JobAssumption DEF Take, Building, BuildOver, Chunk, Threads
  <2>3. PICK at \in {"build", "ingest"} :
          q = [r EXCEPT !.next = r.next + 1, !.batch = r.batch \cup {<<r.next, version[r.next]>>},
                        !.ids = r.ids \cup {<<r.next, version[r.next]>>}, !.at = at]
    BY <1>6, <1>r DEF Take, Set, Now
  <2>4. version \in [Chunk -> {1, 2}]
    BY DEF TypeOK
  <2>5. Keeps(q, stored, staged, version)
    <3> HIDE DEF r, q
    <3> QED BY <2>1, <2>2, <2>3, <2>4, <1>r, TakeKeeps
  <2>6. q.at = at
    BY <2>3, <1>r DEF Threads
  <2> QED BY <1>6, <2>5, <2>6, <1>k, FilesKeep DEF Take
<1>7. CASE EndBuild(w)
  <2>1. r.at = "build" /\ Keeps(r, stored, staged, version)
    BY <1>7, <1>k DEF EndBuild, Busy
  <2>2. r.next > NumChunks \/ r.cancelled
    BY <1>7 DEF EndBuild, BuildOver
  <2>3. q = [r EXCEPT !.at = "ingest", !.last = TRUE]
    BY <1>7, <1>r DEF EndBuild, Set
  <2>4. Keeps(q, stored, staged, version)
    <3> HIDE DEF r, q
    <3> QED BY <2>1, <2>2, <2>3, <1>r, EndBuildKeeps
  <2>5. q.at = "ingest"
    BY <2>3, <1>r DEF Threads
  <2> QED BY <1>7, <2>4, <2>5, <1>k, FilesKeep DEF EndBuild
<1>8. ASSUME NEW committed \in Nat, NEW unflushed \in BOOLEAN, AfterIngest(w, committed, unflushed),
             r.at = "ingest", stored \subseteq stored',
             \/ stored' = stored /\ staged' = staged \cup r.batch /\ committed = r.committed
                /\ unflushed = (r.unflushed \/ r.batch # {})
             \/ stored' = stored \cup staged \cup r.batch /\ committed = IndexedAfter(w) /\ ~unflushed,
             MayRecord(w) => ~unflushed
      PROVE  Keeps(q, stored', staged', version) /\ q.at \notin {"begin", "prepare"}
  <2>1. Keeps(r, stored, staged, version)
    BY <1>8, <1>k DEF Busy
  <2>2. PICK at \in {"record", "report"} :
          /\ q = [r EXCEPT !.batch = {}, !.indexed = IndexedAfter(w), !.committed = committed,
                           !.unflushed = unflushed, !.at = at]
          /\ at = "record" => MayRecord(w)
    BY <1>8, <1>r DEF AfterIngest, Set
  <2>3. at = "record" \/ r.last => ~unflushed
    BY <1>8, <2>2 DEF MayRecord
  <2>4. IndexedAfter(w) \in Nat /\ IndexedAfter(w) = r.indexed + Cardinality(Texts(r.batch))
    BY CountsTyped DEF IndexedAfter
  <2>5. Keeps(q, stored', staged', version)
    <3> HIDE DEF r, q
    <3> QED BY <1>8, <2>1, <2>2, <2>3, <2>4, <1>r, IngestKeeps
  <2>6. q.at = at
    BY <2>2, <1>r DEF Threads
  <2> QED BY <2>5, <2>6
<1>9. CASE Ingest(w)
  <2>1. r.committed \in Nat /\ Unflushed(w) \in BOOLEAN /\ Unflushed(w) = (r.unflushed \/ r.batch # {})
    BY <1>r DEF Threads, Unflushed
  <2>2. MayRecord(w) => ~Unflushed(w)
    BY <1>9 DEF Ingest, CommitDue
  <2>3. Keeps(q, stored', staged', version) /\ q.at \notin {"begin", "prepare"}
    BY <1>9, <1>8, <2>1, <2>2 DEF Ingest
  <2> QED BY <1>9, <2>3, <1>k, FilesKeep DEF Ingest
<1>10. CASE IngestAndCommit(w)
  <2>1. IndexedAfter(w) \in Nat
    BY CountsTyped
  <2>2. Keeps(q, stored', staged', version) /\ q.at \notin {"begin", "prepare"}
    BY <1>10, <1>8, <2>1 DEF IngestAndCommit
  <2> QED BY <1>10, <2>2, <1>k, FilesKeep DEF IngestAndCommit
<1>11. CASE Record(w)
  <2>1. r.at = "record" /\ Keeps(r, stored, staged, version)
    BY <1>11, <1>k DEF Record, Busy
  <2>2. q = [r EXCEPT !.at = "report", !.known = r.known \cup r.ids, !.ids = {}]
    BY <1>11, <1>r DEF Record, Set
  <2>3. r.known \cup r.ids \subseteq stored /\ Keeps(q, stored, staged, version)
    <3> HIDE DEF r, q
    <3> QED BY <2>1, <2>2, <1>r, RecordKeeps
  <2>4. q.at = "report"
    BY <2>2, <1>r DEF Threads
  <2>5. FilesListStored'
    BY <1>11, <1>k, <2>3
    DEF Record, FilesListStored, NoManifestNoDigests, ManifestIsIndexed, CheckpointIsBacked, Now
  <2> QED BY <1>11, <2>3, <2>4, <2>5 DEF Record
<1>12. CASE Report(w)
  <2>1. r.at = "report" /\ Keeps(r, stored, staged, version)
    BY <1>12, <1>k DEF Report, Busy
  <2>2. PICK at : /\ q = [r EXCEPT !.at = at]
                  /\ at = IF r.last THEN "manifest" ELSE "build"
    BY <1>12, <1>r DEF Report, Move, Set
  <2>3. Keeps(q, stored, staged, version)
    <3> HIDE DEF r, q
    <3> QED BY <2>1, <2>2, <1>r, MoveKeeps
  <2>4. q.at = at
    BY <2>2, <1>r DEF Threads
  <2>5. job'.committed \in {job.committed, r.committed}
    BY <1>12 DEF Report, UpdateProgress, TypeOK
  <2>6. \A i \in Chunk : i <= r.committed => Now(i) \in stored
    BY <2>1, <1>v DEF Keeps, CountsWhatIsStored
  <2>7. FilesListStored'
    BY <1>12, <1>k, <2>5, <2>6
    DEF Report, FilesListStored, NoManifestNoDigests, ManifestIsIndexed, CheckpointIsBacked, Now
  <2> QED BY <1>12, <2>2, <2>3, <2>4, <2>7 DEF Report
<1>13. CASE WriteManifests(w)
  <2>1. r.at = "manifest" /\ ~r.cancelled /\ Keeps(r, stored, staged, version)
    BY <1>13, <1>k DEF WriteManifests, Busy
  <2>2. q = [r EXCEPT !.at = "complete"]
    BY <1>13, <1>r DEF WriteManifests, Move, Set
  <2>3. r.digests \subseteq stored /\ Keeps(q, stored, staged, version)
    <3> HIDE DEF r, q
    <3> QED BY <2>1, <2>2, <1>r, MoveKeeps, ManifestMayBeWritten
  <2>4. q.at = "complete"
    BY <2>2, <1>r DEF Threads
  <2>5. FilesListStored'
    BY <1>13, <1>k, <2>3
    DEF WriteManifests, FilesListStored, NoManifestNoDigests, ManifestIsIndexed, CheckpointIsBacked
  <2> QED BY <1>13, <2>3, <2>4, <2>5 DEF WriteManifests
<1>14. CASE CompleteJob(w)
  <2>1. Keeps(r, stored, staged, version)
    BY <1>14, <1>k DEF CompleteJob, Busy
  <2>2. ~Busy(q) /\ q.at \notin {"begin", "prepare"}
    BY <1>14, <1>l DEF CompleteJob
  <2>3. job'.committed \in {job.committed, r.committed}
    BY <1>14 DEF CompleteJob, Complete, TypeOK
  <2>4. \A i \in Chunk : i <= r.committed => Now(i) \in stored
    BY <2>1, <1>v DEF Keeps, CountsWhatIsStored
  <2>5. FilesListStored'
    BY <1>14, <1>k, <2>3, <2>4
    DEF CompleteJob, FilesListStored, NoManifestNoDigests, ManifestIsIndexed, CheckpointIsBacked, Now
  <2> QED BY <1>14, <2>2, <2>5 DEF CompleteJob
<1>15. CASE FailJob(w) \/ Exit(w)
  <2>1. ~Busy(q) /\ q.at \notin {"begin", "prepare"}
    BY <1>15, <1>l DEF FailJob, Exit
  <2>2. job'.committed = job.committed
    BY <1>15 DEF FailJob, Exit, Fail, TypeOK
  <2> QED BY <1>15, <2>1, <2>2, <1>k, FilesKeep DEF FailJob, Exit
<1>16. CASE Throw(w) \/ ThrowInIngest(w)
  <2>1. ~Busy(q) /\ q.at \notin {"begin", "prepare"}
    BY <1>16, <1>l DEF Throw, ThrowInIngest
  <2>2. stored' = stored /\ staged \subseteq staged' /\ UNCHANGED <<job, manifest, processed, version>>
    BY <1>16 DEF Throw, ThrowInIngest
  <2> QED BY <2>1, <2>2, <1>k, FilesKeep
<1> QED
  BY <1>1, <1>2, <1>3, <1>4, <1>5, <1>6, <1>7, <1>9, <1>10, <1>11, <1>12, <1>13, <1>14,
     <1>15, <1>16 DEF WorkerStep

\* Workers that others cancel, join or create keep what they kept.
LEMMA WorkersStay ==
  ASSUME TypeOK, WorkersKeep, version' = version,
         stored \subseteq stored', stored \cup staged \subseteq stored' \cup staged',
         \A w \in Slot : \/ worker'[w] = worker[w]
                         \/ worker'[w] = [worker[w] EXCEPT !.cancelled = TRUE]
                         \/ worker'[w] = Gone
                         \/ \E resume \in BOOLEAN : worker'[w] = Fresh(resume)
  PROVE  WorkersKeep'
<1> SUFFICES ASSUME NEW w \in Slot
             PROVE  /\ Busy(worker'[w]) => Keeps(worker'[w], stored', staged', version)
                    /\ worker'[w].at \in {"begin", "prepare"} => Unused(worker'[w])
  BY DEF WorkersKeep
<1>r. worker[w] \in Threads
  BY DEF TypeOK
<1>1. CASE worker'[w] = worker[w]
  BY <1>1, <1>r, KeepsGrows DEF WorkersKeep
<1>2. CASE worker'[w] = [worker[w] EXCEPT !.cancelled = TRUE]
  <2>1. ASSUME Busy(worker'[w])
        PROVE  Keeps(worker'[w], stored', staged', version)
    <3>1. Busy(worker[w])
      BY <1>2, <1>r, <2>1 DEF Busy, Threads
    <3>2. Keeps(worker[w], stored', staged', version)
      BY <1>r, <3>1, KeepsGrows DEF WorkersKeep
    <3> QED BY <1>2, <1>r, <3>2, CancelKeeps
  <2>2. ASSUME worker'[w].at \in {"begin", "prepare"}
        PROVE  Unused(worker'[w])
    <3>1. Unused(worker[w])
      BY <1>2, <1>r, <2>2 DEF WorkersKeep, Threads
    <3> QED BY <1>2, <1>r, <3>1 DEF Unused, Threads
  <2> QED BY <2>1, <2>2
<1>3. CASE worker'[w] = Gone
  BY <1>3 DEF Gone, Busy
<1>4. ASSUME NEW resume \in BOOLEAN, worker'[w] = Fresh(resume)
      PROVE  ~Busy(worker'[w]) /\ Unused(worker'[w])
  BY <1>4 DEF Fresh, Gone, Busy, Unused
<1> QED BY <1>1, <1>2, <1>3, <1>4

\* A new process finds the checkpoint it is given, or a part of it.
LEMMA ReloadKeeps ==
  ASSUME TypeOK, ResumeInv, version' = version,
         stored \subseteq stored', stored \cup staged \subseteq stored' \cup staged',
         NEW loaded \in [state : {"idle", "running", "stopped", "failed"}, committed : Nat],
         loaded.committed \in {0, job.committed}, Reload(loaded)
  PROVE  WorkersKeep' /\ job'.committed \in {0, job.committed}
<1>1. WorkersKeep'
  BY WorkersStay DEF Reload, ResumeInv
<1>2. job'.committed = loaded.committed
  BY DEF Reload
<1> QED BY <1>1, <1>2

\* Unchanged files and a smaller count.
LEMMA CountedKeeps ==
  ASSUME TypeOK, FilesListStored, UNCHANGED <<manifest, processed, version>>,
         stored \subseteq stored', job'.committed \in {0, job.committed}
  PROVE  FilesListStored'
  BY DEF FilesListStored, NoManifestNoDigests, ManifestIsIndexed, CheckpointIsBacked, Now, Chunk

LEMMA CallStepKeeps ==
  ASSUME TypeOK, ResumeInv, NEW c \in Client, CallStep(c)
  PROVE  ResumeInv'
<1> USE DEF jobVars, storeVars, serverVars, Set
<1>t. /\ worker \in [Slot -> Threads]
      /\ job \in [state : {"idle", "running", "stopped", "failed"}, committed : Nat]
  BY DEF TypeOK
<1>s. \A resume \in BOOLEAN : /\ Started(resume) \in [state : {"running"}, committed : Nat]
                              /\ Started(resume).committed \in {0, job.committed}
  BY <1>t DEF Started
<1>1. CASE Join(c) \/ Answer(c) \/ StartRefused(c)
  <2>1. \A w \in Slot : worker'[w] = worker[w] \/ worker'[w] = Gone
    BY <1>1, <1>t DEF Join, Answer, StartRefused
  <2>2. UNCHANGED <<job, manifest, processed, version, stored, staged>>
    BY <1>1 DEF Join, Answer, StartRefused
  <2> QED BY <2>1, <2>2, WorkersStay, CountedKeeps DEF ResumeInv
<1>2. CASE Start(c)
  <2>1. \A w \in Slot : worker'[w] = worker[w] \/ worker'[w] = Fresh(call[c].op = "resume")
    BY <1>2, <1>t DEF Start
  <2>2. UNCHANGED <<manifest, processed, version, stored, staged>>
    BY <1>2 DEF Start
  <2>3. job'.committed \in {0, job.committed}
    BY <1>2, <1>s DEF Start
  <2> QED BY <2>1, <2>2, <2>3, WorkersStay, CountedKeeps DEF ResumeInv
<1>3. CASE StartOverWorker(c)
  <2>1. UNCHANGED <<manifest, processed, version, stored, staged>>
    BY <1>3 DEF StartOverWorker
  <2>2. WorkersKeep' /\ job'.committed \in {0, job.committed}
    BY <1>3, <1>s, <2>1, ReloadKeeps DEF StartOverWorker
  <2> QED BY <2>1, <2>2, CountedKeeps DEF ResumeInv
<1>4. CASE ShutdownEnd(c)
  <2>1. UNCHANGED <<manifest, processed, version>> /\ stored' = stored \cup staged
    BY <1>4 DEF ShutdownEnd
  <2>2. WorkersKeep' /\ job'.committed \in {0, job.committed}
    BY <1>4, <1>t, <2>1, ReloadKeeps DEF ShutdownEnd
  <2> QED BY <2>1, <2>2, CountedKeeps DEF ResumeInv
<1> QED BY <1>1, <1>2, <1>3, <1>4 DEF CallStep

\* A death, also in the middle of the write of a file.
LEMMA KillKeeps ==
  ASSUME TypeOK, ResumeInv, ChunkCap = 0,
         Kill \/ KillInPersist \/ KillInRecord \/ KillInManifest
  PROVE  ResumeInv'
<1> USE DEF jobVars, storeVars, serverVars
<1>t. job \in [state : {"idle", "running", "stopped", "failed"}, committed : Nat]
  BY DEF TypeOK
<1>0. UNCHANGED <<version, stored, staged>>
  BY DEF Kill, KillInPersist, KillInRecord, KillInManifest
<1>1. WorkersKeep' /\ job'.committed \in {0, job.committed}
  <2>1. CASE Kill \/ KillInRecord \/ KillInManifest
    BY <2>1, <1>0, <1>t, ReloadKeeps DEF Kill, KillInRecord, KillInManifest
  <2>2. CASE KillInPersist
    <3> DEFINE none == [state |-> "idle", committed |-> 0]
    <3>1. none \in [state : {"idle", "running", "stopped", "failed"}, committed : Nat]
          /\ none.committed \in {0, job.committed}
      OBVIOUS
    <3>2. Reload(none)
      BY <2>2 DEF KillInPersist
    <3> HIDE DEF none
    <3> QED BY <1>0, <3>1, <3>2, ReloadKeeps
  <2> QED BY <2>1, <2>2
<1>2. CASE Kill \/ KillInPersist
  <2>1. UNCHANGED <<manifest, processed>>
    BY <1>2 DEF Kill, KillInPersist
  <2> QED BY <1>0, <1>1, <2>1, CountedKeeps DEF ResumeInv
<1>3. CASE KillInRecord
  <2>1. PICK w \in Slot : /\ worker[w].at = "record"
                          /\ processed' \in SUBSET (worker[w].known \cup worker[w].ids)
    BY <1>3 DEF KillInRecord
  <2>2. worker[w] \in Threads /\ Keeps(worker[w], stored, staged, version)
    BY <2>1 DEF TypeOK, ResumeInv, WorkersKeep, Busy
  <2>3. processed' \subseteq stored
    BY <2>1, <2>2, RecordKeeps
  <2> QED BY <1>0, <1>1, <1>3, <1>t, <2>3
      DEF KillInRecord, ResumeInv, FilesListStored, NoManifestNoDigests, ManifestIsIndexed,
          CheckpointIsBacked, Now, Chunk
<1>4. CASE KillInManifest
  <2>1. PICK w \in Slot : /\ worker[w].at = "manifest" /\ ~worker[w].cancelled
                          /\ manifest' \in [exists : {TRUE}, digests : SUBSET worker[w].digests]
    BY <1>4 DEF KillInManifest
  <2>2. worker[w] \in Threads /\ Keeps(worker[w], stored, staged, version)
    BY <2>1 DEF TypeOK, ResumeInv, WorkersKeep, Busy
  <2>3. worker[w].digests \subseteq stored
    BY <2>1, <2>2, ManifestMayBeWritten
  <2>4. manifest'.exists /\ manifest'.digests \subseteq stored
    BY <2>1, <2>3
  <2> QED BY <1>0, <1>1, <1>4, <2>4
      DEF KillInManifest, ResumeInv, FilesListStored, NoManifestNoDigests, ManifestIsIndexed,
          CheckpointIsBacked
<1> QED BY <1>2, <1>3, <1>4

\* A file changes only when no worker has read it and a manifest lists it as
\* it was.
LEMMA EditKeeps ==
  ASSUME TypeOK, ResumeInv, ~EditsUnfinished, NEW i \in Editable, Edit(i)
  PROVE  ResumeInv'
<1> USE DEF jobVars, storeVars, serverVars
<1>1. \A w \in Slot : worker[w].at \in {"gone", "done"}
  BY DEF Edit, Live
<1>2. WorkersKeep'
  BY <1>1 DEF Edit, WorkersKeep, Busy
<1>3. FilesListStored'
  BY DEF Edit, ResumeInv, FilesListStored, NoManifestNoDigests, ManifestIsIndexed, CheckpointIsBacked
<1> QED BY <1>2, <1>3 DEF ResumeInv

LEMMA NextKeeps ==
  ASSUME TypeOK, ResumeInv, ~EditsUnfinished, ChunkCap = 0, [Next]_vars
  PROVE  ResumeInv'
<1> USE DEF jobVars, storeVars, serverVars
<1>1. ASSUME NEW w \in Slot, WorkerStep(w) \/ Throw(w) \/ ThrowInIngest(w)
      PROVE  ResumeInv'
  <2>1. /\ version' = version
        /\ stored \subseteq stored' /\ stored \cup staged \subseteq stored' \cup staged'
        /\ Busy(worker'[w]) => Keeps(worker'[w], stored', staged', version)
        /\ worker'[w].at \in {"begin", "prepare"} => Unused(worker'[w])
        /\ FilesListStored'
    BY <1>1, WorkerStepKeeps
  <2>2. \A v \in Slot : v # w => worker'[v] = worker[v]
    BY <1>1, WorkerGoesOn
  <2>3. ASSUME NEW v \in Slot, v # w
        PROVE  /\ Busy(worker'[v]) => Keeps(worker'[v], stored', staged', version)
               /\ worker'[v].at \in {"begin", "prepare"} => Unused(worker'[v])
    <3>1. worker[v] \in Threads
      BY DEF TypeOK
    <3> QED BY <2>1, <2>2, <2>3, <3>1, KeepsGrows DEF ResumeInv, WorkersKeep
  <2>4. WorkersKeep'
    BY <2>1, <2>3 DEF WorkersKeep
  <2> QED BY <2>1, <2>4 DEF ResumeInv
<1>2. ASSUME NEW c \in Client, CallStep(c)
      PROVE  ResumeInv'
  BY <1>2, CallStepKeeps
<1>3. ASSUME NEW c \in Client, NEW op \in {"start", "resume", "status"}, Reap(c, op)
      PROVE  ResumeInv'
  <2>1. UNCHANGED <<job, manifest, processed, version, stored, staged, worker>>
    BY <1>3 DEF Reap
  <2> QED BY <2>1, WorkersStay, CountedKeeps DEF ResumeInv
<1>4. ASSUME NEW c \in Client, Stop(c) \/ Shutdown(c)
      PROVE  ResumeInv'
  <2>1. UNCHANGED <<manifest, processed, version, stored, staged>> /\ worker' = Cancelled
    BY <1>4 DEF Stop, Shutdown
  <2>2. job'.committed = job.committed
    BY <1>4 DEF Stop, Shutdown, Stopped, TypeOK
  <2>3. \A w \in Slot : worker'[w] = worker[w] \/ worker'[w] = [worker[w] EXCEPT !.cancelled = TRUE]
    BY <2>1, CancelledTyped
  <2> QED BY <2>1, <2>2, <2>3, WorkersStay, CountedKeeps DEF ResumeInv
<1>5. CASE Flush \/ AutoFlush
  <2>1. UNCHANGED <<job, manifest, processed, version, worker>> /\ stored' = stored \cup staged
    BY <1>5 DEF Flush, AutoFlush
  <2> QED BY <2>1, WorkersStay, CountedKeeps DEF ResumeInv
<1>6. CASE Kill \/ KillInPersist \/ KillInRecord \/ KillInManifest
  BY <1>6, KillKeeps
<1>7. ASSUME NEW i \in Editable, Edit(i)
      PROVE  ResumeInv'
  BY <1>7, EditKeeps
<1>8. CASE UNCHANGED vars
  <2>1. UNCHANGED <<job, manifest, processed, version, stored, staged, worker>>
    BY <1>8 DEF vars
  <2> QED BY <2>1, WorkersStay, CountedKeeps DEF ResumeInv
<1> QED BY <1>1, <1>2, <1>3, <1>4, <1>5, <1>6, <1>7, <1>8 DEF Next

LEMMA InitKeeps == ASSUME Init PROVE ResumeInv
<1>1. WorkersKeep
  BY DEF Init, WorkersKeep, Gone, Busy
<1>2. FilesListStored
  BY DEF Init, FilesListStored, NoManifestNoDigests, ManifestIsIndexed, CheckpointIsBacked, Chunk
<1> QED BY <1>1, <1>2 DEF ResumeInv

-----------------------------------------------------------------------------

\* What the checkpoint files of a job list is in the store: every later
\* theorem about resuming rests on this.
THEOREM ResumeInvariant ==
  ASSUME ~EditsUnfinished, ChunkCap = 0
  PROVE  Spec => [](TypeOK /\ ResumeInv)
<1>1. Init => TypeOK /\ ResumeInv
  BY InitTyped, InitKeeps
<1>2. TypeOK /\ ResumeInv /\ [Next]_vars => (TypeOK /\ ResumeInv)'
  BY NextTyped, NextKeeps
<1> QED BY <1>1, <1>2, PTL DEF Spec

\* A file the manifest lists, and a resumed job therefore never reads again,
\* is in the store in the version listed.
THEOREM ManifestListsIndexed ==
  ASSUME ~EditsUnfinished, ChunkCap = 0
  PROVE  Spec => []ManifestIsIndexed
<1>1. TypeOK /\ ResumeInv => ManifestIsIndexed
  BY DEF ResumeInv, FilesListStored
<1> QED BY <1>1, ResumeInvariant, PTL

\* The count and the ids by which a resumed job skips chunks cover only
\* chunks that are in the store, after any stops, failures and deaths.
THEOREM CheckpointBacked ==
  ASSUME ~EditsUnfinished, ChunkCap = 0
  PROVE  Spec => []CheckpointIsBacked
<1>1. TypeOK /\ ResumeInv => CheckpointIsBacked
  BY DEF ResumeInv, FilesListStored
<1> QED BY <1>1, ResumeInvariant, PTL
=============================================================================
