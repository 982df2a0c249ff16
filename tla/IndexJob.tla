------------------------------ MODULE IndexJob ------------------------------
(***************************************************************************)
(* Indexing of a repository in the background: the calls index.start,      *)
(* index.status and index.stop, the thread that runs run_index_job, the    *)
(* destructor and the auto-flush thread (src/server/wax_rag_handler.cpp),  *)
(* and the job they share, IndexJobManager (src/server/                    *)
(* index_job_manager.cpp).                                                 *)
(*                                                                         *)
(* A chunk stands for a file with one chunk; it is identified by its       *)
(* place in the scan and the version of the file.  A blueprint chunk is    *)
(* indexed as facts only.  The store is the set of chunks committed and    *)
(* the set put but not committed, which survives a death of the server in  *)
(* the write-ahead log.                                                    *)
(*                                                                         *)
(* The handler's mutex is held for a whole action: nobody waits inside.    *)
(* index_cancel_flag_ is the flag of index_worker_ whenever one is there,  *)
(* so it is no variable.  The checkpoint file always holds the job as      *)
(* last changed, except after a death in the middle of writing it.         *)
(*                                                                         *)
(* Left out: generations, phases and scanned files; several repositories   *)
(* or checkpoints; files that change while a job reads them; the LLM       *)
(* futures (concurrency above 1); failures to write a checkpoint or to     *)
(* create a thread.                                                        *)
(***************************************************************************)
EXTENDS Naturals, FiniteSets

CONSTANTS
  Client,         \* threads of the server that may serve an index call at once
  Slot,           \* names for worker threads
  None,           \* no thread
  NumChunks,      \* chunks of the repository
  Blueprints,     \* those that are indexed as facts only
  FlushEvery,     \* the options of index.start
  BatchSize,
  ChunkCap,       \* max_chunks, 0 for no cap
  TornFiles,      \* whether the process may die in the middle of a file write
  Editable,       \* chunks whose file may change, once
  EditsUnfinished \* whether it may before any job has written a manifest

Chunk == 1..NumChunks

ASSUME JobAssumption ==
  /\ NumChunks \in Nat /\ Blueprints \subseteq Chunk /\ Editable \subseteq Chunk
  /\ FlushEvery \in Nat \ {0} /\ BatchSize \in Nat \ {0} /\ ChunkCap \in Nat
  /\ None \notin Slot
  /\ IsFiniteSet(Slot) /\ IsFiniteSet(Client)
  /\ Cardinality(Slot) >= Cardinality(Client)
  /\ TornFiles \in BOOLEAN /\ EditsUnfinished \in BOOLEAN

VARIABLES
  job,        \* status_ of the manager, and its checkpoint file
  manifest,   \* the file manifest: whether it exists, the digests in it
  processed,  \* the file of processed chunk ids
  version,    \* what each file of the repository holds
  stored,     \* chunks a commit of the store has published
  staged,     \* chunks put since
  worker,     \* threads that run run_index_job
  thread,     \* index_worker_
  active,     \* index_active_
  call        \* the call each client is in

jobVars == <<job, manifest, processed>>
storeVars == <<stored, staged>>
serverVars == <<thread, active, call>>
vars == <<job, manifest, processed, version, stored, staged, worker, thread, active, call>>

Contents == Chunk \X {1, 2}
Now(i) == <<i, version[i]>>

Gone == [at |-> "gone", resume |-> FALSE, cancelled |-> FALSE, next |-> 1, skip |-> 0,
         digests |-> {}, same |-> {}, known |-> {}, batch |-> {}, ids |-> {},
         indexed |-> 0, committed |-> 0, unflushed |-> FALSE, last |-> FALSE]
Fresh(resume) == [Gone EXCEPT !.at = "begin", !.resume = resume]

Idle == [op |-> "idle", join |-> None]
Ops == {"idle", "start", "resume", "status", "stop", "shutdown"}
Places == {"gone", "begin", "prepare", "build", "ingest", "record", "report", "manifest",
           "complete", "failing", "exit", "done"}

Running == job.state = "running"
\* The thread is still inside run_index_job.
Live(w) == worker[w].at \notin {"gone", "done"}
Serving == \A c \in Client : call[c].op # "shutdown"

Init ==
  /\ job = [state |-> "idle", committed |-> 0]
  /\ manifest = [exists |-> FALSE, digests |-> {}]
  /\ processed = {}
  /\ version = [i \in Chunk |-> 1]
  /\ stored = {} /\ staged = {}
  /\ worker = [w \in Slot |-> Gone]
  /\ thread = None
  /\ active = FALSE
  /\ call = [c \in Client |-> Idle]

-----------------------------------------------------------------------------
(* The manager.  Every method but Start refuses unless the job runs.       *)

UpdateProgress(n) == job' = IF Running THEN [job EXCEPT !.committed = n] ELSE job
Complete(n) == job' = IF Running THEN [state |-> "stopped", committed |-> n] ELSE job
Fail == job' = IF Running THEN [job EXCEPT !.state = "failed"] ELSE job
Stopped == IF Running THEN [job EXCEPT !.state = "stopped"] ELSE job
Started(resume) == [state |-> "running", committed |-> IF resume THEN job.committed ELSE 0]

-----------------------------------------------------------------------------
(* The worker.                                                             *)

Set(w, r) == worker' = [worker EXCEPT ![w] = r]
Move(w, at) == Set(w, [worker[w] EXCEPT !.at = at])
\* run_index_job is being left: its locals no longer matter.
LeaveFor(w, at) == Set(w, [Gone EXCEPT !.at = at])

Begin(w) ==
  /\ worker[w].at = "begin"
  /\ active' = TRUE
  /\ Move(w, "prepare")
  /\ UNCHANGED <<jobVars, version, storeVars, thread, call>>

\* A slip: the status of the job is asked for, and not the flag alone.
CancelledWhileRunning(w) ==
  /\ worker[w].at = "prepare" /\ worker[w].cancelled /\ Running
  /\ LeaveFor(w, "exit")
  /\ UNCHANGED <<jobVars, version, storeVars, serverVars>>

CancelledInScan(w) ==
  /\ worker[w].at = "prepare" /\ worker[w].cancelled
  /\ LeaveFor(w, "exit")
  /\ UNCHANGED <<jobVars, version, storeVars, serverVars>>

\* Files whose digest is the one in the manifest.
Unchanged(digests) == {i \in Chunk : Now(i) \in digests}

\* The scan, the first Build for the digests, and what a resumed job will skip.
Prepare(w) ==
  LET resume == worker[w].resume IN
  /\ worker[w].at = "prepare" /\ ~worker[w].cancelled
  /\ processed' = IF resume THEN processed ELSE {}
  /\ Set(w, [worker[w] EXCEPT !.at = "build",
               !.skip = IF resume /\ ~manifest.exists THEN job.committed ELSE 0,
               !.same = IF resume THEN Unchanged(manifest.digests) ELSE {},
               !.known = processed',
               !.digests = {Now(i) : i \in Chunk}])
  /\ UNCHANGED <<job, manifest, version, storeVars, serverVars>>

Texts(chunks) == {c \in chunks : c[1] \notin Blueprints}

BuildOver(w) ==
  \/ worker[w].next > NumChunks
  \/ worker[w].cancelled
  \/ ChunkCap > 0 /\ worker[w].indexed + Cardinality(Texts(worker[w].batch)) >= ChunkCap

\* The second Build reaches the next file.
Building(w) == worker[w].at = "build" /\ ~BuildOver(w)

SkipUnchanged(w) ==
  /\ Building(w) /\ worker[w].next \in worker[w].same
  /\ Set(w, [worker[w] EXCEPT !.next = @ + 1])
  /\ UNCHANGED <<jobVars, version, storeVars, serverVars>>

SkipCommitted(w) ==
  /\ Building(w) /\ worker[w].next \notin worker[w].same
  /\ worker[w].skip > 0
  /\ Set(w, [worker[w] EXCEPT !.next = @ + 1, !.skip = @ - 1])
  /\ UNCHANGED <<jobVars, version, storeVars, serverVars>>

IsKnown(w, i) == i \in Blueprints /\ Now(i) \in worker[w].known

SkipProcessed(w) ==
  /\ Building(w) /\ worker[w].next \notin worker[w].same
  /\ worker[w].skip = 0 /\ IsKnown(w, worker[w].next)
  /\ Set(w, [worker[w] EXCEPT !.next = @ + 1])
  /\ UNCHANGED <<jobVars, version, storeVars, serverVars>>

Take(w) ==
  LET i == worker[w].next
      batch == worker[w].batch \cup {Now(i)}
      ids == worker[w].ids \cup {Now(i)}
      full == Cardinality(Texts(batch)) >= BatchSize \/ Cardinality(ids) >= BatchSize IN
  /\ Building(w) /\ i \notin worker[w].same
  /\ worker[w].skip = 0 /\ ~IsKnown(w, i)
  /\ Set(w, [worker[w] EXCEPT !.next = i + 1, !.batch = batch, !.ids = ids,
                              !.at = IF full THEN "ingest" ELSE "build"])
  /\ UNCHANGED <<jobVars, version, storeVars, serverVars>>

EndBuild(w) ==
  /\ worker[w].at = "build" /\ BuildOver(w)
  /\ Set(w, [worker[w] EXCEPT !.at = "ingest", !.last = TRUE])
  /\ UNCHANGED <<jobVars, version, storeVars, serverVars>>

(* flush_pending_ingest: put the batch and, when due, commit; then write   *)
(* the ids of what was committed, then report.                             *)

MayRecord(w) == worker[w].last \/ Cardinality(worker[w].ids) >= FlushEvery
Unflushed(w) == worker[w].unflushed \/ worker[w].batch # {}
IndexedAfter(w) == worker[w].indexed + Cardinality(Texts(worker[w].batch))
CommitDue(w) ==
  \/ \E n \in (worker[w].indexed + 1)..IndexedAfter(w) : n % FlushEvery = 0
  \/ Unflushed(w) /\ MayRecord(w)

AfterIngest(w, committed, unflushed) ==
  Set(w, [worker[w] EXCEPT !.batch = {}, !.indexed = IndexedAfter(w),
            !.committed = committed, !.unflushed = unflushed,
            !.at = IF MayRecord(w) /\ worker[w].ids # {} THEN "record" ELSE "report"])

\* A slip: all that was put counts as committed.
IngestCountingPut(w) ==
  /\ worker[w].at = "ingest" /\ ~CommitDue(w)
  /\ staged' = staged \cup worker[w].batch
  /\ AfterIngest(w, IndexedAfter(w), Unflushed(w))
  /\ UNCHANGED <<jobVars, version, stored, serverVars>>

Ingest(w) ==
  /\ worker[w].at = "ingest" /\ ~CommitDue(w)
  /\ staged' = staged \cup worker[w].batch
  /\ AfterIngest(w, worker[w].committed, Unflushed(w))
  /\ UNCHANGED <<jobVars, version, stored, serverVars>>

IngestAndCommit(w) ==
  /\ worker[w].at = "ingest" /\ CommitDue(w)
  /\ stored' = stored \cup staged \cup worker[w].batch
  /\ staged' = {}
  /\ AfterIngest(w, IndexedAfter(w), FALSE)
  /\ UNCHANGED <<jobVars, version, serverVars>>

Record(w) ==
  /\ worker[w].at = "record"
  /\ processed' = worker[w].known \cup worker[w].ids
  /\ Set(w, [worker[w] EXCEPT !.at = "report", !.known = processed', !.ids = {}])
  /\ UNCHANGED <<job, manifest, version, storeVars, serverVars>>

Report(w) ==
  /\ worker[w].at = "report"
  /\ UpdateProgress(worker[w].committed)
  /\ Move(w, IF worker[w].last THEN "manifest" ELSE "build")
  /\ UNCHANGED <<manifest, processed, version, storeVars, serverVars>>

CancelledInIngest(w) ==
  /\ worker[w].at \in {"manifest", "complete"} /\ worker[w].cancelled
  /\ LeaveFor(w, "exit")
  /\ UNCHANGED <<jobVars, version, storeVars, serverVars>>

\* A slip: the check for cancellation in front of the manifests is gone.
WriteManifestsAnyway(w) ==
  /\ worker[w].at = "manifest"
  /\ manifest' = [exists |-> TRUE, digests |-> worker[w].digests]
  /\ Move(w, "complete")
  /\ UNCHANGED <<job, processed, version, storeVars, serverVars>>

WriteManifests(w) ==
  /\ worker[w].at = "manifest" /\ ~worker[w].cancelled
  /\ manifest' = [exists |-> TRUE, digests |-> worker[w].digests]
  /\ Move(w, "complete")
  /\ UNCHANGED <<job, processed, version, storeVars, serverVars>>

\* Also for a worker cancelled since it last looked at its flag.
CompleteJob(w) ==
  /\ worker[w].at = "complete"
  /\ Complete(worker[w].committed)
  /\ LeaveFor(w, "exit")
  /\ UNCHANGED <<manifest, processed, version, storeVars, serverVars>>

\* An exception: over the memory cap, in a read, or before anything is put.
Throw(w) ==
  /\ worker[w].at \in {"prepare", "build", "ingest"}
  /\ LeaveFor(w, IF worker[w].cancelled THEN "exit" ELSE "failing")
  /\ UNCHANGED <<jobVars, version, storeVars, serverVars>>

\* Remember throws after some chunks of the batch, or Flush after all of them.
ThrowInIngest(w) ==
  /\ worker[w].at = "ingest"
  /\ \E i \in Chunk :
       LET put == {c \in Texts(worker[w].batch) : c[1] <= i} IN
       staged' = staged \cup IF put = Texts(worker[w].batch) THEN worker[w].batch ELSE put
  /\ LeaveFor(w, IF worker[w].cancelled THEN "exit" ELSE "failing")
  /\ UNCHANGED <<jobVars, version, stored, serverVars>>

\* A slip: the worker dies silently.
FailSilently(w) ==
  /\ worker[w].at = "failing"
  /\ LeaveFor(w, "exit")
  /\ UNCHANGED <<jobVars, version, storeVars, serverVars>>

FailJob(w) ==
  /\ worker[w].at = "failing"
  /\ Fail
  /\ LeaveFor(w, "exit")
  /\ UNCHANGED <<manifest, processed, version, storeVars, serverVars>>

Exit(w) ==
  /\ worker[w].at = "exit"
  /\ active' = FALSE
  /\ LeaveFor(w, "done")
  /\ UNCHANGED <<jobVars, version, storeVars, thread, call>>

WorkerStep(w) ==
  \/ Begin(w) \/ CancelledInScan(w) \/ Prepare(w)
  \/ SkipUnchanged(w) \/ SkipCommitted(w) \/ SkipProcessed(w) \/ Take(w) \/ EndBuild(w)
  \/ Ingest(w) \/ IngestAndCommit(w) \/ Record(w) \/ Report(w)
  \/ CancelledInIngest(w) \/ WriteManifests(w) \/ CompleteJob(w)
  \/ FailJob(w) \/ Exit(w)

-----------------------------------------------------------------------------
(* The calls.  start and status begin with TryReapFinishedIndexWorker,     *)
(* which joins a worker whose job is over.                                 *)

Enter(c, op, join) == call' = [call EXCEPT ![c] = [op |-> op, join |-> join]]
Leave(c) == call' = [call EXCEPT ![c] = Idle]

\* A slip: the worker is taken although its job runs.
ReapAnyway(c, op) ==
  /\ call[c] = Idle /\ Serving
  /\ Enter(c, op, thread)
  /\ thread' = None
  /\ UNCHANGED <<jobVars, version, storeVars, worker, active>>

Reap(c, op) ==
  /\ call[c] = Idle /\ Serving
  /\ Enter(c, op, IF Running THEN None ELSE thread)
  /\ thread' = IF Running THEN thread ELSE None
  /\ UNCHANGED <<jobVars, version, storeVars, worker, active>>

Join(c) ==
  /\ call[c].join # None
  /\ worker[call[c].join].at = "done"
  /\ Set(call[c].join, Gone)
  /\ IF call[c].op = "stop" THEN Leave(c) ELSE Enter(c, call[c].op, None)
  /\ UNCHANGED <<jobVars, version, storeVars, thread, active>>

Answer(c) ==
  /\ call[c] = [op |-> "status", join |-> None]
  /\ Leave(c)
  /\ UNCHANGED <<jobVars, version, storeVars, worker, thread, active>>

Starting(c) == call[c].op \in {"start", "resume"} /\ call[c].join = None

StartRefused(c) ==
  /\ Starting(c) /\ Running
  /\ Leave(c)
  /\ UNCHANGED <<jobVars, version, storeVars, worker, thread, active>>

FreeSlot == CHOOSE w \in Slot : worker[w] = Gone

Start(c) ==
  LET resume == call[c].op = "resume" IN
  /\ Starting(c) /\ ~Running /\ thread = None
  /\ \E w \in Slot : worker[w] = Gone      \* always: one slot for each client
  /\ job' = Started(resume)
  /\ thread' = FreeSlot
  /\ Set(FreeSlot, Fresh(resume))
  /\ Leave(c)
  /\ UNCHANGED <<manifest, processed, version, storeVars, active>>

Cancelled == [w \in Slot |-> IF w = thread THEN [worker[w] EXCEPT !.cancelled = TRUE]
                                           ELSE worker[w]]

\* A slip: the worker is joined and left in its place.
StopKeepingWorker(c) ==
  /\ call[c] = Idle /\ Serving
  /\ Running \/ thread # None
  /\ worker' = Cancelled
  /\ job' = Stopped
  /\ IF thread = None THEN UNCHANGED call ELSE Enter(c, "stop", thread)
  /\ UNCHANGED <<manifest, processed, version, storeVars, thread, active>>

Stop(c) ==
  /\ call[c] = Idle /\ Serving
  /\ Running \/ thread # None      \* otherwise an error is returned
  /\ worker' = Cancelled
  /\ job' = Stopped
  /\ IF thread = None THEN UNCHANGED call ELSE Enter(c, "stop", thread)
  /\ thread' = None
  /\ UNCHANGED <<manifest, processed, version, storeVars, active>>

Flush ==
  /\ Serving
  /\ stored' = stored \cup staged /\ staged' = {}
  /\ UNCHANGED <<jobVars, version, worker, serverVars>>

\* The auto-flush thread, which looks at index_active_ under the mutex.
AutoFlush ==
  /\ ~active
  /\ Flush

-----------------------------------------------------------------------------
(* Ends of the process.  A new one loads the checkpoint.                   *)

Reload(loaded) ==
  /\ job' = [loaded EXCEPT !.state = IF @ = "running" THEN "stopped" ELSE @]
  /\ worker' = [w \in Slot |-> Gone]
  /\ thread' = None
  /\ active' = FALSE
  /\ call' = [c \in Client |-> Idle]

Kill ==
  /\ Reload(job)
  /\ UNCHANGED <<manifest, processed, version, storeVars>>

\* The checkpoint file was truncated and not yet written again.
KillInPersist ==
  /\ TornFiles /\ Running
  /\ \E w \in Slot : worker[w].at \in {"prepare", "report", "manifest", "complete", "failing"}
  /\ Reload([state |-> "idle", committed |-> 0])
  /\ UNCHANGED <<manifest, processed, version, storeVars>>

KillInRecord ==
  /\ TornFiles
  /\ \E w \in Slot :
       /\ worker[w].at = "record"
       /\ processed' \in SUBSET (worker[w].known \cup worker[w].ids)
  /\ Reload(job)
  /\ UNCHANGED <<manifest, version, storeVars>>

KillInManifest ==
  /\ TornFiles
  /\ \E w \in Slot :
       /\ worker[w].at = "manifest" /\ ~worker[w].cancelled
       /\ manifest' \in [exists : {TRUE}, digests : SUBSET worker[w].digests]
  /\ Reload(job)
  /\ UNCHANGED <<processed, version, storeVars>>

\* The job completed after the reaper looked: std::thread is assigned over a
\* joinable one, which ends the process.  Start has written the checkpoint.
StartOverWorker(c) ==
  /\ Starting(c) /\ ~Running /\ thread # None
  /\ Reload(Started(call[c].op = "resume"))
  /\ UNCHANGED <<manifest, processed, version, storeVars>>

\* The destructor, once no call is left: like stop, then a last Flush.
Shutdown(c) ==
  /\ \A d \in Client : call[d] = Idle
  /\ worker' = Cancelled
  /\ job' = Stopped
  /\ Enter(c, "shutdown", thread)
  /\ thread' = None
  /\ UNCHANGED <<manifest, processed, version, storeVars, active>>

ShutdownEnd(c) ==
  /\ call[c] = [op |-> "shutdown", join |-> None]
  /\ stored' = stored \cup staged /\ staged' = {}
  /\ Reload(job)
  /\ UNCHANGED <<manifest, processed, version>>

-----------------------------------------------------------------------------

Edit(i) ==
  /\ EditsUnfinished \/ manifest.exists
  /\ \A w \in Slot : ~Live(w)
  /\ version[i] = 1
  /\ version' = [version EXCEPT ![i] = 2]
  /\ UNCHANGED <<jobVars, storeVars, worker, serverVars>>

CallStep(c) ==
  Join(c) \/ Answer(c) \/ StartRefused(c) \/ Start(c) \/ StartOverWorker(c) \/ ShutdownEnd(c)

Next ==
  \/ \E w \in Slot : WorkerStep(w) \/ Throw(w) \/ ThrowInIngest(w)
  \/ \E c \in Client : CallStep(c)
  \/ \E c \in Client, op \in {"start", "resume", "status"} : Reap(c, op)
  \/ \E c \in Client : Stop(c) \/ Shutdown(c)
  \/ Flush \/ AutoFlush
  \/ Kill \/ KillInPersist \/ KillInRecord \/ KillInManifest
  \/ \E i \in Editable : Edit(i)

Spec == Init /\ [][Next]_vars

\* A worker and a call that have begun go on: neither waits for anything but a
\* mutex or a worker.  Nothing obliges a client to call or a worker to throw.
FairSpec ==
  /\ Spec
  /\ \A w \in Slot : WF_vars(WorkerStep(w))
  /\ \A c \in Client : WF_vars(CallStep(c))

-----------------------------------------------------------------------------

Threads == [at : Places, resume : BOOLEAN, cancelled : BOOLEAN, next : Nat \ {0},
            skip : Nat, digests : SUBSET Contents, same : SUBSET Chunk, known : SUBSET Contents,
            batch : SUBSET Contents, ids : SUBSET Contents, indexed : Nat, committed : Nat,
            unflushed : BOOLEAN, last : BOOLEAN]

TypeOK ==
  /\ job \in [state : {"idle", "running", "stopped", "failed"}, committed : Nat]
  /\ manifest \in [exists : BOOLEAN, digests : SUBSET Contents]
  /\ processed \subseteq Contents /\ stored \subseteq Contents /\ staged \subseteq Contents
  /\ version \in [Chunk -> {1, 2}]
  /\ worker \in [Slot -> Threads]
  /\ thread \in Slot \cup {None}
  /\ active \in BOOLEAN
  /\ call \in [Client -> [op : Ops, join : Slot \cup {None}]]

\* Whatever a file manifest lists is in the store, in the version listed: a
\* resumed job never reads such a file again (wax_rag_handler.cpp:1181, 1496).
ManifestIsIndexed == manifest.digests \subseteq stored

\* As long as no manifest replaces it, the count of committed chunks in the
\* checkpoint is a count of chunks from the first one on that are in the
\* store, whoever wrote it; and so are the processed ids.  A resumed job skips
\* by both (wax_rag_handler.cpp:1415, 1431).
CheckpointIsBacked ==
  /\ ~manifest.exists => \A i \in Chunk : i <= job.committed => Now(i) \in stored
  /\ processed \subseteq stored

\* A job that runs has a worker that will end it and that index.stop can
\* reach, also while other workers are still being joined: no job stays
\* "running" for ever, to refuse every later start.
JobHasWorker ==
  Running => /\ thread # None
             /\ Live(thread) /\ worker[thread].at # "exit"
             /\ ~worker[thread].cancelled

\* A thread that is joined or can be joined is joined by one call only.
JoinedOnce ==
  /\ \A c, d \in Client : c # d /\ call[c].join # None => call[c].join # call[d].join
  /\ \A c \in Client : call[c].join # None => call[c].join # thread

\* index.start, index.status and index.stop return, and so does the shutdown,
\* although they may have to wait for a worker.
CallsReturn == \A c \in Client : call[c] # Idle ~> call[c] = Idle

\* Every job ends.
JobsEnd == Running ~> ~Running
=============================================================================
