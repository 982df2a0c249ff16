----------------------------- MODULE MCIndexJob -----------------------------
(* One client and a repository of three chunks, which the process may die  *)
(* over at any step; or two clients at once, for whose threads a           *)
(* repository without chunks is enough.                                    *)
EXTENDS IndexJob

CONSTANT First   \* the client that calls when there are chunks

Empty == INSTANCE IndexJob
  WITH NumChunks <- 0, Blueprints <- {}, Editable <- {}, FlushEvery <- 1, TornFiles <- FALSE

NoChunks == DOMAIN version = {}

MCInit == Init \/ Empty!Init

MCNext ==
  \/ /\ ~NoChunks
     /\ Next
     /\ \A c \in Client : call'[c] = Idle \/ (c = First /\ call'[c].op # "status")
  \/ /\ NoChunks
     /\ Empty!Next

\* As in FairSpec; a step begins with what it needs, for TLC to be quick.
MCWorkerStep(w) ==
  /\ Live(w)
  /\ \/ NoChunks /\ Empty!WorkerStep(w)
     \/ ~NoChunks /\ WorkerStep(w)
MCCallStep(c) ==
  /\ call[c] # Idle
  /\ \/ NoChunks /\ Empty!CallStep(c)
     \/ ~NoChunks /\ CallStep(c)

MCFairSpec ==
  /\ MCInit /\ [][MCNext]_vars
  /\ \A w \in Slot : WF_vars(MCWorkerStep(w))
  /\ \A c \in Client : WF_vars(MCCallStep(c))
=============================================================================
