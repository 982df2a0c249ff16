----------------------------- MODULE WriterLease -----------------------------
(***************************************************************************)
(* The lease that lets one writer at a time open a store:                  *)
(* AcquireWriterLease and the deleter of the lease it returns, in          *)
(* src/src/core/wax_store.cpp, POSIX branch.                               *)
(*                                                                         *)
(* One store path.  An opener is one call of WaxStore::Open and the store  *)
(* it returns; several may run in one process.  The lease has two layers:  *)
(* a key in a set of the process, then an fcntl lock on a lease file next  *)
(* to the store.  The kernel keeps such a lock per process and inode; the  *)
(* path of the lease file names an inode, which unlink takes away while    *)
(* other processes may still have it open.  Each system call is one step.  *)
(*                                                                         *)
(* Left out: the Windows branch, errors other than a held lock, and        *)
(* Create, which truncates the store before it asks for the lease.         *)
(***************************************************************************)
EXTENDS Integers

CONSTANTS
  Opener,   \* calls that may be open at the same time
  Process,
  Host,     \* Host[o] is the process opener o runs in
  Inode,    \* inodes the file system may give the lease file
  None      \* no inode, no process

ASSUME LeaseAssumption ==
  /\ Host \in [Opener -> Process]
  /\ None \notin Inode
  /\ None \notin Process

VARIABLES
  at,     \* what each opener is about to do; "idle" outside Open and Close
  keys,   \* processes whose g_process_writer_leases holds the path
  fd,     \* inode each opener has open
  lock,   \* process that locks each inode
  name    \* inode the lease path names

vars == <<at, keys, fd, lock, name>>

Steps == {"idle", "open", "lock", "held", "close", "unlink", "key"}

Init ==
  /\ at = [o \in Opener |-> "idle"]
  /\ keys = {}
  /\ fd = [o \in Opener |-> None]
  /\ lock = [i \in Inode |-> None]
  /\ name \in Inode \cup {None}   \* a dead process may have left the file

Goto(o, step) == at' = [at EXCEPT ![o] = step]

\* A slip: the key of the process is not looked at.
TakeKeyBlindly(o) ==
  /\ at[o] = "idle"
  /\ keys' = keys \cup {Host[o]}
  /\ Goto(o, "open")
  /\ UNCHANGED <<fd, lock, name>>

TakeKey(o) ==
  /\ at[o] = "idle"
  /\ Host[o] \notin keys
  /\ keys' = keys \cup {Host[o]}
  /\ Goto(o, "open")
  /\ UNCHANGED <<fd, lock, name>>

Unused == {i \in Inode : i # name /\ \A o \in Opener : fd[o] # i}

OpenFile(o) ==
  /\ at[o] = "open"
  /\ IF name # None
       THEN fd' = [fd EXCEPT ![o] = name] /\ UNCHANGED name
       ELSE \E i \in Unused : fd' = [fd EXCEPT ![o] = i] /\ name' = i
  /\ Goto(o, "lock")
  /\ UNCHANGED <<keys, lock>>

\* A slip: the answer of fcntl is not looked at.
LockFileAnyway(o) ==
  /\ at[o] = "lock"
  /\ lock' = [lock EXCEPT ![fd[o]] = Host[o]]
  /\ Goto(o, "held")
  /\ UNCHANGED <<keys, fd, name>>

LockFile(o) ==
  /\ at[o] = "lock"
  /\ lock[fd[o]] \in {None, Host[o]}
  /\ lock' = [lock EXCEPT ![fd[o]] = Host[o]]
  /\ Goto(o, "held")
  /\ UNCHANGED <<keys, fd, name>>

\* A slip: a refused opener forgets to give its key back.
RefusedKeepsKey(o) ==
  /\ at[o] = "lock"
  /\ lock[fd[o]] \notin {None, Host[o]}
  /\ fd' = [fd EXCEPT ![o] = None]
  /\ Goto(o, "idle")
  /\ UNCHANGED <<keys, lock, name>>

RefusedWaits(o) == FALSE

\* F_SETLK does not wait: the file is closed and Open throws.
Refused(o) ==
  /\ at[o] = "lock"
  /\ lock[fd[o]] \notin {None, Host[o]}
  /\ fd' = [fd EXCEPT ![o] = None]
  /\ Goto(o, "key")
  /\ UNCHANGED <<keys, lock, name>>

\* Close, or Open failing to load the state, destroys the lease.
Unlock(o) ==
  /\ at[o] = "held"
  /\ lock' = [lock EXCEPT ![fd[o]] = None]
  /\ Goto(o, "close")
  /\ UNCHANGED <<keys, fd, name>>

\* The kernel drops a process's lock when it closes any descriptor of the file.
CloseFile(o) ==
  /\ at[o] = "close"
  /\ fd' = [fd EXCEPT ![o] = None]
  /\ lock' = [lock EXCEPT ![fd[o]] = IF @ = Host[o] THEN None ELSE @]
  /\ Goto(o, "unlink")
  /\ UNCHANGED <<keys, name>>

Unlink(o) ==
  /\ at[o] = "unlink"
  /\ name' = None
  /\ Goto(o, "key")
  /\ UNCHANGED <<keys, fd, lock>>

DropKey(o) ==
  /\ at[o] = "key"
  /\ keys' = keys \ {Host[o]}
  /\ Goto(o, "idle")
  /\ UNCHANGED <<fd, lock, name>>

\* The kernel closes the files of a dead process and drops its locks.
ProcessDies(p) ==
  /\ at' = [o \in Opener |-> IF Host[o] = p THEN "idle" ELSE at[o]]
  /\ fd' = [o \in Opener |-> IF Host[o] = p THEN None ELSE fd[o]]
  /\ lock' = [i \in Inode |-> IF lock[i] = p THEN None ELSE lock[i]]
  /\ keys' = keys \ {p}
  /\ UNCHANGED name

Step(o) ==
  \/ TakeKey(o)
  \/ OpenFile(o)
  \/ LockFile(o)
  \/ Refused(o)
  \/ Unlock(o)
  \/ CloseFile(o)
  \/ Unlink(o)
  \/ DropKey(o)

Next ==
  \/ \E o \in Opener : Step(o)
  \/ \E p \in Process : ProcessDies(p)

Spec == Init /\ [][Next]_vars

\* Every step but the caller's own (opening, closing) is the code's to finish.
Finishing(o) ==
  OpenFile(o) \/ LockFile(o) \/ Refused(o) \/ CloseFile(o) \/ Unlink(o) \/ DropKey(o)

FairSpec == Spec /\ \A o \in Opener : WF_vars(Finishing(o))

-----------------------------------------------------------------------------
TypeOK ==
  /\ at \in [Opener -> Steps]
  /\ keys \in SUBSET Process
  /\ fd \in [Opener -> Inode \cup {None}]
  /\ lock \in [Inode -> Process \cup {None}]
  /\ name \in Inode \cup {None}
  /\ \A o \in Opener : fd[o] # None <=> at[o] \in {"lock", "held", "close"}

\* Openers of one process exclude each other from the key on, whatever other
\* processes do: at most one is anywhere between Open and the end of Close.
ProcessExclusive ==
  \A o, q \in Opener :
    Host[o] = Host[q] /\ at[o] # "idle" /\ at[q] # "idle" => o = q

\* A key is held exactly for a process with an opener at work, and a lock only
\* for an opener that holds the lease: no refused Open, Close or death
\* leaves behind something that blocks the next Open.
NothingLeaks ==
  /\ keys = {Host[o] : o \in {q \in Opener : at[q] # "idle"}}
  /\ \A i \in Inode : lock[i] # None =>
       \E o \in Opener : at[o] = "held" /\ fd[o] = i /\ Host[o] = lock[i]

\* The holders of one lease file: fcntl lets in one at a time.
InodeExclusive ==
  \A o, q \in Opener :
    at[o] = "held" /\ at[q] = "held" /\ fd[o] = fd[q] => o = q

\* Every Open or Close that has begun returns.
CallsReturn == \A o \in Opener : at[o] # "idle" ~> at[o] \in {"idle", "held"}
==============================================================================
