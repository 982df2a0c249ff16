-------------------------- MODULE WriterLeaseProofs --------------------------
(***************************************************************************)
(* Proofs about WriterLease, for any number of processes and openers.      *)
(***************************************************************************)
EXTENDS WriterLease, TLAPS

\* What the exclusion rests on: an opener that holds the lease has its lock.
HolderLocks ==
  \A o \in Opener : at[o] = "held" => lock[fd[o]] = Host[o]

LeaseInv == TypeOK /\ ProcessExclusive /\ NothingLeaks /\ HolderLocks

\* The initial states satisfy the invariant.
LEMMA LeaseInit == ASSUME Init PROVE LeaseInv
  BY LeaseAssumption DEF Init, LeaseInv, TypeOK, Steps, ProcessExclusive, NothingLeaks, HolderLocks

\* Two holders of one lease file would be openers of one process.
LEMMA HoldersAreOne == ASSUME LeaseInv PROVE InodeExclusive
  BY DEF LeaseInv, HolderLocks, ProcessExclusive, InodeExclusive, TypeOK

\* One step of one opener preserves the invariant.
LEMMA StepKeeps ==
  ASSUME LeaseInv, NEW o \in Opener, Step(o)
  PROVE  LeaseInv'
<1> USE LeaseAssumption DEF LeaseInv, TypeOK, Steps, Goto
<1>1. CASE TakeKey(o)
  BY <1>1 DEF TakeKey, ProcessExclusive, NothingLeaks, HolderLocks
<1>2. CASE OpenFile(o)
  BY <1>2 DEF OpenFile, Unused, ProcessExclusive, NothingLeaks, HolderLocks
<1>3. CASE LockFile(o)
  BY <1>3 DEF LockFile, ProcessExclusive, NothingLeaks, HolderLocks
<1>4. CASE Refused(o)
  BY <1>4 DEF Refused, ProcessExclusive, NothingLeaks, HolderLocks
<1>5. CASE Unlock(o)
  BY <1>5 DEF Unlock, ProcessExclusive, NothingLeaks, HolderLocks
<1>6. CASE CloseFile(o)
  BY <1>6 DEF CloseFile, ProcessExclusive, NothingLeaks, HolderLocks
<1>7. CASE Unlink(o)
  BY <1>7 DEF Unlink, ProcessExclusive, NothingLeaks, HolderLocks
<1>8. CASE DropKey(o)
  BY <1>8 DEF DropKey, ProcessExclusive, NothingLeaks, HolderLocks
<1> QED BY <1>1, <1>2, <1>3, <1>4, <1>5, <1>6, <1>7, <1>8 DEF Step

\* The death of a process preserves the invariant.
LEMMA DeathKeeps ==
  ASSUME LeaseInv, NEW p \in Process, ProcessDies(p)
  PROVE  LeaseInv'
  BY LeaseAssumption DEF LeaseInv, TypeOK, Steps, ProcessDies, ProcessExclusive, NothingLeaks, HolderLocks

\* In every reachable state of the lease the inductive invariant holds.
THEOREM LeaseInvariant == Spec => []LeaseInv
<1>1. Init => LeaseInv BY LeaseInit
<1>2. LeaseInv /\ [Next]_vars => LeaseInv'
  <2> SUFFICES ASSUME LeaseInv, [Next]_vars PROVE LeaseInv' OBVIOUS
  <2>1. CASE Next BY <2>1, StepKeeps, DeathKeeps DEF Next
  <2>2. CASE UNCHANGED vars
    BY <2>2 DEF vars, LeaseInv, TypeOK, ProcessExclusive, NothingLeaks, HolderLocks
  <2> QED BY <2>1, <2>2
<1> QED BY <1>1, <1>2, PTL DEF Spec

\* Openers, locks, inodes and keys keep their types.
THEOREM LeaseTyped == Spec => []TypeOK
<1>1. LeaseInv => TypeOK BY DEF LeaseInv
<1> QED BY <1>1, LeaseInvariant, PTL

\* In one process at most one opener is between Open and the end of Close.
THEOREM OneOpenerPerProcess == Spec => []ProcessExclusive
<1>1. LeaseInv => ProcessExclusive BY DEF LeaseInv
<1> QED BY <1>1, LeaseInvariant, PTL

\* No key and no lock outlives the opener it was taken for.
THEOREM LeaseNeverLeaks == Spec => []NothingLeaks
<1>1. LeaseInv => NothingLeaks BY DEF LeaseInv
<1> QED BY <1>1, LeaseInvariant, PTL

\* One lease file has one holder at a time, over all processes.
THEOREM OneHolderPerFile == Spec => []InodeExclusive
<1>1. LeaseInv => InodeExclusive BY HoldersAreOne
<1> QED BY <1>1, LeaseInvariant, PTL
==============================================================================
