----------------------------- MODULE FrameChain -----------------------------
(***************************************************************************)
(* The frames of a store and the mutations that change them: how Commit    *)
(* applies pending mutations to the committed frames, and how readers see  *)
(* them before that (src/src/core/wax_store.cpp).                          *)
(*                                                                         *)
(* Frames are a sequence; ids count from 1 here, from 0 in the code.  A    *)
(* frame is a record with at least the fields deleted (status # 0),        *)
(* supersedes and superseded_by.                                           *)
(***************************************************************************)
EXTENDS Naturals, Sequences

CONSTANT None   \* no frame

PutFrame(f) == [kind |-> "put", frame |-> f]
DeleteFrame(i) == [kind |-> "delete", id |-> i]
SupersedeFrame(old, new) == [kind |-> "supersede", old |-> old, new |-> new]

\* What a mutation does to frames when nothing is checked: FrameMetas with
\* pending mutations, which is what a reader sees before a commit.
Preview(fs, m) ==
  CASE m.kind = "put" -> Append(fs, m.frame)
    [] m.kind = "delete" -> [fs EXCEPT ![m.id].deleted = TRUE]
    [] m.kind = "supersede" -> [fs EXCEPT ![m.old].superseded_by = m.new,
                                          ![m.new].supersedes = m.old]

View(fs, ms) ==
  LET after[n \in 0..Len(ms)] == IF n = 0 THEN fs ELSE Preview(after[n - 1], ms[n])
  IN  after[Len(ms)]

\* The loop follows supersedes from the frame that is superseded, one hop
\* for each frame there is: running out of hops counts as a cycle.
WouldCreateSupersedeCycle(fs, old, new) ==
  LET walk[n \in 0..Len(fs)] ==
        IF n = 0 THEN old
        ELSE LET last == walk[n - 1] IN IF last = None THEN None ELSE fs[last].supersedes
  IN  \/ walk[Len(fs)] # None
      \/ \E n \in 1..Len(fs) : walk[n] = new

\* A slip: only the younger frame is asked whether it supersedes another.
AdmitsConflict(fs, m) ==
  /\ m.kind = "delete" => m.id \in DOMAIN fs
  /\ m.kind = "supersede" =>
       /\ {m.old, m.new} \subseteq DOMAIN fs
       /\ fs[m.new].supersedes \in {None, m.old}

\* Commit applies mutations strictly and throws on the first it cannot.
Admits(fs, m) ==
  /\ m.kind = "delete" => m.id \in DOMAIN fs
  /\ m.kind = "supersede" =>
       /\ {m.old, m.new} \subseteq DOMAIN fs
       /\ m.old # m.new
       /\ fs[m.old].superseded_by \in {None, m.new}
       /\ fs[m.new].supersedes \in {None, m.old}
       /\ ~WouldCreateSupersedeCycle(fs, m.old, m.new)

Applicable(fs, ms) ==
  \A i \in 1..Len(ms) : Admits(View(fs, SubSeq(ms, 1, i - 1)), ms[i])
=============================================================================
