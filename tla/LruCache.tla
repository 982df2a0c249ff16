------------------------------ MODULE LruCache ------------------------------
(***************************************************************************)
(* What a bounded cache promises: a key that is used becomes the newest,   *)
(* and when there is no room for a new key the oldest goes.                *)
(***************************************************************************)
EXTENDS Naturals, SequencesExt

CONSTANTS Key, Capacity

VARIABLE recent   \* keys, the newest first

Use(k) ==
  LET keys == <<k>> \o Remove(recent, k)
  IN  recent' = SubSeq(keys, 1, Min({Len(keys), Capacity}))

Clear == recent' = <<>>

Init == recent = <<>>
Next == (\E k \in Key : Use(k)) \/ Clear
Spec == Init /\ [][Next]_recent
=============================================================================
