---------------------------- MODULE DurableStore -----------------------------
(***************************************************************************)
(* What an .mv2s store promises about its file: a list of frames that      *)
(* grows by acknowledged mutations and never loses one, and a published    *)
(* list, replaced by the whole content at each commit, whose generation    *)
(* never goes back.  Process deaths and reopens are not visible.           *)
(***************************************************************************)
EXTENDS Integers, Sequences

CONSTANTS Bytes   \* what the payload of a frame reads as

VARIABLES
  content,     \* frames with every acknowledged mutation applied
  published,   \* frames of the last commit
  generation   \* generation of the last commit

durable == <<content, published, generation>>

Init ==
  /\ content = <<>>
  /\ published = <<>>
  /\ generation = 0

Put(b) ==
  /\ content' = Append(content, [bytes |-> b, deleted |-> FALSE])
  /\ UNCHANGED <<published, generation>>

Delete(i) ==
  /\ content' = [content EXCEPT ![i].deleted = TRUE]
  /\ UNCHANGED <<published, generation>>

\* A commit retried after its footer reached the file keeps the generation.
Publish ==
  /\ published' = content
  /\ generation' \in {generation, generation + 1}
  /\ UNCHANGED content

Next ==
  \/ \E b \in Bytes : Put(b)
  \/ \E i \in DOMAIN content : Delete(i)
  \/ Publish

Spec == Init /\ [][Next]_durable
==============================================================================
