---------------------------- MODULE FactPayload -----------------------------
(***************************************************************************)
(* A fact as the payload of a frame, and back (src/src/orchestrator/       *)
(* memory_orchestrator.cpp): what a writer refuses, and what of a payload  *)
(* a restart reads.                                                        *)
(*                                                                         *)
(* A payload is an opcode, the strings that follow it, and how many pairs  *)
(* of metadata there are among them.  A string is a name, Size its bytes.  *)
(***************************************************************************)
EXTENDS Naturals, SequencesExt

CONSTANTS
  KeyOrder,     \* metadata keys in the order of std::string's <
  Size,         \* bytes of each string
  MaxField,     \* kMaxStructuredFactFieldBytes
  MaxPairs,     \* kMaxStructuredFactMetadataPairs
  MaxPayload,   \* kMaxStructuredFactPayloadBytes
  MaxRead       \* kMaxFactPayload: what a restart reads of a frame

ASSUME PayloadAssumption ==
  /\ Size \in [DOMAIN Size -> Nat]
  /\ KeyOrder \in Seq(DOMAIN Size)
  /\ \A i, j \in DOMAIN KeyOrder : KeyOrder[i] = KeyOrder[j] => i = j
  /\ {MaxField, MaxPairs, MaxPayload, MaxRead} \subseteq Nat

\* Magic and opcode, and the count of pairs; each string has its length before it.
HeadBytes(op) == IF op = "upsert" THEN 11 ELSE 7

Bytes(p) ==
  LET upTo[i \in 0..Len(p.strings)] ==
        IF i = 0 THEN HeadBytes(p.op) ELSE upTo[i - 1] + 4 + Size[p.strings[i]]
  IN  upTo[Len(p.strings)]

\* Keys in order, each with its value behind it.
Pairs(meta) ==
  LET upTo[i \in 0..Len(KeyOrder)] ==
        IF i = 0 THEN <<>>
        ELSE IF KeyOrder[i] \in DOMAIN meta
             THEN upTo[i - 1] \o <<KeyOrder[i], meta[KeyOrder[i]]>>
             ELSE upTo[i - 1]
  IN  upTo[Len(KeyOrder)]

BuildUpsertPayload(entity, attribute, value, meta) ==
  [op |-> "upsert", strings |-> <<entity, attribute, value>> \o Pairs(meta),
   pairs |-> Cardinality(DOMAIN meta)]

BuildRemovePayload(entity, attribute) ==
  [op |-> "remove", strings |-> <<entity, attribute>>, pairs |-> 0]

\* Otherwise a writer throws before anything is put.
WithinLimits(p) ==
  /\ Bytes(p) <= MaxPayload
  /\ p.pairs <= MaxPairs
  /\ \A s \in ToSet(p.strings) : Size[s] <= MaxField

\* The part of a payload in its first n bytes; a string that is cut is not in it.
FirstBytes(p, n) ==
  LET Part(k) == [p EXCEPT !.strings = SubSeq(@, 1, k)]
      whole == {k \in 0..Len(p.strings) : Bytes(Part(k)) <= n}
  IN  Part(Max({0} \cup whole))

KeyAt(p, i) == p.strings[2 + 2 * i]
ValueAt(p, i) == p.strings[3 + 2 * i]

\* Entity and attribute must not be empty, keys are distinct and nothing follows.
Readable(p) ==
  /\ WithinLimits(p)
  /\ Len(p.strings) = IF p.op = "upsert" THEN 3 + 2 * p.pairs ELSE 2
  /\ Size[p.strings[1]] > 0 /\ Size[p.strings[2]] > 0
  /\ \A i, j \in 1..p.pairs : i # j => KeyAt(p, i) # KeyAt(p, j)

ParsedMeta(p) ==
  [k \in {KeyAt(p, i) : i \in 1..p.pairs} |->
     ValueAt(p, CHOOSE i \in 1..p.pairs : KeyAt(p, i) = k)]

ParsePayload(p) ==
  [op |-> p.op, entity |-> p.strings[1], attribute |-> p.strings[2],
   value |-> IF p.op = "upsert" THEN p.strings[3] ELSE "",
   meta |-> ParsedMeta(p)]

\* Of any case; the names of strings are in lower case.
MetadataFlagTrue(meta, key) ==
  key \in DOMAIN meta /\ meta[key] \in {"1", "true", "yes", "on"}

\* Metadata by which a restart takes a frame for content, and does not read it.
IsKnownUserContentFrame(meta) ==
  /\ "enricher_kind" \notin DOMAIN meta
  /\ {"source_kind", "chunk_id", "language", "symbol"} \cap DOMAIN meta # {}
=============================================================================
