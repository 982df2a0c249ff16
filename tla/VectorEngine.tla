---------------------------- MODULE VectorEngine ----------------------------
(***************************************************************************)
(* USearchVectorEngine (src/src/vector/usearch_vector_engine.cpp): vectors *)
(* in a map, changes of them that are staged and committed, and segments   *)
(* that hold the vectors of an engine (src/src/vector/mv2v_format.cpp).    *)
(*                                                                         *)
(* A commit moves the values of each staged vector into the map; when it   *)
(* finds no memory half-way, the changes stay staged, and those it has     *)
(* already made have no values any more (Husk).                            *)
(*                                                                         *)
(* An index is [vectors, pending, segment, kept, again]: segment is the    *)
(* one last saved, kept what the map was then, and again tells that a      *)
(* commit that stopped half-way was tried again.                           *)
(*                                                                         *)
(* Left out: segments cut short or larger than a word counts, which are    *)
(* refused, and memory that is not there for a load.                       *)
(***************************************************************************)
EXTENDS Integers, FiniteSets, SequencesExt, FiniteSetsExt, Functions

CONSTANTS
  Dimensions,     \* values of a vector, and the similarity of the engine
  Similarity,
  NoSegment

ASSUME VectorAssumption == Dimensions \in Nat \ {0}

Husk == <<>>

NewIndex == [vectors |-> <<>>, pending |-> <<>>, segment |-> NoSegment, kept |-> <<>>,
             again |-> FALSE]

\* The dimensions of a vector are checked when it is staged.
StageAdd(x, id, vector) == [x EXCEPT !.pending = Append(@, [id |-> id, vector |-> {vector}])]
StageDrop(x, id) == [x EXCEPT !.pending = Append(@, [id |-> id, vector |-> {}])]
DropStaged(x) == [x EXCEPT !.pending = <<>>]

Changed(vectors, change) ==
  [id \in (DOMAIN vectors \ {change.id}) \cup {change.id : v \in change.vector} |->
     IF id = change.id THEN CHOOSE v \in change.vector : TRUE ELSE vectors[id]]

Moved(change) == IF change.vector = {} THEN change ELSE [change EXCEPT !.vector = {Husk}]
HasHusk(x) == \E i \in DOMAIN x.pending : x.pending[i].vector = {Husk}

\* CommitStaged, and what it leaves when it stops in front of change n + 1.
CommitVectors(x) ==
  [x EXCEPT !.vectors = FoldLeft(Changed, @, x.pending), !.pending = <<>>,
            !.again = @ \/ HasHusk(x)]

StopsAt(x, n) ==
  [x EXCEPT !.vectors = FoldLeft(Changed, @, SubSeq(x.pending, 1, n)),
            !.pending = [i \in DOMAIN @ |-> IF i <= n THEN Moved(@[i]) ELSE @[i]],
            !.again = @ \/ HasHusk(x)]

-----------------------------------------------------------------------------
SortedIds(vectors) == SetToSortSeq(DOMAIN vectors, LAMBDA a, b : a < b)

\* A slip: the values are written in the order of the map, the ids sorted.
FlattenedAsMapped(vectors, ids) ==
  FoldLeft(LAMBDA floats, id : floats \o vectors[id], <<>>, Reverse(ids))

Flattened(vectors, ids) ==
  FoldLeft(LAMBDA floats, id : floats \o vectors[id], <<>>, ids)

\* EncodeMetalVecSegment refuses vectors that do not all have their values.
Encodable(vectors) == \A id \in DOMAIN vectors : Len(vectors[id]) = Dimensions

SegmentOf(vectors) ==
  LET ids == SortedIds(vectors)
  IN  [encoding |-> "metal", similarity |-> Similarity, dimension |-> Dimensions,
       count |-> Len(ids), floats |-> Flattened(vectors, ids), ids |-> ids]

SerializeMetalSegment(x) ==
  IF Encodable(x.vectors)
    THEN [x EXCEPT !.segment = SegmentOf(x.vectors), !.kept = x.vectors] ELSE x

\* DecodeVecSegment, and the checks of LoadMetalSegment.
DecodeVecSegment(s) ==
  [id \in ToSet(s.ids) |->
     LET i == Min({j \in DOMAIN s.ids : s.ids[j] = id}) - 1
     IN  SubSeq(s.floats, i * Dimensions + 1, (i + 1) * Dimensions)]

Accepted(s) ==
  /\ s.encoding = "metal"
  /\ Len(s.floats) = s.count * s.dimension /\ Len(s.ids) = s.count
  /\ s.dimension = Dimensions
  /\ s.similarity = Similarity

\* A segment that is not accepted changes nothing, also not what is staged.
LoadMetalSegment(x, s) ==
  IF Accepted(s) THEN [x EXCEPT !.vectors = DecodeVecSegment(s), !.pending = <<>>] ELSE x
=============================================================================
