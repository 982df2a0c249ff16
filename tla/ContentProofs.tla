---------------------------- MODULE ContentProofs ----------------------------
(***************************************************************************)
(* Proofs about ContentMemory, for any embedders, tags and dimensions, any *)
(* bounds, and whatever calls, commits and embedders fail or die: a        *)
(* process compares its vectors with comparable ones only, candidates keep *)
(* the live set, a commit that was refused can be repeated, and what is    *)
(* searched is what the next process would build from the file.            *)
(***************************************************************************)
EXTENDS ContentMemory, SetInduction, TLAPS

\* Vectors that an embedder e may compare its own with.
Comparable(vecs, e) ==
  \A i \in DOMAIN vecs :
    /\ Dims[vecs[i]] = Dims[e]
    /\ Tag[vecs[i]] # None /\ Tag[e] # None => Tag[vecs[i]] = Tag[e]

\* Not only the staged vectors, but also those a commit has published: a commit
\* makes the first the second, and a failed rebuild leaves both.
VectorInv ==
  /\ vectors = [docs |-> vectors.docs, staged |-> vectors.staged]
  /\ Comparable(vectors.docs, embedder)
  /\ Comparable(vectors.staged, embedder)

-----------------------------------------------------------------------------
(* What the operators give.                                                 *)

\* Whatever was persisted, and whoever persisted it, a rebuild reuses a vector
\* or makes it anew with the embedder of the process.
LEMMA RebuiltComparable ==
  ASSUME NEW fs, NEW e
  PROVE  Comparable(VectorsOf(fs, e), e) /\ Comparable(PersistedVectors(fs, e), e)
<1>1. Comparable(VectorsOf(fs, e), e)
  <2> SUFFICES ASSUME NEW i \in Indexed(fs)
               PROVE  /\ Dims[VectorsOf(fs, e)[i]] = Dims[e]
                      /\ Tag[VectorsOf(fs, e)[i]] # None /\ Tag[e] # None
                           => Tag[VectorsOf(fs, e)[i]] = Tag[e]
    BY DEF Comparable, VectorsOf
  <2>1. CASE Reuses(PersistedBy(fs, i), e)
    <3>1. VectorsOf(fs, e)[i] = PersistedBy(fs, i)
      BY <2>1 DEF VectorsOf
    <3> QED
      BY <2>1, <3>1 DEF Reuses
  <2>2. CASE ~Reuses(PersistedBy(fs, i), e)
    <3>1. VectorsOf(fs, e)[i] = e
      BY <2>2 DEF VectorsOf
    <3> QED
      BY <3>1
  <2> QED
    BY <2>1, <2>2
<1>2. Comparable(PersistedVectors(fs, e), e)
  <2> SUFFICES ASSUME NEW i \in Indexed(fs), Reuses(PersistedBy(fs, i), e)
               PROVE  /\ Dims[PersistedBy(fs, i)] = Dims[e]
                      /\ Tag[PersistedBy(fs, i)] # None /\ Tag[e] # None
                           => Tag[PersistedBy(fs, i)] = Tag[e]
    BY DEF Comparable, PersistedVectors
  <2> QED
    BY DEF Reuses
<1> QED
  BY <1>1, <1>2

LEMMA NoVectorsComparable ==
  ASSUME NEW e
  PROVE  Comparable(<<>>, e)
BY DEF Comparable

LEMMA WithComparable ==
  ASSUME NEW vecs, NEW i, NEW e, Comparable(vecs, e)
  PROVE  Comparable(With(vecs, i, e), e)
BY DEF Comparable, With

-----------------------------------------------------------------------------
(* Runtimes that are built from the file.                                   *)

LEMMA RebuiltInv ==
  ASSUME NEW fs, NEW e, Rebuilt(fs, e), embedder' = e
  PROVE  VectorInv'
<1>1. vectors' = [docs |-> VectorsOf(fs, e), staged |-> VectorsOf(fs, e)]
  BY DEF Rebuilt
<1> QED
  BY <1>1, RebuiltComparable DEF VectorInv

LEMMA RebuiltPartlyInv ==
  ASSUME NEW fs, NEW e, RebuiltPartly(fs, e), embedder' = e
  PROVE  VectorInv'
<1>1. vectors' = [docs |-> <<>>, staged |-> PersistedVectors(fs, e)]
  BY DEF RebuiltPartly
<1> QED
  BY <1>1, RebuiltComparable, NoVectorsComparable DEF VectorInv

LEMMA StartInv ==
  ASSUME NEW fs, NEW ms, NEW past, Start(fs, ms, past)
  PROVE  VectorInv'
<1>1. PICK e \in Embedder : embedder' = e /\ Rebuilt(fs, e)
  BY DEF Start
<1> QED
  BY <1>1, RebuiltInv

\* A call that has staged vectors the embedder may compare.
LEMMA StagedInv ==
  ASSUME NEW vecs, Comparable(vecs, embedder), VectorInv,
         vectors' = [vectors EXCEPT !.staged = vecs], UNCHANGED embedder
  PROVE  VectorInv'
<1>1. vectors' = [docs |-> vectors.docs, staged |-> vecs]
  BY DEF VectorInv
<1> QED
  BY <1>1 DEF VectorInv

LEMMA SameVectorsInv ==
  ASSUME VectorInv, UNCHANGED <<vectors, embedder>>
  PROVE  VectorInv'
BY DEF VectorInv

LEMMA PublishedInv ==
  ASSUME VectorInv, vectors' = [vectors EXCEPT !.docs = vectors.staged],
         UNCHANGED embedder
  PROVE  VectorInv'
<1>1. vectors' = [docs |-> vectors.staged, staged |-> vectors.staged]
  BY DEF VectorInv
<1> QED
  BY <1>1 DEF VectorInv

-----------------------------------------------------------------------------
LEMMA VectorInit == Init => VectorInv
BY NoVectorsComparable DEF Init, VectorInv

LEMMA VectorStep == VectorInv /\ [Next]_vars => VectorInv'
<1> SUFFICES ASSUME VectorInv, [Next]_vars
             PROVE  VectorInv'
  OBVIOUS
<1>1. CASE Remember
  <2> DEFINE id == NextId
             vecs == With(vectors.staged, id, embedder)
             staged == Staged(memory, text.staged \cup {id}, vecs)
             records == <<PutFrame(Body("chunk", None, None)),
                          PutFrame(Body("embedding", id, embedder))>>
             state == [n \in 0 .. 2 |-> IF n > 0 THEN staged ELSE Unstaged]
  <2>1. Call(records, state, {})
    BY <1>1 DEF Remember
  <2>2. Len(records) = 2
    OBVIOUS
  <2>3. \/ \E n \in 1 .. 2 :
              /\ vectors' = [vectors EXCEPT !.staged = state[n].vecs]
              /\ UNCHANGED embedder
        \/ \E fs, ms, past : Start(fs, ms, past)
    <3> HIDE DEF state, records
    <3> QED
      BY <2>1, <2>2 DEF Call
  <2>4. \A n \in 1 .. 2 : Comparable(state[n].vecs, embedder)
    <3>1. Comparable(vecs, embedder)
      BY WithComparable DEF VectorInv
    <3>2. staged.vecs = vecs
      BY DEF Staged
    <3> HIDE DEF staged, vecs
    <3> QED
      BY <3>1, <3>2
  <2> HIDE DEF state
  <2> QED
    BY <2>3, <2>4, StagedInv, StartInv
<1>2. ASSUME NEW k \in Key, RememberFact(k)
      PROVE  VectorInv'
  <2> DEFINE m == StageUpsert(memory, k, Entry(NextId, None, FALSE))
             records == <<PutFrame(Fact(k))>>
             state == [n \in 0 .. 1 |->
                        IF n > 0 THEN [Unstaged EXCEPT !.memory = m] ELSE Unstaged]
             up == IF IsHidden THEN {"hidden"} ELSE {}
  <2>1. Call(records, state, up)
    BY <1>2 DEF RememberFact
  <2>2. Len(records) = 1
    OBVIOUS
  <2>3. \/ \E n \in 1 .. 1 :
              /\ vectors' = [vectors EXCEPT !.staged = state[n].vecs]
              /\ UNCHANGED embedder
        \/ \E fs, ms, past : Start(fs, ms, past)
    <3> HIDE DEF state, records
    <3> QED
      BY <2>1, <2>2 DEF Call
  <2>4. \A n \in 1 .. 1 : Comparable(state[n].vecs, embedder)
    <3>1. [Unstaged EXCEPT !.memory = m].vecs = vectors.staged
      BY DEF Unstaged, Staged
    <3> HIDE DEF m
    <3> QED
      BY <3>1 DEF VectorInv
  <2> HIDE DEF state
  <2> QED
    BY <2>3, <2>4, StagedInv, StartInv
<1>3. ASSUME NEW id \in DOMAIN Now, UpdateFactById(id)
      PROVE  VectorInv'
  <2> DEFINE k == Now[id].key
             m == StageUpsert(memory, k, Entry(NextId, id, FALSE))
             records == <<PutFrame(Fact(k)), SupersedeFrame(id, NextId)>>
             state == [n \in 0 .. 2 |->
                        IF n = 2 THEN [Unstaged EXCEPT !.memory = m] ELSE Unstaged]
  <2>1. PICK up : Call(records, state, up)
    BY <1>3 DEF UpdateFactById
  <2>2. Len(records) = 2
    OBVIOUS
  <2>3. \/ \E n \in 1 .. 2 :
              /\ vectors' = [vectors EXCEPT !.staged = state[n].vecs]
              /\ UNCHANGED embedder
        \/ \E fs, ms, past : Start(fs, ms, past)
    <3> HIDE DEF state, records
    <3> QED
      BY <2>1, <2>2 DEF Call
  <2>4. \A n \in 1 .. 2 : Comparable(state[n].vecs, embedder)
    <3>1. /\ [Unstaged EXCEPT !.memory = m].vecs = vectors.staged
          /\ Unstaged.vecs = vectors.staged
      BY DEF Unstaged, Staged
    <3> HIDE DEF m
    <3> QED
      BY <3>1 DEF VectorInv
  <2> HIDE DEF state
  <2> QED
    BY <2>3, <2>4, StagedInv, StartInv
<1>4. CASE Flush
  BY <1>4, PublishedInv DEF Flush
<1>5. CASE FlushFails
  BY <1>5, SameVectorsInv DEF FlushFails
<1>6. CASE FlushRebuilds
  BY <1>6, RebuiltInv, RebuiltPartlyInv DEF FlushRebuilds
<1>7. CASE RememberHandoff
  BY <1>7, SameVectorsInv DEF RememberHandoff
<1>8. CASE CompactIndexes
  BY <1>8, PublishedInv DEF CompactIndexes
<1>9. ASSUME NEW overwrite \in Overwrite, OptimizeSurrogates(overwrite)
      PROVE  VectorInv'
  <2>1. \/ \E fs : embedder' = embedder /\ (Rebuilt(fs, embedder) \/ RebuiltPartly(fs, embedder))
        \/ UNCHANGED <<vectors, embedder>>
        \/ \E fs, ms : Start(fs, ms, TRUE)
    BY <1>9 DEF OptimizeSurrogates, runtime
  <2> QED
    BY <2>1, RebuiltInv, RebuiltPartlyInv, SameVectorsInv, StartInv
<1>10. CASE Close
  BY <1>10, StartInv DEF Close
<1>11. CASE ProcessDies
  BY <1>11, StartInv DEF ProcessDies
<1>12. CASE DiesRewriting
  BY <1>12, StartInv DEF DiesRewriting
<1>13. CASE UNCHANGED vars
  BY <1>13, SameVectorsInv DEF vars, runtime
<1> QED
  BY <1>1, <1>2, <1>3, <1>4, <1>5, <1>6, <1>7, <1>8, <1>9, <1>10, <1>11, <1>12, <1>13 DEF Next

\* Whatever embedders the processes of a store are started with, in any order, a
\* query vector is only compared with vectors of the same dimensions, made by
\* the same embedder or by one of two that do not both name themselves
\* (BuildStoreChannels, RebuildVectorIndexFromStore).
THEOREM VectorsStayComparable == Spec => []VectorsComparable
<1>1. VectorInv => VectorsComparable
  BY DEF VectorInv, Comparable, VectorsComparable
<1> QED
  BY <1>1, VectorInit, VectorStep, PTL DEF Spec

-----------------------------------------------------------------------------
(* Frames, and the mutations that change them.                              *)

Kinds == {"chunk", "embedding", "handoff", "fact", "surrogate", "extract", "empty"}
Link == Nat \cup {None}

Frame == [kind : Kinds, of : Link, by : Embedder \cup {None}, key : Key \cup {None},
          deleted : {FALSE}, supersedes : Link, superseded_by : Link]

NewFrame == {f \in Frame : f.supersedes = None /\ f.superseded_by = None}

Mutation == [kind : {"put"}, frame : NewFrame] \cup [kind : {"supersede"}, old : Nat, new : Nat]

\* What no mutation changes of a frame; one that has been superseded stays so.
SameFrame(f, g) ==
  /\ f.kind = g.kind /\ f.of = g.of /\ f.by = g.by /\ f.key = g.key
  /\ g.superseded_by = None => f.superseded_by = None

Extends(fs, gs) ==
  /\ Len(fs) <= Len(gs)
  /\ \A i \in 1 .. Len(fs) : SameFrame(fs[i], gs[i])

\* A fact is superseded by a later one of its key, or by a surrogate made from it.
Linked(fs, old, new) ==
  /\ old \in DOMAIN fs /\ new \in DOMAIN fs
  /\ fs[old].kind = "fact" =>
       \/ fs[new].kind = "fact" /\ fs[new].key = fs[old].key /\ new > old
       \/ fs[new].kind \in {"surrogate", "extract"} /\ fs[new].of = old

AllLinked(fs) ==
  \A i \in DOMAIN fs : fs[i].superseded_by # None => Linked(fs, i, fs[i].superseded_by)

\* A mutation that links frames the right way, if it links any.
Links(fs, m) == m.kind = "supersede" => Linked(fs, m.old, m.new)

LEMMA FrameTyped ==
  ASSUME NEW f \in Frame
  PROVE  /\ f.kind \in Kinds /\ f.of \in Link /\ f.by \in Embedder \cup {None}
         /\ f.key \in Key \cup {None} /\ f.deleted = FALSE /\ f.supersedes \in Link
         /\ f.superseded_by \in Link
         /\ f = [kind |-> f.kind, of |-> f.of, by |-> f.by, key |-> f.key, deleted |-> FALSE,
                 supersedes |-> f.supersedes, superseded_by |-> f.superseded_by]
BY DEF Frame

LEMMA ExtendsItself ==
  ASSUME NEW fs \in Seq(Frame)
  PROVE  Extends(fs, fs)
BY DEF Extends, SameFrame

LEMMA ExtendsTransitive ==
  ASSUME NEW fs \in Seq(Frame), NEW gs \in Seq(Frame), NEW hs \in Seq(Frame),
         Extends(fs, gs), Extends(gs, hs)
  PROVE  Extends(fs, hs)
<1>1. Len(fs) \in Nat /\ Len(gs) \in Nat /\ Len(hs) \in Nat
  OBVIOUS
<1> QED
  BY <1>1 DEF Extends, SameFrame

LEMMA FrameSuperseded ==
  ASSUME NEW f \in Frame, NEW x \in Link
  PROVE  /\ [f EXCEPT !.superseded_by = x] \in Frame
         /\ [f EXCEPT !.superseded_by = x].superseded_by = x
         /\ [f EXCEPT !.superseded_by = x].supersedes = f.supersedes
         /\ [f EXCEPT !.superseded_by = x].kind = f.kind
         /\ [f EXCEPT !.superseded_by = x].of = f.of
         /\ [f EXCEPT !.superseded_by = x].by = f.by
         /\ [f EXCEPT !.superseded_by = x].key = f.key
BY DEF Frame

LEMMA FrameSupersedes ==
  ASSUME NEW f \in Frame, NEW x \in Link
  PROVE  /\ [f EXCEPT !.supersedes = x] \in Frame
         /\ [f EXCEPT !.supersedes = x].supersedes = x
         /\ [f EXCEPT !.supersedes = x].superseded_by = f.superseded_by
         /\ [f EXCEPT !.supersedes = x].kind = f.kind
         /\ [f EXCEPT !.supersedes = x].of = f.of
         /\ [f EXCEPT !.supersedes = x].by = f.by
         /\ [f EXCEPT !.supersedes = x].key = f.key
BY DEF Frame

LEMMA FramesEqual ==
  ASSUME NEW f \in Frame, NEW g \in Frame, f.kind = g.kind, f.of = g.of, f.by = g.by,
         f.key = g.key, f.superseded_by = g.superseded_by, f.supersedes = g.supersedes
  PROVE  f = g
<1>1. f = [kind |-> f.kind, of |-> f.of, by |-> f.by, key |-> f.key, deleted |-> FALSE,
           supersedes |-> f.supersedes, superseded_by |-> f.superseded_by]
  BY FrameTyped, Zenon
<1>2. g = [kind |-> g.kind, of |-> g.of, by |-> g.by, key |-> g.key, deleted |-> FALSE,
           supersedes |-> g.supersedes, superseded_by |-> g.superseded_by]
  BY FrameTyped, Zenon
<1> QED
  BY <1>1, <1>2, Zenon

\* What a supersede mutation leaves of frames fs.
Superseded(fs, gs, old, new) ==
  /\ gs \in Seq(Frame) /\ Len(gs) = Len(fs)
  /\ \A i \in DOMAIN fs :
       /\ gs[i].kind = fs[i].kind /\ gs[i].of = fs[i].of
       /\ gs[i].by = fs[i].by /\ gs[i].key = fs[i].key
       /\ gs[i].superseded_by = IF i = old THEN new ELSE fs[i].superseded_by
       /\ gs[i].supersedes = IF i = new THEN old ELSE fs[i].supersedes

LEMMA Superseding ==
  ASSUME NEW fs \in Seq(Frame), NEW old \in Nat, NEW new \in Nat
  PROVE  Superseded(fs, Preview(fs, SupersedeFrame(old, new)), old, new)
<1> DEFINE once == [fs EXCEPT ![old].superseded_by = new]
           gs == [once EXCEPT ![new].supersedes = old]
<1>1. Preview(fs, SupersedeFrame(old, new)) = gs
  BY DEF Preview, SupersedeFrame
<1>2. old \in Link /\ new \in Link /\ DOMAIN fs = 1 .. Len(fs) /\ Len(fs) \in Nat
  BY DEF Link
<1>3. /\ once \in Seq(Frame) /\ Len(once) = Len(fs)
      /\ \A i \in DOMAIN fs :
           /\ once[i].kind = fs[i].kind /\ once[i].of = fs[i].of
           /\ once[i].by = fs[i].by /\ once[i].key = fs[i].key
           /\ once[i].superseded_by = IF i = old THEN new ELSE fs[i].superseded_by
           /\ once[i].supersedes = fs[i].supersedes
  <2> DEFINE A(i) == [fs[i] EXCEPT !.superseded_by = new]
  <2>1. /\ DOMAIN once = DOMAIN fs
        /\ \A i \in DOMAIN fs : once[i] = IF i = old THEN A(i) ELSE fs[i]
    OBVIOUS
  <2>2. ASSUME NEW i \in DOMAIN fs
        PROVE  /\ A(i) \in Frame /\ A(i).superseded_by = new /\ A(i).supersedes = fs[i].supersedes
               /\ A(i).kind = fs[i].kind /\ A(i).of = fs[i].of
               /\ A(i).by = fs[i].by /\ A(i).key = fs[i].key
    <3> PICK f \in Frame : f = fs[i]
      OBVIOUS
    <3> QED
      BY <1>2, FrameSuperseded
  <2> HIDE DEF A
  <2>3. once = [i \in 1 .. Len(fs) |-> once[i]]
    BY <1>2, <2>1
  <2>4. \A i \in 1 .. Len(fs) : once[i] \in Frame
    BY <1>2, <2>1, <2>2
  <2> HIDE DEF once
  <2>5. once \in Seq(Frame) /\ Len(once) = Len(fs)
    BY <1>2, <2>3, <2>4
  <2> QED
    BY <2>1, <2>2, <2>5
<1> HIDE DEF once
<1>4. once \in Seq(Frame) /\ DOMAIN once = 1 .. Len(fs) /\ Len(once) = Len(fs)
  BY <1>3
<1>5. /\ gs \in Seq(Frame) /\ Len(gs) = Len(fs)
      /\ \A i \in DOMAIN once :
           /\ gs[i].kind = once[i].kind /\ gs[i].of = once[i].of
           /\ gs[i].by = once[i].by /\ gs[i].key = once[i].key
           /\ gs[i].superseded_by = once[i].superseded_by
           /\ gs[i].supersedes = IF i = new THEN old ELSE once[i].supersedes
  <2> DEFINE A(i) == [once[i] EXCEPT !.supersedes = old]
  <2>1. /\ DOMAIN gs = DOMAIN once
        /\ \A i \in DOMAIN once : gs[i] = IF i = new THEN A(i) ELSE once[i]
    OBVIOUS
  <2>2. ASSUME NEW i \in DOMAIN once
        PROVE  /\ A(i) \in Frame /\ A(i).superseded_by = once[i].superseded_by
               /\ A(i).supersedes = old
               /\ A(i).kind = once[i].kind /\ A(i).of = once[i].of
               /\ A(i).by = once[i].by /\ A(i).key = once[i].key
    <3> PICK f \in Frame : f = once[i]
      BY <1>4
    <3> QED
      BY <1>2, FrameSupersedes
  <2> HIDE DEF A
  <2>3. gs = [i \in 1 .. Len(fs) |-> gs[i]]
    BY <1>4, <2>1
  <2>4. \A i \in 1 .. Len(fs) : gs[i] \in Frame
    BY <1>4, <2>1, <2>2
  <2> HIDE DEF gs
  <2>5. gs \in Seq(Frame) /\ Len(gs) = Len(fs)
    BY <1>2, <2>3, <2>4
  <2> QED
    BY <2>1, <2>2, <2>5
<1> HIDE DEF gs
<1>6. DOMAIN once = DOMAIN fs
  BY <1>2, <1>4
<1> QED
  BY <1>1, <1>3, <1>5, <1>6 DEF Superseded

LEMMA PuttingFrame ==
  ASSUME NEW fs \in Seq(Frame), NEW f \in Frame
  PROVE  LET gs == Preview(fs, PutFrame(f)) IN
         /\ gs = Append(fs, f) /\ gs \in Seq(Frame) /\ Len(gs) = Len(fs) + 1
         /\ \A i \in DOMAIN fs : gs[i] = fs[i]
         /\ gs[Len(fs) + 1] = f
BY DEF Preview, PutFrame

LEMMA MutationKinds ==
  ASSUME NEW m \in Mutation
  PROVE  \/ m.kind = "put" /\ m.frame \in NewFrame /\ m = PutFrame(m.frame)
         \/ m.kind = "supersede" /\ m.old \in Nat /\ m.new \in Nat
            /\ m = SupersedeFrame(m.old, m.new)
BY DEF Mutation, PutFrame, SupersedeFrame

LEMMA NewFrameTyped ==
  ASSUME NEW f \in NewFrame
  PROVE  f \in Frame /\ f.supersedes = None /\ f.superseded_by = None
BY DEF NewFrame

LEMMA PutLinked ==
  ASSUME NEW fs \in Seq(Frame), NEW f \in Frame, AllLinked(fs), f.superseded_by = None
  PROVE  AllLinked(Preview(fs, PutFrame(f)))
<1> DEFINE gs == Preview(fs, PutFrame(f))
<1>1. /\ gs \in Seq(Frame) /\ Len(gs) = Len(fs) + 1
      /\ \A i \in DOMAIN fs : gs[i] = fs[i]
      /\ gs[Len(fs) + 1] = f
  BY PuttingFrame
<1> SUFFICES AllLinked(gs)
  OBVIOUS
<1> HIDE DEF gs
<1>2. SUFFICES ASSUME NEW i \in DOMAIN gs, gs[i].superseded_by # None
               PROVE  Linked(gs, i, gs[i].superseded_by)
  BY DEF AllLinked
<1>3. i \in DOMAIN fs /\ DOMAIN fs \subseteq DOMAIN gs
  BY <1>1, <1>2
<1>4. Linked(fs, i, fs[i].superseded_by) /\ gs[i] = fs[i]
  BY <1>1, <1>2, <1>3 DEF AllLinked
<1> QED
  BY <1>1, <1>3, <1>4 DEF Linked

LEMMA SupersedeLinked ==
  ASSUME NEW fs \in Seq(Frame), NEW old, NEW new, AllLinked(fs), Linked(fs, old, new)
  PROVE  AllLinked(Preview(fs, SupersedeFrame(old, new)))
<1> DEFINE gs == Preview(fs, SupersedeFrame(old, new))
<1>0. old \in DOMAIN fs /\ new \in DOMAIN fs /\ old \in Nat /\ new \in Nat
  BY DEF Linked
<1>1. /\ gs \in Seq(Frame) /\ Len(gs) = Len(fs)
      /\ \A i \in DOMAIN fs :
           /\ gs[i].kind = fs[i].kind /\ gs[i].of = fs[i].of /\ gs[i].key = fs[i].key
           /\ gs[i].superseded_by = IF i = old THEN new ELSE fs[i].superseded_by
  <2>1. Superseded(fs, gs, old, new)
    BY <1>0, Superseding
  <2> HIDE DEF gs
  <2> QED
    BY <2>1 DEF Superseded
<1> SUFFICES AllLinked(gs)
  OBVIOUS
<1> HIDE DEF gs
<1>2. SUFFICES ASSUME NEW i \in DOMAIN gs, gs[i].superseded_by # None
               PROVE  Linked(gs, i, gs[i].superseded_by)
  BY DEF AllLinked
<1>3. DOMAIN gs = DOMAIN fs
  BY <1>1
<1>4. Linked(fs, i, gs[i].superseded_by)
  BY <1>1, <1>2, <1>3 DEF AllLinked
<1> QED
  BY <1>1, <1>3, <1>4 DEF Linked

\* A mutation gives frames that extend the ones before.
LEMMA PreviewExtends ==
  ASSUME NEW fs \in Seq(Frame), NEW m \in Mutation
  PROVE  Preview(fs, m) \in Seq(Frame) /\ Extends(fs, Preview(fs, m))
<1> DEFINE gs == Preview(fs, m)
<1>1. CASE m.kind = "put"
  <2>1. m.frame \in Frame /\ m = PutFrame(m.frame)
    BY <1>1, MutationKinds, NewFrameTyped
  <2>2. /\ gs \in Seq(Frame) /\ Len(gs) = Len(fs) + 1
        /\ \A i \in DOMAIN fs : gs[i] = fs[i]
    <3> PICK f : f = m.frame
      OBVIOUS
    <3>1. gs = Preview(fs, PutFrame(f)) /\ f \in Frame
      BY <2>1
    <3> HIDE DEF gs
    <3> QED
      BY <3>1, PuttingFrame
  <2> HIDE DEF gs
  <2>3. Extends(fs, gs)
    BY <2>2 DEF Extends, SameFrame
  <2> QED
    BY <2>2, <2>3 DEF gs
<1>2. CASE m.kind = "supersede"
  <2>1. m.old \in Nat /\ m.new \in Nat /\ m = SupersedeFrame(m.old, m.new)
    BY <1>2, MutationKinds
  <2>2. Superseded(fs, gs, m.old, m.new)
    <3> PICK old, new : old = m.old /\ new = m.new
      OBVIOUS
    <3>1. Superseded(fs, Preview(fs, SupersedeFrame(old, new)), old, new)
      BY <2>1, Superseding
    <3> QED
      BY <2>1, <3>1
  <2> HIDE DEF gs
  <2>3. m.new # None
    <3>1. m.new \in Nat
      BY <2>1
    <3> QED
      BY <3>1, ContentAssumption
  <2>4. Extends(fs, gs)
    BY <2>2, <2>3 DEF Extends, SameFrame, Superseded
  <2> QED
    BY <2>2, <2>4 DEF gs, Superseded
<1> QED
  BY <1>1, <1>2, MutationKinds

LEMMA PreviewLinked ==
  ASSUME NEW fs \in Seq(Frame), NEW m \in Mutation, AllLinked(fs), Links(fs, m)
  PROVE  AllLinked(Preview(fs, m))
<1>1. CASE m.kind = "put"
  <2>1. m.frame \in Frame /\ m = PutFrame(m.frame) /\ m.frame.superseded_by = None
    BY <1>1, MutationKinds, NewFrameTyped
  <2> PICK f : f = m.frame
    OBVIOUS
  <2>2. AllLinked(Preview(fs, PutFrame(f)))
    BY <2>1, PutLinked
  <2> QED
    BY <2>1, <2>2
<1>2. CASE m.kind = "supersede"
  <2>1. m = SupersedeFrame(m.old, m.new) /\ Linked(fs, m.old, m.new)
    BY <1>2, MutationKinds DEF Links
  <2> PICK old, new : old = m.old /\ new = m.new
    OBVIOUS
  <2>2. AllLinked(Preview(fs, SupersedeFrame(old, new)))
    BY <2>1, SupersedeLinked
  <2> QED
    BY <2>1, <2>2
<1> QED
  BY <1>1, <1>2, MutationKinds

-----------------------------------------------------------------------------
(* What readers see of pending mutations.                                   *)

\* The equation of the recursion in View.
Previews(after, fs, ms) ==
  after = [n \in 0 .. Len(ms) |-> IF n = 0 THEN fs ELSE Preview(after[n - 1], ms[n])]

LEMMA PreviewsAt ==
  ASSUME NEW after, NEW fs, NEW ms \in Seq(Mutation), Previews(after, fs, ms)
  PROVE  after[0] = fs /\ \A n \in 1 .. Len(ms) : after[n] = Preview(after[n - 1], ms[n])
<1> DEFINE h == [n \in 0 .. Len(ms) |-> IF n = 0 THEN fs ELSE Preview(after[n - 1], ms[n])]
<1>1. after = h
  BY Zenon DEF Previews
<1>2. h[0] = fs /\ \A n \in 1 .. Len(ms) : h[n] = Preview(after[n - 1], ms[n])
  OBVIOUS
<1> HIDE DEF h
<1> QED
  BY <1>1, <1>2

LEMMA PreviewsExist ==
  ASSUME NEW fs \in Seq(Frame), NEW ms \in Seq(Mutation)
  PROVE  \E after : Previews(after, fs, ms)
<1> DEFINE n == Len(ms)
           D == Seq(Frame)
           step == [p \in (1 .. n) \X D |-> Preview(p[2], ms[p[1]])]
<1>1. n \in Nat /\ fs \in D
  OBVIOUS
<1>2. \A i \in 1 .. n, x \in D : <<i, x>> \in (1 .. n) \X D /\ step[<<i, x>>] = Preview(x, ms[i])
  BY Zenon
<1>3. step \in Steps(n, D)
  <2>1. ASSUME NEW p \in (1 .. n) \X D
        PROVE  Preview(p[2], ms[p[1]]) \in D
    <3>1. p[1] \in 1 .. n /\ p[2] \in D
      OBVIOUS
    <3>2. ms[p[1]] \in Mutation
      BY <3>1
    <3> QED
      BY <3>1, <3>2, PreviewExtends
  <2> HIDE DEF D
  <2> QED
    BY <2>1, Zenon DEF Steps
<1> HIDE DEF step, D
<1>4. PICK f : f \in [0 .. n -> D] /\ Iterates(f, fs, step, n)
  <2> HIDE DEF n
  <2> QED
    BY <1>1, <1>3, RecursionExists, Zenon
<1>5. \A i \in 1 .. n : f[i] = Preview(f[i - 1], ms[i])
  <2>1. \A i \in 1 .. n : i - 1 \in 0 .. n
    BY <1>1
  <2> QED
    BY <1>2, <1>4, <2>1 DEF Iterates
<1>6. f = [i \in 0 .. n |-> IF i = 0 THEN fs ELSE Preview(f[i - 1], ms[i])]
  <2>1. \A i \in 0 .. n : f[i] = IF i = 0 THEN fs ELSE Preview(f[i - 1], ms[i])
    BY <1>4, <1>5 DEF Iterates
  <2>2. f = [i \in 0 .. n |-> f[i]]
    BY <1>4
  <2> QED
    BY <2>1, <2>2
<1> QED
  BY <1>6 DEF Previews

LEMMA ViewIs ==
  ASSUME NEW fs \in Seq(Frame), NEW ms \in Seq(Mutation)
  PROVE  \E after : Previews(after, fs, ms) /\ View(fs, ms) = after[Len(ms)]
<1> DEFINE after == CHOOSE after : Previews(after, fs, ms)
<1>1. Previews(after, fs, ms)
  BY PreviewsExist
<1>2. View(fs, ms) = after[Len(ms)]
  BY DEF View, Previews
<1> HIDE DEF after
<1> QED
  BY <1>1, <1>2

LEMMA ViewNone ==
  ASSUME NEW fs \in Seq(Frame)
  PROVE  View(fs, <<>>) = fs
<1>1. <<>> \in Seq(Mutation) /\ Len(<<>>) = 0
  OBVIOUS
<1> PICK ms : ms = <<>>
  OBVIOUS
<1>2. PICK after : Previews(after, fs, ms) /\ View(fs, ms) = after[Len(ms)]
  BY <1>1, ViewIs
<1>3. after[0] = fs
  BY <1>1, <1>2, PreviewsAt
<1> QED
  BY <1>1, <1>2, <1>3

\* One mutation more is applied to what the others give.
LEMMA ViewAppend ==
  ASSUME NEW fs \in Seq(Frame), NEW ms \in Seq(Mutation), NEW m \in Mutation
  PROVE  View(fs, Append(ms, m)) = Preview(View(fs, ms), m)
<1> DEFINE longer == Append(ms, m)
           n == Len(ms)
<1>1. /\ longer \in Seq(Mutation) /\ Len(longer) = n + 1 /\ n \in Nat
      /\ \A i \in 1 .. n : longer[i] = ms[i]
      /\ longer[n + 1] = m
  OBVIOUS
<1>2. PICK f : Previews(f, fs, ms) /\ View(fs, ms) = f[n]
  BY ViewIs
<1> HIDE DEF longer
<1>3. PICK h : Previews(h, fs, longer) /\ View(fs, longer) = h[Len(longer)]
  BY <1>1, ViewIs
<1>4. f[0] = fs /\ \A i \in 1 .. n : f[i] = Preview(f[i - 1], ms[i])
  BY <1>2, PreviewsAt
<1>5. h[0] = fs /\ \A i \in 1 .. n + 1 : h[i] = Preview(h[i - 1], longer[i])
  BY <1>1, <1>3, PreviewsAt
<1>6. \A i \in 0 .. n : f[i] = h[i]
  <2>1. InStep(f, h, n)
    BY <1>1, <1>4, <1>5 DEF InStep
  <2> HIDE DEF n
  <2> QED
    BY <1>1, <2>1, SameSteps DEF Agree
<1>7. h[n + 1] = Preview(f[n], m)
  <2>1. n + 1 \in 1 .. n + 1 /\ (n + 1) - 1 = n /\ n \in 0 .. n
    BY <1>1
  <2>2. h[n + 1] = Preview(h[(n + 1) - 1], longer[n + 1])
    BY <1>5, <2>1
  <2> QED
    BY <1>1, <1>6, <2>1, <2>2
<1> QED
  BY <1>1, <1>2, <1>3, <1>7 DEF longer

\* Readers see the committed frames, with the same content, and more.
LEMMA ViewExtends ==
  ASSUME NEW fs \in Seq(Frame), NEW ms \in Seq(Mutation)
  PROVE  View(fs, ms) \in Seq(Frame) /\ Extends(fs, View(fs, ms))
<1> DEFINE n == Len(ms)
<1>1. PICK f : Previews(f, fs, ms) /\ View(fs, ms) = f[n]
  BY ViewIs
<1>2. f[0] = fs /\ \A i \in 1 .. n : f[i] = Preview(f[i - 1], ms[i])
  BY <1>1, PreviewsAt
<1> DEFINE S == {i \in 0 .. n : f[i] \in Seq(Frame) /\ Extends(fs, f[i])}
<1>3. 0 \in S
  BY <1>2, ExtendsItself
<1>4. ASSUME NEW i \in 1 .. n, i - 1 \in S
      PROVE  i \in S
  <2> PICK x : x = f[i - 1]
    OBVIOUS
  <2>1. x \in Seq(Frame) /\ Extends(fs, x) /\ ms[i] \in Mutation /\ f[i] = Preview(x, ms[i])
    BY <1>2, <1>4
  <2>2. f[i] \in Seq(Frame) /\ Extends(x, f[i])
    BY <2>1, PreviewExtends
  <2> QED
    BY <2>1, <2>2, ExtendsTransitive
<1>5. n \in S
  <2>1. n \in Nat /\ n \in 0 .. n
    OBVIOUS
  <2> HIDE DEF S, n
  <2> QED
    BY <1>3, <1>4, <2>1, InductionUpTo
<1> QED
  BY <1>1, <1>5

\* Frames and pending mutations that say the same of facts now as when committed.
Good(fs, ms) ==
  /\ fs \in Seq(Frame) /\ ms \in Seq(Mutation)
  /\ AllLinked(fs) /\ AllLinked(View(fs, ms))

LEMMA GoodAppend ==
  ASSUME NEW fs, NEW ms, NEW m \in Mutation, Good(fs, ms), Links(View(fs, ms), m)
  PROVE  Good(fs, Append(ms, m))
<1>1. fs \in Seq(Frame) /\ ms \in Seq(Mutation) /\ AllLinked(fs) /\ AllLinked(View(fs, ms))
  BY DEF Good
<1>2. View(fs, ms) \in Seq(Frame) /\ View(fs, Append(ms, m)) = Preview(View(fs, ms), m)
  BY <1>1, ViewExtends, ViewAppend
<1>3. AllLinked(Preview(View(fs, ms), m))
  <2> PICK now : now = View(fs, ms)
    OBVIOUS
  <2> QED
    BY <1>1, <1>2, PreviewLinked
<1>4. Append(ms, m) \in Seq(Mutation)
  BY <1>1
<1> QED
  BY <1>1, <1>2, <1>3, <1>4 DEF Good

LEMMA GoodCommit ==
  ASSUME NEW fs, NEW ms, Good(fs, ms)
  PROVE  Good(View(fs, ms), <<>>) /\ Extends(fs, View(fs, ms))
<1>1. fs \in Seq(Frame) /\ ms \in Seq(Mutation) /\ AllLinked(View(fs, ms))
  BY DEF Good
<1> PICK now : now = View(fs, ms)
  OBVIOUS
<1>2. now \in Seq(Frame) /\ Extends(fs, now) /\ View(now, <<>>) = now
  BY <1>1, ViewExtends, ViewNone
<1>3. <<>> \in Seq(Mutation)
  OBVIOUS
<1> QED
  BY <1>1, <1>2, <1>3 DEF Good

LEMMA GoodTyped ==
  ASSUME NEW fs, NEW ms, Good(fs, ms)
  PROVE  fs \in Seq(Frame) /\ ms \in Seq(Mutation) /\ View(fs, ms) \in Seq(Frame)
BY ViewExtends DEF Good

LEMMA AppendsOfOne ==
  ASSUME NEW T, NEW s \in Seq(T), NEW m \in T
  PROVE  s \o SubSeq(<<m>>, 1, 1) = Append(s, m)
<1>1. <<m>> \in Seq(T) /\ Len(<<m>>) = 1 /\ <<m>>[1] = m
  OBVIOUS
<1> QED
  BY <1>1

LEMMA WholeSubSeq ==
  ASSUME NEW T, NEW s \in Seq(T)
  PROVE  SubSeq(s, 1, Len(s)) = s
OBVIOUS

LEMMA AppendsOfTwo ==
  ASSUME NEW T, NEW s \in Seq(T), NEW m \in T, NEW n \in T
  PROVE  /\ s \o SubSeq(<<m, n>>, 1, 1) = Append(s, m)
         /\ s \o SubSeq(<<m, n>>, 1, 2) = Append(Append(s, m), n)
<1>1. <<m, n>> \in Seq(T) /\ Len(<<m, n>>) = 2
  OBVIOUS
<1>2. s \o SubSeq(<<m, n>>, 1, 1) = Append(s, m)
  BY <1>1
<1>3. s \o SubSeq(<<m, n>>, 1, 2) = Append(Append(s, m), n)
  <2>1. SubSeq(<<m, n>>, 1, 2) = <<m, n>>
    <3> PICK p \in Seq(T) : p = <<m, n>>
      BY <1>1
    <3>1. SubSeq(p, 1, Len(p)) = p
      BY WholeSubSeq
    <3>2. Len(p) = 2
      BY <1>1
    <3> QED
      BY <3>1, <3>2
  <2>2. s \o <<m, n>> = Append(Append(s, m), n)
    OBVIOUS
  <2> QED
    BY <2>1, <2>2
<1> QED
  BY <1>2, <1>3

\* What a call appends, when each record links what is there rightly.
LEMMA GoodOne ==
  ASSUME NEW fs, NEW ms, NEW m \in Mutation, Good(fs, ms), Links(View(fs, ms), m)
  PROVE  \A k \in 1 .. 1 : Good(fs, ms \o SubSeq(<<m>>, 1, k))
<1>1. ms \in Seq(Mutation)
  BY DEF Good
<1>2. ms \o SubSeq(<<m>>, 1, 1) = Append(ms, m)
  BY <1>1, AppendsOfOne
<1>3. Good(fs, Append(ms, m))
  BY GoodAppend
<1>4. \A k \in 1 .. 1 : k = 1
  OBVIOUS
<1> QED
  BY <1>2, <1>3, <1>4

LEMMA GoodTwo ==
  ASSUME NEW fs, NEW ms, NEW m \in Mutation, NEW n \in Mutation, Good(fs, ms),
         Links(View(fs, ms), m), Links(Preview(View(fs, ms), m), n)
  PROVE  \A k \in 1 .. 2 : Good(fs, ms \o SubSeq(<<m, n>>, 1, k))
<1>1. ms \in Seq(Mutation) /\ fs \in Seq(Frame)
  BY DEF Good
<1>2. Good(fs, Append(ms, m))
  BY GoodAppend
<1>3. View(fs, Append(ms, m)) = Preview(View(fs, ms), m)
  BY <1>1, ViewAppend
<1>4. Good(fs, Append(Append(ms, m), n))
  <2> PICK rs : rs = Append(ms, m)
    OBVIOUS
  <2>1. Good(fs, rs) /\ Links(View(fs, rs), n)
    BY <1>2, <1>3
  <2> QED
    BY <2>1, GoodAppend
<1>5. /\ ms \o SubSeq(<<m, n>>, 1, 1) = Append(ms, m)
      /\ ms \o SubSeq(<<m, n>>, 1, 2) = Append(Append(ms, m), n)
  BY <1>1, AppendsOfTwo
<1>6. \A k \in 1 .. 2 : k = 1 \/ k = 2
  OBVIOUS
<1> QED
  BY <1>2, <1>4, <1>5, <1>6

-----------------------------------------------------------------------------
(* Candidates.                                                              *)

File == [frames : Seq(Frame), whole : BOOLEAN]

\* A file has what is live of frames fs, under its id.
HasLive(fs, cs) ==
  /\ Len(cs) <= Len(fs)
  /\ \A i \in DOMAIN cs : Live(fs[i]) => cs[i] = [fs[i] EXCEPT !.supersedes = None]

AllHaveLive(fs, files) == \A j \in DOMAIN files : files[j].whole => HasLive(fs, files[j].frames)

LEMMA LiveIs ==
  ASSUME NEW f \in Frame
  PROVE  Live(f) <=> f.superseded_by = None
<1>1. f.deleted = FALSE
  BY FrameTyped, Zenon
<1> QED
  BY <1>1, Zenon DEF Live, Active

\* A frame that is still live, without what it supersedes, is as it was.
LEMMA StrippedSame ==
  ASSUME NEW f \in Frame, NEW g \in Frame, SameFrame(f, g), g.superseded_by = None
  PROVE  [f EXCEPT !.supersedes = None] = [g EXCEPT !.supersedes = None]
<1> DEFINE x == [f EXCEPT !.supersedes = None]
           y == [g EXCEPT !.supersedes = None]
<1>0. None \in Link
  BY DEF Link
<1>1. /\ x \in Frame /\ x.superseded_by = f.superseded_by /\ x.supersedes = None
      /\ x.kind = f.kind /\ x.of = f.of /\ x.by = f.by /\ x.key = f.key
  BY <1>0, FrameSupersedes
<1>2. /\ y \in Frame /\ y.superseded_by = g.superseded_by /\ y.supersedes = None
      /\ y.kind = g.kind /\ y.of = g.of /\ y.by = g.by /\ y.key = g.key
  BY <1>0, FrameSupersedes
<1> HIDE DEF x, y
<1>3. x = y
  BY <1>1, <1>2, FramesEqual DEF SameFrame
<1> QED
  BY <1>3 DEF x, y

LEMMA HasLiveExtends ==
  ASSUME NEW fs \in Seq(Frame), NEW gs \in Seq(Frame), NEW cs \in Seq(Frame),
         Extends(fs, gs), HasLive(fs, cs)
  PROVE  HasLive(gs, cs)
<1>1. Len(cs) <= Len(gs) /\ DOMAIN cs \subseteq DOMAIN fs /\ DOMAIN cs \subseteq DOMAIN gs
  BY DEF Extends, HasLive
<1>2. ASSUME NEW i \in DOMAIN cs, Live(gs[i])
      PROVE  cs[i] = [gs[i] EXCEPT !.supersedes = None]
  <2>1. i \in 1 .. Len(fs) /\ fs[i] \in Frame /\ gs[i] \in Frame
    BY <1>1
  <2>2. SameFrame(fs[i], gs[i]) /\ gs[i].superseded_by = None
    BY <1>2, <2>1, LiveIs DEF Extends
  <2>3. Live(fs[i])
    BY <2>1, <2>2, LiveIs DEF SameFrame
  <2>4. [fs[i] EXCEPT !.supersedes = None] = [gs[i] EXCEPT !.supersedes = None]
    BY <2>1, <2>2, StrippedSame
  <2> QED
    BY <2>3, <2>4 DEF HasLive
<1> QED
  BY <1>1, <1>2 DEF HasLive

LEMMA AllHaveLiveExtends ==
  ASSUME NEW fs \in Seq(Frame), NEW gs \in Seq(Frame), NEW files \in Seq(File),
         Extends(fs, gs), AllHaveLive(fs, files)
  PROVE  AllHaveLive(gs, files)
<1>1. ASSUME NEW j \in DOMAIN files
      PROVE  files[j].frames \in Seq(Frame)
  <2>1. files[j] \in File
    OBVIOUS
  <2> QED
    BY <2>1, Zenon DEF File
<1> QED
  BY <1>1, HasLiveExtends DEF AllHaveLive

LEMMA BodyTyped ==
  ASSUME NEW kind \in Kinds, NEW of \in Link, NEW by \in Embedder \cup {None}
  PROVE  /\ Body(kind, of, by) \in NewFrame
         /\ Body(kind, of, by).kind = kind /\ Body(kind, of, by).of = of
<1>1. Body(kind, of, by) \in Frame
  BY DEF Body, Frame, Link
<1> QED
  BY <1>1 DEF Body, NewFrame

LEMMA RewrittenHasLive ==
  ASSUME NEW fs \in Seq(Frame)
  PROVE  Rewritten(fs) \in Seq(Frame) /\ HasLive(fs, Rewritten(fs))
<1> DEFINE Strip(i) == [fs[i] EXCEPT !.supersedes = None]
           cs == Rewritten(fs)
<1>1. Dropped \in Frame
  BY BodyTyped, NewFrameTyped DEF Dropped, Kinds, Link
<1>2. \A i \in DOMAIN fs : Strip(i) \in Frame
  <2>1. None \in Link
    BY DEF Link
  <2> QED
    BY <2>1, FrameSupersedes
<1>3. cs = [i \in DOMAIN fs |-> IF Live(fs[i]) THEN Strip(i) ELSE Dropped]
  BY DEF Rewritten
<1> HIDE DEF Strip, cs
<1>4. DOMAIN fs = 1 .. Len(fs) /\ Len(fs) \in Nat
  OBVIOUS
<1>5. \A i \in 1 .. Len(fs) : cs[i] \in Frame
  BY <1>1, <1>2, <1>3, <1>4
<1>6. cs = [i \in 1 .. Len(fs) |-> cs[i]]
  BY <1>3, <1>4
<1>7. cs \in Seq(Frame) /\ Len(cs) = Len(fs)
  BY <1>4, <1>5, <1>6
<1>8. \A i \in DOMAIN cs : Live(fs[i]) => cs[i] = Strip(i)
  BY <1>3
<1> QED
  BY <1>4, <1>7, <1>8 DEF HasLive, cs, Strip

LEMMA PruneHasLive ==
  ASSUME NEW fs, NEW files \in Seq(File), AllHaveLive(fs, files)
  PROVE  Prune(files) \in Seq(File) /\ AllHaveLive(fs, Prune(files))
<1>1. KeepLatest \in Nat
  BY ContentAssumption
<1>2. CASE Len(files) <= KeepLatest
  BY <1>2 DEF Prune
<1>3. CASE ~(Len(files) <= KeepLatest)
  <2> DEFINE first == Len(files) - KeepLatest + 1
             kept == SubSeq(files, first, Len(files))
  <2>1. first \in 1 .. Len(files) + 1 /\ first \in Nat
    BY <1>1, <1>3
  <2>2. Prune(files) = kept
    BY <1>3 DEF Prune
  <2> HIDE DEF first
  <2>3. kept \in Seq(File)
    BY <2>1
  <2>4. \A j \in DOMAIN kept : first + j - 1 \in DOMAIN files /\ kept[j] = files[first + j - 1]
    BY <2>1
  <2> HIDE DEF kept
  <2>5. AllHaveLive(fs, kept)
    BY <2>4 DEF AllHaveLive
  <2> QED
    BY <2>2, <2>3, <2>5
<1> QED
  BY <1>2, <1>3

LEMMA CandidateHasLive ==
  ASSUME NEW fs, NEW files \in Seq(File), NEW cs \in Seq(Frame), NEW whole \in BOOLEAN,
         AllHaveLive(fs, files), whole => HasLive(fs, cs)
  PROVE  /\ Append(files, Candidate(cs, whole)) \in Seq(File)
         /\ AllHaveLive(fs, Append(files, Candidate(cs, whole)))
<1> PICK c : c = Candidate(cs, whole)
  OBVIOUS
<1>1. c \in File /\ c.frames = cs /\ (c.whole <=> whole)
  BY DEF Candidate, File
<1> DEFINE more == Append(files, c)
<1>2. /\ more \in Seq(File) /\ DOMAIN more = DOMAIN files \cup {Len(files) + 1}
      /\ \A j \in DOMAIN files : more[j] = files[j]
      /\ more[Len(files) + 1] = c
  BY <1>1
<1> HIDE DEF more
<1>3. AllHaveLive(fs, more)
  BY <1>1, <1>2 DEF AllHaveLive
<1> QED
  BY <1>2, <1>3 DEF more

LEMMA MaintenanceHasLive ==
  ASSUME NEW fs \in Seq(Frame), candidates \in Seq(File), AllHaveLive(fs, candidates),
         Maintenance(fs)
  PROVE  candidates' \in Seq(File) /\ AllHaveLive(fs, candidates')
<1>1. CASE UNCHANGED candidates
  BY <1>1
<1>2. CASE candidates' = Prune(Append(candidates, Candidate(Rewritten(fs), TRUE)))
  <2> PICK files : files = candidates
    OBVIOUS
  <2>1. Rewritten(fs) \in Seq(Frame) /\ HasLive(fs, Rewritten(fs))
    BY RewrittenHasLive
  <2> PICK more : more = Append(files, Candidate(Rewritten(fs), TRUE))
    OBVIOUS
  <2>2. more \in Seq(File) /\ AllHaveLive(fs, more)
    BY <2>1, CandidateHasLive
  <2>3. candidates' = Prune(more)
    BY <1>2
  <2> QED
    BY <2>2, <2>3, PruneHasLive
<1> QED
  BY <1>1, <1>2 DEF Maintenance

-----------------------------------------------------------------------------
(* What a commit checks.                                                    *)

\* Each frame that supersedes one is what that one is superseded by.
BackLinked(fs) ==
  \A i \in DOMAIN fs : fs[i].supersedes # None =>
    /\ fs[i].supersedes \in DOMAIN fs
    /\ fs[fs[i].supersedes].superseded_by = i

LEMMA PutBackLinked ==
  ASSUME NEW fs \in Seq(Frame), NEW f \in NewFrame, BackLinked(fs)
  PROVE  BackLinked(Preview(fs, PutFrame(f)))
<1> PICK gs : gs = Preview(fs, PutFrame(f))
  OBVIOUS
<1>1. /\ gs \in Seq(Frame) /\ Len(gs) = Len(fs) + 1
      /\ \A i \in DOMAIN fs : gs[i] = fs[i]
      /\ gs[Len(fs) + 1] = f
  BY NewFrameTyped, PuttingFrame
<1>2. f.supersedes = None
  BY NewFrameTyped
<1>3. ASSUME NEW i \in DOMAIN gs, gs[i].supersedes # None
      PROVE  gs[i].supersedes \in DOMAIN gs /\ gs[gs[i].supersedes].superseded_by = i
  <2>1. i \in DOMAIN fs /\ DOMAIN fs \subseteq DOMAIN gs
    BY <1>1, <1>2, <1>3
  <2>2. gs[i] = fs[i] /\ fs[i].supersedes \in DOMAIN fs
    BY <1>1, <1>3, <2>1 DEF BackLinked
  <2> QED
    BY <1>1, <1>3, <2>1, <2>2 DEF BackLinked
<1> QED
  BY <1>3 DEF BackLinked

LEMMA SupersedeBackLinked ==
  ASSUME NEW fs \in Seq(Frame), NEW old \in DOMAIN fs, NEW new \in DOMAIN fs, BackLinked(fs),
         fs[old].superseded_by \in {None, new}, fs[new].supersedes \in {None, old}
  PROVE  BackLinked(Preview(fs, SupersedeFrame(old, new)))
<1> PICK gs : gs = Preview(fs, SupersedeFrame(old, new))
  OBVIOUS
<1>1. Superseded(fs, gs, old, new)
  <2>1. old \in Nat /\ new \in Nat
    OBVIOUS
  <2> QED
    BY <2>1, Superseding
<1>2. /\ DOMAIN gs = DOMAIN fs
      /\ \A i \in DOMAIN fs :
           /\ gs[i].superseded_by = IF i = old THEN new ELSE fs[i].superseded_by
           /\ gs[i].supersedes = IF i = new THEN old ELSE fs[i].supersedes
  BY <1>1 DEF Superseded
<1>3. ASSUME NEW i \in DOMAIN gs, gs[i].supersedes # None
      PROVE  gs[i].supersedes \in DOMAIN gs /\ gs[gs[i].supersedes].superseded_by = i
  <2>1. CASE i = new
    BY <1>2, <2>1
  <2>2. CASE i # new
    <3>1. i \in DOMAIN fs /\ gs[i].supersedes = fs[i].supersedes
      BY <1>2, <2>2
    <3> PICK j : j = fs[i].supersedes
      OBVIOUS
    <3>2. j \in DOMAIN fs /\ fs[j].superseded_by = i
      BY <1>3, <3>1 DEF BackLinked
    <3>3. j # old
      <4>1. i # None
        <5>1. i \in Nat
          BY <3>1
        <5> QED
          BY <5>1, ContentAssumption
      <4> QED
        BY <2>2, <3>2, <4>1
    <3> QED
      BY <1>2, <3>1, <3>2, <3>3
  <2> QED
    BY <2>1, <2>2
<1> QED
  BY <1>3 DEF BackLinked

LEMMA AdmitsBackLinked ==
  ASSUME NEW fs \in Seq(Frame), NEW m \in Mutation, BackLinked(fs), Admits(fs, m)
  PROVE  BackLinked(Preview(fs, m))
<1>1. CASE m.kind = "put"
  <2>1. m.frame \in NewFrame /\ m = PutFrame(m.frame)
    BY <1>1, MutationKinds
  <2> PICK f : f = m.frame
    OBVIOUS
  <2>2. BackLinked(Preview(fs, PutFrame(f)))
    BY <2>1, PutBackLinked
  <2> QED
    BY <2>1, <2>2
<1>2. CASE m.kind = "supersede"
  <2>1. /\ m = SupersedeFrame(m.old, m.new) /\ m.old \in DOMAIN fs /\ m.new \in DOMAIN fs
        /\ fs[m.old].superseded_by \in {None, m.new} /\ fs[m.new].supersedes \in {None, m.old}
    BY <1>2, MutationKinds DEF Admits
  <2> PICK old, new : old = m.old /\ new = m.new
    OBVIOUS
  <2>2. BackLinked(Preview(fs, SupersedeFrame(old, new)))
    BY <2>1, SupersedeBackLinked
  <2> QED
    BY <2>1, <2>2
<1> QED
  BY <1>1, <1>2, MutationKinds

LEMMA ApplicableBackLinked ==
  ASSUME NEW fs \in Seq(Frame), NEW ms \in Seq(Mutation), BackLinked(fs), Applicable(fs, ms)
  PROVE  BackLinked(View(fs, ms))
<1> DEFINE n == Len(ms)
           S == {i \in 0 .. n : BackLinked(View(fs, SubSeq(ms, 1, i)))}
<1>1. 0 \in S
  <2>1. SubSeq(ms, 1, 0) = <<>> /\ 0 \in 0 .. n
    OBVIOUS
  <2> QED
    BY <2>1, ViewNone
<1>2. ASSUME NEW i \in 1 .. n, i - 1 \in S
      PROVE  i \in S
  <2> PICK rs : rs = SubSeq(ms, 1, i - 1)
    OBVIOUS
  <2> PICK m : m = ms[i]
    OBVIOUS
  <2>1. rs \in Seq(Mutation) /\ m \in Mutation /\ SubSeq(ms, 1, i) = Append(rs, m)
    OBVIOUS
  <2> PICK gs : gs = View(fs, rs)
    OBVIOUS
  <2>2. gs \in Seq(Frame) /\ BackLinked(gs) /\ Admits(gs, m)
    <3>1. gs \in Seq(Frame)
      BY <2>1, ViewExtends
    <3>2. BackLinked(gs)
      BY <1>2
    <3>3. Admits(View(fs, SubSeq(ms, 1, i - 1)), ms[i])
      BY Zenon DEF Applicable
    <3> QED
      BY <3>1, <3>2, <3>3
  <2>3. View(fs, Append(rs, m)) = Preview(gs, m)
    BY <2>1, ViewAppend
  <2>4. BackLinked(Preview(gs, m))
    BY <2>1, <2>2, AdmitsBackLinked
  <2>5. BackLinked(View(fs, SubSeq(ms, 1, i)))
    BY <2>1, <2>3, <2>4, Zenon
  <2>6. i \in 0 .. n
    OBVIOUS
  <2> QED
    BY <2>5, <2>6
<1>3. n \in S
  <2>1. n \in Nat /\ n \in 0 .. n
    OBVIOUS
  <2> HIDE DEF S, n
  <2> QED
    BY <1>1, <1>2, <2>1, InductionUpTo
<1>4. SubSeq(ms, 1, n) = ms
  BY WholeSubSeq
<1> QED
  BY <1>3, <1>4

-----------------------------------------------------------------------------
(* OptimizeSurrogates.                                                      *)

\* The equation of the recursion in Work, for the wanted frames of n.
Picks(f, wanted, n) ==
  f = [i \in 0 .. n |->
        IF i = 0 THEN <<>> ELSE IF i \in wanted THEN Append(f[i - 1], i) ELSE f[i - 1]]

LEMMA PicksAt ==
  ASSUME NEW f, NEW wanted, NEW n \in Nat, Picks(f, wanted, n)
  PROVE  f[0] = <<>> /\ \A i \in 1 .. n :
           f[i] = IF i \in wanted THEN Append(f[i - 1], i) ELSE f[i - 1]
<1> DEFINE h == [i \in 0 .. n |->
                  IF i = 0 THEN <<>> ELSE IF i \in wanted THEN Append(f[i - 1], i) ELSE f[i - 1]]
<1>1. f = h
  BY Zenon DEF Picks
<1>2. h[0] = <<>> /\ \A i \in 1 .. n :
        h[i] = IF i \in wanted THEN Append(f[i - 1], i) ELSE f[i - 1]
  OBVIOUS
<1> HIDE DEF h
<1> QED
  BY <1>1, <1>2

LEMMA PicksExist ==
  ASSUME NEW wanted, NEW n \in Nat
  PROVE  \E f : Picks(f, wanted, n)
<1> DEFINE D == Seq(Nat)
           step == [p \in (1 .. n) \X D |->
                     IF p[1] \in wanted THEN Append(p[2], p[1]) ELSE p[2]]
<1>1. <<>> \in D
  OBVIOUS
<1>2. \A i \in 1 .. n, x \in D :
        step[<<i, x>>] = IF i \in wanted THEN Append(x, i) ELSE x
  BY Zenon
<1>3. step \in Steps(n, D)
  <2>1. ASSUME NEW p \in (1 .. n) \X D
        PROVE  (IF p[1] \in wanted THEN Append(p[2], p[1]) ELSE p[2]) \in D
    <3>1. p[1] \in Nat /\ p[2] \in D
      OBVIOUS
    <3> QED
      BY <3>1
  <2> HIDE DEF D
  <2> QED
    BY <2>1, Zenon DEF Steps
<1> HIDE DEF step, D
<1>4. PICK f : f \in [0 .. n -> D] /\ Iterates(f, <<>>, step, n)
  BY <1>1, <1>3, RecursionExists, Zenon
<1>5. \A i \in 1 .. n : f[i] = IF i \in wanted THEN Append(f[i - 1], i) ELSE f[i - 1]
  <2>1. \A i \in 1 .. n : i - 1 \in 0 .. n
    OBVIOUS
  <2> QED
    BY <1>2, <1>4, <2>1 DEF Iterates
<1>6. \A i \in 0 .. n : f[i] = IF i = 0 THEN <<>>
        ELSE IF i \in wanted THEN Append(f[i - 1], i) ELSE f[i - 1]
  <2>1. f[0] = <<>>
    BY <1>4 DEF Iterates
  <2> TAKE i \in 0 .. n
  <2>2. CASE i = 0
    BY <2>1, <2>2
  <2>3. CASE i \in 1 .. n
    BY <1>5, <2>3
  <2> QED
    BY <2>2, <2>3
<1>7. f = [i \in 0 .. n |-> f[i]]
  BY <1>4
<1>8. f = [i \in 0 .. n |->
        IF i = 0 THEN <<>> ELSE IF i \in wanted THEN Append(f[i - 1], i) ELSE f[i - 1]]
  BY <1>6, <1>7
<1> QED
  BY <1>8 DEF Picks

\* What is picked is wanted, and in order.
Picked(w, wanted, n) ==
  /\ w \in Seq(1 .. n)
  /\ \A a \in DOMAIN w : w[a] \in wanted
  /\ \A a, b \in DOMAIN w : a < b => w[a] < w[b]

LEMMA PicksPicked ==
  ASSUME NEW f, NEW wanted, NEW n \in Nat, Picks(f, wanted, n)
  PROVE  Picked(f[n], wanted, n)
<1>1. f[0] = <<>> /\ \A i \in 1 .. n :
        f[i] = IF i \in wanted THEN Append(f[i - 1], i) ELSE f[i - 1]
  BY PicksAt
<1> DEFINE S == {i \in 0 .. n : Picked(f[i], wanted, i)}
<1>2. 0 \in S
  <2>1. 0 \in 0 .. n
    OBVIOUS
  <2> PICK w : w = <<>>
    OBVIOUS
  <2>2. Picked(w, wanted, 0)
    BY DEF Picked
  <2> QED
    BY <1>1, <2>1, <2>2
<1>3. ASSUME NEW i \in 1 .. n, i - 1 \in S
      PROVE  i \in S
  <2> PICK x : x = f[i - 1]
    OBVIOUS
  <2> PICK y : y = f[i]
    OBVIOUS
  <2>1. y = IF i \in wanted THEN Append(x, i) ELSE x
    BY <1>1
  <2>2. /\ x \in Seq(1 .. (i - 1)) /\ \A a \in DOMAIN x : x[a] \in wanted /\ x[a] < i
        /\ \A a, b \in DOMAIN x : a < b => x[a] < x[b]
    BY <1>3 DEF Picked
  <2>3. x \in Seq(1 .. i)
    BY <2>2
  <2>4. ASSUME i \in wanted
        PROVE  Picked(y, wanted, i)
    <3>1. /\ y = Append(x, i) /\ y \in Seq(1 .. i) /\ Len(y) = Len(x) + 1
          /\ \A a \in DOMAIN x : y[a] = x[a]
          /\ y[Len(x) + 1] = i
      BY <2>1, <2>3, <2>4
    <3>2. \A a \in DOMAIN y : a \in DOMAIN x \/ a = Len(x) + 1
      BY <2>3, <3>1
    <3>3. \A a \in DOMAIN y : y[a] \in wanted
      BY <2>2, <2>4, <3>1, <3>2
    <3>4. ASSUME NEW a \in DOMAIN y, NEW b \in DOMAIN y, a < b
          PROVE  y[a] < y[b]
      <4>1. a \in DOMAIN x
        BY <2>3, <3>1, <3>2, <3>4
      <4>2. CASE b \in DOMAIN x
        BY <2>2, <3>1, <3>4, <4>1, <4>2
      <4>3. CASE b = Len(x) + 1
        BY <2>2, <3>1, <4>1, <4>3
      <4> QED
        BY <3>2, <4>2, <4>3
    <3> QED
      BY <3>1, <3>3, <3>4 DEF Picked
  <2>5. ASSUME i \notin wanted
        PROVE  Picked(y, wanted, i)
    BY <2>1, <2>2, <2>3, <2>5 DEF Picked
  <2>6. Picked(y, wanted, i)
    BY <2>4, <2>5
  <2>7. i \in 0 .. n
    OBVIOUS
  <2> QED
    BY <2>6, <2>7
<1>4. n \in S
  <2>1. n \in 0 .. n
    OBVIOUS
  <2> HIDE DEF S
  <2> QED
    BY <1>2, <1>3, <2>1, InductionUpTo
<1> QED
  BY <1>4

LEMMA WorkPicked ==
  ASSUME frames \in Seq(Frame), NEW overwrite
  PROVE  Picked(Work(overwrite), {i \in DOMAIN frames : Wanted(overwrite, i)}, Len(frames))
<1> PICK n \in Nat : n = Len(frames)
  OBVIOUS
<1> PICK wanted : wanted = {i \in 1 .. n : Wanted(overwrite, i)}
  OBVIOUS
<1> DEFINE Equation(f) ==
             f = [i \in 0 .. Len(frames) |->
                   IF i = 0 THEN <<>>
                   ELSE IF Wanted(overwrite, i) THEN Append(f[i - 1], i) ELSE f[i - 1]]
           work == CHOOSE f : Equation(f)
<1>1. \A f : Equation(f) <=> Picks(f, wanted, n)
  <2> TAKE f
  <2>1. [i \in 0 .. Len(frames) |->
          IF i = 0 THEN <<>>
          ELSE IF Wanted(overwrite, i) THEN Append(f[i - 1], i) ELSE f[i - 1]]
        = [i \in 0 .. n |->
            IF i = 0 THEN <<>> ELSE IF i \in wanted THEN Append(f[i - 1], i) ELSE f[i - 1]]
    OBVIOUS
  <2> QED
    BY <2>1, Zenon DEF Picks
<1>2. Work(overwrite) = work[n]
  BY DEF Work
<1> HIDE DEF Equation
<1>3. Picks(work, wanted, n)
  BY <1>1, PicksExist
<1> HIDE DEF work
<1> PICK f : f = work
  OBVIOUS
<1>4. Picked(f[n], wanted, n)
  BY <1>3, PicksPicked
<1>5. wanted = {i \in DOMAIN frames : Wanted(overwrite, i)}
  OBVIOUS
<1> QED
  BY <1>2, <1>4, <1>5

LEMMA WorkTyped ==
  ASSUME frames \in Seq(Frame), NEW overwrite
  PROVE  Work(overwrite) \in Seq(DOMAIN frames)
BY WorkPicked DEF Picked

\* The records that link a surrogate of i, put as frame id, behind frame old.
Linking(i, old, id) ==
  <<PutFrame(Body(IF Hierarchical THEN "surrogate" ELSE "extract", i, None)),
    SupersedeFrame(old, id)>>

\* Frames, ring and whether a commit has thrown when one more surrogate is linked.
Advance(s, i, old, due) ==
  LET fs == IF due THEN View(s.frames, s.pending) ELSE s.frames
      ms == IF due THEN <<>> ELSE s.pending
  IN  [frames |-> fs,
       pending |-> ms \o Linking(i, old, Len(View(fs, ms)) + 1),
       thrown |-> s.thrown \/ (due /\ ~Applicable(s.frames, s.pending))]

\* What the loop makes of frames gs.
Reached(gs) ==
  {s \in [frames : Seq(Frame), pending : Seq(Mutation), thrown : BOOLEAN] :
    /\ Good(s.frames, s.pending) /\ Extends(gs, s.frames)
    /\ s.thrown \/ BackLinked(s.frames)}

\* All that is pending but the last record is as good.
AllButLast(s) == Good(s.frames, SubSeq(s.pending, 1, Len(s.pending) - 1))

\* A surrogate of i is linked behind i, or behind something that is no fact.
Behind(gs, i, old) ==
  i \in DOMAIN gs /\ old \in DOMAIN gs /\ (old = i \/ gs[old].kind # "fact")

\* After two records more everything is as good, and so it is after the first.
GoodAfter(fs, ms, new) ==
  /\ Good(fs, ms \o new)
  /\ Len(ms \o new) = Len(ms) + 2
  /\ Good(fs, SubSeq(ms \o new, 1, Len(ms) + 1))

LEMMA LinkingGood ==
  ASSUME NEW gs \in Seq(Frame), NEW fs, NEW ms, Good(fs, ms), Extends(gs, fs),
         NEW i, NEW old, Behind(gs, i, old)
  PROVE  GoodAfter(fs, ms, Linking(i, old, Len(View(fs, ms)) + 1))
<1> PICK now : now = View(fs, ms)
  OBVIOUS
<1>1. fs \in Seq(Frame) /\ ms \in Seq(Mutation) /\ now \in Seq(Frame)
  BY GoodTyped
<1>2. Extends(gs, now)
  <2>1. Extends(fs, now)
    BY <1>1, ViewExtends
  <2> QED
    BY <1>1, <2>1, ExtendsTransitive
<1> DEFINE kind == IF Hierarchical THEN "surrogate" ELSE "extract"
           body == Body(kind, i, None)
           id == Len(now) + 1
           m == PutFrame(body)
           n == SupersedeFrame(old, id)
<1>3. i \in Nat /\ old \in Nat /\ id \in Nat /\ old \in DOMAIN now /\ Len(now) \in Nat
  BY <1>1, <1>2 DEF Behind, Extends
<1>4. body \in NewFrame /\ body.kind \in {"surrogate", "extract"} /\ body.of = i
  <2>1. kind \in Kinds /\ kind \in {"surrogate", "extract"} /\ i \in Link
    BY <1>3 DEF Kinds, Link
  <2> HIDE DEF kind
  <2>2. body \in NewFrame /\ body.kind = kind /\ body.of = i
    BY <2>1, BodyTyped
  <2> QED
    BY <2>1, <2>2
<1> HIDE DEF body
<1>5. m \in Mutation /\ n \in Mutation
  BY <1>3, <1>4 DEF Mutation, PutFrame, SupersedeFrame
<1>6. Links(now, m)
  BY DEF Links, PutFrame
<1>7. Links(Preview(now, m), n)
  <2> PICK then : then = Preview(now, m)
    OBVIOUS
  <2>1. /\ then \in Seq(Frame) /\ Len(then) = Len(now) + 1
        /\ \A j \in DOMAIN now : then[j] = now[j]
        /\ then[Len(now) + 1] = body
    BY <1>1, <1>4, NewFrameTyped, PuttingFrame
  <2>2. old \in DOMAIN then /\ id \in DOMAIN then
    BY <1>1, <1>3, <2>1
  <2>3. ASSUME then[old].kind = "fact"
        PROVE  then[id].kind \in {"surrogate", "extract"} /\ then[id].of = old
    <3>1. now[old].kind = "fact"
      BY <1>3, <2>1, <2>3
    <3>2. gs[old].kind = "fact"
      BY <1>2, <3>1 DEF Extends, SameFrame, Behind
    <3>3. old = i
      BY <3>2 DEF Behind
    <3> QED
      BY <1>4, <2>1, <3>3
  <2>4. Linked(then, old, id)
    BY <2>2, <2>3 DEF Linked
  <2> QED
    BY <2>4 DEF Links, SupersedeFrame
<1>8. \A k \in 1 .. 2 : Good(fs, ms \o SubSeq(<<m, n>>, 1, k))
  <2> HIDE DEF m, n
  <2> QED
    BY <1>5, <1>6, <1>7, GoodTwo
<1>9. /\ ms \o SubSeq(<<m, n>>, 1, 1) = Append(ms, m)
      /\ ms \o SubSeq(<<m, n>>, 1, 2) = Append(Append(ms, m), n)
  <2> HIDE DEF m, n
  <2> QED
    BY <1>1, <1>5, AppendsOfTwo
<1>10. Linking(i, old, Len(View(fs, ms)) + 1) = <<m, n>>
  BY DEF Linking, body
<1> HIDE DEF m, n
<1>11. /\ ms \o <<m, n>> = Append(Append(ms, m), n)
       /\ Len(ms \o <<m, n>>) = Len(ms) + 2
       /\ SubSeq(ms \o <<m, n>>, 1, Len(ms) + 1) = Append(ms, m)
  BY <1>1, <1>5
<1>12. Good(fs, Append(ms, m)) /\ Good(fs, Append(Append(ms, m), n))
  <2>1. 1 \in 1 .. 2 /\ 2 \in 1 .. 2
    OBVIOUS
  <2> QED
    BY <1>8, <1>9, <2>1
<1> QED
  BY <1>10, <1>11, <1>12 DEF GoodAfter

LEMMA AdvanceReached ==
  ASSUME NEW gs \in Seq(Frame), NEW s \in Reached(gs), NEW i, NEW old, Behind(gs, i, old),
         NEW due \in BOOLEAN
  PROVE  /\ Advance(s, i, old, due) \in Reached(gs)
         /\ AllButLast(Advance(s, i, old, due))
         /\ Len(Advance(s, i, old, due).pending) >= 2
<1>1. /\ s.frames \in Seq(Frame) /\ s.pending \in Seq(Mutation) /\ s.thrown \in BOOLEAN
      /\ Good(s.frames, s.pending) /\ Extends(gs, s.frames)
      /\ s.thrown \/ BackLinked(s.frames)
  BY Zenon DEF Reached
<1> PICK fs : fs = IF due THEN View(s.frames, s.pending) ELSE s.frames
  OBVIOUS
<1> PICK ms : ms = IF due THEN <<>> ELSE s.pending
  OBVIOUS
<1>2. Good(fs, ms) /\ Extends(gs, fs)
  <2>1. CASE due
    <3> PICK now : now = View(s.frames, s.pending)
      OBVIOUS
    <3>1. Good(now, <<>>) /\ Extends(s.frames, now) /\ now \in Seq(Frame)
      BY <1>1, GoodCommit, GoodTyped
    <3>2. Extends(gs, now)
      BY <1>1, <3>1, ExtendsTransitive
    <3> QED
      BY <2>1, <3>1, <3>2
  <2>2. CASE ~due
    BY <1>1, <2>2
  <2> QED
    BY <2>1, <2>2
<1> PICK new : new = Linking(i, old, Len(View(fs, ms)) + 1)
  OBVIOUS
<1>3. /\ Good(fs, ms \o new)
      /\ Len(ms \o new) = Len(ms) + 2
      /\ Good(fs, SubSeq(ms \o new, 1, Len(ms) + 1))
  <2>1. GoodAfter(fs, ms, Linking(i, old, Len(View(fs, ms)) + 1))
    BY <1>2, LinkingGood
  <2>2. GoodAfter(fs, ms, new)
    BY <2>1, Zenon
  <2> QED
    BY <2>2 DEF GoodAfter
<1>4. ms \in Seq(Mutation) /\ fs \in Seq(Frame) /\ ms \o new \in Seq(Mutation)
  BY <1>2, <1>3, GoodTyped
<1> PICK thrown : thrown = (s.thrown \/ (due /\ ~Applicable(s.frames, s.pending)))
  OBVIOUS
<1>5. Advance(s, i, old, due) = [frames |-> fs, pending |-> ms \o new, thrown |-> thrown]
  BY Zenon DEF Advance
<1>6. thrown \in BOOLEAN
  BY Zenon
<1> PICK t : t = [frames |-> fs, pending |-> ms \o new, thrown |-> thrown]
  OBVIOUS
<1>7. t.frames = fs /\ t.pending = ms \o new /\ t.thrown = thrown
  OBVIOUS
<1>11. thrown \/ BackLinked(fs)
  <2>1. CASE ~due
    BY <1>1, <2>1
  <2>2. CASE due /\ ~s.thrown /\ Applicable(s.frames, s.pending)
    <3>1. BackLinked(View(s.frames, s.pending))
      BY <1>1, <2>2, ApplicableBackLinked
    <3> QED
      BY <2>2, <3>1
  <2> QED
    BY <2>1, <2>2
<1>8. t \in [frames : Seq(Frame), pending : Seq(Mutation), thrown : BOOLEAN]
  BY <1>4, <1>6, Zenon
<1>9. t \in Reached(gs)
  BY <1>2, <1>3, <1>7, <1>8, <1>11, Zenon DEF Reached
<1>10. AllButLast(t) /\ Len(t.pending) >= 2
  <2>1. Len(ms) \in Nat
    BY <1>4
  <2>2. Len(ms \o new) - 1 = Len(ms) + 1 /\ Len(ms \o new) >= 2
    <3>1. \A k \in Nat : (k + 2) - 1 = k + 1 /\ k + 2 >= 2
      OBVIOUS
    <3> QED
      BY <1>3, <2>1, <3>1, Zenon
  <2>3. AllButLast(t)
    BY <1>3, <1>7, <2>2, Zenon DEF AllButLast
  <2> QED
    BY <1>7, <2>2, <2>3
<1> QED
  BY <1>5, <1>9, <1>10

Due(n) == n > 1 /\ (n - 1) % CommitEvery = 0

\* The equation of the recursion in Progress; behind[i] is what a surrogate of i is
\* linked behind.
Progresses(at, first, work, behind) ==
  at = [n \in 0 .. Len(work) |->
         IF n = 0 THEN first ELSE Advance(at[n - 1], work[n], behind[work[n]], Due(n))]

\* What a surrogate of any frame of gs is linked behind.
Linker(gs, behind) == \A i \in DOMAIN gs : Behind(gs, i, behind[i])

\* What it says of each step.
Advances(at, first, work, behind) ==
  /\ at[0] = first
  /\ \A n \in 1 .. Len(work) :
       at[n] = Advance(at[n - 1], work[n], behind[work[n]], Due(n))

LEMMA ProgressesAt ==
  ASSUME NEW at, NEW first, NEW work, NEW behind, Len(work) \in Nat,
         Progresses(at, first, work, behind)
  PROVE  Advances(at, first, work, behind)
<1> DEFINE h == [n \in 0 .. Len(work) |->
             IF n = 0 THEN first ELSE Advance(at[n - 1], work[n], behind[work[n]], Due(n))]
<1>1. at = h
  BY Zenon DEF Progresses
<1>2. /\ h[0] = first
      /\ \A n \in 1 .. Len(work) :
           h[n] = Advance(at[n - 1], work[n], behind[work[n]], Due(n))
  OBVIOUS
<1> HIDE DEF h
<1> QED
  BY <1>1, <1>2 DEF Advances

LEMMA ProgressesExist ==
  ASSUME NEW gs \in Seq(Frame), NEW first \in Reached(gs), NEW work \in Seq(DOMAIN gs),
         NEW behind, Linker(gs, behind)
  PROVE  \E at : Progresses(at, first, work, behind)
<1> PICK count \in Nat : count = Len(work)
  OBVIOUS
<1> PICK D : D = Reached(gs)
  OBVIOUS
<1> DEFINE Onto(s, n) == Advance(s, work[n], behind[work[n]], Due(n))
           step == [p \in (1 .. count) \X D |-> Onto(p[2], p[1])]
<1>1. ASSUME NEW n \in 1 .. count, NEW s \in D
      PROVE  Onto(s, n) \in D
  <2> PICK i : i = work[n]
    OBVIOUS
  <2>1. Behind(gs, i, behind[i])
    <3>1. i \in DOMAIN gs
      OBVIOUS
    <3> QED
      BY <3>1 DEF Linker
  <2> PICK due \in BOOLEAN : due = Due(n)
    BY Zenon DEF Due
  <2>2. Advance(s, i, behind[i], due) \in D
    BY <2>1, AdvanceReached
  <2> QED
    BY <2>2
<1>2. \A n \in 1 .. count, s \in D : step[<<n, s>>] = Onto(s, n)
  BY Zenon
<1>3. step \in Steps(count, D)
  <2>1. ASSUME NEW p \in (1 .. count) \X D
        PROVE  Onto(p[2], p[1]) \in D
    <3>1. p[1] \in 1 .. count /\ p[2] \in D
      OBVIOUS
    <3> HIDE DEF Onto
    <3> QED
      BY <1>1, <3>1
  <2> HIDE DEF Onto
  <2> QED
    BY <2>1, Zenon DEF Steps
<1> HIDE DEF step, Onto
<1>4. PICK f : f \in [0 .. count -> D] /\ Iterates(f, first, step, count)
  BY <1>3, RecursionExists, Zenon
<1>5. \A n \in 1 .. count : f[n] = Onto(f[n - 1], n)
  <2>1. \A n \in 1 .. count : n - 1 \in 0 .. count
    OBVIOUS
  <2> QED
    BY <1>2, <1>4, <2>1 DEF Iterates
<1>6. f = [n \in 0 .. count |-> IF n = 0 THEN first ELSE Onto(f[n - 1], n)]
  <2>1. f[0] = first
    BY <1>4 DEF Iterates
  <2>2. \A n \in 0 .. count : f[n] = IF n = 0 THEN first ELSE Onto(f[n - 1], n)
    BY <1>5, <2>1
  <2>3. f = [n \in 0 .. count |-> f[n]]
    BY <1>4
  <2> QED
    BY <2>2, <2>3
<1> QED
  BY <1>6 DEF Progresses, Onto

\* All that the loop comes to.
AllReached(gs, at, count) ==
  \A n \in 1 .. count : at[n] \in Reached(gs) /\ AllButLast(at[n]) /\ Len(at[n].pending) >= 2

LEMMA ProgressesReached ==
  ASSUME NEW gs \in Seq(Frame), NEW first \in Reached(gs), NEW work \in Seq(DOMAIN gs),
         NEW behind, Linker(gs, behind), NEW at, Progresses(at, first, work, behind)
  PROVE  AllReached(gs, at, Len(work))
<1> PICK count \in Nat : count = Len(work)
  OBVIOUS
<1>1. /\ at[0] = first
      /\ \A n \in 1 .. count :
           at[n] = Advance(at[n - 1], work[n], behind[work[n]], Due(n))
  <2>1. Advances(at, first, work, behind)
    <3>1. Len(work) \in Nat
      OBVIOUS
    <3> QED
      BY <3>1, ProgressesAt, Zenon
  <2> QED
    BY <2>1 DEF Advances
<1>2. ASSUME NEW n \in 1 .. count, at[n - 1] \in Reached(gs)
      PROVE  at[n] \in Reached(gs) /\ AllButLast(at[n]) /\ Len(at[n].pending) >= 2
  <2> PICK i : i = work[n]
    OBVIOUS
  <2> PICK s \in Reached(gs) : s = at[n - 1]
    BY <1>2
  <2>1. Behind(gs, i, behind[i])
    <3>1. i \in DOMAIN gs
      OBVIOUS
    <3> QED
      BY <3>1 DEF Linker
  <2> PICK due \in BOOLEAN : due = Due(n)
    BY Zenon DEF Due
  <2>2. /\ Advance(s, i, behind[i], due) \in Reached(gs)
        /\ AllButLast(Advance(s, i, behind[i], due))
        /\ Len(Advance(s, i, behind[i], due).pending) >= 2
    BY <2>1, AdvanceReached
  <2>3. at[n] = Advance(s, i, behind[i], due)
    BY <1>1
  <2> QED
    BY <2>2, <2>3
<1> DEFINE S == {n \in 0 .. count : at[n] \in Reached(gs)}
<1>3. 0 \in S
  BY <1>1
<1>4. \A n \in 1 .. count : n - 1 \in S => n \in S
  BY <1>2
<1>5. 0 .. count \subseteq S
  <2> HIDE DEF S
  <2> QED
    BY <1>3, <1>4, InductionUpTo
<1>6. \A n \in 1 .. count : at[n - 1] \in Reached(gs)
  BY <1>5
<1> QED
  BY <1>2, <1>6 DEF AllReached

-----------------------------------------------------------------------------
(* The invariant.                                                           *)

LiveSetInv ==
  /\ Good(frames, pending)
  /\ BackLinked(frames)
  /\ embedder \in Embedder
  /\ candidates \in Seq(File)
  /\ AllHaveLive(frames, candidates)

\* A frame has at most one surrogate, so the one that is found is one.
LEMMA SupersededForBehind ==
  ASSUME LiveSetInv, NEW i \in DOMAIN frames
  PROVE  Behind(frames, i, SupersededFor(i))
<1>0. frames \in Seq(Frame) /\ BackLinked(frames)
  BY GoodTyped DEF LiveSetInv
<1>1. CASE ~HasSurrogate(i)
  BY <1>1 DEF SupersededFor, Behind
<1>2. CASE HasSurrogate(i)
  <2> DEFINE old == CHOOSE t \in DOMAIN frames : Live(frames[t]) /\ frames[t].supersedes = i
  <2>1. SupersededFor(i) = old
    BY <1>2 DEF SupersededFor
  <2>2. PICK t \in DOMAIN frames :
          frames[t].kind = "surrogate" /\ frames[t].supersedes = i /\ Live(frames[t])
    BY <1>2 DEF HasSurrogate
  <2>3. old \in DOMAIN frames /\ frames[old].supersedes = i
    BY <2>2
  <2> HIDE DEF old
  <2>4. i # None
    <3>1. i \in Nat
      BY <1>0
    <3> QED
      BY <3>1, ContentAssumption
  <2>5. frames[i].superseded_by = t /\ frames[i].superseded_by = old
    BY <1>0, <2>2, <2>3, <2>4 DEF BackLinked
  <2> QED
    BY <2>1, <2>2, <2>3, <2>5 DEF Behind
<1> QED
  BY <1>1, <1>2

\* Where the loop starts, and what it links surrogates behind.
LoopStart == [frames |-> frames, pending |-> pending, thrown |-> FALSE]
LoopBehind == [i \in DOMAIN frames |-> SupersededFor(i)]

\* What the loop makes of the file, surrogate by surrogate.
LEMMA ProgressLoops ==
  ASSUME LiveSetInv, NEW work \in Seq(DOMAIN frames)
  PROVE  /\ Advances(Progress(work), LoopStart, work, LoopBehind)
         /\ AllReached(frames, Progress(work), Len(work))
<1> DEFINE first == [frames |-> frames, pending |-> pending, thrown |-> FALSE]
           behind == [i \in DOMAIN frames |-> SupersededFor(i)]
<1>0. frames \in Seq(Frame) /\ pending \in Seq(Mutation)
  BY GoodTyped DEF LiveSetInv
<1>1. first \in Reached(frames)
  <2>1. first.frames = frames /\ first.pending = pending
    OBVIOUS
  <2>2. first \in [frames : Seq(Frame), pending : Seq(Mutation), thrown : BOOLEAN]
    <3>1. FALSE \in BOOLEAN
      OBVIOUS
    <3> QED
      BY <1>0, <3>1, Zenon
  <2>3. Extends(frames, frames)
    BY <1>0, ExtendsItself
  <2> HIDE DEF first
  <2> QED
    BY <2>1, <2>2, <2>3, Zenon DEF Reached, LiveSetInv
<1>2. Linker(frames, behind)
  BY SupersededForBehind DEF Linker
<1>3. \A i \in DOMAIN frames : behind[i] = SupersededFor(i)
  OBVIOUS
<1>8. first = LoopStart /\ behind = LoopBehind
  BY DEF LoopStart, LoopBehind
<1> HIDE DEF behind
<1> DEFINE Equation(at) ==
             at = [k \in 0 .. Len(work) |->
               IF k = 0 THEN [frames |-> frames, pending |-> pending, thrown |-> FALSE]
               ELSE LET s == at[k - 1]
                        due == k > 1 /\ (k - 1) % CommitEvery = 0
                        fs == IF due THEN View(s.frames, s.pending) ELSE s.frames
                        ms == IF due THEN <<>> ELSE s.pending
                    IN  [frames |-> fs,
                         pending |-> ms \o Pair(work[k], Len(View(fs, ms)) + 1),
                         thrown |-> s.thrown \/ (due /\ ~Applicable(s.frames, s.pending))]]
           at == CHOOSE at : Equation(at)
<1>4. Progress(work) = at
  BY DEF Progress
<1>5. \A f : Equation(f) <=> Progresses(f, first, work, behind)
  <2> TAKE f
  <2> DEFINE Old(k) == LET s == f[k - 1]
                           due == k > 1 /\ (k - 1) % CommitEvery = 0
                           fs == IF due THEN View(s.frames, s.pending) ELSE s.frames
                           ms == IF due THEN <<>> ELSE s.pending
                       IN  [frames |-> fs,
                            pending |-> ms \o Pair(work[k], Len(View(fs, ms)) + 1),
                            thrown |-> s.thrown \/ (due /\ ~Applicable(s.frames, s.pending))]
             New(k) == Advance(f[k - 1], work[k], behind[work[k]], Due(k))
  <2>1. ASSUME NEW k \in 1 .. Len(work)
        PROVE  Old(k) = New(k)
    <3>1. work[k] \in DOMAIN frames
      OBVIOUS
    <3>2. \A id : Pair(work[k], id) = Linking(work[k], behind[work[k]], id)
      BY <1>3, <3>1, Zenon DEF Pair, Linking
    <3> PICK s, i, old : s = f[k - 1] /\ i = work[k] /\ old = behind[work[k]]
      OBVIOUS
    <3> PICK due : due = (k > 1 /\ (k - 1) % CommitEvery = 0)
      OBVIOUS
    <3> PICK fs : fs = IF due THEN View(s.frames, s.pending) ELSE s.frames
      OBVIOUS
    <3> PICK ms : ms = IF due THEN <<>> ELSE s.pending
      OBVIOUS
    <3>3. Old(k) = [frames |-> fs, pending |-> ms \o Pair(i, Len(View(fs, ms)) + 1),
                    thrown |-> s.thrown \/ (due /\ ~Applicable(s.frames, s.pending))]
      BY Zenon
    <3>4. New(k) = [frames |-> fs, pending |-> ms \o Linking(i, old, Len(View(fs, ms)) + 1),
                    thrown |-> s.thrown \/ (due /\ ~Applicable(s.frames, s.pending))]
      BY Zenon DEF Advance, Due
    <3>5. Pair(i, Len(View(fs, ms)) + 1) = Linking(i, old, Len(View(fs, ms)) + 1)
      BY <3>2, Zenon
    <3> QED
      BY <3>3, <3>4, <3>5, Zenon
  <2>2. Equation(f) <=> f = [k \in 0 .. Len(work) |-> IF k = 0 THEN first ELSE Old(k)]
    OBVIOUS
  <2>3. Progresses(f, first, work, behind)
          <=> f = [k \in 0 .. Len(work) |-> IF k = 0 THEN first ELSE New(k)]
    BY Zenon DEF Progresses
  <2> HIDE DEF Old, New, Equation, first
  <2>4. \A k \in 0 .. Len(work) : k # 0 => k \in 1 .. Len(work)
    OBVIOUS
  <2>5. [k \in 0 .. Len(work) |-> IF k = 0 THEN first ELSE Old(k)]
          = [k \in 0 .. Len(work) |-> IF k = 0 THEN first ELSE New(k)]
    BY <2>1, <2>4
  <2> QED
    BY <2>2, <2>3, <2>5
<1> HIDE DEF Equation, first
<1>6. Progresses(at, first, work, behind)
  <2>1. \E f : Progresses(f, first, work, behind)
    <3> PICK gs, a, b : gs = frames /\ a = first /\ b = behind
      OBVIOUS
    <3> QED
      BY <1>0, <1>1, <1>2, ProgressesExist
  <2> QED
    BY <1>5, <2>1
<1> HIDE DEF at
<1>7. AllReached(frames, at, Len(work))
  <2> PICK gs, a, b, c : gs = frames /\ a = first /\ b = behind /\ c = at
    OBVIOUS
  <2>1. gs \in Seq(Frame) /\ a \in Reached(gs) /\ work \in Seq(DOMAIN gs) /\ Linker(gs, b)
        /\ Progresses(c, a, work, b)
    BY <1>0, <1>1, <1>2, <1>6
  <2>2. AllReached(gs, c, Len(work))
    BY <2>1, ProgressesReached
  <2> QED
    BY <2>2
<1>9. Advances(at, first, work, behind)
  <2>1. Len(work) \in Nat
    OBVIOUS
  <2> QED
    BY <1>6, <2>1, ProgressesAt, Zenon
<1> QED
  BY <1>4, <1>7, <1>8, <1>9

LEMMA ProgressReached ==
  ASSUME LiveSetInv, NEW work \in Seq(DOMAIN frames), NEW n \in 1 .. Len(work)
  PROVE  LET s == Progress(work)[n] IN
         s \in Reached(frames) /\ AllButLast(s) /\ Len(s.pending) >= 2
BY ProgressLoops DEF AllReached

-----------------------------------------------------------------------------
(* Every step keeps it.                                                     *)

\* Frames and ring a step may leave.
Grown(fs, ms) == Good(fs, ms) /\ BackLinked(fs) /\ Extends(frames, fs)

LEMMA NothingGood == Good(<<>>, <<>>) /\ BackLinked(<<>>)
<1>1. <<>> \in Seq(Frame) /\ <<>> \in Seq(Mutation) /\ DOMAIN <<>> = {}
  OBVIOUS
<1>2. View(<<>>, <<>>) = <<>>
  <2> PICK fs : fs = <<>>
    OBVIOUS
  <2> QED
    BY <1>1, ViewNone
<1>3. AllLinked(<<>>) /\ BackLinked(<<>>)
  BY <1>1 DEF AllLinked, BackLinked
<1> QED
  BY <1>1, <1>2, <1>3 DEF Good

LEMMA LiveSetInit == Init => LiveSetInv
<1> SUFFICES ASSUME Init
             PROVE  LiveSetInv
  OBVIOUS
<1>1. Good(frames, pending) /\ BackLinked(frames)
  BY NothingGood DEF Init
<1>2. candidates = <<>> /\ candidates \in Seq(File) /\ DOMAIN candidates = {}
  BY DEF Init
<1>3. AllHaveLive(frames, candidates)
  BY <1>2 DEF AllHaveLive
<1>4. embedder \in Embedder
  BY DEF Init
<1> QED
  BY <1>1, <1>2, <1>3, <1>4 DEF LiveSetInv

\* The candidates a step may leave.
Kept(fs) ==
  \/ UNCHANGED candidates
  \/ Maintenance(fs)
  \/ candidates' = Append(candidates, Candidate(<<>>, FALSE))

LEMMA GrownInv ==
  ASSUME LiveSetInv, NEW fs, NEW ms, Grown(fs, ms), Kept(fs),
         frames' = fs, pending' = ms, embedder' \in Embedder
  PROVE  LiveSetInv'
<1>1. /\ fs \in Seq(Frame) /\ frames \in Seq(Frame) /\ candidates \in Seq(File)
      /\ Extends(frames, fs) /\ AllHaveLive(frames, candidates)
  BY GoodTyped DEF LiveSetInv, Grown
<1>2. AllHaveLive(fs, candidates)
  <2> PICK gs, files : gs = frames /\ files = candidates
    OBVIOUS
  <2>1. AllHaveLive(fs, files)
    BY <1>1, AllHaveLiveExtends
  <2> QED
    BY <2>1
<1>3. candidates' \in Seq(File) /\ AllHaveLive(fs, candidates')
  <2>1. CASE UNCHANGED candidates
    BY <1>1, <1>2, <2>1
  <2>2. CASE Maintenance(fs)
    BY <1>1, <1>2, <2>2, MaintenanceHasLive
  <2>3. CASE candidates' = Append(candidates, Candidate(<<>>, FALSE))
    <3> PICK files, cs, whole : files = candidates /\ cs = <<>> /\ whole = FALSE
      OBVIOUS
    <3>1. /\ Append(files, Candidate(cs, whole)) \in Seq(File)
          /\ AllHaveLive(fs, Append(files, Candidate(cs, whole)))
      <4>1. files \in Seq(File) /\ cs \in Seq(Frame) /\ AllHaveLive(fs, files)
            /\ (whole => HasLive(fs, cs))
        BY <1>1, <1>2
      <4> QED
        BY <4>1, CandidateHasLive
    <3> QED
      BY <2>3, <3>1
  <2> QED
    BY <2>1, <2>2, <2>3 DEF Kept
<1>4. Good(frames', pending') /\ BackLinked(frames')
  BY DEF Grown
<1>5. AllHaveLive(frames', candidates')
  BY <1>3
<1> QED
  BY <1>3, <1>4, <1>5 DEF LiveSetInv

LEMMA StartGrown ==
  ASSUME LiveSetInv, NEW fs, NEW ms, NEW past, Start(fs, ms, past), Grown(fs, ms), Kept(fs)
  PROVE  LiveSetInv'
<1>1. frames' = fs /\ pending' = ms /\ embedder' \in Embedder
  BY DEF Start
<1> QED
  BY <1>1, GrownInv

\* What is there, and what a commit makes of it.
LEMMA GrownNow ==
  ASSUME LiveSetInv
  PROVE  /\ Grown(frames, pending)
         /\ Applicable(frames, pending) => Grown(Now, <<>>)
<1>1. frames \in Seq(Frame) /\ pending \in Seq(Mutation) /\ Good(frames, pending)
      /\ BackLinked(frames)
  BY GoodTyped DEF LiveSetInv
<1>2. Extends(frames, frames)
  BY <1>1, ExtendsItself
<1>3. Good(Now, <<>>) /\ Extends(frames, Now)
  BY <1>1, GoodCommit DEF Now
<1>4. Applicable(frames, pending) => BackLinked(Now)
  BY <1>1, ApplicableBackLinked DEF Now
<1> QED
  BY <1>1, <1>2, <1>3, <1>4 DEF Grown

\* Records a call appends, each of which leaves a good ring.
Appends(records) ==
  /\ Len(records) \in Nat \ {0}
  /\ \A k \in 1 .. Len(records) : Good(frames, pending \o SubSeq(records, 1, k))

LEMMA CallGrown ==
  ASSUME LiveSetInv, NEW records, NEW state, NEW up, Call(records, state, up),
         Appends(records)
  PROVE  LiveSetInv'
<1>1. \A k \in 1 .. Len(records) : Grown(frames, pending \o SubSeq(records, 1, k))
  <2>1. BackLinked(frames) /\ Extends(frames, frames)
    BY GrownNow DEF Grown
  <2> QED
    BY <2>1 DEF Appends, Grown
<1>2. Len(records) \in 1 .. Len(records)
      /\ \A k \in 1 .. Len(records) - 1 : k \in 1 .. Len(records)
  BY DEF Appends
<1>3. \E k \in 1 .. Len(records) :
        \/ /\ frames' = frames /\ pending' = pending \o SubSeq(records, 1, k)
           /\ embedder' = embedder
        \/ Start(frames, pending \o SubSeq(records, 1, k), k < Len(records))
  BY <1>2 DEF Call
<1>4. Kept(frames)
  BY DEF Call, Kept
<1> PICK k \in 1 .. Len(records) :
      \/ /\ frames' = frames /\ pending' = pending \o SubSeq(records, 1, k)
         /\ embedder' = embedder
      \/ Start(frames, pending \o SubSeq(records, 1, k), k < Len(records))
  BY <1>3
<1> PICK fs, ms : fs = frames /\ ms = pending \o SubSeq(records, 1, k)
  OBVIOUS
<1>5. Grown(fs, ms) /\ Kept(fs)
  BY <1>1, <1>4
<1>6. CASE frames' = frames /\ pending' = pending \o SubSeq(records, 1, k) /\ embedder' = embedder
  <2>1. embedder' \in Embedder
    BY <1>6 DEF LiveSetInv
  <2> QED
    BY <1>5, <1>6, <2>1, GrownInv
<1>7. CASE Start(frames, pending \o SubSeq(records, 1, k), k < Len(records))
  <2> PICK past : past = (k < Len(records))
    OBVIOUS
  <2>1. Start(fs, ms, past)
    BY <1>7
  <2> QED
    BY <1>5, <2>1, StartGrown
<1> QED
  BY <1>6, <1>7

\* Records that put content, and one that supersedes.
LEMMA PutMutation ==
  ASSUME NEW f \in NewFrame
  PROVE  PutFrame(f) \in Mutation /\ \A fs : Links(fs, PutFrame(f))
BY DEF PutFrame, Mutation, Links

LEMMA SupersedeMutation ==
  ASSUME NEW old \in Nat, NEW new \in Nat
  PROVE  /\ SupersedeFrame(old, new) \in Mutation
         /\ \A fs : Linked(fs, old, new) => Links(fs, SupersedeFrame(old, new))
BY DEF SupersedeFrame, Mutation, Links

LEMMA FactTyped ==
  ASSUME NEW k \in Key \cup {None}
  PROVE  Fact(k) \in NewFrame /\ Fact(k).kind = "fact" /\ Fact(k).key = k
BY DEF Fact, Body, NewFrame, Frame, Kinds, Link

LEMMA AppendsOne ==
  ASSUME LiveSetInv, NEW m \in Mutation, Links(Now, m)
  PROVE  Appends(<<m>>)
<1> PICK fs, ms : fs = frames /\ ms = pending
  OBVIOUS
<1>1. Good(fs, ms) /\ Links(View(fs, ms), m)
  BY DEF LiveSetInv, Now
<1>2. \A k \in 1 .. 1 : Good(fs, ms \o SubSeq(<<m>>, 1, k))
  BY <1>1, GoodOne
<1>3. Len(<<m>>) = 1
  OBVIOUS
<1> QED
  BY <1>2, <1>3 DEF Appends

LEMMA AppendsTwo ==
  ASSUME LiveSetInv, NEW m \in Mutation, NEW n \in Mutation, Links(Now, m),
         Links(Preview(Now, m), n)
  PROVE  Appends(<<m, n>>)
<1> PICK fs, ms : fs = frames /\ ms = pending
  OBVIOUS
<1>1. Good(fs, ms) /\ Links(View(fs, ms), m) /\ Links(Preview(View(fs, ms), m), n)
  BY DEF LiveSetInv, Now
<1>2. \A k \in 1 .. 2 : Good(fs, ms \o SubSeq(<<m, n>>, 1, k))
  BY <1>1, GoodTwo
<1>3. Len(<<m, n>>) = 2
  OBVIOUS
<1> QED
  BY <1>2, <1>3 DEF Appends

LEMMA RememberGrown == LiveSetInv /\ Remember => LiveSetInv'
<1> SUFFICES ASSUME LiveSetInv, Remember
             PROVE  LiveSetInv'
  OBVIOUS
<1> DEFINE m == PutFrame(Body("chunk", None, None))
           n == PutFrame(Body("embedding", NextId, embedder))
<1>1. NextId \in Nat
  <2>1. Now \in Seq(Frame)
    BY GoodTyped DEF LiveSetInv, Now
  <2> QED
    BY <2>1 DEF NextId
<1>2. Body("chunk", None, None) \in NewFrame
  <2>1. "chunk" \in Kinds /\ None \in Link
    BY DEF Kinds, Link
  <2> QED
    BY <2>1, BodyTyped
<1>3. Body("embedding", NextId, embedder) \in NewFrame
  <2>1. "embedding" \in Kinds /\ NextId \in Link /\ embedder \in Embedder \cup {None}
    BY <1>1 DEF Kinds, Link, LiveSetInv
  <2> PICK id, e : id = NextId /\ e = embedder
    OBVIOUS
  <2>2. Body("embedding", id, e) \in NewFrame
    BY <2>1, BodyTyped
  <2> QED
    BY <2>2
<1>4. m \in Mutation /\ n \in Mutation /\ \A fs : Links(fs, m) /\ Links(fs, n)
  BY <1>2, <1>3, PutMutation
<1>5. \E state : Call(<<m, n>>, state, {})
  BY DEF Remember
<1> HIDE DEF m, n
<1>6. Appends(<<m, n>>)
  BY <1>4, AppendsTwo
<1> QED
  BY <1>5, <1>6, CallGrown

LEMMA RememberFactGrown ==
  ASSUME LiveSetInv, NEW k \in Key, RememberFact(k)
  PROVE  LiveSetInv'
<1>1. PutFrame(Fact(k)) \in Mutation /\ Links(Now, PutFrame(Fact(k)))
  BY FactTyped, PutMutation
<1>2. \E state, up : Call(<<PutFrame(Fact(k))>>, state, up)
  BY DEF RememberFact
<1>3. Appends(<<PutFrame(Fact(k))>>)
  BY <1>1, AppendsOne
<1> QED
  BY <1>2, <1>3, CallGrown

LEMMA UpdateFactGrown ==
  ASSUME LiveSetInv, NEW id \in DOMAIN Now, UpdateFactById(id)
  PROVE  LiveSetInv'
<1> PICK now : now = Now
  OBVIOUS
<1>1. now \in Seq(Frame)
  BY GoodTyped DEF LiveSetInv, Now
<1> DEFINE new == Len(now) + 1
           f == Fact(now[id].key)
           gs == Preview(now, PutFrame(f))
<1>2. /\ f \in NewFrame /\ f.kind = "fact" /\ f.key = now[id].key /\ f \in Frame
  <2>1. now[id] \in Frame
    BY <1>1
  <2>2. now[id].key \in Key \cup {None}
    BY <2>1, FrameTyped
  <2> QED
    BY <2>2, FactTyped, NewFrameTyped
<1>3. /\ gs \in Seq(Frame) /\ Len(gs) = Len(now) + 1
      /\ \A i \in DOMAIN now : gs[i] = now[i]
      /\ gs[Len(now) + 1] = f
  <2> HIDE DEF f
  <2> QED
    BY <1>1, <1>2, PuttingFrame
<1>4. id \in Nat /\ new \in Nat /\ id < new /\ id \in DOMAIN gs /\ new \in DOMAIN gs
  <2> HIDE DEF gs
  <2> QED
    BY <1>1, <1>3
<1> HIDE DEF gs, f
<1>5. Linked(gs, id, new)
  BY <1>1, <1>2, <1>3, <1>4 DEF Linked
<1>6. /\ PutFrame(f) \in Mutation /\ Links(now, PutFrame(f))
      /\ SupersedeFrame(id, new) \in Mutation /\ Links(gs, SupersedeFrame(id, new))
  <2> HIDE DEF new
  <2> QED
    BY <1>2, <1>4, <1>5, PutMutation, SupersedeMutation
<1>7. Appends(<<PutFrame(f), SupersedeFrame(id, new)>>)
  <2> PICK m, n : m = PutFrame(f) /\ n = SupersedeFrame(id, new)
    OBVIOUS
  <2>1. Links(Now, m) /\ Links(Preview(Now, m), n) /\ m \in Mutation /\ n \in Mutation
    BY <1>6 DEF gs
  <2>2. Appends(<<m, n>>)
    BY <2>1, AppendsTwo
  <2> QED
    BY <2>2
<1>8. \E state, up : Call(<<PutFrame(f), SupersedeFrame(id, new)>>, state, up)
  BY DEF UpdateFactById, f, NextId
<1> QED
  BY <1>7, <1>8, CallGrown

LEMMA HandoffGrown == LiveSetInv /\ RememberHandoff => LiveSetInv'
<1> SUFFICES ASSUME LiveSetInv, RememberHandoff
             PROVE  LiveSetInv'
  OBVIOUS
<1> DEFINE m == PutFrame(Body("handoff", None, None))
<1> PICK fs, ms : fs = frames /\ ms = Append(pending, m)
  OBVIOUS
<1>1. Good(fs, ms) /\ BackLinked(fs) /\ Extends(frames, fs)
  <2>1. "handoff" \in Kinds /\ None \in Link
    BY DEF Kinds, Link
  <2>2. m \in Mutation /\ Links(View(frames, pending), m)
    BY <2>1, BodyTyped, PutMutation
  <2> HIDE DEF m
  <2>3. Good(frames, Append(pending, m))
    BY <2>2, GoodAppend DEF LiveSetInv
  <2> QED
    BY <2>3, GrownNow DEF Grown
<1>2. Applicable(fs, ms) => Grown(View(fs, ms), <<>>)
  <2>1. fs \in Seq(Frame) /\ ms \in Seq(Mutation)
    BY <1>1, GoodTyped
  <2>2. Good(View(fs, ms), <<>>) /\ Extends(fs, View(fs, ms))
    BY <1>1, GoodCommit
  <2> QED
    BY <1>1, <2>1, <2>2, ApplicableBackLinked DEF Grown
<1>3. embedder' \in Embedder /\ UNCHANGED candidates
  BY DEF RememberHandoff, LiveSetInv
<1>4. CASE Applicable(fs, ms) /\ frames' = View(fs, ms) /\ pending' = <<>>
  <2> PICK gs, ns : gs = View(fs, ms) /\ ns = <<>>
    OBVIOUS
  <2>1. Grown(gs, ns) /\ Kept(gs)
    BY <1>2, <1>3, <1>4 DEF Kept
  <2> QED
    BY <1>3, <1>4, <2>1, GrownInv
<1>5. CASE frames' = fs /\ pending' = ms
  <2>1. Grown(fs, ms) /\ Kept(fs)
    BY <1>1, <1>3 DEF Grown, Kept
  <2> QED
    BY <1>3, <1>5, <2>1, GrownInv
<1> QED
  BY <1>4, <1>5 DEF RememberHandoff

\* Committing what is pending.
LEMMA CommitGrown ==
  ASSUME LiveSetInv, Applicable(frames, pending), frames' = Now, pending' = <<>>,
         embedder' \in Embedder, Kept(Now)
  PROVE  LiveSetInv'
<1> PICK fs, ms : fs = Now /\ ms = <<>>
  OBVIOUS
<1>1. Grown(fs, ms) /\ Kept(fs)
  BY GrownNow
<1> QED
  BY <1>1, GrownInv

LEMMA CommitAndStart ==
  ASSUME LiveSetInv, Applicable(frames, pending), Start(Now, <<>>, FALSE), Kept(Now)
  PROVE  LiveSetInv'
<1> PICK fs, ms, past : fs = Now /\ ms = <<>> /\ past = FALSE
  OBVIOUS
<1>1. Grown(fs, ms) /\ Kept(fs) /\ Start(fs, ms, past)
  BY GrownNow
<1> QED
  BY <1>1, StartGrown

LEMMA OnlyStart ==
  ASSUME LiveSetInv, Start(frames, pending, FALSE), UNCHANGED candidates
  PROVE  LiveSetInv'
<1> PICK fs, ms, past : fs = frames /\ ms = pending /\ past = FALSE
  OBVIOUS
<1>1. Grown(fs, ms) /\ Kept(fs) /\ Start(fs, ms, past)
  BY GrownNow DEF Kept
<1> QED
  BY <1>1, StartGrown

LEMMA OptimizeGrown ==
  ASSUME LiveSetInv, NEW overwrite, OptimizeSurrogates(overwrite)
  PROVE  LiveSetInv'
<1> PICK all : all = Work(overwrite)
  OBVIOUS
<1>1. all \in Seq(DOMAIN frames)
  <2>1. frames \in Seq(Frame)
    BY GoodTyped DEF LiveSetInv
  <2> QED
    BY <2>1, WorkTyped
<1> PICK n, work, s :
      /\ n \in 1 .. Len(all)
      /\ work = SubSeq(all, 1, n)
      /\ s = Progress(work)[n]
      /\ ~s.thrown
      /\ \/ /\ Applicable(s.frames, s.pending)
            /\ frames' = View(s.frames, s.pending) /\ pending' = <<>>
            /\ UNCHANGED <<embedder, candidates>>
         \/ \E k \in {Len(s.pending) - 1, Len(s.pending)} :
              /\ frames' = s.frames /\ pending' = SubSeq(s.pending, 1, k)
              /\ UNCHANGED <<embedder, candidates>>
         \/ \E k \in {Len(s.pending) - 1, Len(s.pending)} :
              /\ Start(s.frames, SubSeq(s.pending, 1, k), TRUE)
              /\ UNCHANGED candidates
  BY DEF OptimizeSurrogates
<1>2. work \in Seq(DOMAIN frames) /\ n \in 1 .. Len(work)
  BY <1>1
<1>3. s \in Reached(frames) /\ AllButLast(s)
  <2> PICK w, i : w = work /\ i = n
    OBVIOUS
  <2>1. LET t == Progress(w)[i] IN t \in Reached(frames) /\ AllButLast(t) /\ Len(t.pending) >= 2
    BY <1>2, ProgressReached
  <2> QED
    BY <2>1
<1>4. /\ s.pending \in Seq(Mutation) /\ s.frames \in Seq(Frame)
      /\ Good(s.frames, s.pending) /\ Extends(frames, s.frames) /\ BackLinked(s.frames)
  BY <1>3, Zenon DEF Reached
<1>5. \A k \in {Len(s.pending) - 1, Len(s.pending)} : Grown(s.frames, SubSeq(s.pending, 1, k))
  <2>1. SubSeq(s.pending, 1, Len(s.pending)) = s.pending
    BY <1>4, WholeSubSeq
  <2> QED
    BY <1>3, <1>4, <2>1 DEF Grown, AllButLast
<1>6. embedder \in Embedder /\ frames \in Seq(Frame)
  BY GoodTyped DEF LiveSetInv
<1>7. CASE /\ Applicable(s.frames, s.pending)
           /\ frames' = View(s.frames, s.pending) /\ pending' = <<>>
           /\ UNCHANGED <<embedder, candidates>>
  <2> PICK now, ms : now = View(s.frames, s.pending) /\ ms = <<>>
    OBVIOUS
  <2> PICK fs, ns : fs = s.frames /\ ns = s.pending
    OBVIOUS
  <2>1. Good(now, <<>>) /\ Extends(fs, now) /\ now \in Seq(Frame)
    BY <1>4, GoodCommit, GoodTyped
  <2>2. BackLinked(now)
    <3>1. BackLinked(View(fs, ns))
      BY <1>4, <1>7, ApplicableBackLinked
    <3> QED
      BY <3>1
  <2>3. Extends(frames, now)
    <3> PICK gs : gs = frames
      OBVIOUS
    <3>1. Extends(gs, now)
      BY <1>4, <1>6, <2>1, ExtendsTransitive
    <3> QED
      BY <3>1
  <2>4. Grown(now, ms) /\ Kept(now)
    BY <1>7, <2>1, <2>2, <2>3 DEF Grown, Kept
  <2> QED
    BY <1>6, <1>7, <2>4, GrownInv
<1>8. CASE \E k \in {Len(s.pending) - 1, Len(s.pending)} :
             /\ frames' = s.frames /\ pending' = SubSeq(s.pending, 1, k)
             /\ UNCHANGED <<embedder, candidates>>
  <2> PICK k \in {Len(s.pending) - 1, Len(s.pending)} :
        /\ frames' = s.frames /\ pending' = SubSeq(s.pending, 1, k)
        /\ UNCHANGED <<embedder, candidates>>
    BY <1>8
  <2> PICK fs, ms : fs = s.frames /\ ms = SubSeq(s.pending, 1, k)
    OBVIOUS
  <2>1. Grown(fs, ms) /\ Kept(fs)
    BY <1>5 DEF Kept
  <2> QED
    BY <1>6, <2>1, GrownInv
<1>9. CASE \E k \in {Len(s.pending) - 1, Len(s.pending)} :
             /\ Start(s.frames, SubSeq(s.pending, 1, k), TRUE)
             /\ UNCHANGED candidates
  <2> PICK k \in {Len(s.pending) - 1, Len(s.pending)} :
        /\ Start(s.frames, SubSeq(s.pending, 1, k), TRUE)
        /\ UNCHANGED candidates
    BY <1>9
  <2> PICK fs, ms, past : fs = s.frames /\ ms = SubSeq(s.pending, 1, k) /\ past = TRUE
    OBVIOUS
  <2>1. Grown(fs, ms) /\ Kept(fs) /\ Start(fs, ms, past)
    BY <1>5 DEF Kept
  <2> QED
    BY <2>1, StartGrown
<1> QED
  BY <1>7, <1>8, <1>9

LEMMA LiveSetStep == LiveSetInv /\ [Next]_vars => LiveSetInv'
<1> SUFFICES ASSUME LiveSetInv, [Next]_vars
             PROVE  LiveSetInv'
  OBVIOUS
<1>0. embedder \in Embedder
  BY DEF LiveSetInv
<1>1. CASE Remember
  BY <1>1, RememberGrown
<1>2. CASE \E k \in Key : RememberFact(k)
  BY <1>2, RememberFactGrown
<1>3. CASE \E id \in DOMAIN Now : UpdateFactById(id)
  BY <1>3, UpdateFactGrown
<1>4. CASE Flush
  BY <1>0, <1>4, CommitGrown DEF Flush, Kept
<1>5. CASE FlushRebuilds
  BY <1>0, <1>5, CommitGrown DEF FlushRebuilds, Kept
<1>6. CASE CompactIndexes
  BY <1>0, <1>6, CommitGrown DEF CompactIndexes, Kept
<1>7. CASE RememberHandoff
  BY <1>7, HandoffGrown
<1>8. CASE \E overwrite \in Overwrite : OptimizeSurrogates(overwrite)
  BY <1>8, OptimizeGrown
<1>9. CASE Close
  BY <1>9, CommitAndStart, OnlyStart DEF Close, Kept
<1>10. CASE ProcessDies
  BY <1>10, CommitAndStart, OnlyStart DEF ProcessDies, Kept
<1>11. CASE DiesRewriting
  BY <1>11, CommitAndStart DEF DiesRewriting, Kept
<1>12. CASE FlushFails \/ UNCHANGED vars
  BY <1>12 DEF FlushFails, vars, LiveSetInv
<1> QED
  BY <1>1, <1>2, <1>3, <1>4, <1>5, <1>6, <1>7, <1>8, <1>9, <1>10, <1>11, <1>12 DEF Next

-----------------------------------------------------------------------------
(* What a replay finds: of each key, the newest fact.                       *)

EntryOf == [id : Link, supersedes : Link, pinned : {FALSE}]
Entries == [Key -> EntryOf]
Memory == [entries : Entries, staged : Entries, staging : BOOLEAN, visible : BOOLEAN]

\* The entries that a commit leaves.
Held(m) == IF m.staging THEN m.staged ELSE m.entries

LEMMA EmptyTyped == Empty \in Memory /\ Held(Empty) = NoEntries
<1>1. NoEntries \in Entries
  BY DEF NoEntries, NoEntry, Entry, Entries, EntryOf, Link
<1>2. FALSE \in BOOLEAN
  OBVIOUS
<1>3. Empty \in Memory
  BY <1>1, <1>2, Zenon DEF Empty, Memory
<1>4. Held(Empty) = NoEntries
  BY DEF Held, Empty
<1> QED
  BY <1>3, <1>4

LEMMA MemoryTyped ==
  ASSUME NEW m \in Memory
  PROVE  m.entries \in Entries /\ m.staged \in Entries /\ m.staging \in BOOLEAN
         /\ Held(m) \in Entries
         /\ m = [entries |-> m.entries, staged |-> m.staged, staging |-> m.staging,
                 visible |-> m.visible]
<1>1. m.entries \in Entries /\ m.staged \in Entries /\ m.staging \in BOOLEAN
      /\ m = [entries |-> m.entries, staged |-> m.staged, staging |-> m.staging,
              visible |-> m.visible]
  BY Zenon DEF Memory
<1> QED
  BY <1>1 DEF Held

LEMMA CommitHeld ==
  ASSUME NEW m \in Memory
  PROVE  CommitStaged(m).entries = Held(m)
BY DEF CommitStaged, Held, Empty

\* now is m with entry e for key k.
HeldWith(m, k, e, now) == now \in Memory /\ Held(now) = [Held(m) EXCEPT ![k] = e]

LEMMA UpsertHeld ==
  ASSUME NEW m \in Memory, NEW k, NEW e \in EntryOf
  PROVE  HeldWith(m, k, e, StageUpsert(m, k, e))
<1> PICK held \in Entries : held = Held(m)
  BY MemoryTyped
<1> PICK now : now = [held EXCEPT ![k] = e]
  OBVIOUS
<1>1. now \in Entries
  BY DEF Entries
<1>2. /\ StageUpsert(m, k, e).entries = m.entries
      /\ StageUpsert(m, k, e).staged = now
      /\ StageUpsert(m, k, e).staging = TRUE
      /\ StageUpsert(m, k, e).visible = TRUE
      /\ StageUpsert(m, k, e) = [entries |-> m.entries, staged |-> now, staging |-> TRUE,
                                 visible |-> TRUE]
  <2> PICK a, b, c, d : a = m.entries /\ b = m.staged /\ c = m.staging /\ d = m.visible
    OBVIOUS
  <2>1. m = [entries |-> a, staged |-> b, staging |-> c, visible |-> d]
    BY MemoryTyped, Zenon
  <2>2. now = [IF m.staging THEN m.staged ELSE m.entries EXCEPT ![k] = e]
    BY Zenon DEF Held
  <2>3. StageUpsert(m, k, e) = [m EXCEPT !.staged = now, !.staging = TRUE, !.visible = TRUE]
    BY <2>2, Zenon DEF StageUpsert
  <2>4. StageUpsert(m, k, e) = [entries |-> a, staged |-> now, staging |-> TRUE, visible |-> TRUE]
    BY <2>1, <2>3
  <2> QED
    BY <2>4
<1>3. StageUpsert(m, k, e) \in Memory
  <2>1. m.entries \in Entries /\ TRUE \in BOOLEAN
    BY MemoryTyped
  <2> QED
    BY <1>1, <1>2, <2>1, Zenon DEF Memory
<1>4. Held(StageUpsert(m, k, e)) = now
  BY <1>2 DEF Held
<1> QED
  BY <1>3, <1>4 DEF HeldWith

\* A replay of frames fs, step by step.
Replays(f, fs) == f = [i \in 0 .. Len(fs) |-> IF i = 0 THEN Empty ELSE ReplayFrame(fs, f[i - 1], i)]

\* Frame i holds a fact of key k.
Holds(fs, i, k) == fs[i].kind = "fact" /\ fs[i].key = k

\* What a replay makes of frame x.
EntryAt(fs, x) == IF x = None THEN NoEntry ELSE Entry(x, fs[x].supersedes, FALSE)

LEMMA ReplayFrameHeld ==
  ASSUME NEW fs \in Seq(Frame), NEW m \in Memory, NEW i \in DOMAIN fs
  PROVE  /\ ReplayFrame(fs, m, i) \in Memory
         /\ \A k \in Key : Held(ReplayFrame(fs, m, i))[k]
                             = IF Holds(fs, i, k) THEN EntryAt(fs, i) ELSE Held(m)[k]
<1> PICK f \in Frame : f = fs[i]
  OBVIOUS
<1>1. Active(f)
  <2>1. f.deleted = FALSE
    BY FrameTyped
  <2> QED
    BY <2>1 DEF Active
<1> PICK e : e = Entry(i, f.supersedes, FALSE)
  OBVIOUS
<1>2. e \in EntryOf /\ e = EntryAt(fs, i)
  <2>1. i \in Link /\ i # None
    <3>1. i \in Nat
      OBVIOUS
    <3> QED
      BY <3>1, ContentAssumption DEF Link
  <2>2. f.supersedes \in Link
    BY FrameTyped, Zenon
  <2> QED
    BY <2>1, <2>2 DEF Entry, EntryOf, EntryAt
<1>3. CASE f.kind = "fact"
  <2> PICK k : k = f.key
    OBVIOUS
  <2>1. ReplayFrame(fs, m, i) = StageUpsert(m, k, e)
    BY <1>1, <1>3, Zenon DEF ReplayFrame
  <2>2. StageUpsert(m, k, e) \in Memory /\ Held(StageUpsert(m, k, e)) = [Held(m) EXCEPT ![k] = e]
    <3>1. e \in EntryOf
      BY <1>2
    <3>2. HeldWith(m, k, e, StageUpsert(m, k, e))
      BY <3>1, UpsertHeld, Zenon
    <3> QED
      BY <3>2, Zenon DEF HeldWith
  <2>3. Held(m) \in Entries
    BY MemoryTyped
  <2>4. \A j \in Key : [Held(m) EXCEPT ![k] = e][j] = IF j = k THEN e ELSE Held(m)[j]
    BY <2>3 DEF Entries
  <2> QED
    BY <1>2, <1>3, <2>1, <2>2, <2>4 DEF Holds
<1>4. CASE f.kind # "fact"
  BY <1>4 DEF ReplayFrame, Holds
<1> QED
  BY <1>3, <1>4

LEMMA ReplaysExist ==
  ASSUME NEW fs \in Seq(Frame)
  PROVE  \E f : Replays(f, fs)
<1> DEFINE n == Len(fs)
           step == [p \in (1 .. n) \X Memory |-> ReplayFrame(fs, p[2], p[1])]
<1>1. n \in Nat /\ Empty \in Memory
  BY EmptyTyped
<1>2. \A i \in 1 .. n, x \in Memory :
        <<i, x>> \in (1 .. n) \X Memory /\ step[<<i, x>>] = ReplayFrame(fs, x, i)
  BY Zenon
<1>3. step \in Steps(n, Memory)
  <2>1. ASSUME NEW p \in (1 .. n) \X Memory
        PROVE  ReplayFrame(fs, p[2], p[1]) \in Memory
    <3> PICK m \in Memory, i \in DOMAIN fs : m = p[2] /\ i = p[1]
      OBVIOUS
    <3>1. ReplayFrame(fs, m, i) \in Memory
      BY ReplayFrameHeld
    <3> QED
      BY <3>1
  <2> QED
    BY <2>1, Zenon DEF Steps
<1> HIDE DEF step
<1>4. PICK f : f \in [0 .. n -> Memory] /\ Iterates(f, Empty, step, n)
  <2> HIDE DEF n
  <2> QED
    BY <1>1, <1>3, RecursionExists, Zenon
<1>5. \A i \in 1 .. n : f[i] = ReplayFrame(fs, f[i - 1], i)
  <2>1. \A i \in 1 .. n : i - 1 \in 0 .. n
    BY <1>1
  <2> QED
    BY <1>2, <1>4, <2>1 DEF Iterates
<1>6. f = [i \in 0 .. n |-> IF i = 0 THEN Empty ELSE ReplayFrame(fs, f[i - 1], i)]
  <2>1. \A i \in 0 .. n : f[i] = IF i = 0 THEN Empty ELSE ReplayFrame(fs, f[i - 1], i)
    BY <1>4, <1>5 DEF Iterates
  <2>2. f = [i \in 0 .. n |-> f[i]]
    BY <1>4
  <2> QED
    BY <2>1, <2>2
<1> QED
  BY <1>6 DEF Replays

LEMMA ReplaysAt ==
  ASSUME NEW f, NEW fs \in Seq(Frame), Replays(f, fs)
  PROVE  f[0] = Empty /\ \A i \in 1 .. Len(fs) : f[i] = ReplayFrame(fs, f[i - 1], i)
<1> DEFINE h == [i \in 0 .. Len(fs) |-> IF i = 0 THEN Empty ELSE ReplayFrame(fs, f[i - 1], i)]
<1>1. f = h
  BY Zenon DEF Replays
<1>2. h[0] = Empty /\ \A i \in 1 .. Len(fs) : h[i] = ReplayFrame(fs, f[i - 1], i)
  OBVIOUS
<1> HIDE DEF h
<1> QED
  BY <1>1, <1>2

\* x is the newest of the first n frames that holds a fact of key k, or None.
Newest(fs, n, k, x) ==
  /\ x # None => x \in 1 .. n /\ Holds(fs, x, k)
  /\ \A j \in 1 .. n : Holds(fs, j, k) => x # None /\ j <= x

\* e is what the first n frames say of key k.
Told(fs, n, k, e) == Newest(fs, n, k, e.id) /\ e = EntryAt(fs, e.id)

LEMMA EntryAtId ==
  ASSUME NEW fs, NEW x
  PROVE  EntryAt(fs, x).id = x
BY DEF EntryAt, NoEntry, Entry

LEMMA ToldMore ==
  ASSUME NEW fs \in Seq(Frame), NEW i \in DOMAIN fs, NEW k, NEW e, Told(fs, i - 1, k, e)
  PROVE  Told(fs, i, k, IF Holds(fs, i, k) THEN EntryAt(fs, i) ELSE e)
<1>1. i \in Nat /\ i # None
  <2>1. i \in Nat
    OBVIOUS
  <2> QED
    BY <2>1, ContentAssumption
<1>2. CASE Holds(fs, i, k)
  <2>1. i \in 1 .. i /\ \A j \in 1 .. i : j <= i
    OBVIOUS
  <2>2. Newest(fs, i, k, i)
    BY <1>1, <1>2, <2>1 DEF Newest
  <2> QED
    BY <1>2, <2>2, EntryAtId DEF Told
<1>3. CASE ~Holds(fs, i, k)
  <2>1. \A j \in 1 .. i : j # i => j \in 1 .. (i - 1)
    OBVIOUS
  <2>2. \A j \in 1 .. (i - 1) : j \in 1 .. i
    OBVIOUS
  <2>3. Newest(fs, i, k, e.id)
    BY <1>3, <2>1, <2>2 DEF Told, Newest
  <2> QED
    BY <1>3, <2>3 DEF Told
<1> QED
  BY <1>2, <1>3

LEMMA ReplayTold ==
  ASSUME NEW fs \in Seq(Frame), NEW k \in Key
  PROVE  Told(fs, Len(fs), k, Replay(fs).entries[k])
<1> DEFINE f == CHOOSE f : Replays(f, fs)
<1>1. Replays(f, fs)
  BY ReplaysExist
<1>2. Replay(fs) = CommitStaged(f[Len(fs)])
  BY DEF Replay, Replays
<1> HIDE DEF f
<1> PICK n \in Nat : n = Len(fs)
  OBVIOUS
<1>3. f[0] = Empty /\ \A i \in 1 .. n : f[i] = ReplayFrame(fs, f[i - 1], i)
  BY <1>1, ReplaysAt
<1> DEFINE S == {i \in 0 .. n : f[i] \in Memory /\ Told(fs, i, k, Held(f[i])[k])}
<1>4. 0 \in S
  <2>1. Held(Empty)[k] = NoEntry
    BY EmptyTyped DEF NoEntries
  <2>2. NoEntry.id = None /\ EntryAt(fs, None) = NoEntry
    BY DEF NoEntry, Entry, EntryAt
  <2>3. Newest(fs, 0, k, None)
    BY DEF Newest
  <2>4. Told(fs, 0, k, NoEntry)
    BY <2>2, <2>3 DEF Told
  <2>5. 0 \in 0 .. n
    OBVIOUS
  <2> QED
    BY <1>3, <2>1, <2>4, <2>5, EmptyTyped
<1>5. ASSUME NEW i \in 1 .. n, i - 1 \in S
      PROVE  i \in S
  <2> PICK m \in Memory : m = f[i - 1]
    BY <1>5
  <2> PICK next, e : next = f[i] /\ e = Held(m)[k]
    OBVIOUS
  <2>1. i \in DOMAIN fs /\ i \in 0 .. n
    OBVIOUS
  <2>2. next \in Memory /\ Held(next)[k] = IF Holds(fs, i, k) THEN EntryAt(fs, i) ELSE e
    <3>1. next = ReplayFrame(fs, m, i)
      BY <1>3
    <3> QED
      BY <2>1, <3>1, ReplayFrameHeld
  <2>3. Told(fs, i - 1, k, e)
    BY <1>5
  <2>4. Told(fs, i, k, IF Holds(fs, i, k) THEN EntryAt(fs, i) ELSE e)
    BY <2>1, <2>3, ToldMore
  <2> QED
    BY <2>1, <2>2, <2>4
<1>6. 0 .. n \subseteq S
  <2> HIDE DEF S
  <2> QED
    BY <1>4, <1>5, InductionUpTo
<1>7. f[n] \in Memory /\ Told(fs, n, k, Held(f[n])[k])
  <2>1. n \in 0 .. n
    OBVIOUS
  <2> QED
    BY <1>6, <2>1
<1>8. Replay(fs).entries = Held(f[n])
  BY <1>2, <1>7, CommitHeld
<1> QED
  BY <1>7, <1>8

LEMMA ReplayNewest ==
  ASSUME NEW fs \in Seq(Frame), NEW k \in Key
  PROVE  Newest(fs, Len(fs), k, Replay(fs).entries[k].id)
BY ReplayTold DEF Told

\* The newest fact of a key is live, and its rewritten frame still the newest,
\* when what superseded it is not a surrogate.
LEMMA RewrittenReplays ==
  ASSUME NEW fs \in Seq(Frame), NEW k \in Key, AllLinked(fs),
         \A f \in ToSet(fs) : f.kind \in {"surrogate", "extract"} => fs[f.of].kind # "fact"
  PROVE  Replay(Rewritten(fs)).entries[k].id = Replay(fs).entries[k].id
<1> PICK gs : gs = Rewritten(fs)
  OBVIOUS
<1> PICK x, y : x = Replay(fs).entries[k].id /\ y = Replay(gs).entries[k].id
  OBVIOUS
<1>1. /\ gs \in Seq(Frame) /\ Len(gs) = Len(fs)
      /\ \A i \in 1 .. Len(fs) :
           gs[i] = IF Live(fs[i]) THEN [fs[i] EXCEPT !.supersedes = None] ELSE Dropped
  <2>1. gs \in Seq(Frame)
    BY RewrittenHasLive
  <2>2. DOMAIN gs = 1 .. Len(fs) /\ Len(fs) \in Nat
    BY DEF Rewritten
  <2>3. Len(gs) = Len(fs)
    BY <2>1, <2>2
  <2> QED
    BY <2>1, <2>3 DEF Rewritten
<1>2. Newest(fs, Len(fs), k, x) /\ Newest(gs, Len(fs), k, y)
  BY <1>1, ReplayNewest
<1>3. \A j \in 1 .. Len(fs) : Holds(gs, j, k) <=> Holds(fs, j, k) /\ Live(fs[j])
  <2> TAKE j \in 1 .. Len(fs)
  <2> PICK f \in Frame : f = fs[j]
    OBVIOUS
  <2>1. CASE Live(f)
    <3> PICK none \in Link : none = None
      BY DEF Link
    <3>1. [f EXCEPT !.supersedes = none].kind = f.kind /\ [f EXCEPT !.supersedes = none].key = f.key
      BY FrameSupersedes
    <3>2. gs[j] = [f EXCEPT !.supersedes = none]
      BY <1>1, <2>1
    <3> QED
      BY <2>1, <3>1, <3>2 DEF Holds
  <2>2. CASE ~Live(f)
    <3>1. gs[j] = Dropped
      BY <1>1, <2>2
    <3>2. Dropped.kind = "empty"
      BY DEF Dropped, Body
    <3> QED
      BY <2>2, <3>1, <3>2 DEF Holds
  <2> QED
    BY <2>1, <2>2
<1>4. x # None => Live(fs[x])
  <2> SUFFICES ASSUME x # None, ~Live(fs[x])
               PROVE  FALSE
    OBVIOUS
  <2>1. x \in 1 .. Len(fs) /\ Holds(fs, x, k)
    BY <1>2 DEF Newest
  <2> PICK z : z = fs[x].superseded_by
    OBVIOUS
  <2>2. z # None
    <3>1. fs[x] \in Frame
      BY <2>1
    <3> QED
      BY <3>1, LiveIs
  <2>3. Linked(fs, x, z)
    BY <2>1, <2>2 DEF AllLinked
  <2>4. z \in 1 .. Len(fs)
    BY <2>3 DEF Linked
  <2>5. CASE fs[z].kind = "fact" /\ fs[z].key = fs[x].key /\ z > x
    BY <1>2, <2>1, <2>4, <2>5 DEF Newest, Holds
  <2>6. CASE fs[z].kind \in {"surrogate", "extract"} /\ fs[z].of = x
    <3>1. fs[z] \in ToSet(fs)
      BY <2>4 DEF ToSet
    <3> QED
      BY <2>1, <2>6, <3>1 DEF Holds
  <2> QED
    BY <2>1, <2>3, <2>5, <2>6 DEF Linked, Holds
<1>5. x = y
  BY <1>2, <1>3, <1>4 DEF Newest
<1> QED
  BY <1>5

\* Whatever commits fail, embedders change and processes die, each validated
\* candidate of a rewritten live set holds every frame that is live to this day as
\* it is, under its id; and a process that opened one written now would find the
\* same facts in force, unless a surrogate has taken the place of one.
THEOREM CandidatesKeepLive == Spec => []CandidatesKeepLiveSet
<1>1. LiveSetInv => CandidatesKeepLiveSet
  <2> SUFFICES ASSUME LiveSetInv
               PROVE  CandidatesKeepLiveSet
    OBVIOUS
  <2>1. frames \in Seq(Frame) /\ AllLinked(frames)
    BY GoodTyped DEF LiveSetInv, Good
  <2>2. \A c \in ToSet(candidates) : c.whole =>
          \A i \in DOMAIN c.frames :
            Live(frames[i]) => c.frames[i] = [frames[i] EXCEPT !.supersedes = None]
    BY DEF LiveSetInv, AllHaveLive, HasLive, ToSet
  <2>3. ASSUME \A f \in ToSet(frames) :
                 f.kind \in {"surrogate", "extract"} => frames[f.of].kind # "fact",
               NEW k \in Key
        PROVE  Replay(Rewritten(frames)).entries[k].id = Replay(frames).entries[k].id
    <3> PICK fs : fs = frames
      OBVIOUS
    <3>1. Replay(Rewritten(fs)).entries[k].id = Replay(fs).entries[k].id
      BY <2>1, <2>3, RewrittenReplays
    <3> QED
      BY <3>1
  <2> QED
    BY <2>2, <2>3 DEF CandidatesKeepLiveSet
<1> QED
  BY <1>1, LiveSetInit, LiveSetStep, PTL DEF Spec

-----------------------------------------------------------------------------
(* What lets a commit accept a record.                                      *)

\* Frames supersede older ones, and facts are of keys that there are.
Ordered(fs) ==
  \A i \in DOMAIN fs :
    /\ fs[i].supersedes # None => fs[i].supersedes \in 1 .. (i - 1)
    /\ fs[i].kind = "fact" => fs[i].key \in Key

\* The fact of key k in force: nothing but a surrogate has superseded it.
Current(fs, k, x) ==
  /\ x \in DOMAIN fs /\ Holds(fs, x, k)
  /\ fs[x].superseded_by # None =>
       fs[x].superseded_by \in DOMAIN fs /\ fs[fs[x].superseded_by].kind # "fact"

\* What memory m holds of frames fs.
InForce(m, fs) ==
  \A k \in Key : Held(m)[k].id # None => Current(fs, k, Held(m)[k].id)

LEMMA PutOrdered ==
  ASSUME NEW fs \in Seq(Frame), NEW f \in NewFrame, Ordered(fs),
         f.kind = "fact" => f.key \in Key
  PROVE  Ordered(Preview(fs, PutFrame(f)))
<1> PICK gs : gs = Preview(fs, PutFrame(f))
  OBVIOUS
<1>1. /\ gs \in Seq(Frame) /\ Len(gs) = Len(fs) + 1
      /\ \A i \in DOMAIN fs : gs[i] = fs[i]
      /\ gs[Len(fs) + 1] = f
  <2>1. f \in Frame
    BY NewFrameTyped
  <2> QED
    BY <2>1, PuttingFrame
<1>2. f.supersedes = None
  BY NewFrameTyped
<1>3. \A i \in DOMAIN gs : i \in DOMAIN fs \/ i = Len(fs) + 1
  BY <1>1
<1> QED
  BY <1>1, <1>2, <1>3 DEF Ordered

LEMMA SupersedeOrdered ==
  ASSUME NEW fs \in Seq(Frame), NEW new \in DOMAIN fs, NEW old \in 1 .. (new - 1), Ordered(fs)
  PROVE  Ordered(Preview(fs, SupersedeFrame(old, new)))
<1> PICK gs : gs = Preview(fs, SupersedeFrame(old, new))
  OBVIOUS
<1>1. Superseded(fs, gs, old, new)
  <2>1. old \in Nat /\ new \in Nat
    OBVIOUS
  <2> QED
    BY <2>1, Superseding
<1>2. DOMAIN gs = DOMAIN fs
  BY <1>1 DEF Superseded
<1> QED
  BY <1>1, <1>2 DEF Ordered, Superseded

\* A put leaves every fact in force as it was.
LEMMA PutInForce ==
  ASSUME NEW fs \in Seq(Frame), NEW f \in NewFrame, NEW m, InForce(m, fs)
  PROVE  InForce(m, Preview(fs, PutFrame(f)))
<1> PICK gs : gs = Preview(fs, PutFrame(f))
  OBVIOUS
<1>1. gs \in Seq(Frame) /\ Len(gs) = Len(fs) + 1 /\ \A i \in DOMAIN fs : gs[i] = fs[i]
  <2>1. f \in Frame
    BY NewFrameTyped
  <2> QED
    BY <2>1, PuttingFrame
<1>2. DOMAIN fs \subseteq DOMAIN gs
  BY <1>1
<1> QED
  BY <1>1, <1>2 DEF InForce, Current, Holds

\* So does a surrogate.
LEMMA SurrogateInForce ==
  ASSUME NEW fs \in Seq(Frame), NEW old \in DOMAIN fs, NEW new \in DOMAIN fs, NEW m,
         InForce(m, fs), fs[new].kind # "fact"
  PROVE  InForce(m, Preview(fs, SupersedeFrame(old, new)))
<1> PICK gs : gs = Preview(fs, SupersedeFrame(old, new))
  OBVIOUS
<1>1. Superseded(fs, gs, old, new)
  <2>1. old \in Nat /\ new \in Nat
    OBVIOUS
  <2> QED
    BY <2>1, Superseding
<1>2. DOMAIN gs = DOMAIN fs
  BY <1>1 DEF Superseded
<1>3. \A i \in DOMAIN fs : gs[i].kind = fs[i].kind /\ gs[i].key = fs[i].key
        /\ gs[i].superseded_by = IF i = old THEN new ELSE fs[i].superseded_by
  BY <1>1 DEF Superseded
<1>4. ASSUME NEW k, NEW x, Current(fs, k, x)
      PROVE  Current(gs, k, x)
  BY <1>2, <1>3, <1>4 DEF Current, Holds
<1> QED
  BY <1>4 DEF InForce

\* A revision takes the place of the fact it supersedes.
LEMMA RevisionInForce ==
  ASSUME NEW fs \in Seq(Frame), NEW new \in DOMAIN fs, NEW old \in 1 .. (new - 1),
         NEW m \in Memory, NEW k \in Key, NEW e \in EntryOf, InForce(m, fs),
         Holds(fs, old, k), Holds(fs, new, k), e.id = new, fs[new].superseded_by = None
  PROVE  InForce(StageUpsert(m, k, e), Preview(fs, SupersedeFrame(old, new)))
<1> PICK gs : gs = Preview(fs, SupersedeFrame(old, new))
  OBVIOUS
<1> PICK held : held = Held(m)
  OBVIOUS
<1> PICK now : now = Held(StageUpsert(m, k, e))
  OBVIOUS
<1>1. Superseded(fs, gs, old, new)
  <2>1. old \in Nat /\ new \in Nat
    OBVIOUS
  <2> QED
    BY <2>1, Superseding
<1>2. DOMAIN gs = DOMAIN fs
  BY <1>1 DEF Superseded
<1>3. \A i \in DOMAIN fs : gs[i].kind = fs[i].kind /\ gs[i].key = fs[i].key
        /\ gs[i].superseded_by = IF i = old THEN new ELSE fs[i].superseded_by
  BY <1>1 DEF Superseded
<1>4. \A j \in Key : now[j] = IF j = k THEN e ELSE held[j]
  <2>1. now = [held EXCEPT ![k] = e] /\ held \in Entries
    <3>1. HeldWith(m, k, e, StageUpsert(m, k, e))
      BY UpsertHeld, Zenon
    <3>2. Held(m) \in Entries
      BY MemoryTyped
    <3> QED
      BY <3>1, <3>2, Zenon DEF HeldWith
  <2> QED
    BY <2>1 DEF Entries
<1>5. Current(gs, k, new)
  <2>1. new # old
    OBVIOUS
  <2> QED
    BY <1>2, <1>3, <2>1 DEF Current, Holds
<1>6. ASSUME NEW j \in Key, j # k, held[j].id # None
      PROVE  Current(gs, j, held[j].id)
  <2> PICK x : x = held[j].id
    OBVIOUS
  <2>1. Current(fs, j, x)
    BY <1>6 DEF InForce
  <2>2. x # old
    BY <1>6, <2>1 DEF Current, Holds
  <2>3. x # None
    BY <1>6
  <2>4. Current(gs, j, x)
    BY <1>2, <1>3, <2>1, <2>2 DEF Current, Holds
  <2> QED
    BY <2>4
<1> QED
  BY <1>4, <1>5, <1>6 DEF InForce

\* A new fact takes the place of whatever was held of its key.
LEMMA FactInForce ==
  ASSUME NEW fs \in Seq(Frame), NEW m \in Memory, NEW k \in Key, NEW e \in EntryOf,
         InForce(m, fs), Current(fs, k, e.id)
  PROVE  InForce(StageUpsert(m, k, e), fs)
<1> PICK held : held = Held(m)
  OBVIOUS
<1> PICK now : now = Held(StageUpsert(m, k, e))
  OBVIOUS
<1>1. \A j \in Key : now[j] = IF j = k THEN e ELSE held[j]
  <2>1. now = [held EXCEPT ![k] = e] /\ held \in Entries
    <3>1. HeldWith(m, k, e, StageUpsert(m, k, e))
      BY UpsertHeld, Zenon
    <3>2. Held(m) \in Entries
      BY MemoryTyped
    <3> QED
      BY <3>1, <3>2, Zenon DEF HeldWith
  <2> QED
    BY <2>1 DEF Entries
<1> QED
  BY <1>1 DEF InForce

\* The equation of the walk in WouldCreateSupersedeCycle.
Walks(walk, fs, old) ==
  walk = [n \in 0 .. Len(fs) |->
           IF n = 0 THEN old
           ELSE LET last == walk[n - 1] IN IF last = None THEN None ELSE fs[last].supersedes]

\* Where frames supersede older ones only, each hop goes down, and the walk runs
\* out of frames before it runs out of hops.
WalksDown(walk, fs, old) ==
  \A n \in 0 .. Len(fs) : walk[n] # None => walk[n] \in 1 .. (old - n)

LEMMA WalkExists ==
  ASSUME NEW fs \in Seq(Frame), NEW old \in DOMAIN fs, Ordered(fs)
  PROVE  \E walk : Walks(walk, fs, old) /\ WalksDown(walk, fs, old)
<1> PICK count \in Nat : count = Len(fs)
  OBVIOUS
<1> DEFINE D == {None} \cup DOMAIN fs
           Hop(x) == IF x = None THEN None ELSE fs[x].supersedes
           step == [p \in (1 .. count) \X D |-> Hop(p[2])]
<1>1. \A x \in D : Hop(x) \in D
  <2> TAKE x \in D
  <2>1. CASE x # None
    <3>1. fs[x].supersedes # None => fs[x].supersedes \in 1 .. (x - 1)
      BY <2>1 DEF Ordered
    <3> QED
      BY <2>1, <3>1
  <2> QED
    BY <2>1
<1>2. step \in Steps(count, D)
  <2>1. ASSUME NEW p \in (1 .. count) \X D
        PROVE  Hop(p[2]) \in D
    <3>1. p[2] \in D
      OBVIOUS
    <3> HIDE DEF Hop, D
    <3> QED
      BY <1>1, <3>1
  <2> HIDE DEF Hop
  <2> QED
    BY <2>1, Zenon DEF Steps
<1>3. \A n \in 1 .. count, x \in D : step[<<n, x>>] = Hop(x)
  <2> HIDE DEF Hop, D
  <2>1. \A n \in 1 .. count, x \in D : <<n, x>> \in (1 .. count) \X D
    OBVIOUS
  <2> QED
    BY <2>1
<1>4. old \in D
  OBVIOUS
<1> HIDE DEF step, D
<1>5. PICK f : f \in [0 .. count -> D] /\ Iterates(f, old, step, count)
  BY <1>2, <1>4, RecursionExists, Zenon
<1> HIDE DEF Hop
<1>6. f[0] = old /\ \A n \in 1 .. count : f[n] = Hop(f[n - 1]) /\ f[n - 1] \in D
  <2>1. \A n \in 1 .. count : n - 1 \in 0 .. count
    OBVIOUS
  <2> QED
    BY <1>3, <1>5, <2>1 DEF Iterates
<1>7. Walks(f, fs, old)
  <2>1. \A n \in 0 .. count : f[n] = IF n = 0 THEN old ELSE Hop(f[n - 1])
    BY <1>6
  <2>2. f = [n \in 0 .. count |-> f[n]]
    BY <1>5
  <2>3. f = [n \in 0 .. count |-> IF n = 0 THEN old ELSE Hop(f[n - 1])]
    BY <2>1, <2>2
  <2> QED
    BY <2>3, Zenon DEF Walks, Hop
<1> DEFINE S == {n \in 0 .. count : f[n] # None => f[n] \in 1 .. (old - n)}
<1>8. 0 \in S
  <2>1. 0 \in 0 .. count /\ old \in 1 .. (old - 0)
    OBVIOUS
  <2> QED
    BY <1>6, <2>1
<1>9. ASSUME NEW n \in 1 .. count, n - 1 \in S
      PROVE  n \in S
  <2> PICK x : x = f[n - 1]
    OBVIOUS
  <2>1. f[n] = Hop(x) /\ x \in D /\ (x # None => x \in 1 .. (old - (n - 1)))
    BY <1>6, <1>9
  <2>2. CASE x = None
    BY <2>1, <2>2 DEF Hop
  <2>3. CASE x # None
    <3>1. x \in DOMAIN fs /\ f[n] = fs[x].supersedes
      BY <2>1, <2>3 DEF Hop, D
    <3>2. f[n] # None => f[n] \in 1 .. (x - 1)
      BY <3>1 DEF Ordered
    <3> QED
      BY <2>1, <2>3, <3>2
  <2> QED
    BY <2>2, <2>3
<1>10. 0 .. count \subseteq S
  <2> HIDE DEF S
  <2> QED
    BY <1>8, <1>9, InductionUpTo
<1>11. WalksDown(f, fs, old)
  BY <1>10 DEF WalksDown
<1> QED
  BY <1>7, <1>11

LEMMA NoCycle ==
  ASSUME NEW fs \in Seq(Frame), NEW new \in DOMAIN fs, NEW old \in 1 .. (new - 1), Ordered(fs)
  PROVE  ~WouldCreateSupersedeCycle(fs, old, new)
<1> DEFINE walk == CHOOSE walk : Walks(walk, fs, old)
<1>0. old \in DOMAIN fs
  OBVIOUS
<1>1. PICK f : Walks(f, fs, old) /\ WalksDown(f, fs, old)
  BY <1>0, WalkExists
<1>2. Walks(walk, fs, old)
  BY <1>1
<1>3. WouldCreateSupersedeCycle(fs, old, new)
        <=> walk[Len(fs)] # None \/ \E n \in 1 .. Len(fs) : walk[n] = new
  BY DEF WouldCreateSupersedeCycle, Walks
<1> HIDE DEF walk
<1> DEFINE Hop(x) == IF x = None THEN None ELSE fs[x].supersedes
<1>4. \A w : Walks(w, fs, old) => w[0] = old /\ \A n \in 1 .. Len(fs) : w[n] = Hop(w[n - 1])
  <2> TAKE w
  <2> HAVE Walks(w, fs, old)
  <2> DEFINE h == [n \in 0 .. Len(fs) |-> IF n = 0 THEN old ELSE Hop(w[n - 1])]
  <2>1. w = h
    BY Zenon DEF Walks
  <2> HIDE DEF Hop
  <2>2. h[0] = old /\ \A n \in 1 .. Len(fs) : h[n] = Hop(w[n - 1])
    OBVIOUS
  <2> HIDE DEF h
  <2> QED
    BY <2>1, <2>2
<1> HIDE DEF Hop
<1>5. Agree(walk, f, Len(fs))
  <2>1. InStep(walk, f, Len(fs))
    BY <1>1, <1>2, <1>4 DEF InStep
  <2> PICK n, w, h : n = Len(fs) /\ n \in Nat /\ w = walk /\ h = f
    OBVIOUS
  <2>2. Agree(w, h, n)
    BY <2>1, SameSteps
  <2> QED
    BY <2>2
<1>6. \A n \in 0 .. Len(fs) : walk[n] # None => walk[n] \in 1 .. (old - n)
  BY <1>1, <1>5 DEF Agree, WalksDown
<1>7. walk[Len(fs)] = None
  <2>1. Len(fs) \in 0 .. Len(fs)
    OBVIOUS
  <2> QED
    BY <1>6, <2>1
<1>8. \A n \in 1 .. Len(fs) : walk[n] # new
  <2>1. new # None
    <3>1. new \in Nat
      OBVIOUS
    <3> QED
      BY <3>1, ContentAssumption
  <2>2. \A n \in 1 .. Len(fs) : n \in 0 .. Len(fs) /\ new \notin 1 .. (old - n)
    OBVIOUS
  <2> QED
    BY <1>6, <2>1, <2>2
<1> QED
  BY <1>3, <1>7, <1>8

LEMMA SupersedeAdmitted ==
  ASSUME NEW fs \in Seq(Frame), NEW new \in DOMAIN fs, NEW old \in 1 .. (new - 1), Ordered(fs),
         fs[old].superseded_by = None, fs[new].supersedes = None
  PROVE  Admits(fs, SupersedeFrame(old, new))
<1>1. ~WouldCreateSupersedeCycle(fs, old, new)
  BY NoCycle
<1>2. old \in DOMAIN fs /\ old # new
  OBVIOUS
<1>3. /\ SupersedeFrame(old, new).kind = "supersede"
      /\ SupersedeFrame(old, new).old = old /\ SupersedeFrame(old, new).new = new
  BY DEF SupersedeFrame
<1> QED
  BY <1>1, <1>2, <1>3 DEF Admits

LEMMA PutAdmitted ==
  ASSUME NEW fs, NEW f
  PROVE  Admits(fs, PutFrame(f))
BY DEF Admits, PutFrame

LEMMA ApplicableNone ==
  ASSUME NEW fs
  PROVE  Applicable(fs, <<>>)
BY DEF Applicable

LEMMA ApplicableAppend ==
  ASSUME NEW fs \in Seq(Frame), NEW ms \in Seq(Mutation), NEW m \in Mutation,
         Applicable(fs, ms), Admits(View(fs, ms), m)
  PROVE  Applicable(fs, Append(ms, m))
<1> PICK longer : longer = Append(ms, m)
  OBVIOUS
<1>1. /\ Len(longer) = Len(ms) + 1 /\ Len(ms) \in Nat /\ longer[Len(ms) + 1] = m
      /\ SubSeq(longer, 1, Len(ms)) = ms
      /\ \A i \in 1 .. Len(ms) :
           longer[i] = ms[i] /\ SubSeq(longer, 1, i - 1) = SubSeq(ms, 1, i - 1)
  OBVIOUS
<1>2. ASSUME NEW i \in 1 .. Len(longer)
      PROVE  Admits(View(fs, SubSeq(longer, 1, i - 1)), longer[i])
  <2>1. CASE i \in 1 .. Len(ms)
    <3>1. Admits(View(fs, SubSeq(ms, 1, i - 1)), ms[i])
      BY <2>1, Zenon DEF Applicable
    <3> QED
      BY <1>1, <2>1, <3>1, Zenon
  <2>2. CASE i = Len(ms) + 1
    <3>1. i - 1 = Len(ms)
      BY <1>1, <2>2
    <3> QED
      BY <1>1, <2>2, <3>1
  <2> QED
    BY <1>1, <2>1, <2>2
<1> QED
  BY <1>2, Zenon DEF Applicable

LEMMA CommitStagedTyped ==
  ASSUME NEW m \in Memory
  PROVE  CommitStaged(m) \in Memory /\ Held(CommitStaged(m)) = Held(m)
         /\ CommitStaged(m).entries = Held(m)
<1>1. CASE m.staging
  <2>1. CommitStaged(m) = [entries |-> m.staged, staged |-> NoEntries, staging |-> FALSE,
                           visible |-> FALSE]
    BY <1>1 DEF CommitStaged, Empty
  <2>2. m.staged \in Entries /\ NoEntries \in Entries /\ FALSE \in BOOLEAN
    <3>1. NoEntries \in Entries
      BY DEF NoEntries, NoEntry, Entry, Entries, EntryOf, Link
    <3> QED
      BY <3>1, MemoryTyped
  <2>3. CommitStaged(m) \in Memory
    <3> PICK staged : staged = m.staged
      OBVIOUS
    <3>1. [entries |-> staged, staged |-> NoEntries, staging |-> FALSE, visible |-> FALSE]
            \in Memory
      BY <2>2, Zenon DEF Memory
    <3> QED
      BY <2>1, <3>1, Zenon
  <2> QED
    BY <1>1, <2>1, <2>3 DEF Held
<1>2. CASE ~m.staging
  BY <1>2 DEF CommitStaged, Held
<1> QED
  BY <1>1, <1>2

\* A replay holds the facts in force.
LEMMA ReplayTyped ==
  ASSUME NEW fs \in Seq(Frame)
  PROVE  Replay(fs) \in Memory /\ Held(Replay(fs)) = Replay(fs).entries
<1> DEFINE f == CHOOSE f : Replays(f, fs)
<1>1. Replays(f, fs)
  BY ReplaysExist
<1>2. Replay(fs) = CommitStaged(f[Len(fs)])
  BY DEF Replay, Replays
<1> HIDE DEF f
<1> PICK n \in Nat : n = Len(fs)
  OBVIOUS
<1>3. f[0] = Empty /\ \A i \in 1 .. n : f[i] = ReplayFrame(fs, f[i - 1], i)
  BY <1>1, ReplaysAt
<1> DEFINE S == {i \in 0 .. n : f[i] \in Memory}
<1>4. 0 \in S
  <2>1. 0 \in 0 .. n
    OBVIOUS
  <2> QED
    BY <1>3, <2>1, EmptyTyped
<1>5. ASSUME NEW i \in 1 .. n, i - 1 \in S
      PROVE  i \in S
  <2> PICK m \in Memory : m = f[i - 1]
    BY <1>5
  <2>1. f[i] = ReplayFrame(fs, m, i) /\ i \in DOMAIN fs /\ i \in 0 .. n
    BY <1>3
  <2> QED
    BY <2>1, ReplayFrameHeld
<1>6. 0 .. n \subseteq S
  <2> HIDE DEF S
  <2> QED
    BY <1>4, <1>5, InductionUpTo
<1> PICK m \in Memory : m = f[n]
  <2>1. n \in 0 .. n
    OBVIOUS
  <2> QED
    BY <1>6, <2>1
<1>7. Replay(fs) = CommitStaged(m)
  BY <1>2
<1> QED
  BY <1>7, CommitStagedTyped

LEMMA ReplayInForce ==
  ASSUME NEW fs \in Seq(Frame), AllLinked(fs)
  PROVE  InForce(Replay(fs), fs)
<1> SUFFICES ASSUME NEW k \in Key, Replay(fs).entries[k].id # None
             PROVE  Current(fs, k, Replay(fs).entries[k].id)
  BY ReplayTyped DEF InForce
<1> PICK x : x = Replay(fs).entries[k].id
  OBVIOUS
<1>1. Newest(fs, Len(fs), k, x)
  BY ReplayNewest
<1>2. x \in DOMAIN fs /\ Holds(fs, x, k)
  BY <1>1 DEF Newest
<1>3. ASSUME fs[x].superseded_by # None
      PROVE  /\ fs[x].superseded_by \in DOMAIN fs
             /\ fs[fs[x].superseded_by].kind # "fact"
  <2> PICK z : z = fs[x].superseded_by
    OBVIOUS
  <2>1. Linked(fs, x, z)
    BY <1>2, <1>3 DEF AllLinked
  <2>2. z \in 1 .. Len(fs)
    BY <2>1 DEF Linked
  <2>3. ~(fs[z].kind = "fact" /\ fs[z].key = fs[x].key /\ z > x)
    BY <1>1, <1>2, <2>2 DEF Newest, Holds
  <2>4. fs[z].kind \in {"surrogate", "extract"}
    BY <1>2, <2>1, <2>3 DEF Linked, Holds
  <2> QED
    BY <2>2, <2>4
<1> QED
  BY <1>2, <1>3 DEF Current

-----------------------------------------------------------------------------
(* The invariant.                                                           *)

Spoilt == {"updated", "overtaken", "regenerated", "hidden", "recovered", "past"}
Clean == upsets \cap Spoilt = {}

RetryInv ==
  /\ Ordered(frames) /\ Ordered(Now)
  /\ memory \in Memory
  /\ Clean => Applicable(frames, pending) /\ InForce(memory, Now)

\* Frames, ring and memory a step may leave.
Retryable(fs, ms, m) == Applicable(fs, ms) /\ InForce(m, View(fs, ms))
Orderly(fs, ms) == Ordered(fs) /\ Ordered(View(fs, ms))

LEMMA RetryAfter ==
  ASSUME NEW fs, NEW ms, NEW m, frames' = fs, pending' = ms, memory' = m, Orderly(fs, ms),
         m \in Memory, Clean' => Retryable(fs, ms, m)
  PROVE  RetryInv'
<1>1. Now' = View(fs, ms)
  BY DEF Now
<1> QED
  BY <1>1 DEF RetryInv, Orderly, Retryable

\* Marking never makes clean what was not.
LEMMA MarkClean ==
  ASSUME NEW up, Mark(up), Clean'
  PROVE  Clean /\ up \cap Spoilt = {}
BY DEF Mark, Clean, Spoilt

\* Nothing is pending, and the runtime is what the file says.
LEMMA RebuiltRetry ==
  ASSUME NEW fs, NEW ms, ms = <<>>, Good(fs, ms), Orderly(fs, ms),
         frames' = fs, pending' = ms, memory' = Replay(fs)
  PROVE  RetryInv'
<1>1. fs \in Seq(Frame) /\ AllLinked(fs) /\ View(fs, ms) = fs
  BY ViewNone DEF Good
<1> PICK m : m = Replay(fs)
  OBVIOUS
<1>2. m \in Memory /\ InForce(m, fs)
  BY <1>1, ReplayTyped, ReplayInForce
<1>3. Retryable(fs, ms, m)
  BY <1>1, <1>2, ApplicableNone DEF Retryable
<1> QED
  BY <1>2, <1>3, RetryAfter

LEMMA StartRetry ==
  ASSUME NEW fs, NEW ms, NEW past, Start(fs, ms, past), Good(fs, ms), Orderly(fs, ms)
  PROVE  RetryInv'
<1>1. frames' = fs /\ pending' = ms /\ memory' = Replay(fs)
  BY DEF Start, Rebuilt
<1>2. CASE ms = <<>>
  BY <1>1, <1>2, RebuiltRetry
<1>3. CASE ms # <<>>
  <2>1. ~Clean'
    BY <1>3 DEF Start, Clean, Spoilt
  <2> PICK m : m = Replay(fs)
    OBVIOUS
  <2>2. m \in Memory
    <3>1. fs \in Seq(Frame)
      BY GoodTyped
    <3> QED
      BY <3>1, ReplayTyped
  <2> QED
    BY <1>1, <2>1, <2>2, RetryAfter
<1> QED
  BY <1>2, <1>3

\* What is there, and what a commit makes of it.
LEMMA NowRetry ==
  ASSUME LiveSetInv, RetryInv
  PROVE  /\ Good(frames, pending) /\ Orderly(frames, pending)
         /\ Good(Now, <<>>) /\ Orderly(Now, <<>>)
         /\ Now \in Seq(Frame) /\ View(Now, <<>>) = Now
         /\ Clean => Retryable(frames, pending, memory) /\ Retryable(Now, <<>>, memory)
<1>1. Good(frames, pending) /\ Good(Now, <<>>) /\ Now \in Seq(Frame)
  BY GoodCommit, GoodTyped DEF LiveSetInv, Now
<1>2. View(Now, <<>>) = Now
  <2> PICK fs \in Seq(Frame) : fs = Now
    BY <1>1
  <2>1. View(fs, <<>>) = fs
    BY ViewNone
  <2> QED
    BY <2>1
<1>3. Applicable(Now, <<>>)
  BY ApplicableNone
<1> QED
  BY <1>1, <1>2, <1>3 DEF RetryInv, Orderly, Retryable, Now

\* A commit, of which memory may know.
LEMMA CommitRetry ==
  ASSUME LiveSetInv, RetryInv, frames' = Now, pending' = <<>>, UNCHANGED upsets,
         memory' = memory \/ memory' = CommitStaged(memory)
  PROVE  RetryInv'
<1> PICK fs, ms, m : fs = Now /\ ms = <<>> /\ m = memory'
  OBVIOUS
<1>1. m \in Memory /\ Held(m) = Held(memory)
  BY CommitStagedTyped DEF RetryInv
<1>2. Clean' => Clean
  BY DEF Clean
<1>3. Clean' => Retryable(fs, ms, m)
  BY <1>1, <1>2, NowRetry DEF Retryable, InForce
<1>4. Orderly(fs, ms)
  BY NowRetry
<1> QED
  BY <1>1, <1>3, <1>4, RetryAfter

-----------------------------------------------------------------------------
(* Calls that append records.                                               *)

\* What one record more makes of a ring.
LEMMA RingAppend ==
  ASSUME NEW fs, NEW ms, NEW r \in Mutation, NEW m, Good(fs, ms), Orderly(fs, ms),
         Ordered(Preview(View(fs, ms), r))
  PROVE  /\ Orderly(fs, Append(ms, r))
         /\ View(fs, Append(ms, r)) = Preview(View(fs, ms), r)
         /\ Applicable(fs, ms) /\ Admits(View(fs, ms), r) /\ InForce(m, Preview(View(fs, ms), r))
              => Retryable(fs, Append(ms, r), m)
<1>1. fs \in Seq(Frame) /\ ms \in Seq(Mutation)
  BY GoodTyped
<1>2. View(fs, Append(ms, r)) = Preview(View(fs, ms), r)
  BY <1>1, ViewAppend
<1>3. Applicable(fs, ms) /\ Admits(View(fs, ms), r) => Applicable(fs, Append(ms, r))
  BY <1>1, ApplicableAppend
<1> QED
  BY <1>2, <1>3 DEF Orderly, Retryable

\* A call whose every record keeps the ring, and memory with it.
Keeps(ms, m, up) ==
  /\ Good(frames, ms) /\ Orderly(frames, ms) /\ m \in Memory
  /\ Clean /\ up \cap Spoilt = {} => Retryable(frames, ms, m)

CallKeeps(records, state, up) ==
  /\ Len(records) \in Nat \ {0}
  /\ \A k \in 1 .. Len(records) : Keeps(pending \o SubSeq(records, 1, k), state[k].memory, up)

LEMMA CallRetry ==
  ASSUME RetryInv, NEW records, NEW state, NEW up, Call(records, state, up),
         CallKeeps(records, state, up)
  PROVE  RetryInv'
<1>1. Len(records) \in 1 .. Len(records)
      /\ \A k \in 1 .. Len(records) - 1 : k \in 1 .. Len(records)
  BY DEF CallKeeps
<1>2. \E k \in 1 .. Len(records) :
        \/ /\ frames' = frames /\ pending' = pending \o SubSeq(records, 1, k)
           /\ memory' = state[k].memory
           /\ Mark(up) \/ Mark({"failed"} \cup up)
        \/ Start(frames, pending \o SubSeq(records, 1, k), k < Len(records))
  BY <1>1 DEF Call
<1> PICK k \in 1 .. Len(records) :
      \/ /\ frames' = frames /\ pending' = pending \o SubSeq(records, 1, k)
         /\ memory' = state[k].memory
         /\ Mark(up) \/ Mark({"failed"} \cup up)
      \/ Start(frames, pending \o SubSeq(records, 1, k), k < Len(records))
  BY <1>2
<1> PICK fs, ms, m : fs = frames /\ ms = pending \o SubSeq(records, 1, k) /\ m = state[k].memory
  OBVIOUS
<1>3. Good(fs, ms) /\ Orderly(fs, ms) /\ m \in Memory
      /\ (Clean /\ up \cap Spoilt = {} => Retryable(fs, ms, m))
  BY DEF CallKeeps, Keeps
<1>4. CASE frames' = fs /\ pending' = ms /\ memory' = m /\ (Mark(up) \/ Mark({"failed"} \cup up))
  <2>1. Clean' => Clean /\ up \cap Spoilt = {}
    <3>1. CASE Mark(up)
      BY <3>1, MarkClean
    <3>2. CASE Mark({"failed"} \cup up)
      <4> PICK more : more = {"failed"} \cup up
        OBVIOUS
      <4>1. Clean' => Clean /\ more \cap Spoilt = {}
        BY <3>2, MarkClean
      <4> QED
        BY <4>1
    <3> QED
      BY <1>4, <3>1, <3>2
  <2>2. Clean' => Retryable(fs, ms, m)
    BY <1>3, <2>1
  <2> QED
    BY <1>3, <1>4, <2>2, RetryAfter
<1>5. CASE Start(fs, ms, k < Len(records))
  <2> PICK past : past = (k < Len(records))
    OBVIOUS
  <2>1. Start(fs, ms, past)
    BY <1>5
  <2> QED
    BY <1>3, <2>1, StartRetry
<1> QED
  BY <1>4, <1>5

LEMMA KeepsOne ==
  ASSUME LiveSetInv, RetryInv, NEW r \in Mutation, NEW state, NEW up, Links(Now, r),
         Ordered(Preview(Now, r)), state[1].memory \in Memory,
         Clean /\ up \cap Spoilt = {} =>
           Admits(Now, r) /\ InForce(state[1].memory, Preview(Now, r))
  PROVE  CallKeeps(<<r>>, state, up)
<1> PICK fs, ms, m, now : fs = frames /\ ms = pending /\ m = state[1].memory /\ now = Now
  OBVIOUS
<1>1. /\ Good(fs, ms) /\ Orderly(fs, ms) /\ View(fs, ms) = now
      /\ fs \in Seq(Frame) /\ ms \in Seq(Mutation) /\ (Clean => Applicable(fs, ms))
  BY NowRetry, GoodTyped DEF Now, Retryable
<1>2. Good(fs, Append(ms, r))
  <2>1. Links(View(fs, ms), r)
    BY <1>1
  <2> QED
    BY <1>1, <2>1, GoodAppend
<1>3. /\ Orderly(fs, Append(ms, r))
      /\ Applicable(fs, ms) /\ Admits(now, r) /\ InForce(m, Preview(now, r))
           => Retryable(fs, Append(ms, r), m)
  BY <1>1, RingAppend
<1>4. Keeps(Append(ms, r), m, up)
  BY <1>1, <1>2, <1>3 DEF Keeps
<1>5. ms \o SubSeq(<<r>>, 1, 1) = Append(ms, r)
  BY <1>1, AppendsOfOne
<1> PICK records : records = <<r>>
  OBVIOUS
<1>6. Len(records) = 1 /\ \A k \in 1 .. Len(records) : k = 1
  OBVIOUS
<1>7. Keeps(pending \o SubSeq(records, 1, 1), state[1].memory, up)
  BY <1>4, <1>5
<1>8. CallKeeps(records, state, up)
  BY <1>6, <1>7 DEF CallKeeps
<1> QED
  BY <1>8

LEMMA KeepsTwo ==
  ASSUME LiveSetInv, RetryInv, NEW q \in Mutation, NEW r \in Mutation, NEW state, NEW up,
         Links(Now, q), Links(Preview(Now, q), r),
         Ordered(Preview(Now, q)), Ordered(Preview(Preview(Now, q), r)),
         state[1].memory \in Memory, state[2].memory \in Memory,
         Clean /\ up \cap Spoilt = {} =>
           /\ Admits(Now, q) /\ InForce(state[1].memory, Preview(Now, q))
           /\ Admits(Preview(Now, q), r)
           /\ InForce(state[2].memory, Preview(Preview(Now, q), r))
  PROVE  CallKeeps(<<q, r>>, state, up)
<1> PICK fs, ms, m, n, now :
      fs = frames /\ ms = pending /\ m = state[1].memory /\ n = state[2].memory /\ now = Now
  OBVIOUS
<1>1. /\ Good(fs, ms) /\ Orderly(fs, ms) /\ View(fs, ms) = now
      /\ fs \in Seq(Frame) /\ ms \in Seq(Mutation) /\ (Clean => Applicable(fs, ms))
  BY NowRetry, GoodTyped DEF Now, Retryable
<1> PICK ns : ns = Append(ms, q)
  OBVIOUS
<1>2. Good(fs, ns)
  <2>1. Links(View(fs, ms), q)
    BY <1>1
  <2> QED
    BY <1>1, <2>1, GoodAppend
<1>3. /\ Orderly(fs, ns) /\ View(fs, ns) = Preview(now, q)
      /\ Applicable(fs, ms) /\ Admits(now, q) /\ InForce(m, Preview(now, q))
           => Retryable(fs, ns, m)
  BY <1>1, RingAppend
<1>4. Good(fs, Append(ns, r))
  <2>1. Links(View(fs, ns), r)
    BY <1>3
  <2> QED
    BY <1>2, <2>1, GoodAppend
<1>5. /\ Orderly(fs, Append(ns, r))
      /\ Applicable(fs, ns) /\ Admits(Preview(now, q), r)
           /\ InForce(n, Preview(Preview(now, q), r))
           => Retryable(fs, Append(ns, r), n)
  BY <1>2, <1>3, RingAppend
<1>6. Keeps(ns, m, up)
  BY <1>1, <1>2, <1>3 DEF Keeps
<1>7. Keeps(Append(ns, r), n, up)
  BY <1>1, <1>3, <1>4, <1>5 DEF Keeps, Retryable
<1>8. ms \o SubSeq(<<q, r>>, 1, 1) = ns /\ ms \o SubSeq(<<q, r>>, 1, 2) = Append(ns, r)
  BY <1>1, AppendsOfTwo
<1> PICK records : records = <<q, r>>
  OBVIOUS
<1>9. Len(records) = 2 /\ \A k \in 1 .. Len(records) : k = 1 \/ k = 2
  OBVIOUS
<1>10. /\ Keeps(pending \o SubSeq(records, 1, 1), state[1].memory, up)
       /\ Keeps(pending \o SubSeq(records, 1, 2), state[2].memory, up)
  BY <1>6, <1>7, <1>8
<1>11. CallKeeps(records, state, up)
  BY <1>9, <1>10 DEF CallKeeps
<1> QED
  BY <1>11

\* A record that puts content, or a fact of a key there is.
LEMMA PutFits ==
  ASSUME NEW fs \in Seq(Frame), NEW f \in NewFrame, f.kind = "fact" => f.key \in Key,
         Ordered(fs)
  PROVE  /\ PutFrame(f) \in Mutation /\ Links(fs, PutFrame(f))
         /\ Ordered(Preview(fs, PutFrame(f))) /\ Admits(fs, PutFrame(f))
         /\ Preview(fs, PutFrame(f)) \in Seq(Frame)
         /\ \A m : InForce(m, fs) => InForce(m, Preview(fs, PutFrame(f)))
BY PutMutation, PutOrdered, PutAdmitted, PutInForce, PreviewExtends

LEMMA RememberRetry == LiveSetInv /\ RetryInv /\ Remember => RetryInv'
<1> SUFFICES ASSUME LiveSetInv, RetryInv, Remember
             PROVE  RetryInv'
  OBVIOUS
<1> PICK chunk, vector : chunk = Body("chunk", None, None)
                         /\ vector = Body("embedding", NextId, embedder)
  OBVIOUS
<1>1. /\ chunk \in NewFrame /\ chunk.kind = "chunk"
      /\ vector \in NewFrame /\ vector.kind = "embedding"
  <2>1. NextId \in Link
    BY NowRetry DEF NextId, Link
  <2>2. "chunk" \in Kinds /\ "embedding" \in Kinds /\ None \in Link
        /\ embedder \in Embedder \cup {None}
    BY DEF Kinds, Link, LiveSetInv
  <2> PICK id, e : id = NextId /\ e = embedder
    OBVIOUS
  <2>3. Body("embedding", id, e) \in NewFrame /\ Body("embedding", id, e).kind = "embedding"
    BY <2>1, <2>2, BodyTyped
  <2>4. Body("chunk", None, None) \in NewFrame /\ Body("chunk", None, None).kind = "chunk"
    BY <2>2, BodyTyped
  <2> QED
    BY <2>3, <2>4
<1> DEFINE staged == Staged(memory, text.staged \cup {NextId},
                            With(vectors.staged, NextId, embedder))
           state == [n \in 0 .. 2 |-> IF n > 0 THEN staged ELSE Unstaged]
           q == PutFrame(chunk)
           r == PutFrame(vector)
<1>2. Call(<<q, r>>, state, {})
  BY DEF Remember
<1>3. state[1].memory = memory /\ state[2].memory = memory
  BY DEF Staged
<1> HIDE DEF state
<1> PICK now : now = Now
  OBVIOUS
<1>4. now \in Seq(Frame) /\ Ordered(now) /\ memory \in Memory /\ (Clean => InForce(memory, now))
  BY NowRetry DEF RetryInv
<1>5. /\ q \in Mutation /\ Links(now, q) /\ Ordered(Preview(now, q)) /\ Admits(now, q)
      /\ Preview(now, q) \in Seq(Frame)
      /\ \A m : InForce(m, now) => InForce(m, Preview(now, q))
  BY <1>1, <1>4, PutFits
<1> HIDE DEF q
<1> PICK mid : mid = Preview(now, q)
  OBVIOUS
<1>6. /\ r \in Mutation /\ Links(mid, r) /\ Ordered(Preview(mid, r)) /\ Admits(mid, r)
      /\ \A m : InForce(m, mid) => InForce(m, Preview(mid, r))
  BY <1>1, <1>5, PutFits
<1> HIDE DEF r
<1> PICK up : up = {}
  OBVIOUS
<1>7. CallKeeps(<<q, r>>, state, up)
  BY <1>3, <1>4, <1>5, <1>6, KeepsTwo
<1> QED
  BY <1>2, <1>7, CallRetry

LEMMA RememberFactRetry ==
  ASSUME LiveSetInv, RetryInv, NEW k \in Key, RememberFact(k)
  PROVE  RetryInv'
<1> PICK now, id, e, m : now = Now /\ id = NextId /\ e = Entry(NextId, None, FALSE)
                         /\ m = StageUpsert(memory, k, e)
  OBVIOUS
<1> DEFINE r == PutFrame(Fact(k))
           up == IF IsHidden THEN {"hidden"} ELSE {}
           state == [n \in 0 .. 1 |-> IF n > 0 THEN [Unstaged EXCEPT !.memory = m] ELSE Unstaged]
<1>1. Call(<<r>>, state, up)
  BY DEF RememberFact
<1>2. state[1].memory = m
  <2> PICK u, v : u = Unstaged /\ v = [Unstaged EXCEPT !.memory = m]
    OBVIOUS
  <2>1. u = [memory |-> memory, docs |-> text.staged, vecs |-> vectors.staged]
    BY DEF Unstaged, Staged
  <2>2. u.memory = memory /\ v.memory = m
    BY <2>1
  <2>3. state[1] = v
    OBVIOUS
  <2> QED
    BY <2>2, <2>3
<1> HIDE DEF state, up
<1>3. now \in Seq(Frame) /\ Ordered(now) /\ memory \in Memory /\ (Clean => InForce(memory, now))
  BY NowRetry DEF RetryInv
<1>4. Fact(k) \in NewFrame /\ Fact(k).kind = "fact" /\ Fact(k).key = k
  BY FactTyped
<1> PICK gs : gs = Preview(now, r)
  OBVIOUS
<1>5. /\ r \in Mutation /\ Links(now, r) /\ Ordered(gs) /\ Admits(now, r)
      /\ gs \in Seq(Frame) /\ \A n : InForce(n, now) => InForce(n, gs)
  BY <1>3, <1>4, PutFits
<1>6. e \in EntryOf /\ e.id = id /\ id = Len(now) + 1
  <2>1. NextId \in Link
    BY <1>3 DEF NextId, Link
  <2> QED
    BY <2>1 DEF Entry, EntryOf, Link, NextId
<1>7. Current(gs, k, id)
  <2> PICK f : f = Fact(k)
    OBVIOUS
  <2>1. f \in Frame /\ f.superseded_by = None
    BY <1>4, NewFrameTyped
  <2>2. gs \in Seq(Frame) /\ Len(gs) = Len(now) + 1 /\ gs[Len(now) + 1] = f
    BY <1>3, <2>1, PuttingFrame
  <2>3. Len(now) \in Nat
    BY <1>3
  <2> QED
    BY <1>4, <1>6, <2>1, <2>2, <2>3 DEF Current, Holds
<1>8. m \in Memory
  <2>1. HeldWith(memory, k, e, StageUpsert(memory, k, e))
    <3> PICK old \in Memory : old = memory
      BY <1>3
    <3>1. HeldWith(old, k, e, StageUpsert(old, k, e))
      BY <1>6, UpsertHeld, Zenon
    <3> QED
      BY <3>1
  <2> QED
    BY <2>1 DEF HeldWith
<1>9. Clean => InForce(m, gs)
  <2> HAVE Clean
  <2> PICK old \in Memory : old = memory
    BY <1>3
  <2>1. InForce(old, gs)
    BY <1>3, <1>5
  <2>2. InForce(StageUpsert(old, k, e), gs)
    BY <1>5, <1>6, <1>7, <2>1, FactInForce
  <2> QED
    BY <2>2
<1> HIDE DEF r
<1>10. CallKeeps(<<r>>, state, up)
  BY <1>2, <1>5, <1>8, <1>9, KeepsOne
<1> QED
  BY <1>1, <1>10, CallRetry

LEMMA UpdateRetry ==
  ASSUME LiveSetInv, RetryInv, NEW id \in DOMAIN Now, UpdateFactById(id)
  PROVE  RetryInv'
<1> PICK now, new, k, e, m :
      /\ now = Now /\ new = NextId /\ k = Now[id].key
      /\ e = Entry(NextId, id, FALSE) /\ m = StageUpsert(memory, k, e)
  OBVIOUS
<1> DEFINE q == PutFrame(Fact(k))
           r == SupersedeFrame(id, new)
           up == (IF IsHidden THEN {"hidden"} ELSE {})
                 \cup (IF Now[id].superseded_by \in {i \in DOMAIN Now : Now[i].kind # "fact"}
                       THEN {"updated"} ELSE {})
           state == [n \in 0 .. 2 |-> IF n = 2 THEN [Unstaged EXCEPT !.memory = m] ELSE Unstaged]
<1>1. Call(<<q, r>>, state, up) /\ Holds(now, id, k) /\ Visible(memory)[k].id = id
  BY DEF UpdateFactById, Holds
<1>2. state[1].memory = memory /\ state[2].memory = m
  <2> PICK u, v : u = Unstaged /\ v = [Unstaged EXCEPT !.memory = m]
    OBVIOUS
  <2>1. u = [memory |-> memory, docs |-> text.staged, vecs |-> vectors.staged]
    BY DEF Unstaged, Staged
  <2>2. u.memory = memory /\ v.memory = m
    BY <2>1
  <2>3. state[1] = u /\ state[2] = v
    OBVIOUS
  <2> QED
    BY <2>2, <2>3
<1> HIDE DEF state
<1>3. now \in Seq(Frame) /\ Ordered(now) /\ memory \in Memory /\ (Clean => InForce(memory, now))
  BY NowRetry DEF RetryInv
<1>4. k \in Key /\ id \in Nat /\ new = Len(now) + 1 /\ id \in 1 .. (new - 1)
  <2>1. new = Len(now) + 1
    BY DEF NextId
  <2> QED
    BY <1>1, <1>3, <2>1 DEF Ordered, Holds
<1>5. Fact(k) \in NewFrame /\ Fact(k).kind = "fact" /\ Fact(k).key = k
  BY <1>4, FactTyped
<1> PICK mid : mid = Preview(now, q)
  OBVIOUS
<1>6. /\ q \in Mutation /\ Links(now, q) /\ Ordered(mid) /\ Admits(now, q)
      /\ mid \in Seq(Frame) /\ \A n : InForce(n, now) => InForce(n, mid)
  BY <1>3, <1>4, <1>5, PutFits
<1>7. /\ Len(mid) = Len(now) + 1 /\ mid[id] = now[id] /\ new \in DOMAIN mid /\ id \in DOMAIN mid
      /\ Holds(mid, new, k) /\ mid[new].superseded_by = None /\ mid[new].supersedes = None
  <2> PICK f : f = Fact(k)
    OBVIOUS
  <2>1. f \in Frame /\ f.superseded_by = None /\ f.supersedes = None
    BY <1>5, NewFrameTyped
  <2>2. /\ Len(mid) = Len(now) + 1 /\ mid[Len(now) + 1] = f
        /\ \A i \in DOMAIN now : mid[i] = now[i]
    BY <1>3, <2>1, PuttingFrame
  <2> QED
    BY <1>3, <1>4, <1>5, <1>6, <2>1, <2>2 DEF Holds
<1>8. /\ r \in Mutation /\ Links(mid, r) /\ Ordered(Preview(mid, r))
  <2>1. Linked(mid, id, new)
    BY <1>1, <1>4, <1>7 DEF Linked, Holds
  <2>2. new \in Nat
    BY <1>3, <1>4
  <2>3. r \in Mutation /\ Links(mid, r)
    BY <1>4, <2>1, <2>2, SupersedeMutation
  <2>4. Ordered(Preview(mid, r))
    BY <1>4, <1>6, <1>7, SupersedeOrdered
  <2> QED
    BY <2>3, <2>4
<1>9. e \in EntryOf /\ e.id = new
  <2>1. new \in Link /\ id \in Link /\ new = NextId
    BY <1>3, <1>4 DEF Link
  <2> QED
    BY <2>1 DEF Entry, EntryOf
<1>10. m \in Memory
  <2>1. HeldWith(memory, k, e, StageUpsert(memory, k, e))
    <3> PICK old \in Memory : old = memory
      BY <1>3
    <3>1. HeldWith(old, k, e, StageUpsert(old, k, e))
      BY <1>9, UpsertHeld, Zenon
    <3> QED
      BY <3>1
  <2> QED
    BY <2>1 DEF HeldWith
<1>11. ASSUME Clean, up \cap Spoilt = {}
       PROVE  now[id].superseded_by = None
  <2>1. ~IsHidden /\ ~(now[id].superseded_by \in {i \in DOMAIN now : now[i].kind # "fact"})
    BY <1>11 DEF Spoilt
  <2>2. Visible(memory) = Held(memory)
    BY <2>1 DEF IsHidden, Visible, Held
  <2>3. Held(memory)[k].id = id /\ id # None
    <3>1. id # None
      BY <1>4, ContentAssumption
    <3> QED
      BY <1>1, <2>2, <3>1
  <2>4. Current(now, k, id)
    BY <1>3, <1>4, <1>11, <2>3 DEF InForce
  <2> QED
    BY <2>1, <2>4 DEF Current
<1>12. ASSUME Clean, up \cap Spoilt = {}
       PROVE  Admits(mid, r) /\ InForce(memory, mid) /\ InForce(m, Preview(mid, r))
  <2>1. mid[id].superseded_by = None
    BY <1>7, <1>11, <1>12
  <2>2. Admits(mid, r)
    BY <1>4, <1>6, <1>7, <2>1, SupersedeAdmitted
  <2>3. InForce(memory, mid)
    BY <1>3, <1>6, <1>12
  <2>4. InForce(m, Preview(mid, r))
    <3> PICK old \in Memory : old = memory
      BY <1>3
    <3>1. Holds(mid, id, k) /\ InForce(old, mid)
      BY <1>1, <1>7, <2>3 DEF Holds
    <3>2. InForce(StageUpsert(old, k, e), Preview(mid, SupersedeFrame(id, new)))
      BY <1>4, <1>6, <1>7, <1>9, <3>1, RevisionInForce
    <3> QED
      BY <3>2
  <2> QED
    BY <2>2, <2>3, <2>4
<1> HIDE DEF q, r, up
<1>13. CallKeeps(<<q, r>>, state, up)
  BY <1>2, <1>3, <1>6, <1>8, <1>10, <1>12, KeepsTwo
<1> QED
  BY <1>1, <1>13, CallRetry

LEMMA RingCommit ==
  ASSUME NEW fs, NEW ms, NEW m, Good(fs, ms), Orderly(fs, ms)
  PROVE  /\ Good(View(fs, ms), <<>>) /\ Orderly(View(fs, ms), <<>>)
         /\ View(fs, ms) \in Seq(Frame) /\ View(View(fs, ms), <<>>) = View(fs, ms)
         /\ Retryable(fs, ms, m) => Retryable(View(fs, ms), <<>>, m)
<1> PICK now : now = View(fs, ms)
  OBVIOUS
<1>1. Good(now, <<>>) /\ now \in Seq(Frame)
  BY GoodCommit, GoodTyped
<1>2. View(now, <<>>) = now
  BY <1>1, ViewNone
<1> QED
  BY <1>1, <1>2, ApplicableNone DEF Orderly, Retryable

LEMMA HandoffRetry == LiveSetInv /\ RetryInv /\ RememberHandoff => RetryInv'
<1> SUFFICES ASSUME LiveSetInv, RetryInv, RememberHandoff
             PROVE  RetryInv'
  OBVIOUS
<1> PICK f : f = Body("handoff", None, None)
  OBVIOUS
<1> PICK fs, ns, now, m : fs = frames /\ ns = pending /\ now = Now /\ m = memory
  OBVIOUS
<1> PICK r : r = PutFrame(f)
  OBVIOUS
<1> PICK ms : ms = Append(ns, r)
  OBVIOUS
<1>1. f \in NewFrame /\ f.kind = "handoff"
  <2>1. "handoff" \in Kinds /\ None \in Link
    BY DEF Kinds, Link
  <2> QED
    BY <2>1, BodyTyped
<1>2. /\ Good(fs, ns) /\ Orderly(fs, ns) /\ now = View(fs, ns) /\ now \in Seq(Frame)
      /\ m \in Memory /\ Ordered(now)
      /\ (Clean => Applicable(fs, ns) /\ InForce(m, now))
  BY NowRetry DEF RetryInv, Now
<1>3. /\ r \in Mutation /\ Links(now, r) /\ Ordered(Preview(now, r)) /\ Admits(now, r)
      /\ (InForce(m, now) => InForce(m, Preview(now, r)))
  BY <1>1, <1>2, PutFits
<1>4. Good(fs, ms)
  <2>1. Links(View(fs, ns), r)
    BY <1>2, <1>3
  <2> QED
    BY <1>2, <1>3, <2>1, GoodAppend
<1>5. Orderly(fs, ms) /\ (Clean => Retryable(fs, ms, m))
  <2>1. Ordered(Preview(View(fs, ns), r))
    BY <1>2, <1>3
  <2> QED
    BY <1>2, <1>3, <2>1, RingAppend
<1>6. Clean' => Clean
  BY DEF RememberHandoff, Clean
<1>7. memory' = m
  BY DEF RememberHandoff
<1>8. CASE frames' = View(fs, ms) /\ pending' = <<>>
  <2> PICK gs, os : gs = View(fs, ms) /\ os = <<>>
    OBVIOUS
  <2>1. Orderly(gs, os) /\ (Clean => Retryable(gs, os, m))
    BY <1>4, <1>5, RingCommit
  <2> QED
    BY <1>2, <1>6, <1>7, <1>8, <2>1, RetryAfter
<1>9. CASE frames' = fs /\ pending' = ms
  BY <1>2, <1>5, <1>6, <1>7, <1>9, RetryAfter
<1> QED
  BY <1>8, <1>9 DEF RememberHandoff

LEMMA CommitAndStartRetry ==
  ASSUME LiveSetInv, RetryInv, Start(Now, <<>>, FALSE)
  PROVE  RetryInv'
<1> PICK fs, ms, past : fs = Now /\ ms = <<>> /\ past = FALSE
  OBVIOUS
<1>1. Good(fs, ms) /\ Orderly(fs, ms) /\ Start(fs, ms, past)
  BY NowRetry
<1> QED
  BY <1>1, StartRetry

LEMMA OnlyStartRetry ==
  ASSUME LiveSetInv, RetryInv, Start(frames, pending, FALSE)
  PROVE  RetryInv'
<1> PICK fs, ms, past : fs = frames /\ ms = pending /\ past = FALSE
  OBVIOUS
<1>1. Good(fs, ms) /\ Orderly(fs, ms) /\ Start(fs, ms, past)
  BY NowRetry
<1> QED
  BY <1>1, StartRetry

LEMMA FlushRebuildsRetry == LiveSetInv /\ RetryInv /\ FlushRebuilds => RetryInv'
<1> SUFFICES ASSUME LiveSetInv, RetryInv, FlushRebuilds
             PROVE  RetryInv'
  OBVIOUS
<1> PICK fs, ms : fs = Now /\ ms = <<>>
  OBVIOUS
<1>1. Good(fs, ms) /\ Orderly(fs, ms)
  BY NowRetry
<1>2. frames' = fs /\ pending' = ms /\ memory' = Replay(fs)
  BY DEF FlushRebuilds, Rebuilt, RebuiltPartly
<1> QED
  BY <1>1, <1>2, RebuiltRetry

LEMMA HideTyped ==
  ASSUME NEW m \in Memory
  PROVE  [m EXCEPT !.visible = FALSE] \in Memory
         /\ Held([m EXCEPT !.visible = FALSE]) = Held(m)
<1> PICK a, b, c : a = m.entries /\ b = m.staged /\ c = m.staging
  OBVIOUS
<1> PICK n : n = [m EXCEPT !.visible = FALSE]
  OBVIOUS
<1> PICK d : d = m.visible
  OBVIOUS
<1>1. m = [entries |-> a, staged |-> b, staging |-> c, visible |-> d]
      /\ a \in Entries /\ b \in Entries /\ c \in BOOLEAN
  BY MemoryTyped, Zenon
<1>2. n = [entries |-> a, staged |-> b, staging |-> c, visible |-> FALSE]
  BY <1>1
<1>3. n \in Memory
  <2>1. FALSE \in BOOLEAN
    OBVIOUS
  <2>2. [entries |-> a, staged |-> b, staging |-> c, visible |-> FALSE] \in Memory
    BY <1>1, <2>1, Zenon DEF Memory
  <2> QED
    BY <1>2, <2>2, Zenon
<1>4. n.entries = m.entries /\ n.staged = m.staged /\ n.staging = m.staging
  BY <1>2
<1> QED
  BY <1>3, <1>4 DEF Held

LEMMA FlushFailsRetry == LiveSetInv /\ RetryInv /\ FlushFails => RetryInv'
<1> SUFFICES ASSUME LiveSetInv, RetryInv, FlushFails
             PROVE  RetryInv'
  OBVIOUS
<1> PICK fs, ms, m : fs = frames /\ ms = pending /\ m = memory'
  OBVIOUS
<1>1. m \in Memory /\ Held(m) = Held(memory)
  <2> PICK old \in Memory : old = memory
    BY DEF RetryInv
  <2>1. m = [old EXCEPT !.visible = FALSE]
    BY DEF FlushFails
  <2> QED
    BY <2>1, HideTyped
<1>2. Orderly(fs, ms) /\ frames' = fs /\ pending' = ms
  BY NowRetry DEF FlushFails
<1>3. Clean' => Retryable(fs, ms, m)
  <2>1. Clean' => Clean
    BY DEF FlushFails, Clean
  <2> QED
    BY <1>1, <2>1, NowRetry DEF Retryable, InForce
<1> QED
  BY <1>1, <1>2, <1>3, RetryAfter

LEMMA RetryInit == Init => RetryInv
<1> SUFFICES ASSUME Init
             PROVE  RetryInv
  OBVIOUS
<1> PICK fs, ms : fs = <<>> /\ ms = <<>>
  OBVIOUS
<1>1. fs \in Seq(Frame)
  OBVIOUS
<1>2. View(fs, ms) = fs /\ Applicable(fs, ms)
  BY <1>1, ViewNone, ApplicableNone
<1>3. Ordered(fs)
  BY DEF Ordered
<1>4. frames = fs /\ pending = ms /\ memory = Empty
  BY DEF Init
<1>5. \A k \in Key : Held(Empty)[k].id = None
  BY EmptyTyped DEF NoEntries, NoEntry, Entry
<1>6. InForce(memory, fs)
  BY <1>4, <1>5 DEF InForce
<1> QED
  BY <1>2, <1>3, <1>4, <1>6, EmptyTyped DEF RetryInv, Now

-----------------------------------------------------------------------------
(* Surrogates.                                                              *)

\* Of frames now, none but old has a successor in frames then that it did not have.
Unmoved(now, then, old) ==
  \A x \in DOMAIN now :
    /\ x \in DOMAIN then
    /\ x # old => then[x].superseded_by = now[x].superseded_by

\* Frames and ring fs and ms have become gs and ns by a surrogate behind frame old:
\* they can be committed if they could, and if old had no successor.
Onward(fs, ms, gs, ns, old) ==
  /\ Orderly(gs, ns)
  /\ Unmoved(View(fs, ms), View(gs, ns), old)
  /\ \A m : Retryable(fs, ms, m) /\ View(fs, ms)[old].superseded_by = None
              => Retryable(gs, ns, m)

LEMMA OnePutOnward ==
  ASSUME NEW fs, NEW ms, NEW f \in NewFrame, NEW old, Good(fs, ms), Orderly(fs, ms),
         f.kind # "fact"
  PROVE  /\ Onward(fs, ms, fs, Append(ms, PutFrame(f)), old)
         /\ Good(fs, Append(ms, PutFrame(f)))
         /\ View(fs, Append(ms, PutFrame(f))) = Preview(View(fs, ms), PutFrame(f))
<1> PICK now, q, ns : now = View(fs, ms) /\ q = PutFrame(f) /\ ns = Append(ms, PutFrame(f))
  OBVIOUS
<1>1. now \in Seq(Frame) /\ Ordered(now)
  BY GoodTyped DEF Orderly
<1>2. /\ q \in Mutation /\ Links(now, q) /\ Ordered(Preview(now, q)) /\ Admits(now, q)
      /\ \A m : InForce(m, now) => InForce(m, Preview(now, q))
  BY <1>1, PutFits
<1>3. Good(fs, ns)
  <2>1. Links(View(fs, ms), q)
    BY <1>2
  <2> QED
    BY <1>2, <2>1, GoodAppend
<1>4. ASSUME NEW m
      PROVE  /\ Orderly(fs, ns) /\ View(fs, ns) = Preview(now, q)
             /\ Retryable(fs, ms, m) => Retryable(fs, ns, m)
  BY <1>2, RingAppend DEF Retryable
<1>5. Unmoved(now, Preview(now, q), old)
  <2> PICK gs : gs = Preview(now, q)
    OBVIOUS
  <2>1. gs \in Seq(Frame) /\ Len(gs) = Len(now) + 1 /\ \A i \in DOMAIN now : gs[i] = now[i]
    <3>1. f \in Frame
      BY NewFrameTyped
    <3> QED
      BY <1>1, <3>1, PuttingFrame
  <2>2. DOMAIN now \subseteq DOMAIN gs
    BY <1>1, <2>1
  <2> QED
    BY <2>1, <2>2 DEF Unmoved
<1>6. Onward(fs, ms, fs, ns, old)
  BY <1>4, <1>5 DEF Onward
<1> QED
  BY <1>3, <1>4, <1>6

LEMMA UnmovedTwice ==
  ASSUME NEW fs, NEW gs, NEW hs, NEW old, Unmoved(fs, gs, old), Unmoved(gs, hs, old)
  PROVE  Unmoved(fs, hs, old)
BY DEF Unmoved

\* The two records of a surrogate, and the first of them alone.
LEMMA LinkOnward ==
  ASSUME NEW gs \in Seq(Frame), NEW fs, NEW ms, Good(fs, ms), Orderly(fs, ms), Extends(gs, fs),
         NEW i, NEW old, Behind(gs, i, old),
         NEW ns, ns = ms \o Linking(i, old, Len(View(fs, ms)) + 1)
  PROVE  /\ Onward(fs, ms, fs, ns, old)
         /\ Onward(fs, ms, fs, SubSeq(ns, 1, Len(ns) - 1), old)
         /\ old \in DOMAIN View(fs, ms)
<1> PICK now : now = View(fs, ms)
  OBVIOUS
<1>1. fs \in Seq(Frame) /\ ms \in Seq(Mutation) /\ now \in Seq(Frame)
  BY GoodTyped
<1>2. Extends(gs, now)
  <2>1. Extends(fs, now)
    BY <1>1, ViewExtends
  <2> QED
    BY <1>1, <2>1, ExtendsTransitive
<1> DEFINE kind == IF Hierarchical THEN "surrogate" ELSE "extract"
           f == Body(kind, i, None)
           id == Len(now) + 1
           q == PutFrame(f)
           r == SupersedeFrame(old, id)
<1>3. i \in Nat /\ old \in 1 .. (id - 1) /\ id \in Nat /\ old \in DOMAIN now /\ Len(now) \in Nat
  BY <1>1, <1>2 DEF Behind, Extends
<1>4. f \in NewFrame /\ f.kind # "fact" /\ f \in Frame /\ f.supersedes = None
  <2>1. kind \in Kinds /\ kind \in {"surrogate", "extract"} /\ i \in Link
    BY <1>3 DEF Kinds, Link
  <2> HIDE DEF kind
  <2>2. f \in NewFrame /\ f.kind = kind
    BY <2>1, BodyTyped
  <2> QED
    BY <2>1, <2>2, NewFrameTyped
<1>5. Linking(i, old, Len(View(fs, ms)) + 1) = <<q, r>>
  BY DEF Linking
<1> HIDE DEF f
<1>6. r \in Mutation /\ q \in Mutation
  BY <1>3, <1>4, SupersedeMutation, PutMutation
<1>7. Onward(fs, ms, fs, Append(ms, q), old) /\ Good(fs, Append(ms, q))
      /\ View(fs, Append(ms, q)) = Preview(now, q)
  BY <1>4, OnePutOnward
<1> PICK mid : mid = Preview(now, q)
  OBVIOUS
<1>8. /\ mid \in Seq(Frame) /\ Len(mid) = Len(now) + 1 /\ mid[id] = f
      /\ \A x \in DOMAIN now : mid[x] = now[x]
  BY <1>1, <1>4, PuttingFrame
<1>9. id \in DOMAIN mid /\ old \in DOMAIN mid /\ mid[old] = now[old]
  BY <1>3, <1>8
<1>10. Ordered(mid)
  BY <1>7 DEF Onward, Orderly
<1>11. Ordered(Preview(mid, r))
  BY <1>3, <1>8, <1>9, <1>10, SupersedeOrdered
<1> HIDE DEF q
<1> PICK one : one = Append(ms, q)
  OBVIOUS
<1>18. /\ Good(fs, one) /\ Orderly(fs, one) /\ View(fs, one) = mid
       /\ Ordered(Preview(View(fs, one), r))
  <2>1. Good(fs, one) /\ Orderly(fs, one) /\ View(fs, one) = mid
    BY <1>7 DEF Onward
  <2> QED
    BY <1>11, <2>1
<1>12. ASSUME NEW m, Retryable(fs, one, m), now[old].superseded_by = None
       PROVE  Retryable(fs, Append(one, r), m)
  <2>1. Applicable(fs, one) /\ InForce(m, mid)
    BY <1>7, <1>12 DEF Retryable
  <2>2. Admits(mid, r)
    BY <1>3, <1>4, <1>8, <1>9, <1>10, <1>12, SupersedeAdmitted
  <2>3. InForce(m, Preview(mid, r))
    BY <1>4, <1>8, <1>9, <2>1, SurrogateInForce
  <2> QED
    BY <1>6, <1>18, <2>1, <2>2, <2>3, RingAppend
<1>13. Orderly(fs, Append(one, r)) /\ View(fs, Append(one, r)) = Preview(mid, r)
  BY <1>6, <1>18, RingAppend
<1>14. Unmoved(mid, Preview(mid, r), old)
  <2>1. Superseded(mid, Preview(mid, r), old, id)
    BY <1>3, <1>8, Superseding
  <2> QED
    BY <1>8, <2>1 DEF Unmoved, Superseded
<1>15. Unmoved(now, View(fs, Append(one, r)), old)
  <2>1. Unmoved(now, mid, old)
    BY <1>7 DEF Onward
  <2> QED
    BY <1>13, <1>14, <2>1, UnmovedTwice
<1>16. Onward(fs, ms, fs, Append(one, r), old)
  BY <1>7, <1>12, <1>13, <1>15 DEF Onward
<1> HIDE DEF r
<1>17. ns = Append(one, r) /\ SubSeq(ns, 1, Len(ns) - 1) = one
  <2>1. ns = ms \o <<q, r>>
    BY <1>5
  <2>2. ms \o <<q, r>> = Append(Append(ms, q), r)
    BY <1>1, <1>6
  <2>3. one \in Seq(Mutation)
    BY <1>1, <1>6
  <2>4. SubSeq(Append(one, r), 1, Len(Append(one, r)) - 1) = one
    BY <1>6, <2>3
  <2> QED
    BY <2>1, <2>2, <2>4
<1> QED
  BY <1>3, <1>7, <1>16, <1>17

LEMMA AdvanceOnward ==
  ASSUME NEW gs \in Seq(Frame), NEW s \in Reached(gs), Orderly(s.frames, s.pending),
         NEW i, NEW old, Behind(gs, i, old), NEW due \in BOOLEAN,
         NEW t, t = Advance(s, i, old, due)
  PROVE  /\ Onward(s.frames, s.pending, t.frames, t.pending, old)
         /\ Onward(s.frames, s.pending, t.frames, SubSeq(t.pending, 1, Len(t.pending) - 1), old)
         /\ old \in DOMAIN View(s.frames, s.pending)
<1> PICK us, vs : us = s.frames /\ vs = s.pending
  OBVIOUS
<1>1. /\ us \in Seq(Frame) /\ vs \in Seq(Mutation) /\ Good(us, vs) /\ Extends(gs, us)
  BY Zenon DEF Reached
<1> PICK fs : fs = IF due THEN View(us, vs) ELSE us
  OBVIOUS
<1> PICK ms : ms = IF due THEN <<>> ELSE vs
  OBVIOUS
<1>2. /\ Good(fs, ms) /\ Extends(gs, fs) /\ Orderly(fs, ms) /\ View(fs, ms) = View(us, vs)
      /\ \A m : Retryable(us, vs, m) => Retryable(fs, ms, m)
  <2>1. CASE due
    <3> PICK now : now = View(us, vs)
      OBVIOUS
    <3>1. Extends(us, now) /\ now \in Seq(Frame)
      BY <1>1, GoodCommit, GoodTyped
    <3>2. Extends(gs, now)
      BY <1>1, <3>1, ExtendsTransitive
    <3>3. Good(now, <<>>) /\ Orderly(now, <<>>) /\ View(now, <<>>) = now
          /\ \A m : Retryable(us, vs, m) => Retryable(now, <<>>, m)
      BY <1>1, RingCommit
    <3> QED
      BY <2>1, <3>2, <3>3
  <2>2. CASE ~due
    BY <1>1, <2>2
  <2> QED
    BY <2>1, <2>2
<1> PICK new : new = Linking(i, old, Len(View(fs, ms)) + 1)
  OBVIOUS
<1> PICK ns : ns = ms \o new
  OBVIOUS
<1>3. t.frames = fs /\ t.pending = ns
  <2> PICK thrown : thrown = (s.thrown \/ (due /\ ~Applicable(s.frames, s.pending)))
    OBVIOUS
  <2> PICK rec : rec = [frames |-> fs, pending |-> ns, thrown |-> thrown]
    OBVIOUS
  <2>1. t = rec
    BY Zenon DEF Advance
  <2>2. rec.frames = fs /\ rec.pending = ns
    OBVIOUS
  <2> QED
    BY <2>1, <2>2
<1>4. /\ Onward(fs, ms, fs, ns, old)
      /\ Onward(fs, ms, fs, SubSeq(ns, 1, Len(ns) - 1), old)
      /\ old \in DOMAIN View(fs, ms)
  BY <1>2, LinkOnward
<1>5. \A os : Onward(fs, ms, fs, os, old) => Onward(us, vs, fs, os, old)
  BY <1>2 DEF Onward
<1> QED
  BY <1>2, <1>3, <1>4, <1>5

\* No two frames of the work get their surrogates linked behind the same one.
Distinct(work, behind) ==
  \A a, b \in DOMAIN work : a < b => behind[work[a]] # behind[work[b]]

\* Nothing has a successor that a surrogate is still to be linked behind.
Open(s, work, behind, n) ==
  \A j \in DOMAIN work : j > n => View(s.frames, s.pending)[behind[work[j]]].superseded_by = None

\* What the loop keeps: frames in order; and what could be committed before can be.
LoopKeeps(first, s, n, work, behind) ==
  /\ Orderly(s.frames, s.pending)
  /\ Open(first, work, behind, 0) => Open(s, work, behind, n)
  /\ \A m : Retryable(first.frames, first.pending, m) /\ Open(first, work, behind, 0)
              => Retryable(s.frames, s.pending, m)

\* The same without the record appended last.
LastKeeps(first, s, work, behind) ==
  LET ms == SubSeq(s.pending, 1, Len(s.pending) - 1) IN
  /\ Orderly(s.frames, ms)
  /\ \A m : Retryable(first.frames, first.pending, m) /\ Open(first, work, behind, 0)
              => Retryable(s.frames, ms, m)

LEMMA LoopStep ==
  ASSUME NEW gs \in Seq(Frame), NEW work \in Seq(DOMAIN gs), NEW behind, Linker(gs, behind),
         Distinct(work, behind), NEW first, NEW n \in 1 .. Len(work), NEW s \in Reached(gs),
         LoopKeeps(first, s, n - 1, work, behind),
         NEW t, t = Advance(s, work[n], behind[work[n]], Due(n))
  PROVE  LoopKeeps(first, t, n, work, behind) /\ LastKeeps(first, t, work, behind)
<1> PICK i, old, due : i = work[n] /\ old = behind[work[n]] /\ due = Due(n)
  OBVIOUS
<1>1. Behind(gs, i, old) /\ due \in BOOLEAN /\ n \in DOMAIN work
  <2>1. i \in DOMAIN gs /\ n \in DOMAIN work
    OBVIOUS
  <2>2. due \in BOOLEAN
    BY Zenon DEF Due
  <2> QED
    BY <2>1, <2>2 DEF Linker
<1> PICK ms : ms = SubSeq(t.pending, 1, Len(t.pending) - 1)
  OBVIOUS
<1>2. /\ Onward(s.frames, s.pending, t.frames, t.pending, old)
      /\ Onward(s.frames, s.pending, t.frames, ms, old)
  <2>1. Orderly(s.frames, s.pending)
    BY DEF LoopKeeps
  <2>2. t = Advance(s, i, old, due)
    BY Zenon
  <2> QED
    BY <1>1, <2>1, <2>2, AdvanceOnward
<1>3. Open(first, work, behind, 0) => View(s.frames, s.pending)[old].superseded_by = None
  <2>1. n > n - 1
    OBVIOUS
  <2> QED
    BY <1>1, <2>1 DEF LoopKeeps, Open
<1>4. ASSUME Open(first, work, behind, 0)
      PROVE  Open(t, work, behind, n)
  <2> SUFFICES ASSUME NEW j \in DOMAIN work, j > n
               PROVE  View(t.frames, t.pending)[behind[work[j]]].superseded_by = None
    BY DEF Open
  <2> PICK x : x = behind[work[j]]
    OBVIOUS
  <2>1. x # old
    BY <1>1 DEF Distinct
  <2>2. j > n - 1
    OBVIOUS
  <2>3. View(s.frames, s.pending)[x].superseded_by = None
    BY <1>4, <2>2 DEF LoopKeeps, Open
  <2>4. x \in DOMAIN View(s.frames, s.pending)
    <3>1. Behind(gs, work[j], x)
      <4>1. work[j] \in DOMAIN gs
        OBVIOUS
      <4> QED
        BY <4>1 DEF Linker
    <3>2. Orderly(s.frames, s.pending)
      BY DEF LoopKeeps
    <3> PICK u : u = Advance(s, work[j], x, due)
      OBVIOUS
    <3> QED
      BY <1>1, <3>1, <3>2, AdvanceOnward
  <2> QED
    BY <1>2, <2>1, <2>3, <2>4 DEF Onward, Unmoved
<1>5. LoopKeeps(first, t, n, work, behind)
  BY <1>2, <1>3, <1>4 DEF LoopKeeps, Onward
<1>6. LastKeeps(first, t, work, behind)
  BY <1>2, <1>3 DEF LastKeeps, LoopKeeps, Onward
<1> QED
  BY <1>5, <1>6

LEMMA LoopRetry ==
  ASSUME NEW gs \in Seq(Frame), NEW work \in Seq(DOMAIN gs), NEW behind, Linker(gs, behind),
         Distinct(work, behind), NEW first \in Reached(gs), Orderly(first.frames, first.pending),
         NEW at, Advances(at, first, work, behind), AllReached(gs, at, Len(work)),
         NEW n \in 1 .. Len(work)
  PROVE  LoopKeeps(first, at[n], n, work, behind) /\ LastKeeps(first, at[n], work, behind)
<1> PICK count \in Nat : count = Len(work)
  OBVIOUS
<1>1. /\ at[0] = first
      /\ \A k \in 1 .. count :
           at[k] = Advance(at[k - 1], work[k], behind[work[k]], Due(k))
  BY DEF Advances
<1>2. \A k \in 0 .. count : at[k] \in Reached(gs)
  <2>1. \A k \in 0 .. count : k = 0 \/ k \in 1 .. count
    OBVIOUS
  <2> QED
    BY <1>1, <2>1 DEF AllReached
<1>3. ASSUME NEW k \in 1 .. count, LoopKeeps(first, at[k - 1], k - 1, work, behind)
      PROVE  LoopKeeps(first, at[k], k, work, behind) /\ LastKeeps(first, at[k], work, behind)
  <2>1. k - 1 \in 0 .. count
    OBVIOUS
  <2> PICK s \in Reached(gs) : s = at[k - 1]
    BY <1>2, <2>1
  <2> PICK t : t = at[k]
    OBVIOUS
  <2>2. t = Advance(s, work[k], behind[work[k]], Due(k))
    BY <1>1
  <2>3. LoopKeeps(first, s, k - 1, work, behind)
    BY <1>3
  <2> QED
    BY <2>2, <2>3, LoopStep
<1> DEFINE S == {k \in 0 .. count : LoopKeeps(first, at[k], k, work, behind)}
<1>4. 0 \in S
  <2>1. LoopKeeps(first, first, 0, work, behind)
    BY DEF LoopKeeps
  <2>2. 0 \in 0 .. count
    OBVIOUS
  <2> QED
    BY <1>1, <2>1, <2>2
<1>5. \A k \in 1 .. count : k - 1 \in S => k \in S
  <2>1. \A k \in 1 .. count : k \in 0 .. count
    OBVIOUS
  <2> QED
    BY <1>3, <2>1
<1>6. 0 .. count \subseteq S
  <2> HIDE DEF S
  <2> QED
    BY <1>4, <1>5, InductionUpTo
<1>7. LoopKeeps(first, at[n - 1], n - 1, work, behind)
  <2>1. n - 1 \in 0 .. count
    OBVIOUS
  <2> QED
    BY <1>6, <2>1
<1> QED
  BY <1>3, <1>7

\* What the surrogates of a frame are linked behind, once it has one.
LEMMA SurrogateOf ==
  ASSUME LiveSetInv, NEW i \in DOMAIN frames, HasSurrogate(i), NEW old, old = SupersededFor(i)
  PROVE  /\ old \in DOMAIN frames /\ frames[old].kind = "surrogate"
         /\ frames[old].supersedes = i /\ frames[old].superseded_by = None
<1>0. frames \in Seq(Frame) /\ BackLinked(frames)
  BY GoodTyped DEF LiveSetInv
<1>1. old = CHOOSE t \in DOMAIN frames : Live(frames[t]) /\ frames[t].supersedes = i
  BY DEF SupersededFor
<1>2. PICK t \in DOMAIN frames :
        frames[t].kind = "surrogate" /\ frames[t].supersedes = i /\ Live(frames[t])
  BY DEF HasSurrogate
<1>3. old \in DOMAIN frames /\ frames[old].supersedes = i /\ Live(frames[old])
  BY <1>1, <1>2
<1>4. i # None
  <2>1. i \in Nat
    BY <1>0
  <2> QED
    BY <2>1, ContentAssumption
<1>5. old = t
  BY <1>0, <1>2, <1>3, <1>4 DEF BackLinked
<1> QED
  BY <1>2, <1>3, <1>5 DEF Live

LEMMA WorkDistinct ==
  ASSUME LiveSetInv, NEW overwrite, NEW n \in 1 .. Len(Work(overwrite))
  PROVE  Distinct(SubSeq(Work(overwrite), 1, n), LoopBehind)
<1>0. frames \in Seq(Frame) /\ BackLinked(frames)
  BY GoodTyped DEF LiveSetInv
<1> PICK all : all = Work(overwrite)
  OBVIOUS
<1> PICK work : work = SubSeq(all, 1, n)
  OBVIOUS
<1>1. /\ all \in Seq(DOMAIN frames)
      /\ \A a \in DOMAIN all : Wanted(overwrite, all[a])
      /\ \A a, b \in DOMAIN all : a < b => all[a] < all[b]
  <2>1. Picked(all, {i \in DOMAIN frames : Wanted(overwrite, i)}, Len(frames))
    BY <1>0, WorkPicked
  <2>2. DOMAIN frames = 1 .. Len(frames)
    BY <1>0
  <2> QED
    BY <2>1, <2>2 DEF Picked
<1>2. \A a \in DOMAIN work : a \in DOMAIN all /\ work[a] = all[a]
  BY <1>1
<1> SUFFICES ASSUME NEW a \in DOMAIN work, NEW b \in DOMAIN work, a < b
             PROVE  LoopBehind[work[a]] # LoopBehind[work[b]]
  BY DEF Distinct
<1> PICK i, j : i = work[a] /\ j = work[b]
  OBVIOUS
<1>3. /\ i \in DOMAIN frames /\ j \in DOMAIN frames /\ i # j
      /\ frames[i].kind # "surrogate" /\ frames[j].kind # "surrogate"
  <2>1. a \in DOMAIN all /\ b \in DOMAIN all /\ i = all[a] /\ j = all[b]
    BY <1>2
  <2>2. i \in DOMAIN frames /\ j \in DOMAIN frames /\ i < j
    BY <1>1, <2>1
  <2>3. i \in Nat /\ j \in Nat
    BY <1>0, <2>2
  <2> QED
    BY <1>1, <2>1, <2>2, <2>3 DEF Wanted
<1>4. LoopBehind[i] = SupersededFor(i) /\ LoopBehind[j] = SupersededFor(j)
  BY <1>3, Zenon DEF LoopBehind
<1> PICK x, y : x = SupersededFor(i) /\ y = SupersededFor(j)
  OBVIOUS
<1>5. HasSurrogate(i) => frames[x].kind = "surrogate" /\ frames[x].supersedes = i
  BY <1>3, SurrogateOf
<1>6. HasSurrogate(j) => frames[y].kind = "surrogate" /\ frames[y].supersedes = j
  BY <1>3, SurrogateOf
<1>7. (~HasSurrogate(i) => x = i) /\ (~HasSurrogate(j) => y = j)
  BY DEF SupersededFor
<1>8. x # y
  BY <1>3, <1>5, <1>6, <1>7
<1> QED
  BY <1>4, <1>8

\* The frames that pending records supersede.
Taken(ms) == {m.old : m \in {m \in ToSet(ms) : m.kind = "supersede"}}

\* The others have the successors they have in the file.
LEMMA Untaken ==
  ASSUME NEW fs \in Seq(Frame), NEW ms \in Seq(Mutation), NEW x \in DOMAIN fs, x \notin Taken(ms)
  PROVE  View(fs, ms)[x].superseded_by = fs[x].superseded_by
<1> PICK n \in Nat : n = Len(ms)
  OBVIOUS
<1>1. PICK f : Previews(f, fs, ms) /\ View(fs, ms) = f[n]
  BY ViewIs
<1>2. f[0] = fs /\ \A i \in 1 .. n : f[i] = Preview(f[i - 1], ms[i])
  BY <1>1, PreviewsAt
<1> DEFINE S == {i \in 0 .. n : /\ f[i] \in Seq(Frame) /\ x \in DOMAIN f[i]
                                /\ f[i][x].superseded_by = fs[x].superseded_by}
<1>3. 0 \in S
  <2>1. 0 \in 0 .. n
    OBVIOUS
  <2> QED
    BY <1>2, <2>1
<1>4. ASSUME NEW i \in 1 .. n, i - 1 \in S
      PROVE  i \in S
  <2> PICK gs \in Seq(Frame) : gs = f[i - 1]
    BY <1>4
  <2> PICK hs, m : hs = f[i] /\ m = ms[i]
    OBVIOUS
  <2>1. x \in DOMAIN gs /\ gs[x].superseded_by = fs[x].superseded_by
    BY <1>4
  <2>2. hs = Preview(gs, m) /\ m \in Mutation /\ i \in 0 .. n
    BY <1>2
  <2>3. CASE m.kind = "put"
    <3>0. m.frame \in Frame /\ m = PutFrame(m.frame)
      BY <2>2, <2>3, MutationKinds, NewFrameTyped
    <3> PICK g \in Frame : g = m.frame
      BY <3>0
    <3>1. m = PutFrame(g)
      BY <3>0
    <3>2. /\ hs \in Seq(Frame) /\ Len(hs) = Len(gs) + 1
          /\ \A k \in DOMAIN gs : hs[k] = gs[k]
      <4>1. hs = Preview(gs, PutFrame(g))
        BY <2>2, <3>1
      <4>2. /\ Preview(gs, PutFrame(g)) \in Seq(Frame)
            /\ Len(Preview(gs, PutFrame(g))) = Len(gs) + 1
            /\ \A k \in DOMAIN gs : Preview(gs, PutFrame(g))[k] = gs[k]
        BY PuttingFrame
      <4> QED
        BY <4>1, <4>2
    <3>3. x \in DOMAIN hs
      BY <2>1, <3>2
    <3> QED
      BY <2>1, <2>2, <3>2, <3>3
  <2>4. CASE m.kind = "supersede"
    <3> PICK old, new : old = m.old /\ new = m.new
      OBVIOUS
    <3>1. old \in Nat /\ new \in Nat /\ m = SupersedeFrame(old, new)
      BY <2>2, <2>4, MutationKinds
    <3>2. Superseded(gs, hs, old, new)
      BY <2>2, <3>1, Superseding
    <3>3. x # old
      <4>1. m \in ToSet(ms)
        BY DEF ToSet
      <4> QED
        BY <2>4, <4>1 DEF Taken
    <3>4. /\ hs \in Seq(Frame) /\ DOMAIN hs = DOMAIN gs
          /\ hs[x].superseded_by = gs[x].superseded_by
      BY <2>1, <3>2, <3>3 DEF Superseded
    <3> QED
      BY <2>1, <2>2, <3>4
  <2> QED
    BY <2>2, <2>3, <2>4, MutationKinds
<1>5. n \in S
  <2>1. n \in 0 .. n
    OBVIOUS
  <2> HIDE DEF S
  <2> QED
    BY <1>3, <1>4, <2>1, InductionUpTo
<1> QED
  BY <1>1, <1>5

\* Unless the work is in conflict, nothing has a successor that surrogates will be
\* linked behind.
LEMMA StartOpen ==
  ASSUME LiveSetInv, NEW work \in Seq(DOMAIN frames), Conflicts(work) \cap Spoilt = {}
  PROVE  Open(LoopStart, work, LoopBehind, 0)
<1>0. frames \in Seq(Frame) /\ pending \in Seq(Mutation)
  BY GoodTyped DEF LiveSetInv
<1>1. /\ \A i \in ToSet(work) : frames[i].superseded_by = None \/ HasSurrogate(i)
      /\ \A i \in ToSet(work) : SupersededFor(i) \notin Taken(pending)
  <2>1. Conflicts(work) \subseteq {"regenerated", "overtaken"}
    BY DEF Conflicts
  <2>2. "regenerated" \notin Conflicts(work) /\ "overtaken" \notin Conflicts(work)
    BY DEF Spoilt
  <2>3. ~(\E i \in ToSet(work) : frames[i].superseded_by # None /\ ~HasSurrogate(i))
    BY <2>2, Zenon DEF Conflicts
  <2>4. ~(\E i \in ToSet(work) : {i, SupersededFor(i)} \cap Taken(pending) # {})
    BY <2>2, Zenon DEF Conflicts, Taken
  <2> QED
    BY <2>3, <2>4
<1>2. LoopStart.frames = frames /\ LoopStart.pending = pending
  BY DEF LoopStart
<1> SUFFICES ASSUME NEW j \in DOMAIN work
             PROVE  View(frames, pending)[LoopBehind[work[j]]].superseded_by = None
  BY <1>2 DEF Open
<1> PICK i : i = work[j]
  OBVIOUS
<1>3. i \in DOMAIN frames /\ i \in ToSet(work)
  BY DEF ToSet
<1> PICK old : old = SupersededFor(i)
  OBVIOUS
<1>4. LoopBehind[i] = old
  BY <1>3, Zenon DEF LoopBehind
<1>5. old \in DOMAIN frames /\ frames[old].superseded_by = None
  <2>1. CASE HasSurrogate(i)
    BY <1>3, <2>1, SurrogateOf
  <2>2. CASE ~HasSurrogate(i)
    <3>1. old = i
      BY <2>2 DEF SupersededFor
    <3> QED
      BY <1>1, <1>3, <2>2, <3>1
  <2> QED
    BY <2>1, <2>2
<1>6. View(frames, pending)[old].superseded_by = frames[old].superseded_by
  <2> PICK fs, ms : fs = frames /\ ms = pending
    OBVIOUS
  <2>1. old \notin Taken(ms) /\ fs \in Seq(Frame) /\ ms \in Seq(Mutation) /\ old \in DOMAIN fs
    BY <1>0, <1>1, <1>3, <1>5
  <2>2. View(fs, ms)[old].superseded_by = fs[old].superseded_by
    BY <2>1, Untaken
  <2> QED
    BY <2>2
<1> QED
  BY <1>4, <1>5, <1>6

LEMMA LoopStartReached ==
  ASSUME LiveSetInv
  PROVE  LoopStart \in Reached(frames) /\ Linker(frames, LoopBehind)
<1>1. frames \in Seq(Frame) /\ pending \in Seq(Mutation)
  BY GoodTyped DEF LiveSetInv
<1> PICK first : first = [frames |-> frames, pending |-> pending, thrown |-> FALSE]
  OBVIOUS
<1>2. first.frames = frames /\ first.pending = pending
  OBVIOUS
<1>3. first \in [frames : Seq(Frame), pending : Seq(Mutation), thrown : BOOLEAN]
  <2>1. FALSE \in BOOLEAN
    OBVIOUS
  <2> QED
    BY <1>1, <2>1, Zenon
<1>4. Extends(frames, frames)
  BY <1>1, ExtendsItself
<1>5. first \in Reached(frames)
  BY <1>2, <1>3, <1>4, Zenon DEF Reached, LiveSetInv
<1>6. \A i \in DOMAIN frames : LoopBehind[i] = SupersededFor(i)
  BY Zenon DEF LoopBehind
<1>7. Linker(frames, LoopBehind)
  BY <1>6, SupersededForBehind DEF Linker
<1> QED
  BY <1>5, <1>7 DEF LoopStart

\* What OptimizeSurrogates may leave behind n surrogates.
LEMMA ProgressRetry ==
  ASSUME LiveSetInv, RetryInv, NEW overwrite, NEW n \in 1 .. Len(Work(overwrite)),
         NEW work, work = SubSeq(Work(overwrite), 1, n), NEW s, s = Progress(work)[n],
         NEW ms, ms \in {s.pending, SubSeq(s.pending, 1, Len(s.pending) - 1)}
  PROVE  /\ Good(s.frames, ms) /\ Orderly(s.frames, ms)
         /\ Clean /\ Conflicts(work) \cap Spoilt = {} => Retryable(s.frames, ms, memory)
<1>0. frames \in Seq(Frame)
  BY GoodTyped DEF LiveSetInv
<1>1. work \in Seq(DOMAIN frames) /\ n \in 1 .. Len(work)
  <2> PICK all : all = Work(overwrite)
    OBVIOUS
  <2>1. all \in Seq(DOMAIN frames)
    BY <1>0, WorkTyped
  <2> QED
    BY <2>1
<1> PICK gs, first, behind, at :
      gs = frames /\ first = LoopStart /\ behind = LoopBehind /\ at = Progress(work)
  OBVIOUS
<1>2. /\ Advances(at, first, work, behind) /\ AllReached(gs, at, Len(work))
      /\ first \in Reached(gs) /\ Linker(gs, behind)
  BY <1>1, ProgressLoops, LoopStartReached
<1>3. Distinct(work, behind)
  BY WorkDistinct
<1>4. first.frames = frames /\ first.pending = pending
  BY DEF LoopStart
<1>5. Orderly(first.frames, first.pending)
      /\ (Clean => Retryable(first.frames, first.pending, memory))
  BY <1>4, NowRetry
<1>6. LoopKeeps(first, at[n], n, work, behind) /\ LastKeeps(first, at[n], work, behind)
  BY <1>0, <1>1, <1>2, <1>3, <1>5, LoopRetry
<1>7. Conflicts(work) \cap Spoilt = {} => Open(first, work, behind, 0)
  BY <1>1, StartOpen
<1>8. Good(s.frames, ms)
  <2>1. s \in Reached(gs) /\ AllButLast(s)
    BY <1>1, <1>2 DEF AllReached
  <2>2. Good(s.frames, s.pending)
    BY <2>1, Zenon DEF Reached
  <2> QED
    BY <2>1, <2>2 DEF AllButLast
<1> QED
  BY <1>5, <1>6, <1>7, <1>8 DEF LoopKeeps, LastKeeps

LEMMA OptimizeRetry ==
  ASSUME LiveSetInv, RetryInv, NEW overwrite, OptimizeSurrogates(overwrite)
  PROVE  RetryInv'
<1> PICK n, work, s :
      /\ n \in 1 .. Len(Work(overwrite))
      /\ work = SubSeq(Work(overwrite), 1, n)
      /\ s = Progress(work)[n]
      /\ \/ /\ frames' = View(s.frames, s.pending) /\ pending' = <<>>
            /\ memory' = Replay(frames')
         \/ \E k \in {Len(s.pending) - 1, Len(s.pending)} :
              /\ frames' = s.frames /\ pending' = SubSeq(s.pending, 1, k)
              /\ memory' = memory /\ Mark(Conflicts(work) \cup {"failed"})
         \/ \E k \in {Len(s.pending) - 1, Len(s.pending)} :
              Start(s.frames, SubSeq(s.pending, 1, k), TRUE)
  BY DEF OptimizeSurrogates, Rebuilt, RebuiltPartly, runtime
<1> PICK fs, ns : fs = s.frames /\ ns = s.pending
  OBVIOUS
<1> DEFINE Rings == {ns, SubSeq(ns, 1, Len(ns) - 1)}
<1>1. \A ms \in Rings :
        /\ Good(fs, ms) /\ Orderly(fs, ms)
        /\ Clean /\ Conflicts(work) \cap Spoilt = {} => Retryable(fs, ms, memory)
  <2> SUFFICES ASSUME NEW ms \in Rings
               PROVE  /\ Good(fs, ms) /\ Orderly(fs, ms)
                      /\ Clean /\ Conflicts(work) \cap Spoilt = {} => Retryable(fs, ms, memory)
    OBVIOUS
  <2>1. ms \in {s.pending, SubSeq(s.pending, 1, Len(s.pending) - 1)}
    OBVIOUS
  <2>2. work = SubSeq(Work(overwrite), 1, n) /\ s = Progress(work)[n]
    OBVIOUS
  <2> HIDE DEF Rings
  <2>3. /\ Good(s.frames, ms) /\ Orderly(s.frames, ms)
        /\ Clean /\ Conflicts(work) \cap Spoilt = {} => Retryable(s.frames, ms, memory)
    BY <2>1, <2>2, ProgressRetry
  <2> QED
    BY <2>3
<1>2. \A k \in {Len(ns) - 1, Len(ns)} : SubSeq(ns, 1, k) \in Rings
  <2>1. ns \in Seq(Mutation)
    BY <1>1, GoodTyped
  <2>2. SubSeq(ns, 1, Len(ns)) = ns
    BY <2>1, WholeSubSeq
  <2> QED
    BY <2>2
<1> HIDE DEF Rings
<1>3. CASE /\ frames' = View(fs, ns) /\ pending' = <<>> /\ memory' = Replay(frames')
  <2> PICK gs, ms : gs = View(fs, ns) /\ ms = <<>>
    OBVIOUS
  <2>1. Good(fs, ns) /\ Orderly(fs, ns)
    BY <1>1 DEF Rings
  <2>2. Good(gs, ms) /\ Orderly(gs, ms)
    BY <2>1, RingCommit
  <2>3. memory' = Replay(gs)
    BY <1>3
  <2> QED
    BY <1>3, <2>2, <2>3, RebuiltRetry
<1>4. CASE \E k \in {Len(ns) - 1, Len(ns)} :
             /\ frames' = fs /\ pending' = SubSeq(ns, 1, k)
             /\ memory' = memory /\ Mark(Conflicts(work) \cup {"failed"})
  <2> PICK k \in {Len(ns) - 1, Len(ns)} :
        /\ frames' = fs /\ pending' = SubSeq(ns, 1, k)
        /\ memory' = memory /\ Mark(Conflicts(work) \cup {"failed"})
    BY <1>4
  <2> PICK ms, m : ms \in Rings /\ ms = SubSeq(ns, 1, k) /\ m = memory
    BY <1>2
  <2> PICK up : up = Conflicts(work) \cup {"failed"}
    OBVIOUS
  <2>1. Clean' => Clean /\ up \cap Spoilt = {}
    BY MarkClean
  <2>2. up \cap Spoilt = {} => Conflicts(work) \cap Spoilt = {}
    OBVIOUS
  <2>3. Clean' => Retryable(fs, ms, m)
    BY <1>1, <2>1, <2>2
  <2>4. m \in Memory
    BY DEF RetryInv
  <2> QED
    BY <1>1, <2>3, <2>4, RetryAfter
<1>5. CASE \E k \in {Len(ns) - 1, Len(ns)} : Start(fs, SubSeq(ns, 1, k), TRUE)
  <2> PICK k \in {Len(ns) - 1, Len(ns)} : Start(fs, SubSeq(ns, 1, k), TRUE)
    BY <1>5
  <2> PICK ms, past : ms \in Rings /\ ms = SubSeq(ns, 1, k) /\ past = TRUE
    BY <1>2
  <2>1. Start(fs, ms, past)
    OBVIOUS
  <2> QED
    BY <1>1, <2>1, StartRetry
<1> QED
  BY <1>3, <1>4, <1>5

-----------------------------------------------------------------------------
LEMMA RetryStep == LiveSetInv /\ RetryInv /\ [Next]_vars => RetryInv'
<1> SUFFICES ASSUME LiveSetInv, RetryInv, [Next]_vars
             PROVE  RetryInv'
  OBVIOUS
<1>1. CASE Remember
  BY <1>1, RememberRetry
<1>2. CASE \E k \in Key : RememberFact(k)
  BY <1>2, RememberFactRetry
<1>3. CASE \E id \in DOMAIN Now : UpdateFactById(id)
  BY <1>3, UpdateRetry
<1>4. CASE Flush
  BY <1>4, CommitRetry DEF Flush
<1>5. CASE FlushRebuilds
  BY <1>5, FlushRebuildsRetry
<1>6. CASE CompactIndexes
  BY <1>6, CommitRetry DEF CompactIndexes
<1>7. CASE RememberHandoff
  BY <1>7, HandoffRetry
<1>8. CASE \E overwrite \in Overwrite : OptimizeSurrogates(overwrite)
  BY <1>8, OptimizeRetry
<1>9. CASE Close
  BY <1>9, CommitAndStartRetry, OnlyStartRetry DEF Close
<1>10. CASE ProcessDies
  BY <1>10, CommitAndStartRetry, OnlyStartRetry DEF ProcessDies
<1>11. CASE DiesRewriting
  BY <1>11, CommitAndStartRetry DEF DiesRewriting
<1>12. CASE FlushFails
  BY <1>12, FlushFailsRetry
<1>13. CASE UNCHANGED vars
  BY <1>13 DEF vars, runtime, RetryInv, Clean, Now
<1> QED
  BY <1>1, <1>2, <1>3, <1>4, <1>5, <1>6, <1>7, <1>8, <1>9, <1>10, <1>11, <1>12, <1>13 DEF Next

\* Whatever is put, updated, made a surrogate of, committed or lost, in any order,
\* and whichever call throws half-way, a commit can apply what is pending, until
\* one of the calls that the code lets make a second successor has been made: no
\* other sequence of calls leaves a ring that Commit refuses for good.
THEOREM CommitStaysRetryable == Spec => []CommitRetryableUnlessSuperseded
<1>1. RetryInv => CommitRetryableUnlessSuperseded
  BY DEF RetryInv, CommitRetryableUnlessSuperseded, Clean, Spoilt
<1> QED
  BY <1>1, LiveSetInit, LiveSetStep, RetryInit, RetryStep, PTL DEF Spec

-----------------------------------------------------------------------------
(* What the process searches, and what the frames say.                      *)

\* Documents and vectors of frames now: only a hand-off has no vector.
Searched(now, docs, vecs) ==
  /\ docs = Indexed(now)
  /\ \A i \in Indexed(now) \ DOMAIN vecs : now[i].kind = "handoff"

Tells(now, held) == \A k \in Key : Told(now, Len(now), k, held[k])

Leads(fs, map) == \A r \in DOMAIN map : map[r] \in DOMAIN fs /\ Root(fs, map[r]) = r

\* Frames of fs supersede in now what they do in fs.
SameChains(fs, now) ==
  /\ Len(fs) <= Len(now)
  /\ \A i \in DOMAIN fs : now[i].supersedes = fs[i].supersedes

\* Indexes that match frames fs and pending mutations ms.
Matched(fs, ms, docs, vecs, held, map) ==
  /\ Searched(View(fs, ms), docs, vecs)
  /\ Tells(View(fs, ms), held)
  /\ Leads(fs, map)
  /\ SameChains(fs, View(fs, ms))

Internal == {"fact", "embedding"}

LEMMA IndexedIs ==
  ASSUME NEW fs \in Seq(Frame)
  PROVE  Indexed(fs) = {i \in DOMAIN fs : fs[i].kind \notin Internal}
<1>1. \A i \in DOMAIN fs : Active(fs[i])
  <2> TAKE i \in DOMAIN fs
  <2> PICK f \in Frame : f = fs[i]
    OBVIOUS
  <2>1. f.deleted = FALSE
    BY FrameTyped
  <2> QED
    BY <2>1 DEF Active
<1> QED
  BY <1>1 DEF Indexed, Internal

\* What a put adds to documents.
LEMMA PutSearched ==
  ASSUME NEW fs \in Seq(Frame), NEW f \in NewFrame, NEW docs, NEW vecs, Searched(fs, docs, vecs),
         NEW more, NEW others,
         IF f.kind \in Internal THEN more = docs ELSE more = docs \cup {Len(fs) + 1},
         DOMAIN vecs \subseteq DOMAIN others,
         f.kind \in Internal \/ f.kind = "handoff" \/ Len(fs) + 1 \in DOMAIN others
  PROVE  Searched(Preview(fs, PutFrame(f)), more, others)
<1> PICK gs : gs = Preview(fs, PutFrame(f))
  OBVIOUS
<1> PICK id \in Nat : id = Len(fs) + 1
  OBVIOUS
<1>1. /\ gs \in Seq(Frame) /\ Len(gs) = id
      /\ \A i \in DOMAIN fs : gs[i] = fs[i]
      /\ gs[id] = f
  BY NewFrameTyped, PuttingFrame
<1>2. DOMAIN gs = DOMAIN fs \cup {id} /\ id \notin DOMAIN fs
  BY <1>1
<1>3. Indexed(gs) = IF f.kind \in Internal THEN Indexed(fs) ELSE Indexed(fs) \cup {id}
  <2>1. Indexed(gs) = {i \in DOMAIN gs : gs[i].kind \notin Internal}
    BY <1>1, IndexedIs
  <2>2. Indexed(fs) = {i \in DOMAIN fs : fs[i].kind \notin Internal}
    BY IndexedIs
  <2> QED
    BY <1>1, <1>2, <2>1, <2>2
<1>4. more = Indexed(gs)
  BY <1>3 DEF Searched
<1>5. ASSUME NEW i \in Indexed(gs) \ DOMAIN others
      PROVE  gs[i].kind = "handoff"
  <2>1. CASE i = id
    <3>1. f.kind \notin Internal
      <4>1. id \notin Indexed(fs)
        BY <1>2 DEF Indexed
      <4> QED
        BY <1>3, <1>5, <2>1, <4>1
    <3> QED
      BY <1>1, <1>5, <2>1, <3>1
  <2>2. CASE i # id
    <3>1. i \in Indexed(fs) \ DOMAIN vecs
      BY <1>3, <1>5, <2>2
    <3>2. fs[i].kind = "handoff" /\ i \in DOMAIN fs
      BY <3>1 DEF Searched, Indexed
    <3> QED
      BY <1>1, <3>2
  <2> QED
    BY <2>1, <2>2
<1> QED
  BY <1>4, <1>5 DEF Searched

\* What is said behind frames fs when f is put.
Adds(fs, f, held, now) ==
  \A k \in Key : now[k] = IF f.kind = "fact" /\ f.key = k
                          THEN Entry(Len(fs) + 1, None, FALSE) ELSE held[k]

LEMMA PutTells ==
  ASSUME NEW fs \in Seq(Frame), NEW f \in NewFrame, NEW held, Tells(fs, held), NEW now,
         Adds(fs, f, held, now)
  PROVE  Tells(Preview(fs, PutFrame(f)), now)
<1> PICK gs : gs = Preview(fs, PutFrame(f))
  OBVIOUS
<1> PICK id \in Nat : id = Len(fs) + 1
  OBVIOUS
<1>1. /\ gs \in Seq(Frame) /\ Len(gs) = id
      /\ \A i \in DOMAIN fs : gs[i] = fs[i]
      /\ gs[id] = f /\ f.supersedes = None
  BY NewFrameTyped, PuttingFrame
<1>2. ASSUME NEW k \in Key
      PROVE  Told(gs, id, k, now[k])
  <2> PICK e : e = held[k]
    OBVIOUS
  <2>1. Told(fs, Len(fs), k, e)
    BY DEF Tells
  <2>2. Told(gs, id - 1, k, e)
    <3>1. id - 1 = Len(fs)
      OBVIOUS
    <3>2. Newest(gs, id - 1, k, e.id)
      BY <1>1, <2>1, <3>1 DEF Told, Newest, Holds
    <3>3. EntryAt(gs, e.id) = EntryAt(fs, e.id)
      <4> PICK x : x = e.id
        OBVIOUS
      <4>1. x # None => x \in DOMAIN fs
        BY <2>1 DEF Told, Newest
      <4>2. x # None => gs[x].supersedes = fs[x].supersedes
        BY <1>1, <4>1
      <4> QED
        BY <4>2 DEF EntryAt
    <3> QED
      BY <2>1, <3>2, <3>3 DEF Told
  <2>3. id \in DOMAIN gs /\ id # None
    BY <1>1, ContentAssumption
  <2>4. Told(gs, id, k, IF Holds(gs, id, k) THEN EntryAt(gs, id) ELSE e)
    BY <1>1, <2>2, <2>3, ToldMore
  <2>5. Holds(gs, id, k) <=> f.kind = "fact" /\ f.key = k
    BY <1>1 DEF Holds
  <2>6. EntryAt(gs, id) = Entry(id, None, FALSE)
    BY <1>1, <2>3 DEF EntryAt
  <2> QED
    BY <2>4, <2>5, <2>6 DEF Adds
<1> QED
  BY <1>1, <1>2 DEF Tells

\* What is said when the newest frame, which holds a fact of key k, supersedes another.
Revises(k, new, old, held, now) ==
  \A j \in Key : now[j] = IF j = k THEN Entry(new, old, FALSE) ELSE held[j]

LEMMA RevisionTells ==
  ASSUME NEW fs \in Seq(Frame), NEW old \in DOMAIN fs, NEW new \in DOMAIN fs, new = Len(fs),
         NEW k \in Key, Holds(fs, new, k), NEW held, Tells(fs, held), NEW now,
         Revises(k, new, old, held, now)
  PROVE  Tells(Preview(fs, SupersedeFrame(old, new)), now)
<1> PICK gs : gs = Preview(fs, SupersedeFrame(old, new))
  OBVIOUS
<1>1. Superseded(fs, gs, old, new)
  <2>1. old \in Nat /\ new \in Nat
    OBVIOUS
  <2> QED
    BY <2>1, Superseding
<1>2. Len(gs) = Len(fs) /\ gs \in Seq(Frame)
  BY <1>1 DEF Superseded
<1>3. \A i \in DOMAIN fs : gs[i].kind = fs[i].kind /\ gs[i].key = fs[i].key
        /\ gs[i].supersedes = IF i = new THEN old ELSE fs[i].supersedes
  BY <1>1 DEF Superseded
<1>4. new # None
  <2>1. new \in Nat
    OBVIOUS
  <2> QED
    BY <2>1, ContentAssumption
<1>5. ASSUME NEW j \in Key
      PROVE  Told(gs, Len(gs), j, now[j])
  <2> PICK e : e = held[j]
    OBVIOUS
  <2>1. Told(fs, Len(fs), j, e)
    BY DEF Tells
  <2>2. \A x : Newest(fs, Len(fs), j, x) => Newest(gs, Len(gs), j, x)
    BY <1>2, <1>3 DEF Newest, Holds
  <2>3. CASE j = k
    <3>1. Newest(fs, Len(fs), k, new)
      BY <1>4 DEF Newest
    <3>2. EntryAt(gs, new) = Entry(new, old, FALSE)
      BY <1>3, <1>4 DEF EntryAt
    <3>3. now[j] = EntryAt(gs, new)
      BY <2>3, <3>2 DEF Revises
    <3> QED
      BY <2>2, <2>3, <3>1, <3>3, EntryAtId DEF Told
  <2>4. CASE j # k
    <3>1. e.id # new
      BY <1>4, <2>1, <2>4 DEF Told, Newest, Holds
    <3>2. EntryAt(gs, e.id) = EntryAt(fs, e.id)
      <4> PICK x : x = e.id
        OBVIOUS
      <4>1. x # None => x \in DOMAIN fs
        BY <2>1 DEF Told, Newest
      <4>2. x # None => gs[x].supersedes = fs[x].supersedes
        BY <1>3, <3>1, <4>1
      <4> QED
        BY <4>2 DEF EntryAt
    <3>3. now[j] = e
      BY <2>4 DEF Revises
    <3> QED
      BY <2>1, <2>2, <3>2, <3>3 DEF Told
  <2> QED
    BY <2>3, <2>4
<1> QED
  BY <1>5 DEF Tells

\* Documents do not depend on what supersedes what.
LEMMA SupersedeSearched ==
  ASSUME NEW fs \in Seq(Frame), NEW old \in DOMAIN fs, NEW new \in DOMAIN fs, NEW docs, NEW vecs,
         Searched(fs, docs, vecs)
  PROVE  Searched(Preview(fs, SupersedeFrame(old, new)), docs, vecs)
<1> PICK gs : gs = Preview(fs, SupersedeFrame(old, new))
  OBVIOUS
<1>1. Superseded(fs, gs, old, new)
  <2>1. old \in Nat /\ new \in Nat
    OBVIOUS
  <2> QED
    BY <2>1, Superseding
<1>2. DOMAIN gs = DOMAIN fs /\ gs \in Seq(Frame) /\ \A i \in DOMAIN fs : gs[i].kind = fs[i].kind
  BY <1>1 DEF Superseded
<1>3. Indexed(gs) = Indexed(fs)
  <2>1. Indexed(gs) = {i \in DOMAIN gs : gs[i].kind \notin Internal}
    BY <1>2, IndexedIs
  <2>2. Indexed(fs) = {i \in DOMAIN fs : fs[i].kind \notin Internal}
    BY IndexedIs
  <2> QED
    BY <1>2, <2>1, <2>2
<1> QED
  BY <1>2, <1>3 DEF Searched, Indexed

-----------------------------------------------------------------------------
(* The roots of chains.                                                     *)

\* The equation of the walk in Root.
Backs(back, fs, i) ==
  back = [n \in 0 .. Len(fs) |->
           IF n = 0 THEN i
           ELSE LET last == back[n - 1] IN
                IF fs[last].supersedes = None THEN last ELSE fs[last].supersedes]

Hop(fs, x) == IF fs[x].supersedes = None THEN x ELSE fs[x].supersedes

\* What it says of each step.
BacksOff(back, fs, i) == back[0] = i /\ \A n \in 1 .. Len(fs) : back[n] = Hop(fs, back[n - 1])

LEMMA BacksAt ==
  ASSUME NEW back, NEW fs \in Seq(Frame), NEW i, Backs(back, fs, i)
  PROVE  BacksOff(back, fs, i)
<1> DEFINE h == [n \in 0 .. Len(fs) |-> IF n = 0 THEN i ELSE Hop(fs, back[n - 1])]
<1>1. back = h
  BY Zenon DEF Backs, Hop
<1>2. h[0] = i /\ \A n \in 1 .. Len(fs) : h[n] = Hop(fs, back[n - 1])
  OBVIOUS
<1> HIDE DEF h
<1> QED
  BY <1>1, <1>2 DEF BacksOff

LEMMA HopTyped ==
  ASSUME NEW fs \in Seq(Frame), Ordered(fs), NEW x \in DOMAIN fs
  PROVE  /\ Hop(fs, x) \in DOMAIN fs
         /\ fs[x].supersedes # None => Hop(fs, x) < x
<1>1. fs[x].supersedes # None => fs[x].supersedes \in 1 .. (x - 1)
  BY DEF Ordered
<1> QED
  BY <1>1 DEF Hop

LEMMA BacksExist ==
  ASSUME NEW fs \in Seq(Frame), Ordered(fs), NEW i \in DOMAIN fs
  PROVE  \E back : Backs(back, fs, i)
<1> PICK count \in Nat : count = Len(fs)
  OBVIOUS
<1> DEFINE D == DOMAIN fs
           step == [p \in (1 .. count) \X D |-> Hop(fs, p[2])]
<1>1. step \in Steps(count, D)
  <2>1. ASSUME NEW p \in (1 .. count) \X D
        PROVE  Hop(fs, p[2]) \in D
    BY HopTyped
  <2> QED
    BY <2>1, Zenon DEF Steps
<1>2. \A n \in 1 .. count, x \in D : step[<<n, x>>] = Hop(fs, x)
  <2> HIDE DEF D
  <2>1. \A n \in 1 .. count, x \in D : <<n, x>> \in (1 .. count) \X D
    OBVIOUS
  <2> QED
    BY <2>1
<1>3. i \in D
  OBVIOUS
<1> HIDE DEF step, D
<1>4. PICK f : f \in [0 .. count -> D] /\ Iterates(f, i, step, count)
  BY <1>1, <1>3, RecursionExists, Zenon
<1>5. f[0] = i /\ \A n \in 1 .. count : f[n] = Hop(fs, f[n - 1])
  <2>1. \A n \in 1 .. count : n - 1 \in 0 .. count
    OBVIOUS
  <2> QED
    BY <1>2, <1>4, <2>1 DEF Iterates
<1>6. \A n \in 0 .. count : f[n] = IF n = 0 THEN i ELSE Hop(fs, f[n - 1])
  BY <1>5
<1>7. f = [n \in 0 .. count |-> f[n]]
  BY <1>4
<1>8. f = [n \in 0 .. count |-> IF n = 0 THEN i ELSE Hop(fs, f[n - 1])]
  BY <1>6, <1>7
<1>9. Backs(f, fs, i)
  BY <1>8, Zenon DEF Backs, Hop
<1> QED
  BY <1>9

LEMMA RootIs ==
  ASSUME NEW fs \in Seq(Frame), Ordered(fs), NEW i \in DOMAIN fs
  PROVE  \E back : BacksOff(back, fs, i) /\ Root(fs, i) = back[Len(fs)]
<1> DEFINE back == CHOOSE back : Backs(back, fs, i)
<1>1. Backs(back, fs, i)
  BY BacksExist
<1>2. Root(fs, i) = back[Len(fs)]
  BY DEF Root, Backs
<1> HIDE DEF back
<1> QED
  BY <1>1, <1>2, BacksAt

\* Each hop goes down, until there is nothing more to follow.
Settles(back, fs, i) ==
  \A n \in 0 .. Len(fs) :
    /\ back[n] \in DOMAIN fs
    /\ fs[back[n]].supersedes = None \/ back[n] <= i - n

LEMMA BacksSettle ==
  ASSUME NEW fs \in Seq(Frame), Ordered(fs), NEW i \in DOMAIN fs, NEW back, BacksOff(back, fs, i)
  PROVE  /\ Settles(back, fs, i)
         /\ back[Len(fs)] \in DOMAIN fs /\ fs[back[Len(fs)]].supersedes = None
<1> PICK count \in Nat : count = Len(fs)
  OBVIOUS
<1> DEFINE S == {n \in 0 .. count : /\ back[n] \in DOMAIN fs
                                    /\ fs[back[n]].supersedes = None \/ back[n] <= i - n}
<1>1. 0 \in S
  BY DEF BacksOff
<1>2. ASSUME NEW n \in 1 .. count, n - 1 \in S
      PROVE  n \in S
  <2> PICK x \in DOMAIN fs : x = back[n - 1]
    BY <1>2
  <2> PICK y : y = back[n]
    OBVIOUS
  <2>1. y = Hop(fs, x) /\ (fs[x].supersedes = None \/ x <= i - (n - 1)) /\ n \in 0 .. count
    BY <1>2 DEF BacksOff
  <2>2. y \in DOMAIN fs /\ (fs[x].supersedes # None => y < x)
    BY <2>1, HopTyped
  <2>3. fs[x].supersedes = None => y = x
    BY <2>1 DEF Hop
  <2>4. fs[y].supersedes = None \/ y <= i - n
    BY <2>1, <2>2, <2>3
  <2> QED
    BY <2>1, <2>2, <2>4
<1>3. 0 .. count \subseteq S
  <2> HIDE DEF S
  <2> QED
    BY <1>1, <1>2, InductionUpTo
<1>4. Settles(back, fs, i)
  BY <1>3 DEF Settles
<1>5. back[count] \in DOMAIN fs /\ fs[back[count]].supersedes = None
  <2>1. count \in 0 .. count
    OBVIOUS
  <2>2. count \in S
    BY <1>3, <2>1
  <2> QED
    BY <2>2
<1> QED
  BY <1>4, <1>5

\* Frames that come later change no root.
LEMMA RootStays ==
  ASSUME NEW fs \in Seq(Frame), NEW gs \in Seq(Frame), Ordered(fs), Ordered(gs),
         SameChains(fs, gs), NEW i \in DOMAIN fs
  PROVE  Root(gs, i) = Root(fs, i)
<1> PICK m \in Nat, n \in Nat : m = Len(fs) /\ n = Len(gs)
  OBVIOUS
<1>1. m <= n /\ i \in DOMAIN gs /\ \A x \in DOMAIN fs : gs[x].supersedes = fs[x].supersedes
  BY DEF SameChains
<1> PICK f : BacksOff(f, fs, i) /\ Root(fs, i) = f[m]
  BY RootIs
<1> PICK h : BacksOff(h, gs, i) /\ Root(gs, i) = h[n]
  BY <1>1, RootIs
<1>2. /\ \A k \in 0 .. m : f[k] \in DOMAIN fs
      /\ f[m] \in DOMAIN fs /\ fs[f[m]].supersedes = None
  BY BacksSettle DEF Settles
<1>3. \A x \in DOMAIN fs : Hop(gs, x) = Hop(fs, x)
  BY <1>1 DEF Hop
<1> DEFINE S == {k \in 0 .. n : h[k] = f[IF k <= m THEN k ELSE m]}
<1>4. 0 \in S
  <2>1. 0 \in 0 .. n /\ 0 <= m
    OBVIOUS
  <2> QED
    BY <2>1 DEF BacksOff
<1>5. ASSUME NEW k \in 1 .. n, k - 1 \in S
      PROVE  k \in S
  <2>1. h[k] = Hop(gs, h[k - 1]) /\ k \in 0 .. n
    BY DEF BacksOff
  <2>2. CASE k <= m
    <3>1. h[k - 1] = f[k - 1] /\ k - 1 \in 0 .. m /\ k \in 1 .. m
      BY <1>5, <2>2
    <3>2. h[k] = Hop(fs, f[k - 1])
      BY <1>2, <1>3, <2>1, <3>1
    <3>3. f[k] = Hop(fs, f[k - 1])
      BY <3>1 DEF BacksOff
    <3> QED
      BY <2>1, <2>2, <3>2, <3>3
  <2>3. CASE k > m
    <3>1. h[k - 1] = f[m]
      <4>1. k - 1 <= m => k - 1 = m
        BY <2>3
      <4> QED
        BY <1>5, <4>1
    <3>2. h[k] = Hop(fs, f[m])
      BY <1>2, <1>3, <2>1, <3>1
    <3>3. Hop(fs, f[m]) = f[m]
      BY <1>2 DEF Hop
    <3> QED
      BY <2>1, <2>3, <3>2, <3>3
  <2> QED
    BY <2>2, <2>3
<1>6. n \in S
  <2>1. n \in 0 .. n
    OBVIOUS
  <2> HIDE DEF S
  <2> QED
    BY <1>4, <1>5, <2>1, InductionUpTo
<1>7. h[n] = f[m]
  BY <1>1, <1>6
<1> QED
  BY <1>7

\* A map that is built leads from roots to tips.
LEMMA SurrogateMapLeads ==
  ASSUME NEW fs
  PROVE  Leads(fs, SurrogateMap(fs))
<1> DEFINE tips == {i \in DOMAIN fs : Live(fs[i]) /\ fs[i].supersedes # None}
           roots == {Root(fs, i) : i \in tips}
<1>1. SurrogateMap(fs) = [r \in roots |-> CHOOSE i \in tips : Root(fs, i) = r]
  BY DEF SurrogateMap
<1>2. tips \subseteq DOMAIN fs
  OBVIOUS
<1>3. ASSUME NEW r \in roots
      PROVE  (CHOOSE i \in tips : Root(fs, i) = r) \in DOMAIN fs
             /\ Root(fs, CHOOSE i \in tips : Root(fs, i) = r) = r
  <2>1. \E i \in tips : Root(fs, i) = r
    BY <1>3
  <2> HIDE DEF tips
  <2> QED
    BY <1>2, <2>1
<1> HIDE DEF tips, roots
<1> QED
  BY <1>1, <1>3 DEF Leads

-----------------------------------------------------------------------------
(* Indexes that match.                                                      *)

LEMMA SameChainsItself ==
  ASSUME NEW fs \in Seq(Frame)
  PROVE  SameChains(fs, fs)
BY DEF SameChains

\* What is built from a file without pending mutations matches it.
LEMMA BuiltMatched ==
  ASSUME NEW fs \in Seq(Frame), NEW e
  PROVE  Matched(fs, <<>>, Indexed(fs), VectorsOf(fs, e), Held(Replay(fs)), SurrogateMap(fs))
<1>1. View(fs, <<>>) = fs
  BY ViewNone
<1>2. Searched(fs, Indexed(fs), VectorsOf(fs, e))
  BY DEF Searched, VectorsOf
<1>3. Tells(fs, Held(Replay(fs)))
  BY ReplayTold, ReplayTyped DEF Tells
<1> QED
  BY <1>1, <1>2, <1>3, SurrogateMapLeads, SameChainsItself DEF Matched

\* So does what matched, once all that is pending has been committed.
LEMMA CommitMatched ==
  ASSUME NEW fs, NEW ms, Good(fs, ms), Orderly(fs, ms), NEW docs, NEW vecs, NEW held, NEW map,
         Matched(fs, ms, docs, vecs, held, map)
  PROVE  Matched(View(fs, ms), <<>>, docs, vecs, held, map)
<1> PICK now : now = View(fs, ms)
  OBVIOUS
<1>1. fs \in Seq(Frame) /\ now \in Seq(Frame) /\ Ordered(fs) /\ Ordered(now)
  BY GoodTyped DEF Orderly
<1>2. View(now, <<>>) = now /\ SameChains(now, now)
  BY <1>1, ViewNone, SameChainsItself
<1>3. Searched(now, docs, vecs) /\ Tells(now, held) /\ Leads(fs, map) /\ SameChains(fs, now)
  BY DEF Matched
<1>4. Leads(now, map)
  <2>1. ASSUME NEW r \in DOMAIN map
        PROVE  map[r] \in DOMAIN now /\ Root(now, map[r]) = r
    <3> PICK i : i = map[r]
      OBVIOUS
    <3>1. i \in DOMAIN fs /\ Root(fs, i) = r
      BY <1>3 DEF Leads
    <3>2. Root(now, i) = Root(fs, i)
      BY <1>1, <1>3, <3>1, RootStays
    <3>3. i \in DOMAIN now
      BY <1>1, <1>3, <3>1 DEF SameChains
    <3> QED
      BY <3>1, <3>2, <3>3
  <2> QED
    BY <2>1 DEF Leads
<1> QED
  BY <1>2, <1>3, <1>4 DEF Matched

LEMMA PutChains ==
  ASSUME NEW fs \in Seq(Frame), NEW now \in Seq(Frame), NEW f \in NewFrame, SameChains(fs, now)
  PROVE  SameChains(fs, Preview(now, PutFrame(f)))
<1> PICK gs : gs = Preview(now, PutFrame(f))
  OBVIOUS
<1>1. Len(gs) = Len(now) + 1 /\ \A i \in DOMAIN now : gs[i] = now[i]
  BY NewFrameTyped, PuttingFrame
<1> QED
  BY <1>1 DEF SameChains

LEMMA SupersedeChains ==
  ASSUME NEW fs \in Seq(Frame), NEW now \in Seq(Frame), SameChains(fs, now),
         NEW old \in DOMAIN now, NEW new \in DOMAIN now, new > Len(fs)
  PROVE  SameChains(fs, Preview(now, SupersedeFrame(old, new)))
<1> PICK gs : gs = Preview(now, SupersedeFrame(old, new))
  OBVIOUS
<1>1. Superseded(now, gs, old, new)
  <2>1. old \in Nat /\ new \in Nat
    OBVIOUS
  <2> QED
    BY <2>1, Superseding
<1>2. Len(gs) = Len(now)
      /\ \A i \in DOMAIN now : gs[i].supersedes = IF i = new THEN old ELSE now[i].supersedes
  BY <1>1 DEF Superseded
<1> QED
  BY <1>2 DEF SameChains

\* What a put must leave of indexes.
PutLeaves(now, f, docs, more, vecs, others, held, then) ==
  /\ IF f.kind \in Internal THEN more = docs ELSE more = docs \cup {Len(now) + 1}
  /\ DOMAIN vecs \subseteq DOMAIN others
  /\ f.kind \in Internal \/ f.kind = "handoff" \/ Len(now) + 1 \in DOMAIN others
  /\ Adds(now, f, held, then)

LEMMA PutMatched ==
  ASSUME NEW fs, NEW ms, Good(fs, ms), NEW docs, NEW vecs, NEW held, NEW map,
         Matched(fs, ms, docs, vecs, held, map), NEW f \in NewFrame, NEW more, NEW others, NEW then,
         PutLeaves(View(fs, ms), f, docs, more, vecs, others, held, then)
  PROVE  Matched(fs, Append(ms, PutFrame(f)), more, others, then, map)
<1> PICK now, r : now = View(fs, ms) /\ r = PutFrame(f)
  OBVIOUS
<1>1. fs \in Seq(Frame) /\ ms \in Seq(Mutation) /\ now \in Seq(Frame) /\ r \in Mutation
  BY GoodTyped, PutMutation
<1>2. View(fs, Append(ms, r)) = Preview(now, r)
  BY <1>1, ViewAppend
<1>3. Searched(now, docs, vecs) /\ Tells(now, held) /\ Leads(fs, map) /\ SameChains(fs, now)
  BY DEF Matched
<1>4. Searched(Preview(now, PutFrame(f)), more, others)
  BY <1>1, <1>3, PutSearched DEF PutLeaves
<1>5. Tells(Preview(now, PutFrame(f)), then)
  BY <1>1, <1>3, PutTells DEF PutLeaves
<1>6. SameChains(fs, Preview(now, PutFrame(f)))
  BY <1>1, <1>3, PutChains
<1> QED
  BY <1>2, <1>3, <1>4, <1>5, <1>6 DEF Matched

\* A fact at the end of the ring that supersedes another.
LEMMA RevisionMatched ==
  ASSUME NEW fs, NEW ms, Good(fs, ms), NEW docs, NEW vecs, NEW held, NEW map,
         Matched(fs, ms, docs, vecs, held, map), NEW k \in Key, NEW now, now = View(fs, ms),
         NEW old \in DOMAIN now, NEW new \in DOMAIN now, new = Len(now), new > Len(fs),
         Holds(now, new, k), NEW then, Revises(k, new, old, held, then)
  PROVE  Matched(fs, Append(ms, SupersedeFrame(old, new)), docs, vecs, then, map)
<1> PICK r : r = SupersedeFrame(old, new)
  OBVIOUS
<1>1. fs \in Seq(Frame) /\ ms \in Seq(Mutation) /\ now \in Seq(Frame)
  BY GoodTyped
<1>2. r \in Mutation
  <2>1. old \in Nat /\ new \in Nat
    BY <1>1
  <2> QED
    BY <2>1, SupersedeMutation
<1>3. View(fs, Append(ms, r)) = Preview(now, r)
  BY <1>1, <1>2, ViewAppend
<1>4. Searched(now, docs, vecs) /\ Tells(now, held) /\ Leads(fs, map) /\ SameChains(fs, now)
  BY DEF Matched
<1>5. Searched(Preview(now, SupersedeFrame(old, new)), docs, vecs)
  BY <1>1, <1>4, SupersedeSearched
<1>6. Tells(Preview(now, SupersedeFrame(old, new)), then)
  BY <1>1, <1>4, RevisionTells
<1>7. SameChains(fs, Preview(now, SupersedeFrame(old, new)))
  BY <1>1, <1>4, SupersedeChains
<1> QED
  BY <1>3, <1>4, <1>5, <1>6, <1>7 DEF Matched

-----------------------------------------------------------------------------
(* The invariant.                                                           *)

Unsettling == {"failed", "partial", "recovered", "past"}
Settled == upsets \cap Unsettling = {}

IndexInv ==
  /\ text = [docs |-> text.docs, staged |-> text.staged]
  /\ Settled =>
       Matched(frames, pending, text.staged, vectors.staged, Held(memory), surrogates)

\* Indexes a step may leave.
LEMMA IndexAfter ==
  ASSUME NEW fs, NEW ms, NEW published, NEW docs, NEW vecs, NEW m, NEW map,
         frames' = fs, pending' = ms, text' = [docs |-> published, staged |-> docs],
         vectors'.staged = vecs, memory' = m, surrogates' = map,
         Settled' => Matched(fs, ms, docs, vecs, Held(m), map)
  PROVE  IndexInv'
<1>1. text'.docs = published /\ text'.staged = docs
  OBVIOUS
<1> QED
  BY <1>1 DEF IndexInv

LEMMA MarkSettled ==
  ASSUME NEW up, Mark(up), Settled'
  PROVE  Settled /\ up \cap Unsettling = {}
BY DEF Mark, Settled, Unsettling

\* Indexes that are built from the file.
LEMMA RebuiltIndex ==
  ASSUME NEW fs \in Seq(Frame), NEW ms, NEW e, Rebuilt(fs, e), frames' = fs, pending' = ms,
         Settled' => ms = <<>>
  PROVE  IndexInv'
<1> PICK docs, vecs, m, map : docs = Indexed(fs) /\ vecs = VectorsOf(fs, e) /\ m = Replay(fs)
                              /\ map = SurrogateMap(fs)
  OBVIOUS
<1>1. /\ text' = [docs |-> docs, staged |-> docs] /\ vectors' = [docs |-> vecs, staged |-> vecs]
      /\ memory' = m /\ surrogates' = map
  BY DEF Rebuilt
<1>2. vectors'.staged = vecs
  BY <1>1
<1>3. Settled' => Matched(fs, ms, docs, vecs, Held(m), map)
  BY BuiltMatched
<1> QED
  BY <1>1, <1>2, <1>3, IndexAfter

LEMMA StartIndex ==
  ASSUME NEW fs \in Seq(Frame), NEW ms, NEW past, Start(fs, ms, past)
  PROVE  IndexInv'
<1> PICK e \in Embedder : embedder' = e /\ Rebuilt(fs, e)
  BY DEF Start
<1>1. frames' = fs /\ pending' = ms
  BY DEF Start
<1>2. Settled' => ms = <<>>
  BY DEF Start, Settled, Unsettling
<1> QED
  BY <1>1, <1>2, RebuiltIndex

LEMMA RebuiltPartlyIndex ==
  ASSUME NEW fs, NEW e, RebuiltPartly(fs, e), ~Settled'
  PROVE  IndexInv'
<1> PICK docs : docs = Indexed(fs)
  OBVIOUS
<1>1. text' = [docs |-> docs, staged |-> docs]
  BY DEF RebuiltPartly
<1>2. text'.docs = docs /\ text'.staged = docs
  BY <1>1
<1> QED
  BY <1>1, <1>2 DEF IndexInv

\* Some of the runtime is published by a commit, and none of it changed.
LEMMA CommitIndex ==
  ASSUME LiveSetInv, RetryInv, VectorInv, IndexInv, frames' = Now, pending' = <<>>,
         UNCHANGED <<surrogates, upsets>>,
         memory' = memory \/ memory' = CommitStaged(memory),
         text' = [text EXCEPT !.docs = text.staged],
         vectors' = [vectors EXCEPT !.docs = vectors.staged]
  PROVE  IndexInv'
<1> PICK fs, ms, docs, vecs, held, map :
      /\ fs = frames /\ ms = pending /\ docs = text.staged /\ vecs = vectors.staged
      /\ held = Held(memory) /\ map = surrogates
  OBVIOUS
<1> PICK now, none, m : now = Now /\ none = <<>> /\ m = memory'
  OBVIOUS
<1>1. Good(fs, ms) /\ Orderly(fs, ms)
  BY NowRetry
<1>2. Held(m) = held
  BY CommitStagedTyped DEF RetryInv
<1>3. Settled' => Settled
  BY DEF Settled
<1>4. ASSUME Settled
      PROVE  Matched(now, none, docs, vecs, Held(m), map)
  <2>1. Matched(fs, ms, docs, vecs, held, map)
    BY <1>4 DEF IndexInv
  <2>2. Matched(View(fs, ms), <<>>, docs, vecs, held, map)
    BY <1>1, <2>1, CommitMatched
  <2> QED
    BY <1>2, <2>2 DEF Now
<1>5. text' = [docs |-> docs, staged |-> docs]
  BY DEF IndexInv
<1>6. vectors'.staged = vecs
  <2>1. vectors' = [docs |-> vecs, staged |-> vecs]
    BY DEF VectorInv
  <2> QED
    BY <2>1
<1> QED
  BY <1>3, <1>4, <1>5, <1>6, IndexAfter

-----------------------------------------------------------------------------
(* Calls that append records.                                               *)

\* A call leaves indexes that match, when all of its records are there.
CallMatches(records, state) ==
  /\ Len(records) \in Nat \ {0}
  /\ Settled => Matched(frames, pending \o SubSeq(records, 1, Len(records)),
                        state[Len(records)].docs, state[Len(records)].vecs,
                        Held(state[Len(records)].memory), surrogates)

LEMMA StagedShape ==
  ASSUME VectorInv, IndexInv, NEW docs, NEW vecs,
         text' = [text EXCEPT !.staged = docs], vectors' = [vectors EXCEPT !.staged = vecs]
  PROVE  /\ text' = [docs |-> text.docs, staged |-> docs]
         /\ vectors'.staged = vecs
<1> PICK a, b, c, d :
      a = text.docs /\ b = text.staged /\ c = vectors.docs /\ d = vectors.staged
  OBVIOUS
<1>1. text = [docs |-> a, staged |-> b] /\ vectors = [docs |-> c, staged |-> d]
  BY DEF VectorInv, IndexInv
<1> QED
  BY <1>1

LEMMA CallIndex ==
  ASSUME LiveSetInv, VectorInv, IndexInv, NEW records, NEW state, NEW up, Call(records, state, up),
         CallMatches(records, state)
  PROVE  IndexInv'
<1> PICK n \in Nat \ {0} : n = Len(records)
  BY DEF CallMatches
<1>0. frames \in Seq(Frame)
  BY GoodTyped DEF LiveSetInv
<1>1. \/ \E k \in 1 .. n :
           /\ frames' = frames /\ pending' = pending \o SubSeq(records, 1, k)
           /\ memory' = state[k].memory
           /\ text' = [text EXCEPT !.staged = state[k].docs]
           /\ vectors' = [vectors EXCEPT !.staged = state[k].vecs]
           /\ UNCHANGED surrogates
           /\ (k = n /\ Mark(up)) \/ Mark({"failed"} \cup up)
      \/ \E ms, past : Start(frames, ms, past)
  <2>1. n \in 1 .. n /\ \A k \in 1 .. (n - 1) : k \in 1 .. n
    OBVIOUS
  <2> QED
    BY <2>1 DEF Call
<1>2. ASSUME NEW ms, NEW past, Start(frames, ms, past)
      PROVE  IndexInv'
  BY <1>0, <1>2, StartIndex
<1>3. ASSUME NEW k \in 1 .. n,
             frames' = frames, pending' = pending \o SubSeq(records, 1, k),
             memory' = state[k].memory,
             text' = [text EXCEPT !.staged = state[k].docs],
             vectors' = [vectors EXCEPT !.staged = state[k].vecs],
             UNCHANGED surrogates,
             (k = n /\ Mark(up)) \/ Mark({"failed"} \cup up)
      PROVE  IndexInv'
  <2> PICK fs, ms, published, docs, vecs, m, map :
        /\ fs = frames /\ ms = pending \o SubSeq(records, 1, k) /\ published = text.docs
        /\ docs = state[k].docs /\ vecs = state[k].vecs /\ m = state[k].memory
        /\ map = surrogates
    OBVIOUS
  <2>1. text' = [docs |-> published, staged |-> docs] /\ vectors'.staged = vecs
    BY <1>3, StagedShape
  <2>2. Settled' => Settled /\ k = n
    <3>1. CASE k = n /\ Mark(up)
      BY <3>1, MarkSettled
    <3>2. CASE Mark({"failed"} \cup up)
      <4> PICK more : more = {"failed"} \cup up
        OBVIOUS
      <4>1. Settled' => more \cap Unsettling = {}
        BY <3>2, MarkSettled
      <4>2. ~Settled'
        BY <4>1 DEF Unsettling
      <4> QED
        BY <4>2
    <3> QED
      BY <1>3, <3>1, <3>2
  <2>3. Settled' => Matched(fs, ms, docs, vecs, Held(m), map)
    BY <2>2 DEF CallMatches
  <2>4. frames' = fs /\ pending' = ms /\ memory' = m /\ surrogates' = map
    BY <1>3
  <2> QED
    BY <2>1, <2>3, <2>4, IndexAfter
<1> QED
  BY <1>1, <1>2, <1>3

LEMMA RememberIndex == LiveSetInv /\ VectorInv /\ IndexInv /\ Remember => IndexInv'
<1> SUFFICES ASSUME LiveSetInv, VectorInv, IndexInv, Remember
             PROVE  IndexInv'
  OBVIOUS
<1> PICK fs, ms, docs, vecs, held, map, now :
      /\ fs = frames /\ ms = pending /\ docs = text.staged /\ vecs = vectors.staged
      /\ held = Held(memory) /\ map = surrogates /\ now = Now
  OBVIOUS
<1> PICK id, chunk, vector :
      /\ id = NextId /\ chunk = Body("chunk", None, None)
      /\ vector = Body("embedding", NextId, embedder)
  OBVIOUS
<1> PICK more, others : more = docs \cup {id} /\ others = With(vecs, id, embedder)
  OBVIOUS
<1>1. Good(fs, ms) /\ now = View(fs, ms) /\ now \in Seq(Frame) /\ id = Len(now) + 1
      /\ ms \in Seq(Mutation) /\ fs \in Seq(Frame)
  BY GoodTyped DEF LiveSetInv, Now, NextId
<1>2. /\ chunk \in NewFrame /\ chunk.kind = "chunk"
      /\ vector \in NewFrame /\ vector.kind = "embedding"
  <2>1. id \in Link
    BY <1>1 DEF Link
  <2>2. "chunk" \in Kinds /\ "embedding" \in Kinds /\ None \in Link
        /\ embedder \in Embedder \cup {None}
    BY DEF Kinds, Link, LiveSetInv
  <2> PICK e : e = embedder
    OBVIOUS
  <2>3. Body("embedding", id, e) \in NewFrame /\ Body("embedding", id, e).kind = "embedding"
    BY <2>1, <2>2, BodyTyped
  <2>4. Body("chunk", None, None) \in NewFrame /\ Body("chunk", None, None).kind = "chunk"
    BY <2>2, BodyTyped
  <2> QED
    BY <2>3, <2>4
<1> PICK q, r : q = PutFrame(chunk) /\ r = PutFrame(vector)
  OBVIOUS
<1> PICK mid : mid = Append(ms, q)
  OBVIOUS
<1>3. q \in Mutation /\ r \in Mutation /\ Good(fs, mid)
  <2>1. q \in Mutation /\ r \in Mutation /\ Links(View(fs, ms), q)
    BY <1>2, PutMutation
  <2> QED
    BY <1>1, <2>1, GoodAppend
<1>4. ASSUME Settled
      PROVE  Matched(fs, Append(mid, r), more, others, held, map)
  <2>1. Matched(fs, ms, docs, vecs, held, map)
    BY <1>4 DEF IndexInv
  <2>2. PutLeaves(View(fs, ms), chunk, docs, more, vecs, others, held, held)
    BY <1>1, <1>2 DEF PutLeaves, Internal, With, Adds
  <2>3. Matched(fs, Append(ms, PutFrame(chunk)), more, others, held, map)
    BY <1>1, <1>2, <2>1, <2>2, PutMatched
  <2>4. PutLeaves(View(fs, mid), vector, more, more, others, others, held, held)
    BY <1>2 DEF PutLeaves, Internal, Adds
  <2>5. Matched(fs, mid, more, others, held, map)
    BY <2>3
  <2>6. Matched(fs, Append(mid, PutFrame(vector)), more, others, held, map)
    BY <1>2, <1>3, <2>4, <2>5, PutMatched
  <2> QED
    BY <2>6
<1> DEFINE staged == Staged(memory, more, others)
           state == [n \in 0 .. 2 |-> IF n > 0 THEN staged ELSE Unstaged]
<1>5. Call(<<q, r>>, state, {})
  BY DEF Remember
<1>6. state[2].memory = memory /\ state[2].docs = more /\ state[2].vecs = others
  BY DEF Staged
<1> HIDE DEF state
<1>7. Len(<<q, r>>) = 2 /\ ms \o SubSeq(<<q, r>>, 1, 2) = Append(mid, r)
  BY <1>1, <1>3, AppendsOfTwo
<1> PICK records, up : records = <<q, r>> /\ up = {}
  OBVIOUS
<1>8. CallMatches(records, state)
  <2>1. Len(records) = 2 /\ pending \o SubSeq(records, 1, Len(records)) = Append(mid, r)
    BY <1>7
  <2>2. /\ state[Len(records)].docs = more /\ state[Len(records)].vecs = others
        /\ Held(state[Len(records)].memory) = held
    BY <1>6, <2>1
  <2>3. Settled => Matched(frames, pending \o SubSeq(records, 1, Len(records)),
                          state[Len(records)].docs, state[Len(records)].vecs,
                          Held(state[Len(records)].memory), surrogates)
    BY <1>4, <2>1, <2>2
  <2> QED
    BY <2>1, <2>3 DEF CallMatches
<1> QED
  BY <1>5, <1>8, CallIndex

LEMMA RememberFactIndex ==
  ASSUME LiveSetInv, RetryInv, VectorInv, IndexInv, NEW k \in Key, RememberFact(k)
  PROVE  IndexInv'
<1> PICK fs, ms, docs, vecs, held, map, now :
      /\ fs = frames /\ ms = pending /\ docs = text.staged /\ vecs = vectors.staged
      /\ held = Held(memory) /\ map = surrogates /\ now = Now
  OBVIOUS
<1> PICK id, e, f : id = NextId /\ e = Entry(id, None, FALSE) /\ f = Fact(k)
  OBVIOUS
<1> PICK m : m = StageUpsert(memory, k, e)
  OBVIOUS
<1>1. Good(fs, ms) /\ now = View(fs, ms) /\ now \in Seq(Frame) /\ id = Len(now) + 1
      /\ ms \in Seq(Mutation) /\ fs \in Seq(Frame)
  BY GoodTyped DEF LiveSetInv, Now, NextId
<1>2. f \in NewFrame /\ f.kind = "fact" /\ f.key = k
  BY FactTyped
<1>3. e \in EntryOf
  BY <1>1 DEF Entry, EntryOf, Link
<1>4. Held(m) = [held EXCEPT ![k] = e] /\ held \in Entries
  <2> PICK old \in Memory : old = memory
    BY DEF RetryInv
  <2>1. HeldWith(old, k, e, StageUpsert(old, k, e))
    BY <1>3, UpsertHeld, Zenon
  <2> QED
    BY <2>1, MemoryTyped DEF HeldWith
<1> PICK r : r = PutFrame(f)
  OBVIOUS
<1>5. r \in Mutation
  BY <1>2, PutMutation
<1>6. ASSUME Settled
      PROVE  Matched(fs, Append(ms, r), docs, vecs, Held(m), map)
  <2>1. Matched(fs, ms, docs, vecs, held, map)
    BY <1>6 DEF IndexInv
  <2> PICK then : then = Held(m)
    OBVIOUS
  <2>2. Adds(now, f, held, then)
    BY <1>1, <1>2, <1>4 DEF Adds, Entries
  <2>3. PutLeaves(View(fs, ms), f, docs, docs, vecs, vecs, held, then)
    BY <1>1, <1>2, <2>2 DEF PutLeaves, Internal
  <2>4. Matched(fs, Append(ms, PutFrame(f)), docs, vecs, then, map)
    BY <1>1, <1>2, <2>1, <2>3, PutMatched
  <2> QED
    BY <2>4
<1> DEFINE up == IF IsHidden THEN {"hidden"} ELSE {}
           state == [n \in 0 .. 1 |-> IF n > 0 THEN [Unstaged EXCEPT !.memory = m] ELSE Unstaged]
<1>7. Call(<<r>>, state, up)
  BY DEF RememberFact
<1>8. state[1].memory = m /\ state[1].docs = docs /\ state[1].vecs = vecs
  <2> PICK old, v : old = memory /\ v = [Unstaged EXCEPT !.memory = m]
    OBVIOUS
  <2>1. Unstaged = [memory |-> old, docs |-> docs, vecs |-> vecs]
    BY DEF Unstaged, Staged
  <2>2. v.memory = m /\ v.docs = docs /\ v.vecs = vecs
    BY <2>1
  <2>3. state[1] = v
    OBVIOUS
  <2> QED
    BY <2>2, <2>3
<1> HIDE DEF state, up
<1>9. Len(<<r>>) = 1 /\ ms \o SubSeq(<<r>>, 1, 1) = Append(ms, r)
  BY <1>1, <1>5, AppendsOfOne
<1> PICK records : records = <<r>>
  OBVIOUS
<1>10. CallMatches(records, state)
  <2>1. Len(records) = 1 /\ pending \o SubSeq(records, 1, Len(records)) = Append(ms, r)
    BY <1>9
  <2>2. /\ state[Len(records)].docs = docs /\ state[Len(records)].vecs = vecs
        /\ Held(state[Len(records)].memory) = Held(m)
    BY <1>8, <2>1
  <2>3. Settled => Matched(frames, pending \o SubSeq(records, 1, Len(records)),
                          state[Len(records)].docs, state[Len(records)].vecs,
                          Held(state[Len(records)].memory), surrogates)
    BY <1>6, <2>1, <2>2
  <2> QED
    BY <2>1, <2>3 DEF CallMatches
<1> QED
  BY <1>7, <1>10, CallIndex

LEMMA UpdateIndex ==
  ASSUME LiveSetInv, RetryInv, VectorInv, IndexInv, NEW id \in DOMAIN Now, UpdateFactById(id)
  PROVE  IndexInv'
<1> PICK fs, ms, docs, vecs, held, map, now :
      /\ fs = frames /\ ms = pending /\ docs = text.staged /\ vecs = vectors.staged
      /\ held = Held(memory) /\ map = surrogates /\ now = Now
  OBVIOUS
<1> PICK new, k : new = NextId /\ k = Now[id].key
  OBVIOUS
<1> PICK e, f : e = Entry(new, id, FALSE) /\ f = Fact(k)
  OBVIOUS
<1> PICK m : m = StageUpsert(memory, k, e)
  OBVIOUS
<1>1. Good(fs, ms) /\ now = View(fs, ms) /\ now \in Seq(Frame) /\ new = Len(now) + 1
      /\ ms \in Seq(Mutation) /\ fs \in Seq(Frame) /\ Ordered(now)
  BY GoodTyped DEF LiveSetInv, RetryInv, Now, NextId
<1>2. k \in Key /\ id \in DOMAIN now /\ now[id].kind = "fact"
  <2>1. now[id].kind = "fact" /\ k = now[id].key
    BY DEF UpdateFactById
  <2> QED
    BY <1>1, <2>1 DEF Ordered
<1>3. f \in NewFrame /\ f.kind = "fact" /\ f.key = k
  BY <1>2, FactTyped
<1>4. e \in EntryOf
  BY <1>1, <1>2 DEF Entry, EntryOf, Link
<1>5. Held(m) = [held EXCEPT ![k] = e] /\ held \in Entries
  <2> PICK old \in Memory : old = memory
    BY DEF RetryInv
  <2>1. HeldWith(old, k, e, StageUpsert(old, k, e))
    BY <1>4, UpsertHeld, Zenon
  <2> QED
    BY <2>1, MemoryTyped DEF HeldWith
<1> PICK q, r : q = PutFrame(f) /\ r = SupersedeFrame(id, new)
  OBVIOUS
<1> PICK ns, mid : ns = Append(ms, q) /\ mid = Preview(now, q)
  OBVIOUS
<1>6. /\ q \in Mutation /\ r \in Mutation /\ Good(fs, ns) /\ mid = View(fs, ns)
  <2>1. q \in Mutation /\ Links(View(fs, ms), q)
    BY <1>3, PutMutation
  <2>2. id \in Nat /\ new \in Nat
    BY <1>1, <1>2
  <2> QED
    BY <1>1, <2>1, <2>2, GoodAppend, SupersedeMutation, ViewAppend
<1>7. /\ mid \in Seq(Frame) /\ Len(mid) = new /\ id \in DOMAIN mid /\ new \in DOMAIN mid
      /\ Holds(mid, new, k)
  <2>1. f \in Frame
    BY <1>3, NewFrameTyped
  <2>2. /\ mid \in Seq(Frame) /\ Len(mid) = Len(now) + 1 /\ mid[Len(now) + 1] = f
    BY <1>1, <2>1, PuttingFrame
  <2> QED
    BY <1>1, <1>2, <1>3, <2>2 DEF Holds
<1>8. ASSUME Settled
      PROVE  Matched(fs, Append(ns, r), docs, vecs, Held(m), map)
  <2>1. Matched(fs, ms, docs, vecs, held, map)
    BY <1>8 DEF IndexInv
  <2> PICK d, then : d = [held EXCEPT ![k] = Entry(new, None, FALSE)] /\ then = Held(m)
    OBVIOUS
  <2>2. Adds(now, f, held, d)
    BY <1>1, <1>3, <1>5 DEF Adds, Entries
  <2>3. PutLeaves(View(fs, ms), f, docs, docs, vecs, vecs, held, d)
    BY <1>1, <1>3, <2>2 DEF PutLeaves, Internal
  <2>4. Matched(fs, Append(ms, PutFrame(f)), docs, vecs, d, map)
    BY <1>1, <1>3, <2>1, <2>3, PutMatched
  <2>5. Revises(k, new, id, d, then)
    BY <1>5 DEF Revises, Entries
  <2>6. new > Len(fs)
    <3>1. SameChains(fs, now)
      BY <1>1, <2>1 DEF Matched
    <3> QED
      BY <1>1, <3>1 DEF SameChains
  <2>7. Matched(fs, ns, docs, vecs, d, map)
    BY <2>4
  <2>8. Matched(fs, Append(ns, SupersedeFrame(id, new)), docs, vecs, then, map)
    BY <1>2, <1>6, <1>7, <2>5, <2>6, <2>7, RevisionMatched
  <2> QED
    BY <2>8
<1> DEFINE state == [n \in 0 .. 2 |-> IF n = 2 THEN [Unstaged EXCEPT !.memory = m] ELSE Unstaged]
<1>9. PICK up : Call(<<q, r>>, state, up)
  BY DEF UpdateFactById
<1>10. state[2].memory = m /\ state[2].docs = docs /\ state[2].vecs = vecs
  <2> PICK old, v : old = memory /\ v = [Unstaged EXCEPT !.memory = m]
    OBVIOUS
  <2>1. Unstaged = [memory |-> old, docs |-> docs, vecs |-> vecs]
    BY DEF Unstaged, Staged
  <2>2. v.memory = m /\ v.docs = docs /\ v.vecs = vecs
    BY <2>1
  <2>3. state[2] = v
    OBVIOUS
  <2> QED
    BY <2>2, <2>3
<1> HIDE DEF state
<1>11. Len(<<q, r>>) = 2 /\ ms \o SubSeq(<<q, r>>, 1, 2) = Append(ns, r)
  BY <1>1, <1>6, AppendsOfTwo
<1> PICK records : records = <<q, r>>
  OBVIOUS
<1>12. CallMatches(records, state)
  <2>1. Len(records) = 2 /\ pending \o SubSeq(records, 1, Len(records)) = Append(ns, r)
    BY <1>11
  <2>2. /\ state[Len(records)].docs = docs /\ state[Len(records)].vecs = vecs
        /\ Held(state[Len(records)].memory) = Held(m)
    BY <1>10, <2>1
  <2>3. Settled => Matched(frames, pending \o SubSeq(records, 1, Len(records)),
                          state[Len(records)].docs, state[Len(records)].vecs,
                          Held(state[Len(records)].memory), surrogates)
    BY <1>8, <2>1, <2>2
  <2> QED
    BY <2>1, <2>3 DEF CallMatches
<1> QED
  BY <1>9, <1>12, CallIndex

-----------------------------------------------------------------------------
(* The other steps.                                                         *)

LEMMA IndexInit == Init => IndexInv
<1> SUFFICES ASSUME Init
             PROVE  IndexInv
  OBVIOUS
<1> PICK fs, ms, docs, vecs, held, map :
      fs = <<>> /\ ms = <<>> /\ docs = {} /\ vecs = <<>> /\ held = NoEntries /\ map = <<>>
  OBVIOUS
<1>1. fs \in Seq(Frame) /\ Len(fs) = 0 /\ DOMAIN fs = {} /\ DOMAIN map = {}
  OBVIOUS
<1>2. View(fs, ms) = fs
  BY <1>1, ViewNone
<1>3. Searched(fs, docs, vecs)
  BY <1>1 DEF Searched, Indexed
<1>4. Tells(fs, held)
  <2>1. NoEntry.id = None /\ EntryAt(fs, None) = NoEntry
    BY DEF NoEntry, Entry, EntryAt
  <2>2. \A k \in Key : held[k] = NoEntry
    BY DEF NoEntries
  <2>3. \A k \in Key : Newest(fs, 0, k, None)
    BY DEF Newest
  <2> QED
    BY <1>1, <2>1, <2>2, <2>3 DEF Tells, Told
<1>5. Leads(fs, map) /\ SameChains(fs, fs)
  BY <1>1, SameChainsItself DEF Leads
<1>6. Matched(fs, ms, docs, vecs, held, map)
  BY <1>2, <1>3, <1>4, <1>5 DEF Matched
<1>7. frames = fs /\ pending = ms /\ surrogates = map /\ memory = Empty
  BY DEF Init
<1>8. text = [docs |-> docs, staged |-> docs] /\ vectors = [docs |-> vecs, staged |-> vecs]
  BY DEF Init
<1>9. text.docs = docs /\ text.staged = docs /\ vectors.staged = vecs
  BY <1>8
<1> QED
  BY <1>6, <1>7, <1>8, <1>9, EmptyTyped DEF IndexInv

LEMMA HandoffIndex ==
  LiveSetInv /\ RetryInv /\ VectorInv /\ IndexInv /\ RememberHandoff => IndexInv'
<1> SUFFICES ASSUME LiveSetInv, RetryInv, VectorInv, IndexInv, RememberHandoff
             PROVE  IndexInv'
  OBVIOUS
<1> PICK f : f = Body("handoff", None, None)
  OBVIOUS
<1> PICK fs, ns, now, m, r : fs = frames /\ ns = pending /\ now = Now /\ m = memory
                             /\ r = PutFrame(f)
  OBVIOUS
<1> PICK published, docs, vecs, map, ms, more :
      /\ published = text.docs /\ docs = text.staged /\ vecs = vectors.staged
      /\ map = surrogates /\ ms = Append(ns, r) /\ more = text.staged \cup {NextId}
  OBVIOUS
<1>1. f \in NewFrame /\ f.kind = "handoff"
  <2>1. "handoff" \in Kinds /\ None \in Link
    BY DEF Kinds, Link
  <2> QED
    BY <2>1, BodyTyped
<1>2. /\ Good(fs, ns) /\ Orderly(fs, ns) /\ now = View(fs, ns) /\ now \in Seq(Frame)
      /\ m \in Memory /\ Ordered(now) /\ NextId = Len(now) + 1
  BY NowRetry DEF RetryInv, Now, NextId
<1>3. r \in Mutation /\ Links(now, r) /\ Ordered(Preview(now, r))
  BY <1>1, <1>2, PutFits
<1>4. Good(fs, ms) /\ Orderly(fs, ms)
  <2>1. Links(View(fs, ns), r) /\ Ordered(Preview(View(fs, ns), r))
    BY <1>2, <1>3
  <2> QED
    BY <1>2, <1>3, <2>1, GoodAppend, RingAppend
<1>5. ASSUME Settled
      PROVE  Matched(fs, ms, more, vecs, Held(m), map)
  <2> PICK held : held = Held(m)
    OBVIOUS
  <2>1. Matched(fs, ns, docs, vecs, held, map)
    BY <1>5 DEF IndexInv
  <2>2. PutLeaves(View(fs, ns), f, docs, more, vecs, vecs, held, held)
    BY <1>1, <1>2 DEF PutLeaves, Internal, Adds
  <2>3. Matched(fs, Append(ns, PutFrame(f)), more, vecs, held, map)
    BY <1>1, <1>2, <2>1, <2>2, PutMatched
  <2> QED
    BY <2>3
<1>6. Settled' => Settled
  BY DEF RememberHandoff, Settled
<1>7. memory' = m /\ vectors'.staged = vecs /\ surrogates' = map
  BY DEF RememberHandoff
<1>8. CASE frames' = View(fs, ms) /\ pending' = <<>> /\ text' = [docs |-> more, staged |-> more]
  <2> PICK gs, os, held : gs = View(fs, ms) /\ os = <<>> /\ held = Held(m)
    OBVIOUS
  <2>1. ASSUME Settled
        PROVE  Matched(gs, os, more, vecs, held, map)
    <3>1. Matched(fs, ms, more, vecs, held, map)
      BY <1>5, <2>1
    <3>2. Matched(View(fs, ms), <<>>, more, vecs, held, map)
      BY <1>4, <3>1, CommitMatched
    <3> QED
      BY <3>2
  <2>2. Settled' => Matched(gs, os, more, vecs, Held(m), map)
    BY <1>6, <2>1
  <2>3. frames' = gs /\ pending' = os
    BY <1>8
  <2> QED
    BY <1>7, <1>8, <2>2, <2>3, IndexAfter
<1>9. CASE frames' = fs /\ pending' = ms /\ text' = [text EXCEPT !.staged = more]
  <2>1. Settled' => Matched(fs, ms, more, vecs, Held(m), map)
    BY <1>5, <1>6
  <2>2. text' = [docs |-> published, staged |-> more]
    <3>1. text = [docs |-> published, staged |-> docs]
      BY DEF IndexInv
    <3> QED
      BY <1>9, <3>1
  <2> QED
    BY <1>7, <1>9, <2>1, <2>2, IndexAfter
<1> QED
  BY <1>8, <1>9 DEF RememberHandoff

\* What the process searches does not change, nor what is said of facts.
LEMMA UnchangedIndex ==
  ASSUME IndexInv, UNCHANGED <<frames, pending, text, vectors, surrogates>>,
         Settled' => Settled /\ Held(memory') = Held(memory)
  PROVE  IndexInv'
<1> PICK fs, ms, published, docs, vecs, m, map :
      /\ fs = frames /\ ms = pending /\ published = text.docs /\ docs = text.staged
      /\ vecs = vectors.staged /\ m = memory' /\ map = surrogates
  OBVIOUS
<1>1. Settled' => Matched(fs, ms, docs, vecs, Held(m), map)
  BY DEF IndexInv
<1>2. text' = [docs |-> published, staged |-> docs]
  BY DEF IndexInv
<1> QED
  BY <1>1, <1>2, IndexAfter

LEMMA FlushFailsIndex == RetryInv /\ IndexInv /\ FlushFails => IndexInv'
<1> SUFFICES ASSUME RetryInv, IndexInv, FlushFails
             PROVE  IndexInv'
  OBVIOUS
<1>1. Held(memory') = Held(memory)
  <2> PICK old \in Memory : old = memory
    BY DEF RetryInv
  <2>1. memory' = [old EXCEPT !.visible = FALSE]
    BY DEF FlushFails
  <2> QED
    BY <2>1, HideTyped
<1>2. Settled' => Settled
  BY DEF FlushFails, Settled
<1>3. UNCHANGED <<frames, pending, text, vectors, surrogates>>
  BY DEF FlushFails
<1> QED
  BY <1>1, <1>2, <1>3, UnchangedIndex

LEMMA FlushRebuildsIndex == LiveSetInv /\ RetryInv /\ FlushRebuilds => IndexInv'
<1> SUFFICES ASSUME LiveSetInv, RetryInv, FlushRebuilds
             PROVE  IndexInv'
  OBVIOUS
<1> PICK fs, ms, e : fs = Now /\ ms = <<>> /\ e = embedder
  OBVIOUS
<1>1. fs \in Seq(Frame) /\ frames' = fs /\ pending' = ms
  BY NowRetry DEF FlushRebuilds
<1>2. CASE Rebuilt(fs, e)
  BY <1>1, <1>2, RebuiltIndex
<1>3. CASE RebuiltPartly(fs, e) /\ Mark({"partial"})
  <2> PICK up : up = {"partial"}
    OBVIOUS
  <2>1. Mark(up) /\ up \cap Unsettling # {}
    BY <1>3 DEF Unsettling
  <2>2. ~Settled'
    BY <2>1, MarkSettled
  <2> QED
    BY <1>3, <2>2, RebuiltPartlyIndex
<1> QED
  BY <1>2, <1>3 DEF FlushRebuilds

LEMMA OptimizeIndex ==
  ASSUME LiveSetInv, IndexInv, NEW overwrite, OptimizeSurrogates(overwrite)
  PROVE  IndexInv'
<1> PICK all : all = Work(overwrite)
  OBVIOUS
<1>0. frames \in Seq(Frame)
  BY GoodTyped DEF LiveSetInv
<1>1. all \in Seq(DOMAIN frames)
  BY <1>0, WorkTyped
<1> PICK n, work, s :
      /\ n \in 1 .. Len(all)
      /\ work = SubSeq(all, 1, n)
      /\ s = Progress(work)[n]
      /\ \/ /\ frames' = View(s.frames, s.pending) /\ pending' = <<>>
            /\ \/ Rebuilt(frames', embedder)
               \/ /\ RebuiltPartly(frames', embedder)
                  /\ Mark(Conflicts(work) \cup {"partial"})
         \/ /\ Mark(Conflicts(work) \cup {"failed"})
            /\ UNCHANGED runtime
         \/ \E k : Start(s.frames, SubSeq(s.pending, 1, k), TRUE)
  BY DEF OptimizeSurrogates
<1>2. work \in Seq(DOMAIN frames) /\ n \in 1 .. Len(work)
  BY <1>1
<1>3. s \in Reached(frames)
  <2> PICK w, i : w = work /\ i = n
    OBVIOUS
  <2>1. LET t == Progress(w)[i] IN t \in Reached(frames) /\ AllButLast(t) /\ Len(t.pending) >= 2
    BY <1>2, ProgressReached
  <2> QED
    BY <2>1
<1> PICK fs, ns : fs = s.frames /\ ns = s.pending
  OBVIOUS
<1>4. fs \in Seq(Frame) /\ View(fs, ns) \in Seq(Frame)
  <2>1. Good(s.frames, s.pending)
    BY <1>3, Zenon DEF Reached
  <2>2. Good(fs, ns)
    BY <2>1
  <2> QED
    BY <2>2, GoodTyped
<1>5. CASE /\ frames' = View(fs, ns) /\ pending' = <<>>
           /\ Rebuilt(frames', embedder)
  <2> PICK gs, ms, e : gs = View(fs, ns) /\ ms = <<>> /\ e = embedder
    OBVIOUS
  <2>1. gs \in Seq(Frame) /\ frames' = gs /\ pending' = ms
    BY <1>4, <1>5
  <2>2. Rebuilt(gs, e)
    BY <1>5, <2>1
  <2> QED
    BY <2>1, <2>2, RebuiltIndex
<1>6. CASE /\ RebuiltPartly(frames', embedder)
           /\ Mark(Conflicts(work) \cup {"partial"})
  <2> PICK up, gs, e : up = Conflicts(work) \cup {"partial"} /\ gs = frames' /\ e = embedder
    OBVIOUS
  <2>1. Mark(up) /\ up \cap Unsettling # {}
    BY <1>6 DEF Unsettling
  <2>2. ~Settled'
    BY <2>1, MarkSettled
  <2> QED
    BY <1>6, <2>2, RebuiltPartlyIndex
<1>7. CASE Mark(Conflicts(work) \cup {"failed"}) /\ UNCHANGED runtime
  <2> PICK up : up = Conflicts(work) \cup {"failed"}
    OBVIOUS
  <2>1. Mark(up) /\ up \cap Unsettling # {}
    BY <1>7 DEF Unsettling
  <2>2. ~Settled'
    BY <2>1, MarkSettled
  <2>3. text' = text
    BY <1>7 DEF runtime
  <2> QED
    BY <2>2, <2>3 DEF IndexInv
<1>8. CASE \E k : Start(fs, SubSeq(ns, 1, k), TRUE)
  <2> PICK k : Start(fs, SubSeq(ns, 1, k), TRUE)
    BY <1>8
  <2> PICK ms, past : ms = SubSeq(ns, 1, k) /\ past = TRUE
    OBVIOUS
  <2>1. Start(fs, ms, past)
    OBVIOUS
  <2> QED
    BY <1>4, <2>1, StartIndex
<1> QED
  BY <1>5, <1>6, <1>7, <1>8

\* A process that finds the file as it is, or as a commit leaves it.
LEMMA OnlyStartIndex ==
  ASSUME LiveSetInv, RetryInv, Start(frames, pending, FALSE) \/ Start(Now, <<>>, FALSE)
  PROVE  IndexInv'
<1> PICK past : past = FALSE
  OBVIOUS
<1>1. CASE Start(frames, pending, FALSE)
  <2> PICK fs, ms : fs = frames /\ ms = pending
    OBVIOUS
  <2>1. fs \in Seq(Frame) /\ Start(fs, ms, past)
    BY <1>1, GoodTyped, NowRetry
  <2> QED
    BY <2>1, StartIndex
<1>2. CASE Start(Now, <<>>, FALSE)
  <2> PICK fs, ms : fs = Now /\ ms = <<>>
    OBVIOUS
  <2>1. fs \in Seq(Frame) /\ Start(fs, ms, past)
    BY <1>2, NowRetry
  <2> QED
    BY <2>1, StartIndex
<1> QED
  BY <1>1, <1>2

LEMMA IndexStep ==
  LiveSetInv /\ RetryInv /\ VectorInv /\ IndexInv /\ [Next]_vars => IndexInv'
<1> SUFFICES ASSUME LiveSetInv, RetryInv, VectorInv, IndexInv, [Next]_vars
             PROVE  IndexInv'
  OBVIOUS
<1>1. CASE Remember
  BY <1>1, RememberIndex
<1>2. CASE \E k \in Key : RememberFact(k)
  BY <1>2, RememberFactIndex
<1>3. CASE \E id \in DOMAIN Now : UpdateFactById(id)
  BY <1>3, UpdateIndex
<1>4. CASE Flush
  BY <1>4, CommitIndex DEF Flush
<1>5. CASE FlushRebuilds
  BY <1>5, FlushRebuildsIndex
<1>6. CASE CompactIndexes
  BY <1>6, CommitIndex DEF CompactIndexes
<1>7. CASE RememberHandoff
  BY <1>7, HandoffIndex
<1>8. CASE \E overwrite \in Overwrite : OptimizeSurrogates(overwrite)
  BY <1>8, OptimizeIndex
<1>9. CASE Close
  BY <1>9, OnlyStartIndex DEF Close
<1>10. CASE ProcessDies
  BY <1>10, OnlyStartIndex DEF ProcessDies
<1>11. CASE DiesRewriting
  BY <1>11, OnlyStartIndex DEF DiesRewriting
<1>12. CASE FlushFails
  BY <1>12, FlushFailsIndex
<1>13. CASE UNCHANGED vars
  <2>1. /\ UNCHANGED <<frames, pending, text, vectors, surrogates>>
        /\ memory' = memory /\ upsets' = upsets
    BY <1>13 DEF vars, runtime
  <2>2. Settled' => Settled
    BY <2>1 DEF Settled
  <2> QED
    BY <2>1, <2>2, UnchangedIndex
<1> QED
  BY <1>1, <1>2, <1>3, <1>4, <1>5, <1>6, <1>7, <1>8, <1>9, <1>10, <1>11, <1>12, <1>13 DEF Next

\* What is said of a key is said once.
LEMMA TellsOnce ==
  ASSUME NEW fs \in Seq(Frame), NEW one \in Entries, NEW other \in Entries,
         Tells(fs, one), Tells(fs, other)
  PROVE  one = other
<1>1. ASSUME NEW k \in Key
      PROVE  one[k] = other[k]
  <2> PICK x, y : x = one[k].id /\ y = other[k].id
    OBVIOUS
  <2>1. Newest(fs, Len(fs), k, x) /\ Newest(fs, Len(fs), k, y)
    BY DEF Tells, Told
  <2>2. x = y
    BY <2>1 DEF Newest
  <2>3. one[k] = EntryAt(fs, x) /\ other[k] = EntryAt(fs, y)
    BY DEF Tells, Told
  <2> QED
    BY <2>2, <2>3
<1> QED
  BY <1>1 DEF Entries

\* Whatever was put, updated, made a surrogate of, committed, or lost with the process,
\* in any order: when nothing is pending and no call threw half-way, the documents, the
\* vectors, the facts and the surrogate map of the process are those that the next one
\* would build from the file (RebuildRuntimeStateFromStore).  Commits that publish
\* only one of the three indexes, rewrites and rebuilds make no difference to that.
THEOREM IndexesStayInStep == Spec => []IndexesMatchStore
<1>1. ASSUME LiveSetInv, RetryInv, VectorInv, IndexInv
      PROVE  IndexesMatchStore
  <2> SUFFICES ASSUME Quiet, Settled
               PROVE  /\ text.docs = Indexed(frames)
                      /\ \A i \in Indexed(frames) \ DOMAIN vectors.docs :
                           frames[i].kind = "handoff"
                      /\ memory.entries = Replay(frames).entries
                      /\ \A r \in DOMAIN surrogates :
                           Live(frames[surrogates[r]]) => Root(frames, surrogates[r]) = r
    BY DEF IndexesMatchStore, Settled, Unsettling
  <2> PICK fs, ms, m : fs = frames /\ ms = <<>> /\ m = memory
    OBVIOUS
  <2>1. /\ pending = ms /\ ~m.staging
        /\ text.staged = text.docs /\ vectors.staged = vectors.docs
    BY DEF Quiet
  <2>2. fs \in Seq(Frame) /\ m \in Memory
    <3>1. Good(frames, pending) /\ memory \in Memory
      BY <1>1 DEF LiveSetInv, RetryInv
    <3> QED
      BY <3>1, GoodTyped
  <2>3. View(fs, ms) = fs
    BY <2>2, ViewNone
  <2>4. Matched(fs, ms, text.docs, vectors.docs, Held(m), surrogates)
    <3>1. Matched(frames, pending, text.staged, vectors.staged, Held(memory), surrogates)
      BY <1>1 DEF IndexInv
    <3> QED
      BY <2>1, <3>1
  <2>5. Searched(fs, text.docs, vectors.docs) /\ Tells(fs, Held(m)) /\ Leads(fs, surrogates)
    BY <2>3, <2>4 DEF Matched
  <2>6. memory.entries = Replay(frames).entries
    <3> PICK one, other : one = Held(m) /\ other = Replay(fs).entries
      OBVIOUS
    <3>1. one \in Entries /\ one = m.entries
      BY <2>1, <2>2, MemoryTyped DEF Held
    <3>2. other \in Entries
      BY <2>2, ReplayTyped, MemoryTyped
    <3>3. Tells(fs, other)
      BY <2>2, ReplayTold DEF Tells
    <3>4. Tells(fs, one)
      BY <2>5
    <3>5. one = other
      BY <2>2, <3>1, <3>2, <3>3, <3>4, TellsOnce
    <3> QED
      BY <3>1, <3>5
  <2> QED
    BY <2>5, <2>6 DEF Searched, Leads
<1> QED
  BY <1>1, LiveSetInit, LiveSetStep, RetryInit, RetryStep, VectorInit, VectorStep, IndexInit,
     IndexStep, PTL DEF Spec
===============================================================================
