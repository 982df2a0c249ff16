---------------------------- MODULE IngestProofs ----------------------------
(***************************************************************************)
(* Proofs about Ingest, for any texts, embedders, environments, threads,   *)
(* retries and sizes of the cache.                                         *)
(***************************************************************************)
EXTENDS Ingest, SetInduction, FiniteSetTheorems

-----------------------------------------------------------------------------
(* Chunks are sequences.                                                    *)

LEMMA MinOfTwo ==
  ASSUME NEW a \in Int, NEW b \in Int
  PROVE  Min({a, b}) \in {a, b} /\ Min({a, b}) <= a /\ Min({a, b}) <= b
<1>1. \E x \in {a, b} : \A y \in {a, b} : x <= y
  BY SMT
<1> QED
  BY <1>1 DEF Min

LEMMA MaxOfTwo ==
  ASSUME NEW a \in Int, NEW b \in Int
  PROVE  Max({a, b}) \in {a, b} /\ Max({a, b}) >= a /\ Max({a, b}) >= b
<1>1. \E x \in {a, b} : \A y \in {a, b} : x >= y
  BY SMT
<1> QED
  BY <1>1 DEF Max

\* The equation of the recursion in Without, as far as n.
Keeps(f, s, x, n) ==
  f = [i \in 0 .. n |->
        IF i = 0 THEN <<>> ELSE IF s[i] = x THEN f[i - 1] ELSE Append(f[i - 1], s[i])]

LEMMA KeepsAt ==
  ASSUME NEW f, NEW s, NEW x, NEW n \in Nat, Keeps(f, s, x, n), NEW i \in 0 .. n
  PROVE  f[i] = IF i = 0 THEN <<>>
                ELSE IF s[i] = x THEN f[i - 1] ELSE Append(f[i - 1], s[i])
<1> DEFINE g == [j \in 0 .. n |->
                  IF j = 0 THEN <<>> ELSE IF s[j] = x THEN f[j - 1] ELSE Append(f[j - 1], s[j])]
<1>1. f = g
  BY Zenon DEF Keeps
<1>2. g[i] = IF i = 0 THEN <<>>
             ELSE IF s[i] = x THEN f[i - 1] ELSE Append(f[i - 1], s[i])
  OBVIOUS
<1> HIDE DEF g
<1> QED
  BY <1>1, <1>2

LEMMA KeepsExist ==
  ASSUME NEW s, NEW x, NEW n \in Nat
  PROVE  \E f : Keeps(f, s, x, n)
<1> DEFINE S == {k \in Nat : \E f : Keeps(f, s, x, k)}
<1>1. 0 \in S
  <2> DEFINE f == [i \in 0 .. 0 |-> <<>>]
  <2>1. Keeps(f, s, x, 0)
    BY DEF Keeps
  <2> QED
    BY <2>1
<1>2. ASSUME NEW k \in Nat, k \in S
      PROVE  k + 1 \in S
  <2>1. PICK f : Keeps(f, s, x, k)
    BY <1>2
  <2> DEFINE new == IF s[k + 1] = x THEN f[k] ELSE Append(f[k], s[k + 1])
             g == [i \in 0 .. k + 1 |-> IF i <= k THEN f[i] ELSE new]
  <2>2. \A i \in 0 .. k + 1 :
          g[i] = IF i = 0 THEN <<>>
                 ELSE IF s[i] = x THEN g[i - 1] ELSE Append(g[i - 1], s[i])
    <3> TAKE i \in 0 .. k + 1
    <3>1. CASE i = 0
      BY <2>1, <3>1 DEF Keeps
    <3>2. CASE i \in 1 .. k
      <4>1. f[i] = IF s[i] = x THEN f[i - 1] ELSE Append(f[i - 1], s[i])
        <5>1. i \in 0 .. k /\ i # 0
          BY <3>2
        <5> QED
          BY <2>1, <5>1, KeepsAt
      <4>2. g[i] = f[i] /\ g[i - 1] = f[i - 1]
        BY <3>2
      <4> QED
        BY <3>2, <4>1, <4>2
    <3>3. CASE i = k + 1
      <4>1. g[i] = new /\ g[i - 1] = f[k]
        BY <3>3
      <4> QED
        BY <3>3, <4>1
    <3> QED
      BY <3>1, <3>2, <3>3
  <2>3. Keeps(g, s, x, k + 1)
    <3>1. g = [i \in 0 .. k + 1 |-> g[i]]
      OBVIOUS
    <3> HIDE DEF g
    <3> QED
      BY <2>2, <3>1 DEF Keeps
  <2> QED
    BY <2>3
<1>3. Nat \subseteq S
  <2> HIDE DEF S
  <2> QED
    BY <1>1, <1>2, SetInduction
<1> QED
  BY <1>3

\* What is kept of a sequence are elements of it.
LEMMA WithoutTyped ==
  ASSUME NEW T, NEW s \in Seq(T), NEW x
  PROVE  Without(s, x) \in Seq(T)
<1> DEFINE f == CHOOSE f : Keeps(f, s, x, Len(s))
           S == {k \in Nat : k <= Len(s) => f[k] \in Seq(T)}
<1>1. Keeps(f, s, x, Len(s))
  BY KeepsExist
<1>2. Without(s, x) = f[Len(s)]
  BY DEF Without, Keeps
<1> HIDE DEF f
<1>3. 0 \in S
  BY <1>1 DEF Keeps
<1>4. ASSUME NEW k \in Nat, k \in S
      PROVE  k + 1 \in S
  <2> SUFFICES ASSUME k + 1 <= Len(s)
               PROVE  f[k + 1] \in Seq(T)
    OBVIOUS
  <2>1. f[k + 1] = IF s[k + 1] = x THEN f[k] ELSE Append(f[k], s[k + 1])
    <3>1. k + 1 \in 0 .. Len(s) /\ k + 1 # 0 /\ (k + 1) - 1 = k /\ Len(s) \in Nat
      OBVIOUS
    <3>2. f[k + 1] = IF k + 1 = 0 THEN <<>>
                     ELSE IF s[k + 1] = x THEN f[(k + 1) - 1] ELSE Append(f[(k + 1) - 1], s[k + 1])
      BY <1>1, <3>1, KeepsAt
    <3> QED
      BY <3>1, <3>2
  <2>2. f[k] \in Seq(T) /\ s[k + 1] \in T
    BY <1>4
  <2> QED
    BY <2>1, <2>2
<1>5. Nat \subseteq S
  <2> HIDE DEF S
  <2> QED
    BY <1>3, <1>4, SetInduction
<1> QED
  BY <1>2, <1>5

\* One step of the recursion in ComputeRanges, and its equation from low on; end and
\* next are where a range that starts at a place ends, and where the next starts.
RangesFrom(f, end, next, count, start) ==
  <<<<start, end[start]>>>> \o IF end[start] = count THEN <<>> ELSE f[next[start]]

Follows(f, end, next, low, count) ==
  f = [start \in low .. count |-> RangesFrom(f, end, next, count, start)]

LEMMA FollowsAt ==
  ASSUME NEW f, NEW end, NEW next, NEW low, NEW count, Follows(f, end, next, low, count),
         NEW start \in low .. count
  PROVE  f[start] = RangesFrom(f, end, next, count, start)
<1> DEFINE g == [i \in low .. count |-> RangesFrom(f, end, next, count, i)]
<1>1. f = g
  BY Zenon DEF Follows
<1>2. g[start] = RangesFrom(f, end, next, count, start)
  OBVIOUS
<1> HIDE DEF g
<1> QED
  BY <1>1, <1>2

\* Each range starts behind the start of the one before: the recursion ends.
LEMMA FollowsExist ==
  ASSUME NEW count \in Nat, NEW end, NEW next,
         \A start \in 0 .. count : end[start] # count => next[start] \in start + 1 .. count
  PROVE  \E f : Follows(f, end, next, 0, count)
<1> DEFINE S == {k \in Nat : k <= count => \E f : Follows(f, end, next, count - k, count)}
           Body(f, i) == RangesFrom(f, end, next, count, i)
<1>1. 0 \in S
  <2> DEFINE f == [i \in count .. count |-> <<<<i, end[i]>>>> \o <<>>]
  <2>1. end[count] = count
    OBVIOUS
  <2>2. f = [i \in count .. count |-> Body(f, i)]
    BY <2>1 DEF RangesFrom
  <2>3. Follows(f, end, next, count - 0, count)
    BY <2>2 DEF Follows
  <2> QED
    BY <2>3
<1>2. ASSUME NEW k \in Nat, k \in S
      PROVE  k + 1 \in S
  <2> SUFFICES ASSUME k + 1 <= count
               PROVE  \E g : Follows(g, end, next, count - (k + 1), count)
    OBVIOUS
  <2>1. PICK f : Follows(f, end, next, count - k, count)
    BY <1>2
  <2> DEFINE low == count - (k + 1)
             g == [i \in low .. count |-> IF i = low THEN Body(f, low) ELSE f[i]]
  <2>2. low \in 0 .. count /\ count - k = low + 1
    OBVIOUS
  <2> HIDE DEF low
  <2>3. ASSUME NEW i \in low + 1 .. count
        PROVE  g[i] = f[i]
    BY <2>2
  <2>4. ASSUME NEW i \in low .. count
        PROVE  g[i] = Body(g, i)
    <3>1. Body(f, i) = Body(g, i)
      <4>1. CASE end[i] = count
        BY <4>1 DEF RangesFrom
      <4>2. CASE end[i] # count
        <5>1. next[i] \in low + 1 .. count
          BY <2>2, <4>2
        <5> HIDE DEF g
        <5> QED
          BY <2>3, <5>1 DEF RangesFrom
      <4> QED
        BY <4>1, <4>2
    <3>2. CASE i = low
      BY <3>1, <3>2, <2>2
    <3>3. CASE i # low
      <4>1. i \in low + 1 .. count
        BY <2>2, <3>3
      <4>2. f[i] = Body(f, i)
        BY <2>1, <2>2, <4>1, FollowsAt
      <4> QED
        BY <2>3, <3>1, <4>1, <4>2
    <3> QED
      BY <3>2, <3>3
  <2>5. Follows(g, end, next, low, count)
    <3>1. g = [i \in low .. count |-> g[i]]
      OBVIOUS
    <3> HIDE DEF g
    <3> QED
      BY <2>4, <3>1 DEF Follows
  <2> QED
    BY <2>5 DEF low
<1>3. Nat \subseteq S
  <2> HIDE DEF S
  <2> QED
    BY <1>1, <1>2, SetInduction
<1> QED
  BY <1>3

\* The ranges are a sequence of pairs, and there is one if there are tokens.
LEMMA FollowsTyped ==
  ASSUME NEW count \in Nat, NEW end \in [0 .. count -> Int], NEW next, NEW f,
         Follows(f, end, next, 0, count),
         \A start \in 0 .. count : end[start] # count => next[start] \in start + 1 .. count
  PROVE  f[0] \in Seq(Int \X Int)
<1> DEFINE S == {k \in Nat : \A i \in 0 .. count : i >= count - k => f[i] \in Seq(Int \X Int)}
<1>1. ASSUME NEW i \in 0 .. count,
             end[i] # count => f[next[i]] \in Seq(Int \X Int)
      PROVE  f[i] \in Seq(Int \X Int)
  <2>1. f[i] = RangesFrom(f, end, next, count, i)
    BY FollowsAt
  <2>2. <<<<i, end[i]>>>> \in Seq(Int \X Int)
    OBVIOUS
  <2>3. (IF end[i] = count THEN <<>> ELSE f[next[i]]) \in Seq(Int \X Int)
    BY <1>1
  <2> QED
    BY <2>1, <2>2, <2>3 DEF RangesFrom
<1>2. 0 \in S
  BY <1>1
<1>3. ASSUME NEW k \in Nat, k \in S
      PROVE  k + 1 \in S
  <2> SUFFICES ASSUME NEW i \in 0 .. count, i >= count - (k + 1)
               PROVE  f[i] \in Seq(Int \X Int)
    OBVIOUS
  <2>1. end[i] # count => next[i] \in 0 .. count /\ next[i] >= count - k
    OBVIOUS
  <2> QED
    BY <1>1, <1>3, <2>1
<1>4. Nat \subseteq S
  <2> HIDE DEF S
  <2> QED
    BY <1>2, <1>3, SetInduction
<1>5. count \in S
  <2> HIDE DEF S
  <2> QED
    BY <1>4
<1>6. 0 \in 0 .. count /\ 0 >= count - count
  OBVIOUS
<1> QED
  BY <1>5, <1>6

LEMMA RangesTyped ==
  ASSUME NEW count \in Nat, NEW target \in Int, NEW overlap \in Int
  PROVE  ComputeRanges(count, target, overlap) \in Seq(Int \X Int)
<1> DEFINE size == Max({1, target})
           End(start) == Min({start + size, count})
           Proposed(start) == End(start) - Max({0, overlap})
           Next0(start) == IF Proposed(start) > start THEN Proposed(start) ELSE End(start)
           end == [start \in 0 .. count |-> End(start)]
           next == [start \in 0 .. count |-> Next0(start)]
           f == CHOOSE f : Follows(f, end, next, 0, count)
<1>1. size \in Int /\ size >= 1
  BY MaxOfTwo
<1>2. Max({0, overlap}) \in Int /\ Max({0, overlap}) >= 0
  <2>1. 0 \in Int
    OBVIOUS
  <2>2. Max({0, overlap}) \in {0, overlap} /\ Max({0, overlap}) >= 0
    BY <2>1, MaxOfTwo, Zenon
  <2> QED
    BY <2>2
<1> HIDE DEF size
<1>3. ASSUME NEW start \in 0 .. count
      PROVE  End(start) \in {start + size, count} /\ End(start) <= start + size /\ End(start) <= count
  <2>1. start + size \in Int /\ count \in Int
    BY <1>1
  <2> QED
    BY <2>1, MinOfTwo, Zenon
<1>4. end \in [0 .. count -> Int]
  BY <1>1, <1>3
<1>5. \A start \in 0 .. count : end[start] # count => next[start] \in start + 1 .. count
  <2> SUFFICES ASSUME NEW start \in 0 .. count, end[start] # count
               PROVE  next[start] \in start + 1 .. count
    OBVIOUS
  <2>1. End(start) = start + size /\ End(start) \in start + 1 .. count
    BY <1>1, <1>3
  <2>2. next[start] = Next0(start)
    OBVIOUS
  <2> HIDE DEF next
  <2> QED
    BY <1>2, <2>1, <2>2
<1>6. Follows(f, end, next, 0, count)
  <2> HIDE DEF end, next
  <2> QED
    BY <1>5, FollowsExist
<1>7. f[0] \in Seq(Int \X Int)
  <2> HIDE DEF end, next, f
  <2> QED
    BY <1>4, <1>5, <1>6, FollowsTyped
<1>8. count > 0 => ComputeRanges(count, target, overlap) = f[0]
  BY DEF ComputeRanges, Follows, RangesFrom, size
<1> QED
  BY <1>7, <1>8 DEF ComputeRanges

IsSeq(s) == s \in Seq(ToSet(s))

LEMMA SeqIsSeq == ASSUME NEW T, NEW s \in Seq(T) PROVE IsSeq(s)
<1>1. \A i \in DOMAIN s : s[i] \in ToSet(s)
  BY DEF ToSet
<1>2. s = [i \in 1 .. Len(s) |-> s[i]] /\ Len(s) \in Nat /\ DOMAIN s = 1 .. Len(s)
  OBVIOUS
<1> QED
  BY <1>1, <1>2 DEF IsSeq

LEMMA IsSeqFacts ==
  ASSUME NEW s, IsSeq(s)
  PROVE  /\ Len(s) \in Nat /\ DOMAIN s = 1 .. Len(s)
         /\ s # <<>> <=> Len(s) > 0
  BY DEF IsSeq

LEMMA IsSeqAppend ==
  ASSUME NEW s, NEW e, IsSeq(s)
  PROVE  /\ IsSeq(Append(s, e))
         /\ Len(Append(s, e)) = Len(s) + 1
         /\ \A i \in 1 .. Len(s) : Append(s, e)[i] = s[i]
         /\ Append(s, e)[Len(s) + 1] = e
<1> DEFINE T == ToSet(s) \cup {e}
<1>1. s \in Seq(T) /\ e \in T
  BY DEF IsSeq
<1> HIDE DEF T
<1>2. Append(s, e) \in Seq(T)
  BY <1>1
<1>3. IsSeq(Append(s, e))
  BY <1>2, SeqIsSeq
<1> QED
  BY <1>1, <1>3

LEMMA IsSeqTail ==
  ASSUME NEW s, IsSeq(s), s # <<>>
  PROVE  /\ IsSeq(Tail(s)) /\ Len(Tail(s)) = Len(s) - 1
         /\ \A i \in 1 .. Len(s) - 1 : Tail(s)[i] = s[i + 1]
         /\ Head(s) = s[1]
<1>1. s \in Seq(ToSet(s)) /\ Tail(s) \in Seq(ToSet(s))
  BY DEF IsSeq
<1>2. IsSeq(Tail(s))
  BY <1>1, SeqIsSeq
<1> QED
  BY <1>1, <1>2

\* A text that is remembered has at least one chunk.
LEMMA ChunksAreSeq ==
  ASSUME NEW text \in Content, NEW vocab, NEW target \in Int, NEW overlap \in Int
  PROVE  IsSeq(Chunk(text, vocab, target, overlap)) /\ Chunk(text, vocab, target, overlap) # <<>>
<1> DEFINE tokens == Tokens(text, vocab)
           ranges == ComputeRanges(Len(tokens), target, overlap)
           Piece(r) == TrimWS(SubSeq(tokens, ranges[r][1] + 1, ranges[r][2]))
           pieces == [r \in DOMAIN ranges |-> Piece(r)]
           P == {Piece(r) : r \in DOMAIN ranges}
<1>1. text \in Seq(ToSet(text))
  BY IngestAssumption
<1>2. tokens \in Seq(ToSet(text))
  BY <1>1, WithoutTyped DEF Tokens
<1>3. ranges \in Seq(Int \X Int)
  <2> HIDE DEF tokens
  <2>1. Len(tokens) \in Nat
    BY <1>2
  <2> QED
    BY <2>1, RangesTyped
<1>4. pieces \in Seq(P)
  <2> HIDE DEF ranges
  <2>1. DOMAIN ranges = 1 .. Len(ranges) /\ Len(ranges) \in Nat
    BY <1>3
  <2>2. \A r \in DOMAIN ranges : pieces[r] \in P
    OBVIOUS
  <2>3. pieces = [r \in 1 .. Len(ranges) |-> pieces[r]]
    BY <2>1
  <2> HIDE DEF pieces, P
  <2> QED
    BY <2>1, <2>2, <2>3
<1>5. Pieces(text, vocab, target, overlap) = Without(pieces, <<>>)
  BY DEF Pieces
<1> HIDE DEF pieces, P
<1>6. Pieces(text, vocab, target, overlap) \in Seq(P)
  BY <1>4, <1>5, WithoutTyped
<1>7. IsSeq(<<text>>) /\ <<text>> # <<>>
  <2>1. <<text>> \in Seq({text})
    OBVIOUS
  <2> QED
    BY <2>1, SeqIsSeq
<1>8. IsSeq(Pieces(text, vocab, target, overlap))
  BY <1>6, SeqIsSeq
<1> QED
  BY <1>7, <1>8 DEF Chunk

-----------------------------------------------------------------------------
(* Vectors and the cache.                                                   *)

\* Where a strict runtime makes fallback vectors.
OnlyCpuArtifacts(env) == env.cuda_preferred /\ env.cuda /\ \A a \in env.manifest : ~a.cuda

Made(v, text, env) ==
  /\ v.of = text
  /\ v.by = "fallback" /\ env.strict => OnlyCpuArtifacts(env)

LEMMA MakersAreStrict ==
  ASSUME NEW env, NEW by \in Makers(env), by # "error", NEW text
  PROVE  Made(Vector(text, by), text, env)
<1>1. Vector(text, by).of = text /\ Vector(text, by).by = by
  BY DEF Vector
<1>2. ASSUME by = "fallback", env.strict
      PROVE  OnlyCpuArtifacts(env)
  <2>1. Fallback(env)
    BY <1>2 DEF Makers
  <2>2. Enabled(env)
    BY <1>2 DEF Enabled
  <2>3. WantsCuda(env) /\ ~AllowsCuda(env)
    <3>1. CASE WantsCuda(env) /\ AllowsCuda(env)
      <4>1. Backend(env) = "libtorch_cuda"
        BY <2>2, <3>1 DEF Backend
      <4> QED
        BY <2>1, <4>1 DEF Fallback
    <3>2. CASE ~WantsCuda(env)
      <4>1. Backend(env) = "libtorch_cpu"
        BY <2>2, <3>2 DEF Backend
      <4> QED
        BY <2>1, <4>1 DEF Fallback
    <3> QED
      BY <3>1, <3>2
  <2> QED
    BY <2>3 DEF WantsCuda, AllowsCuda, CudaArtifacts, OnlyCpuArtifacts
<1> QED
  BY <1>1, <1>2 DEF Made

\* Each vector in a cache is of its text, and the list names no text that is not
\* in the map: an entry that is evicted takes its own vector with it.
Kept(c, env) ==
  /\ c = [memo |-> c.memo, order |-> c.order]
  /\ c.memo = [t \in DOMAIN c.memo |-> c.memo[t]]
  /\ c.order \in Seq(DOMAIN c.memo)
  /\ \A t \in DOMAIN c.memo : Made(c.memo[t], t, env)

LEMMA AppendTyped == ASSUME NEW T, NEW s \in Seq(T), NEW e \in T PROVE Append(s, e) \in Seq(T)
  OBVIOUS

LEMMA PromotedKept ==
  ASSUME NEW c, NEW env, Kept(c, env), NEW text \in DOMAIN c.memo
  PROVE  Kept(Promoted(c, text), env)
<1> DEFINE order == Append(Without(c.order, text), text)
<1>1. order \in Seq(DOMAIN c.memo)
  <2>1. Without(c.order, text) \in Seq(DOMAIN c.memo)
    BY WithoutTyped DEF Kept
  <2> QED
    BY <2>1, AppendTyped
<1>2. Promoted(c, text) = [memo |-> c.memo, order |-> order]
  <2> DEFINE m == c.memo
             o == c.order
  <2>1. c = [memo |-> m, order |-> o]
    BY DEF Kept
  <2>2. Promoted(c, text) = [c EXCEPT !.order = Append(Without(o, text), text)]
    BY DEF Promoted
  <2> HIDE DEF m, o
  <2>3. Promoted(c, text) = [memo |-> m, order |-> Append(Without(o, text), text)]
    BY <2>1, <2>2
  <2> QED
    BY <2>3 DEF m, o
<1> HIDE DEF order
<1> QED
  BY <1>1, <1>2 DEF Kept

LEMMA MemoizedKept ==
  ASSUME NEW c, NEW env, Kept(c, env), NEW text, NEW v, Made(v, text, env)
  PROVE  Kept(Memoized(c, text, v), env)
<1>1. CASE Capacity = 0
  BY <1>1 DEF Memoized
<1>2. CASE Capacity # 0 /\ text \in DOMAIN c.memo
  <2> DEFINE memo == [c.memo EXCEPT ![text] = v]
             d == [memo |-> memo, order |-> c.order]
  <2>1. [c EXCEPT !.memo[text] = v] = d
    BY DEF Kept
  <2>2. DOMAIN memo = DOMAIN c.memo /\ \A t \in DOMAIN c.memo : Made(memo[t], t, env)
    BY <1>2 DEF Kept
  <2>3. memo = [t \in DOMAIN memo |-> memo[t]]
    OBVIOUS
  <2> HIDE DEF memo
  <2>4. Kept(d, env) /\ text \in DOMAIN d.memo
    BY <1>2, <2>2, <2>3 DEF Kept
  <2>5. Memoized(c, text, v) = Promoted(d, text)
    BY <1>2, <2>1 DEF Memoized
  <2> HIDE DEF d
  <2> QED
    BY <2>4, <2>5, PromotedKept
<1>3. CASE Capacity # 0 /\ text \notin DOMAIN c.memo
  <2> DEFINE low == Max({1, Len(c.order) + 2 - Capacity})
             kept == SubSeq(c.order, low, Len(c.order))
             S == ToSet(kept)
             memo == With(Restrict(c.memo, S), text, v)
             order == Append(kept, text)
  <2>1. low \in Nat /\ low >= 1
    <3>1. 1 \in Int /\ Len(c.order) + 2 - Capacity \in Int
      BY IngestAssumption DEF Kept
    <3>2. low \in {1, Len(c.order) + 2 - Capacity} /\ low >= 1
      BY <3>1, MaxOfTwo, Zenon
    <3> QED
      BY <3>1, <3>2
  <2> HIDE DEF low
  <2>2. kept \in Seq(DOMAIN c.memo)
    BY <2>1 DEF Kept
  <2>3. IsSeq(kept)
    BY <2>2, SeqIsSeq
  <2>4. S \subseteq DOMAIN c.memo
    <3> HIDE DEF kept
    <3> QED
      BY <2>2 DEF ToSet
  <2>5. Held(Evicted(c)) = [order |-> kept, memo |-> Restrict(c.memo, S)]
    BY DEF Kept, Held, Evicted, low
  <2>6. Memoized(c, text, v) = [memo |-> memo, order |-> order]
    BY <1>3, <2>5 DEF Memoized
  <2>7. memo = [t \in S \cup {text} |-> IF t = text THEN v ELSE c.memo[t]]
    BY DEF With, Restrict
  <2>8. order \in Seq(S \cup {text})
    <3>1. kept \in Seq(S \cup {text})
      BY <2>3 DEF IsSeq
    <3> HIDE DEF kept, S
    <3> QED
      BY <3>1
  <2>9. \A t \in S \cup {text} : Made(memo[t], t, env)
    BY <2>4, <2>7 DEF Kept
  <2> HIDE DEF memo, order, S, kept
  <2>10. DOMAIN memo = S \cup {text} /\ memo = [t \in DOMAIN memo |-> memo[t]]
    BY <2>7
  <2> QED
    BY <2>6, <2>8, <2>9, <2>10 DEF Kept
<1> QED
  BY <1>1, <1>2, <1>3

-----------------------------------------------------------------------------
(* The invariant.                                                           *)

\* Attempts a job may take.
Bound == IF config.embedder = "llama" THEN MaxRetries + 1 ELSE 1

ConfigInv == config.strategy \in Int \X Int

FramesInv ==
  /\ IsSeq(frames)
  /\ \A i \in DOMAIN frames : Made(frames[i].vector, frames[i].text, config.env)

\* What is known of the vectors in place, where a call is; a pool of the
\* orchestrator has the texts of the call as its jobs.
CallInv ==
  /\ call = [stage |-> call.stage, content |-> call.content, puts |-> call.puts,
             texts |-> call.texts, out |-> call.out]
  /\ call.stage \in {"idle", "embed", "fetch", "memoize", "put"}
  /\ IsSeq(call.texts) /\ IsSeq(call.out) /\ Len(call.out) <= Len(call.texts)
  /\ call.stage # "idle" => call.texts # <<>>
  /\ \A i \in DOMAIN call.out :
       call.out[i] # None => Made(call.out[i], call.texts[i], config.env)
  /\ call.stage = "put" =>
       Len(call.out) = Len(call.texts) /\ \A i \in DOMAIN call.out : call.out[i] # None
  /\ config.embedder = "plain" =>
       /\ call.stage = "embed" => call.out = <<>> \/ Len(call.out) = Len(call.texts)
       /\ call.stage = "fetch" => pool.jobs = call.texts

PoolInv ==
  /\ pool = [jobs |-> pool.jobs, cursor |-> pool.cursor, results |-> pool.results,
             asked |-> pool.asked, error |-> pool.error]
  /\ IsSeq(pool.jobs)
  /\ pool.cursor \in Nat
  /\ pool.asked \in [DOMAIN pool.jobs -> Nat]
  /\ DOMAIN pool.results \subseteq DOMAIN pool.jobs
  /\ \A j \in DOMAIN pool.results : pool.results[j] = Vector(pool.jobs[j], "server")
  /\ \A j \in DOMAIN pool.jobs : pool.asked[j] <= Bound /\ (j > pool.cursor => pool.asked[j] = 0)
  /\ config.embedder = "llama" =>
       \A i, j \in DOMAIN pool.jobs : pool.jobs[i] = pool.jobs[j] => i = j

\* Each job that was taken is answered, asked for by one thread, or has failed;
\* a thread that is done has left no job behind.
TeamInv ==
  /\ thread \in [Worker -> [at : {"off", "look", "take", "ask", "done"}, job : Nat, tries : Nat]]
  /\ \A w \in Worker : thread[w].at = "ask" =>
       /\ thread[w].job \in DOMAIN pool.jobs /\ thread[w].job <= pool.cursor
       /\ pool.asked[thread[w].job] = thread[w].tries /\ thread[w].tries < Bound
  /\ \A w, u \in Worker :
       thread[w].at = "ask" /\ thread[u].at = "ask" /\ thread[w].job = thread[u].job => w = u
  /\ \A w \in Worker : thread[w].at = "done" => Len(pool.jobs) <= pool.cursor \/ pool.error
  /\ \A j \in DOMAIN pool.jobs : j <= pool.cursor =>
       \/ j \in DOMAIN pool.results \/ pool.error
       \/ \E w \in Worker : thread[w].at = "ask" /\ thread[w].job = j

StageInv ==
  /\ call.stage \notin {"fetch", "memoize"} => pool = NoPool
  /\ call.stage # "fetch" => thread = [w \in Worker |-> Off]
  /\ call.stage = "fetch" => \E w \in Worker : thread[w].at # "off"
  /\ call.stage = "memoize" =>
       config.embedder = "llama" /\ DOMAIN pool.results = DOMAIN pool.jobs

IngestInv ==
  ConfigInv /\ Kept(cache, config.env) /\ FramesInv /\ CallInv /\ PoolInv /\ TeamInv /\ StageInv

LEMMA BoundTyped == Bound \in Nat /\ Bound > 0
  BY IngestAssumption DEF Bound

LEMMA EmptyIsSeq == IsSeq(<<>>) /\ Len(<<>>) = 0 /\ DOMAIN <<>> = {}
<1>1. <<>> \in Seq({})
  OBVIOUS
<1>2. IsSeq(<<>>)
  BY <1>1, SeqIsSeq
<1> QED
  BY <1>2

LEMMA InvImpliesOwn == IngestInv => OwnVectors
<1> SUFFICES ASSUME IngestInv
             PROVE  OwnVectors
  OBVIOUS
<1> USE DEF IngestInv
<1>1. TextsMatch
  <2>1. \A f \in ToSet(frames) : f.vector.of = f.text
    BY DEF FramesInv, Made, ToSet
  <2>2. \A i \in DOMAIN call.out : call.out[i] # None => call.out[i].of = call.texts[i]
    BY DEF CallInv, Made
  <2>3. \A text \in DOMAIN cache.memo : cache.memo[text].of = text
    BY DEF Kept, Made
  <2> QED
    BY <2>1, <2>2, <2>3 DEF TextsMatch
<1>2. TriesBounded
  BY DEF PoolInv, Bound, TriesBounded
<1>3. StrictAreTorch
  <2> SUFFICES ASSUME NEW v \in {cache.memo[t] : t \in DOMAIN cache.memo}
                             \cup {f.vector : f \in ToSet(frames)},
                      v.by = "fallback", config.env.strict
               PROVE  OnlyCpuArtifacts(config.env)
    BY DEF StrictAreTorch, OnlyCpuArtifacts
  <2>1. \E text : Made(v, text, config.env)
    BY DEF Kept, FramesInv, ToSet
  <2> QED
    BY <2>1 DEF Made
<1> QED
  BY <1>1, <1>2, <1>3 DEF OwnVectors

\* A call without a pool.
LEMMA Resting ==
  ASSUME pool' = NoPool, thread' = [w \in Worker |-> Off], call'.stage \in {"idle", "embed", "put"}
  PROVE  PoolInv' /\ TeamInv' /\ StageInv'
<1>1. PoolInv'
  BY EmptyIsSeq DEF PoolInv, NoPool
<1>2. TeamInv'
  BY EmptyIsSeq DEF TeamInv, NoPool, Off
<1> QED
  BY <1>1, <1>2 DEF StageInv

LEMMA IngestInit == Init => IngestInv
<1> SUFFICES ASSUME Init
             PROVE  IngestInv
  OBVIOUS
<1>1. ConfigInv
  BY IngestAssumption DEF Init, ConfigInv
<1>2. Kept(cache, config.env)
  BY DEF Init, Kept
<1>3. FramesInv
  BY EmptyIsSeq DEF Init, FramesInv
<1>4. CallInv
  BY EmptyIsSeq DEF Init, Idle, CallInv
<1>5. PoolInv
  BY EmptyIsSeq DEF Init, PoolInv, NoPool
<1>6. TeamInv
  BY EmptyIsSeq DEF Init, TeamInv, NoPool, Off
<1>7. StageInv
  BY DEF Init, Idle, StageInv
<1> QED
  BY <1>1, <1>2, <1>3, <1>4, <1>5, <1>6, <1>7 DEF IngestInv

\* The call is over, or begins: nothing of it is left, or a text.
LEMMA CallAnew ==
  ASSUME NEW stage \in {"idle", "embed"}, NEW content, NEW puts, NEW texts, IsSeq(texts),
         stage # "idle" => texts # <<>>,
         call' = [stage |-> stage, content |-> content, puts |-> puts, texts |-> texts, out |-> <<>>]
  PROVE  CallInv'
<1>1. call'.stage = stage /\ call'.texts = texts /\ call'.out = <<>>
  OBVIOUS
<1>2. Len(texts) \in Nat
  BY IsSeqFacts
<1> QED
  BY <1>1, <1>2, EmptyIsSeq DEF CallInv

LEMMA FailedAnew == Failed => CallInv' /\ PoolInv' /\ TeamInv' /\ StageInv'
<1> SUFFICES ASSUME Failed
             PROVE  CallInv' /\ PoolInv' /\ TeamInv' /\ StageInv'
  OBVIOUS
<1>1. CallInv'
  BY CallAnew, EmptyIsSeq DEF Failed, Idle
<1> QED
  BY <1>1, Resting DEF Failed, Idle

LEMMA RememberInv ==
  ASSUME IngestInv, NEW text \in Content, Remember(text)
  PROVE  IngestInv'
<1> DEFINE chunks == Chunk(text, config.vocab, config.strategy[1], config.strategy[2])
<1>1. IsSeq(chunks) /\ chunks # <<>>
  BY ChunksAreSeq DEF IngestInv, ConfigInv
<1>2. call.stage = "idle" /\ UNCHANGED <<config, cache, pool, thread, frames>>
      /\ call' = [stage |-> "embed", content |-> text, puts |-> TRUE, texts |-> chunks, out |-> <<>>]
  BY DEF Remember
<1> HIDE DEF chunks
<1>3. CallInv'
  BY <1>1, <1>2, CallAnew
<1>4. PoolInv' /\ TeamInv' /\ StageInv'
  BY <1>2, Resting DEF IngestInv, StageInv
<1> QED
  BY <1>2, <1>3, <1>4 DEF IngestInv, ConfigInv, FramesInv

LEMMA EmbedQueryInv ==
  ASSUME IngestInv, NEW text \in Query, EmbedQuery(text)
  PROVE  IngestInv'
<1>1. IsSeq(<<text>>) /\ <<text>> # <<>>
  <2>1. <<text>> \in Seq({text})
    OBVIOUS
  <2> QED
    BY <2>1, SeqIsSeq
<1>2. call.stage = "idle" /\ UNCHANGED <<config, cache, pool, thread, frames>>
      /\ call' = [stage |-> "embed", content |-> text, puts |-> FALSE, texts |-> <<text>>, out |-> <<>>]
  BY DEF EmbedQuery
<1>3. CallInv'
  BY <1>1, <1>2, CallAnew
<1>4. PoolInv' /\ TeamInv' /\ StageInv'
  BY <1>2, Resting DEF IngestInv, StageInv
<1> QED
  BY <1>2, <1>3, <1>4 DEF IngestInv, ConfigInv, FramesInv

\* The next text is in the cache, or waits (None), or is embedded at once.
LEMMA OutGrows ==
  ASSUME IngestInv, call.stage = "embed", Missing # <<>>, config.embedder # "plain", NEW v,
         v # None => Made(v, Head(Missing), config.env),
         call' = [call EXCEPT !.out = Append(@, v)], UNCHANGED <<config, pool, thread>>
  PROVE  CallInv' /\ PoolInv' /\ TeamInv' /\ StageInv'
<1> USE DEF IngestInv
<1> DEFINE out == call.out
           texts == call.texts
           n == Len(out)
<1>1. IsSeq(out) /\ IsSeq(texts) /\ n \in Nat /\ Len(texts) \in Nat /\ n <= Len(texts)
      /\ DOMAIN out = 1 .. n /\ DOMAIN texts = 1 .. Len(texts)
  BY IsSeqFacts DEF CallInv
<1>2. n < Len(texts) /\ Head(Missing) = texts[n + 1]
  <2>1. texts \in Seq(ToSet(texts))
    BY <1>1 DEF IsSeq
  <2>2. Missing = SubSeq(texts, n + 1, Len(texts))
    BY DEF Missing
  <2> HIDE DEF out, texts, n
  <2> QED
    BY <1>1, <2>1, <2>2
<1>3. /\ call'.stage = "embed" /\ call'.texts = texts /\ call'.out = Append(out, v)
      /\ call' = [stage |-> call'.stage, content |-> call'.content, puts |-> call'.puts,
                  texts |-> call'.texts, out |-> call'.out]
  BY DEF CallInv
<1>4. /\ IsSeq(Append(out, v)) /\ Len(Append(out, v)) = n + 1
      /\ \A i \in 1 .. n : Append(out, v)[i] = out[i]
      /\ Append(out, v)[n + 1] = v
  BY <1>1, IsSeqAppend
<1>5. DOMAIN Append(out, v) = 1 .. n + 1
  BY <1>4, IsSeqFacts
<1>6. \A i \in 1 .. n : out[i] # None => Made(out[i], texts[i], config.env)
  BY <1>1 DEF CallInv
<1>7. texts # <<>>
  BY DEF CallInv
<1> HIDE DEF out, texts, n
<1>8. CallInv'
  <2> DEFINE more == Append(out, v)
  <2>1. \A i \in 1 .. n + 1 : more[i] # None => Made(more[i], texts[i], config.env)
    <3> SUFFICES ASSUME NEW i \in 1 .. n + 1, more[i] # None
                 PROVE  Made(more[i], texts[i], config.env)
      OBVIOUS
    <3>1. CASE i \in 1 .. n
      BY <1>4, <1>6, <3>1
    <3>2. CASE i = n + 1
      BY <1>2, <1>4, <3>2
    <3> QED
      BY <1>1, <3>1, <3>2
  <2>2. IsSeq(more) /\ Len(more) <= Len(texts) /\ DOMAIN more = 1 .. n + 1
    BY <1>1, <1>2, <1>4, <1>5
  <2>3. call'.out = more
    BY <1>3
  <2> HIDE DEF more
  <2> QED
    BY <1>1, <1>3, <1>7, <2>1, <2>2, <2>3 DEF CallInv
<1>9. pool' = NoPool /\ thread' = [w \in Worker |-> Off]
  BY DEF StageInv
<1> QED
  BY <1>3, <1>8, <1>9, Resting

LEMMA LookupInv == ASSUME IngestInv, Lookup PROVE IngestInv'
<1> DEFINE text == Head(Missing)
<1>1. call.stage = "embed" /\ config.embedder = "llama" /\ Missing # <<>>
      /\ UNCHANGED <<config, pool, thread, frames>>
  BY DEF Lookup
<1>2. CASE text \in DOMAIN cache.memo
  <2>1. cache' = Promoted(cache, text) /\ call' = [call EXCEPT !.out = Append(@, cache.memo[text])]
    BY <1>2 DEF Lookup
  <2>2. Kept(cache', config.env) /\ Made(cache.memo[text], text, config.env)
    <3>1. Kept(cache, config.env)
      BY DEF IngestInv
    <3> HIDE DEF text
    <3>2. Kept(Promoted(cache, text), config.env)
      BY <1>2, <3>1, PromotedKept
    <3> QED
      BY <1>2, <2>1, <3>1, <3>2 DEF Kept
  <2>3. CallInv' /\ PoolInv' /\ TeamInv' /\ StageInv'
    BY <1>1, <2>1, <2>2, OutGrows
  <2> QED
    BY <1>1, <2>2, <2>3 DEF IngestInv, ConfigInv, FramesInv
<1>3. CASE text \notin DOMAIN cache.memo
  <2>1. cache' = cache /\ call' = [call EXCEPT !.out = Append(@, None)]
    BY <1>3 DEF Lookup
  <2>2. CallInv' /\ PoolInv' /\ TeamInv' /\ StageInv'
    BY <1>1, <2>1, OutGrows
  <2> QED
    BY <1>1, <2>1, <2>2 DEF IngestInv, ConfigInv, FramesInv
<1> QED
  BY <1>2, <1>3

LEMMA EmbedTorchInv == ASSUME IngestInv, EmbedTorch PROVE IngestInv'
<1> DEFINE text == Head(Missing)
<1>1. call.stage = "embed" /\ config.embedder = "minilm" /\ Missing # <<>>
      /\ UNCHANGED <<config, frames>>
  BY DEF EmbedTorch
<1>2. CASE text \in DOMAIN cache.memo
  <2>1. UNCHANGED <<cache, pool, thread>> /\ call' = [call EXCEPT !.out = Append(@, cache.memo[text])]
    BY <1>2 DEF EmbedTorch
  <2>2. Made(cache.memo[text], text, config.env)
    BY <1>2 DEF IngestInv, Kept
  <2>3. CallInv' /\ PoolInv' /\ TeamInv' /\ StageInv'
    BY <1>1, <2>1, <2>2, OutGrows
  <2> QED
    BY <1>1, <2>1, <2>3 DEF IngestInv, ConfigInv, FramesInv
<1>3. CASE text \notin DOMAIN cache.memo
  <2>1. PICK by \in Makers(config.env) :
          IF by = "error" THEN Failed /\ UNCHANGED cache
          ELSE /\ cache' = Memoized(cache, text, Vector(text, by))
               /\ call' = [call EXCEPT !.out = Append(@, Vector(text, by))]
               /\ UNCHANGED <<pool, thread>>
    BY <1>3 DEF EmbedTorch
  <2>2. CASE by = "error"
    <3>1. CallInv' /\ PoolInv' /\ TeamInv' /\ StageInv'
      BY <2>1, <2>2, FailedAnew
    <3> QED
      BY <1>1, <2>1, <2>2, <3>1 DEF IngestInv, ConfigInv, FramesInv
  <2>3. CASE by # "error"
    <3>1. Made(Vector(text, by), text, config.env)
      BY <2>3, MakersAreStrict
    <3>2. Kept(cache', config.env)
      <4>1. Kept(cache, config.env)
        BY DEF IngestInv
      <4> HIDE DEF text
      <4> QED
        BY <2>1, <2>3, <3>1, <4>1, MemoizedKept
    <3>3. CallInv' /\ PoolInv' /\ TeamInv' /\ StageInv'
      BY <1>1, <2>1, <2>3, <3>1, OutGrows
    <3> QED
      BY <1>1, <3>2, <3>3 DEF IngestInv, ConfigInv, FramesInv
  <2> QED
    BY <2>2, <2>3
<1> QED
  BY <1>2, <1>3

LEMMA StartPutsInv == ASSUME IngestInv, StartPuts PROVE IngestInv'
<1> USE DEF IngestInv
<1>1. call.stage = "embed" /\ Missing = <<>> /\ Waiting = {}
      /\ UNCHANGED <<config, cache, pool, thread, frames>>
  BY DEF StartPuts, Embedded
<1>2. pool' = NoPool /\ thread' = [w \in Worker |-> Off]
  BY <1>1 DEF StageInv
<1>3. CallInv' /\ call'.stage \in {"idle", "put"}
  <2>1. CASE ~call.puts
    <3>1. call' = Idle
      BY <2>1 DEF StartPuts
    <3> QED
      BY <3>1, CallAnew, EmptyIsSeq DEF Idle
  <2>2. CASE call.puts
    <3>1. call' = [call EXCEPT !.stage = "put"]
      BY <2>2 DEF StartPuts
    <3>2. /\ call'.stage = "put" /\ call'.texts = call.texts /\ call'.out = call.out
          /\ call' = [stage |-> call'.stage, content |-> call'.content, puts |-> call'.puts,
                      texts |-> call'.texts, out |-> call'.out]
      BY <3>1 DEF CallInv
    <3>3. Len(call.out) = Len(call.texts)
      <4> DEFINE out == call.out
                 texts == call.texts
      <4>1. IsSeq(out) /\ IsSeq(texts) /\ Len(out) \in Nat /\ Len(texts) \in Nat /\ Len(out) <= Len(texts)
        BY IsSeqFacts DEF CallInv
      <4>2. texts \in Seq(ToSet(texts))
        BY <4>1 DEF IsSeq
      <4>3. SubSeq(texts, Len(out) + 1, Len(texts)) = <<>>
        BY <1>1 DEF Missing
      <4> HIDE DEF out, texts
      <4>4. Len(out) = Len(texts)
        BY <4>1, <4>2, <4>3
      <4> QED
        BY <4>4 DEF out, texts
    <3>4. \A i \in DOMAIN call.out : call.out[i] # None
      BY <1>1 DEF Waiting
    <3> QED
      BY <1>1, <3>2, <3>3, <3>4 DEF CallInv
  <2> QED
    BY <2>1, <2>2
<1> QED
  BY <1>1, <1>2, <1>3, Resting DEF ConfigInv, FramesInv

LEMMA MoreThanOne == ASSUME NEW n \in Nat, n > 0, n # 1 PROVE n - 1 > 0
  OBVIOUS

\* A chunk is put with the vector of its own text.
LEMMA MorePutMade ==
  ASSUME IngestInv, call.stage = "put"
  PROVE  IsSeq(MorePut) /\ \A i \in DOMAIN MorePut : Made(MorePut[i].vector, MorePut[i].text, config.env)
<1> USE DEF IngestInv
<1> DEFINE out == call.out
           texts == call.texts
           f == [text |-> Head(texts), vector |-> Head(out)]
<1>1. call.stage = "put" /\ MorePut = Append(frames, f)
  BY DEF MorePut
<1>2. /\ IsSeq(out) /\ IsSeq(texts) /\ Len(texts) \in Nat /\ Len(out) = Len(texts)
      /\ DOMAIN out = 1 .. Len(texts) /\ texts # <<>> /\ Len(texts) > 0 /\ out # <<>>
      /\ \A i \in 1 .. Len(texts) : Made(out[i], texts[i], config.env) /\ out[i] # None
  BY <1>1, IsSeqFacts DEF CallInv
<1>3. Head(texts) = texts[1] /\ Head(out) = out[1]
  BY <1>2, IsSeqTail
<1>4. Made(f.vector, f.text, config.env)
  BY <1>2, <1>3
<1>5. IsSeq(frames) /\ Len(frames) \in Nat /\ DOMAIN frames = 1 .. Len(frames)
      /\ \A i \in 1 .. Len(frames) : Made(frames[i].vector, frames[i].text, config.env)
  BY IsSeqFacts DEF FramesInv
<1> HIDE DEF f
<1>6. /\ IsSeq(Append(frames, f)) /\ Len(Append(frames, f)) = Len(frames) + 1
      /\ \A i \in 1 .. Len(frames) : Append(frames, f)[i] = frames[i]
      /\ Append(frames, f)[Len(frames) + 1] = f
  BY <1>5, IsSeqAppend
<1>7. DOMAIN Append(frames, f) = 1 .. Len(frames) + 1
  BY <1>6, IsSeqFacts
<1> DEFINE more == Append(frames, f)
<1>8. \A i \in 1 .. Len(frames) + 1 : Made(more[i].vector, more[i].text, config.env)
  <2> SUFFICES ASSUME NEW i \in 1 .. Len(frames) + 1
               PROVE  Made(more[i].vector, more[i].text, config.env)
    OBVIOUS
  <2>1. CASE i \in 1 .. Len(frames)
    BY <1>5, <1>6, <2>1
  <2>2. CASE i = Len(frames) + 1
    BY <1>4, <1>6, <2>2
  <2> QED
    BY <1>5, <2>1, <2>2
<1>9. IsSeq(more) /\ DOMAIN more = 1 .. Len(frames) + 1 /\ MorePut = more
  BY <1>1, <1>6, <1>7
<1> HIDE DEF more
<1> QED
  BY <1>8, <1>9

LEMMA PutChunkInv == ASSUME IngestInv, PutChunk PROVE IngestInv'
<1> USE DEF IngestInv
<1> DEFINE out == call.out
           texts == call.texts
<1>1. call.stage = "put" /\ UNCHANGED <<config, cache, pool, thread>>
      /\ frames' = MorePut
  BY DEF PutChunk
<1>2. /\ IsSeq(out) /\ IsSeq(texts) /\ Len(texts) \in Nat /\ Len(out) = Len(texts)
      /\ DOMAIN out = 1 .. Len(texts) /\ texts # <<>> /\ Len(texts) > 0 /\ out # <<>>
      /\ \A i \in 1 .. Len(texts) : Made(out[i], texts[i], config.env) /\ out[i] # None
  BY <1>1, IsSeqFacts DEF CallInv
<1>3. /\ IsSeq(Tail(texts)) /\ Len(Tail(texts)) = Len(texts) - 1 /\ Head(texts) = texts[1]
      /\ \A i \in 1 .. Len(texts) - 1 : Tail(texts)[i] = texts[i + 1]
  BY <1>2, IsSeqTail
<1>4. /\ IsSeq(Tail(out)) /\ Len(Tail(out)) = Len(texts) - 1 /\ Head(out) = out[1]
      /\ \A i \in 1 .. Len(texts) - 1 : Tail(out)[i] = out[i + 1]
  BY <1>2, IsSeqTail
<1>5. FramesInv'
  BY <1>1, MorePutMade DEF FramesInv
<1>6. CallInv' /\ call'.stage \in {"idle", "put"}
  <2>1. CASE Len(texts) = 1
    <3>1. call' = Idle
      BY <2>1 DEF PutChunk
    <3> QED
      BY <3>1, CallAnew, EmptyIsSeq DEF Idle
  <2>2. CASE Len(texts) # 1
    <3>1. call' = [call EXCEPT !.texts = Tail(@), !.out = Tail(@)]
      BY <2>2 DEF PutChunk
    <3>2. /\ call'.stage = "put" /\ call'.texts = Tail(texts) /\ call'.out = Tail(out)
          /\ call' = [stage |-> call'.stage, content |-> call'.content, puts |-> call'.puts,
                      texts |-> call'.texts, out |-> call'.out]
      BY <1>1, <3>1 DEF CallInv
    <3>3. DOMAIN Tail(out) = 1 .. Len(texts) - 1 /\ Tail(texts) # <<>>
      <4> DEFINE o == Tail(out)
                 t == Tail(texts)
      <4>1. IsSeq(o) /\ IsSeq(t) /\ Len(o) = Len(texts) - 1 /\ Len(t) = Len(texts) - 1
        BY <1>3, <1>4
      <4>2. Len(texts) - 1 > 0
        <5>1. Len(texts) \in Nat /\ Len(texts) > 0 /\ Len(texts) # 1
          BY <1>2, <2>2, Zenon
        <5> QED
          BY <5>1, MoreThanOne, Zenon
      <4> HIDE DEF o, t
      <4>3. DOMAIN o = 1 .. Len(o)
        BY <4>1, IsSeqFacts
      <4>4. t # <<>>
        BY <4>1, <4>2, IsSeqFacts
      <4> QED
        BY <4>1, <4>3, <4>4 DEF o, t
    <3> DEFINE o == Tail(out)
               t == Tail(texts)
    <3>4. \A i \in 1 .. Len(texts) - 1 : o[i] # None /\ Made(o[i], t[i], config.env)
      <4> SUFFICES ASSUME NEW i \in 1 .. Len(texts) - 1
                   PROVE  o[i] # None /\ Made(o[i], t[i], config.env)
        OBVIOUS
      <4>1. i + 1 \in 1 .. Len(texts) /\ o[i] = out[i + 1] /\ t[i] = texts[i + 1]
        BY <1>2, <1>3, <1>4
      <4> HIDE DEF o, t, out, texts
      <4> QED
        BY <1>2, <4>1
    <3>5. /\ IsSeq(t) /\ IsSeq(o) /\ Len(o) = Len(t) /\ Len(t) \in Nat
          /\ DOMAIN o = 1 .. Len(texts) - 1 /\ t # <<>>
          /\ call'.texts = t /\ call'.out = o
      BY <1>2, <1>3, <1>4, <3>2, <3>3
    <3>6. call' = [stage |-> call'.stage, content |-> call'.content, puts |-> call'.puts,
                   texts |-> call'.texts, out |-> call'.out]
      BY <3>2
    <3> HIDE DEF o, t, out, texts
    <3>7. \A i \in DOMAIN call'.out :
            call'.out[i] # None /\ Made(call'.out[i], call'.texts[i], config'.env)
      BY <1>1, <3>4, <3>5
    <3>8. IsSeq(call'.texts) /\ IsSeq(call'.out) /\ Len(call'.out) = Len(call'.texts)
          /\ Len(call'.texts) \in Nat /\ call'.texts # <<>> /\ call'.stage = "put"
      BY <3>2, <3>5, Zenon
    <3>9. Len(call'.out) <= Len(call'.texts)
      BY <3>8
    <3> QED
      BY <3>6, <3>7, <3>8, <3>9 DEF CallInv
  <2> QED
    BY <2>1, <2>2
<1>7. pool' = NoPool /\ thread' = [w \in Worker |-> Off]
  BY <1>1 DEF StageInv
<1> QED
  BY <1>1, <1>5, <1>6, <1>7, Resting DEF ConfigInv

LEMMA PutFailsInv == ASSUME IngestInv, PutFails PROVE IngestInv'
<1>1. CallInv' /\ PoolInv' /\ TeamInv' /\ StageInv'
  BY FailedAnew DEF PutFails
<1>2. FramesInv'
  <2>1. call.stage = "put" /\ (UNCHANGED frames \/ frames' = MorePut) /\ UNCHANGED config
    BY DEF PutFails
  <2>2. CASE UNCHANGED frames
    BY <2>1, <2>2 DEF IngestInv, FramesInv
  <2>3. CASE frames' = MorePut
    BY <2>1, <2>3, MorePutMade DEF FramesInv
  <2> QED
    BY <2>1, <2>2, <2>3
<1> QED
  BY <1>1, <1>2 DEF PutFails, IngestInv, ConfigInv

-----------------------------------------------------------------------------
(* The pool.                                                                *)

LEMMA Enumerated ==
  ASSUME NEW S, IsFiniteSet(S), S # {}
  PROVE  /\ IsSeq(SetToSeq(S)) /\ SetToSeq(S) # <<>>
         /\ \A i, j \in DOMAIN SetToSeq(S) : SetToSeq(S)[i] = SetToSeq(S)[j] => i = j
<1> DEFINE n == Cardinality(S)
           s == SetToSeq(S)
<1>1. n \in Nat /\ ExistsBijection(1 .. n, S)
  BY FS_CardinalityType
<1>2. n # 0
  BY FS_EmptySet
<1>3. \E f \in [1 .. n -> S] : IsInjective(f)
  BY <1>1 DEF ExistsBijection, Bijection, Injection
<1>4. s \in [1 .. n -> S] /\ IsInjective(s)
  BY <1>3 DEF SetToSeq
<1> HIDE DEF n, s
<1>5. s \in Seq(S) /\ Len(s) = n
  BY <1>1, <1>4
<1>6. IsSeq(s)
  BY <1>5, SeqIsSeq
<1>7. s # <<>>
  BY <1>2, <1>5
<1>8. \A i, j \in DOMAIN s : s[i] = s[j] => i = j
  BY <1>4 DEF IsInjective
<1> QED
  BY <1>6, <1>7, <1>8 DEF s

LEMMA FiniteImage ==
  ASSUME NEW W, IsFiniteSet(W), NEW f
  PROVE  IsFiniteSet({f[i] : i \in W})
<1> DEFINE T == {f[i] : i \in W}
           g == [i \in W |-> f[i]]
<1>1. g \in Surjection(W, T)
  BY DEF Surjection
<1> HIDE DEF g, T
<1>2. IsFiniteSet(T)
  BY <1>1, FS_Surjection
<1> QED
  BY <1>2 DEF T

LEMMA TeamIsManned ==
  ASSUME NEW team \in SUBSET Worker, NEW n \in Nat, n > 0,
         Cardinality(team) = Min({Cardinality(Worker), n})
  PROVE  team # {}
<1>1. Cardinality(Worker) \in Nat /\ Cardinality(Worker) # 0
  BY IngestAssumption, FS_CardinalityType, FS_EmptySet
<1>2. Min({Cardinality(Worker), n}) \in {Cardinality(Worker), n}
  BY <1>1, MinOfTwo
<1>3. Cardinality({}) = 0
  BY FS_EmptySet
<1> QED
  BY <1>1, <1>2, <1>3

\* A pool starts: nothing is taken, and somebody looks.
LEMMA PoolStarts ==
  ASSUME IngestInv, call.stage = "embed", NEW jobs, IsSeq(jobs), jobs # <<>>,
         StartPool(jobs), UNCHANGED <<config, cache, frames>>,
         config.embedder = "plain" => jobs = call.texts,
         config.embedder = "llama" => \A i, j \in DOMAIN jobs : jobs[i] = jobs[j] => i = j
  PROVE  IngestInv'
<1>1. PICK team \in SUBSET Worker :
        /\ Cardinality(team) = Min({Cardinality(Worker), Len(jobs)})
        /\ pool' = [NoPool EXCEPT !.jobs = jobs, !.asked = [j \in DOMAIN jobs |-> 0]]
        /\ thread' = [w \in Worker |-> IF w \in team THEN [Off EXCEPT !.at = "look"] ELSE Off]
        /\ call' = [call EXCEPT !.stage = "fetch"]
  BY DEF StartPool
<1>2. Len(jobs) \in Nat /\ Len(jobs) > 0 /\ DOMAIN jobs = 1 .. Len(jobs)
  BY IsSeqFacts
<1>3. team # {}
  BY <1>1, <1>2, TeamIsManned
<1>4. CallInv
  BY DEF IngestInv
<1>5. /\ call'.stage = "fetch" /\ call'.texts = call.texts /\ call'.out = call.out
      /\ call' = [stage |-> call'.stage, content |-> call'.content, puts |-> call'.puts,
                  texts |-> call'.texts, out |-> call'.out]
  BY <1>1, <1>4 DEF CallInv
<1>6. pool' = [jobs |-> jobs, cursor |-> 0, results |-> <<>>,
               asked |-> [j \in DOMAIN jobs |-> 0], error |-> FALSE]
  BY <1>1 DEF NoPool
<1>7. \A w \in Worker : thread'[w] = [at |-> IF w \in team THEN "look" ELSE "off", job |-> 0, tries |-> 0]
  BY <1>1 DEF Off
<1>8. \A w \in Worker : thread'[w].at = IF w \in team THEN "look" ELSE "off"
  <2> TAKE w \in Worker
  <2> DEFINE at == IF w \in team THEN "look" ELSE "off"
  <2>1. thread'[w] = [at |-> at, job |-> 0, tries |-> 0]
    BY <1>7
  <2> HIDE DEF at
  <2>2. thread'[w].at = at
    BY <2>1
  <2> QED
    BY <2>2 DEF at
<1>9. CallInv'
  BY <1>4, <1>5, <1>6 DEF CallInv
<1>10. PoolInv'
  <2>1. \A j \in DOMAIN jobs : 0 <= Bound'
    BY BoundTyped DEF Bound
  <2> QED
    BY <1>2, <1>6, <2>1, EmptyIsSeq DEF PoolInv
<1>11. TeamInv'
  <2>1. thread' = [w \in Worker |-> thread'[w]]
    BY <1>1
  <2>2. thread' \in [Worker -> [at : {"off", "look", "take", "ask", "done"}, job : Nat, tries : Nat]]
    BY <1>7, <2>1
  <2>3. \A w \in Worker : thread'[w].at \notin {"ask", "done"}
    BY <1>8
  <2>4. \A j \in DOMAIN pool'.jobs : ~(j <= pool'.cursor)
    BY <1>2, <1>6
  <2> QED
    BY <2>2, <2>3, <2>4 DEF TeamInv
<1>12. StageInv'
  BY <1>3, <1>5, <1>8 DEF StageInv
<1> QED
  BY <1>9, <1>10, <1>11, <1>12 DEF IngestInv, ConfigInv, FramesInv

LEMMA FetchInv == ASSUME IngestInv, Fetch PROVE IngestInv'
<1> DEFINE S == {call.texts[i] : i \in Waiting}
<1>1. call.stage = "embed" /\ config.embedder = "llama" /\ Waiting # {}
      /\ StartPool(SetToSeq(S)) /\ UNCHANGED <<config, cache, frames>>
  BY DEF Fetch
<1>2. IsFiniteSet(S) /\ S # {}
  <2>1. DOMAIN call.out = 1 .. Len(call.out) /\ Len(call.out) \in Nat
    BY IsSeqFacts DEF IngestInv, CallInv
  <2>2. IsFiniteSet(1 .. Len(call.out)) /\ Waiting \subseteq 1 .. Len(call.out)
    BY <2>1, FS_Interval DEF Waiting
  <2>3. IsFiniteSet(Waiting)
    BY <2>2, FS_Subset
  <2>4. IsFiniteSet(S)
    BY <2>3, FiniteImage
  <2> QED
    BY <1>1, <2>4
<1> HIDE DEF S
<1> QED
  BY <1>1, <1>2, Enumerated, PoolStarts

LEMMA EmbedEachInv == ASSUME IngestInv, EmbedEach PROVE IngestInv'
<1> DEFINE out == call.out
           texts == call.texts
<1>1. call.stage = "embed" /\ config.embedder = "plain" /\ Missing # <<>>
      /\ StartPool(Missing) /\ UNCHANGED <<config, cache, frames>>
  BY DEF EmbedEach
<1>2. IsSeq(texts) /\ texts # <<>> /\ (out = <<>> \/ Len(out) = Len(texts))
  BY <1>1 DEF IngestInv, CallInv
<1>3. texts \in Seq(ToSet(texts)) /\ Len(texts) \in Nat
  BY <1>2 DEF IsSeq
<1>4. Missing = SubSeq(texts, Len(out) + 1, Len(texts))
  BY DEF Missing
<1> HIDE DEF out, texts
<1>5. out = <<>>
  BY <1>1, <1>2, <1>3, <1>4
<1>6. Missing = texts
  BY <1>3, <1>4, <1>5
<1> QED
  BY <1>1, <1>2, <1>6, PoolStarts DEF texts

\* A step of a thread leaves the call, and what is to be done, as it is.
LEMMA ThreadStep ==
  ASSUME IngestInv, NEW w \in Worker, thread[w].at # "off", UNCHANGED <<config, cache, call, frames>>,
         pool'.jobs = pool.jobs, PoolInv', TeamInv', thread'[w].at # "off"
  PROVE  IngestInv'
<1>1. call.stage = "fetch"
  <2> SUFFICES ASSUME call.stage # "fetch"
               PROVE  FALSE
    OBVIOUS
  <2>1. thread[w] = Off
    BY DEF IngestInv, StageInv
  <2> QED
    BY <2>1 DEF Off
<1>2. CallInv'
  BY DEF IngestInv, CallInv
<1>3. StageInv'
  BY <1>1 DEF StageInv
<1> QED
  BY <1>2, <1>3 DEF IngestInv, ConfigInv, FramesInv

LEMMA LookInv == ASSUME IngestInv, NEW w \in Worker, Look(w) PROVE IngestInv'
<1> DEFINE at == IF GivesUp /\ pool.error THEN "done" ELSE "take"
<1>1. thread[w].at = "look" /\ thread' = [thread EXCEPT ![w].at = at]
      /\ UNCHANGED <<config, cache, call, pool, frames>>
  BY DEF Look
<1>2. at \in {"done", "take"} /\ (at = "done" => pool.error)
  OBVIOUS
<1> HIDE DEF at
<1>3. TeamInv
  BY DEF IngestInv
<1>4. /\ thread' \in [Worker -> [at : {"off", "look", "take", "ask", "done"}, job : Nat, tries : Nat]]
      /\ thread'[w].at = at
      /\ \A u \in Worker : u # w => thread'[u] = thread[u]
  BY <1>1, <1>2, <1>3 DEF TeamInv
<1>5. PoolInv'
  BY <1>1 DEF IngestInv, PoolInv, Bound
<1>6. TeamInv'
  <2>1. Bound' = Bound
    BY <1>1 DEF Bound
  <2>2. \A u \in Worker : (thread'[u].at = "ask" <=> thread[u].at = "ask")
                          /\ (thread[u].at = "ask" => thread'[u] = thread[u])
    BY <1>1, <1>2, <1>4
  <2>3. \A u \in Worker : thread'[u].at = "done" => thread[u].at = "done" \/ pool.error
    BY <1>2, <1>4
  <2> QED
    BY <1>1, <1>3, <1>4, <2>1, <2>2, <2>3 DEF TeamInv
<1> QED
  BY <1>1, <1>2, <1>4, <1>5, <1>6, ThreadStep

LEMMA TakeInv == ASSUME IngestInv, NEW w \in Worker, Take(w) PROVE IngestInv'
<1> DEFINE k == pool.cursor
           n == Len(pool.jobs)
           new == IF k < n THEN [at |-> "ask", job |-> k + 1, tries |-> 0]
                  ELSE [at |-> "done", job |-> 0, tries |-> 0]
<1>1. thread[w].at = "take" /\ thread' = [thread EXCEPT ![w] = new]
      /\ pool' = [pool EXCEPT !.cursor = k + 1]
      /\ UNCHANGED <<config, cache, call, frames>>
  <2>1. [Off EXCEPT !.at = "done"] = [at |-> "done", job |-> 0, tries |-> 0]
    BY DEF Off
  <2> QED
    BY <2>1 DEF Take
<1>2. TeamInv /\ PoolInv
  BY DEF IngestInv
<1>3. k \in Nat /\ n \in Nat /\ DOMAIN pool.jobs = 1 .. n
  BY <1>2, IsSeqFacts DEF PoolInv
<1>4. /\ k < n => new.at = "ask" /\ new.job = k + 1 /\ new.tries = 0
      /\ ~(k < n) => new.at = "done"
      /\ new \in [at : {"off", "look", "take", "ask", "done"}, job : Nat, tries : Nat]
  BY <1>3
<1>5. /\ pool'.jobs = pool.jobs /\ pool'.results = pool.results /\ pool'.asked = pool.asked
      /\ pool'.error = pool.error /\ pool'.cursor = k + 1
      /\ pool' = [jobs |-> pool'.jobs, cursor |-> pool'.cursor, results |-> pool'.results,
                  asked |-> pool'.asked, error |-> pool'.error]
  BY <1>1, <1>2 DEF PoolInv
<1> HIDE DEF new
<1>6. /\ thread' \in [Worker -> [at : {"off", "look", "take", "ask", "done"}, job : Nat, tries : Nat]]
      /\ thread'[w] = new
      /\ \A u \in Worker : u # w => thread'[u] = thread[u]
  BY <1>1, <1>2, <1>4 DEF TeamInv
<1>7. Bound' = Bound /\ Bound > 0
  BY <1>1, BoundTyped DEF Bound
<1> HIDE DEF k, n
<1>8. PoolInv'
  <2>1. \A j \in DOMAIN pool.jobs : j > k + 1 => pool.asked[j] = 0
    BY <1>2, <1>3 DEF PoolInv, k
  <2>2. k + 1 \in Nat
    BY <1>3
  <2>3. \A j \in DOMAIN pool.jobs : pool.asked[j] <= Bound
    BY <1>2 DEF PoolInv
  <2>4. config.embedder = "llama" =>
          \A i, j \in DOMAIN pool.jobs : pool.jobs[i] = pool.jobs[j] => i = j
    BY <1>2 DEF PoolInv
  <2>5. /\ IsSeq(pool.jobs) /\ pool.asked \in [DOMAIN pool.jobs -> Nat]
        /\ DOMAIN pool.results \subseteq DOMAIN pool.jobs
        /\ \A j \in DOMAIN pool.results : pool.results[j] = Vector(pool.jobs[j], "server")
    BY <1>2 DEF PoolInv
  <2> QED
    BY <1>1, <1>5, <1>7, <2>1, <2>2, <2>3, <2>4, <2>5 DEF PoolInv
<1>9. TeamInv'
  <2>1. ASSUME NEW u \in Worker, thread'[u].at = "ask"
        PROVE  /\ thread'[u].job \in DOMAIN pool.jobs /\ thread'[u].job <= k + 1
               /\ pool.asked[thread'[u].job] = thread'[u].tries /\ thread'[u].tries < Bound
               /\ (u = w => thread'[u].job = k + 1) /\ (u # w => thread'[u].job <= k)
    <3>1. CASE u = w
      <4>1. k < n /\ thread'[u].job = k + 1 /\ thread'[u].tries = 0
        BY <1>4, <1>6, <2>1, <3>1
      <4>2. k + 1 \in DOMAIN pool.jobs /\ k + 1 > k
        BY <1>3, <4>1
      <4>3. pool.asked[k + 1] = 0
        BY <1>2, <4>2 DEF PoolInv, k
      <4> QED
        BY <1>3, <1>7, <3>1, <4>1, <4>2, <4>3
    <3>2. CASE u # w
      <4>1. thread'[u] = thread[u] /\ thread[u].job \in DOMAIN pool.jobs /\ thread[u].job <= k
            /\ pool.asked[thread[u].job] = thread[u].tries /\ thread[u].tries < Bound
        BY <1>2, <1>6, <2>1, <3>2 DEF TeamInv, k
      <4> QED
        BY <1>3, <3>2, <4>1
    <3> QED
      BY <3>1, <3>2
  <2>2. ASSUME NEW u \in Worker, NEW x \in Worker,
               thread'[u].at = "ask", thread'[x].at = "ask", thread'[u].job = thread'[x].job
        PROVE  u = x
    <3>1. CASE u = w \/ x = w
      BY <1>3, <2>1, <2>2, <3>1
    <3>2. CASE u # w /\ x # w
      BY <1>2, <1>6, <2>2, <3>2 DEF TeamInv
    <3> QED
      BY <3>1, <3>2
  <2>3. ASSUME NEW u \in Worker, thread'[u].at = "done"
        PROVE  n <= k + 1 \/ pool.error
    <3>1. CASE u = w
      BY <1>3, <1>4, <1>6, <2>3, <3>1
    <3>2. CASE u # w
      <4>1. n <= k \/ pool.error
        BY <1>2, <1>6, <2>3, <3>2 DEF TeamInv, k, n
      <4> QED
        BY <1>3, <4>1
    <3> QED
      BY <3>1, <3>2
  <2>4. ASSUME NEW j \in DOMAIN pool.jobs, j <= k + 1
        PROVE  \/ j \in DOMAIN pool.results \/ pool.error
               \/ \E u \in Worker : thread'[u].at = "ask" /\ thread'[u].job = j
    <3>1. CASE j <= k
      <4>1. \/ j \in DOMAIN pool.results \/ pool.error
            \/ \E u \in Worker : thread[u].at = "ask" /\ thread[u].job = j
        BY <1>2, <3>1 DEF TeamInv, k
      <4>2. \A u \in Worker : thread[u].at = "ask" => u # w
        BY <1>1
      <4> QED
        BY <1>6, <4>1, <4>2
    <3>2. CASE j = k + 1
      <4>1. k < n
        BY <1>3, <3>2
      <4> QED
        BY <1>4, <1>6, <3>2, <4>1
    <3> QED
      BY <1>3, <2>4, <3>1, <3>2
  <2> QED
    BY <1>5, <1>6, <1>7, <2>1, <2>2, <2>3, <2>4 DEF TeamInv, n
<1>10. thread'[w].at # "off"
  BY <1>4, <1>6
<1> QED
  BY <1>1, <1>5, <1>8, <1>9, <1>10, ThreadStep

\* The request of a thread comes back: with a vector, or with an error.  It was
\* asked once more; the thread looks for more, is done, or asks again.
LEMMA RequestEnds ==
  ASSUME IngestInv, NEW w \in Worker, thread[w].at = "ask", NEW new, NEW results, NEW error,
         UNCHANGED <<config, cache, call, frames>>,
         thread' = [thread EXCEPT ![w] = new],
         pool' = [pool EXCEPT !.results = results, !.error = error, !.asked[thread[w].job] = @ + 1],
         new \in [at : {"look", "ask", "done"}, job : Nat, tries : Nat],
         new.job = thread[w].job,
         new.at = "ask" => new.tries = thread[w].tries + 1 /\ new.tries < Bound,
         new.at = "done" => error,
         new.at = "ask" \/ error \/ thread[w].job \in DOMAIN results,
         pool.error => error,
         DOMAIN pool.results \subseteq DOMAIN results, DOMAIN results \subseteq DOMAIN pool.jobs,
         \A j \in DOMAIN results : results[j] = Vector(pool.jobs[j], "server")
  PROVE  IngestInv'
<1> DEFINE job == thread[w].job
           asked == [pool.asked EXCEPT ![job] = @ + 1]
<1>1. TeamInv /\ PoolInv
  BY DEF IngestInv
<1>2. /\ job \in DOMAIN pool.jobs /\ job <= pool.cursor
      /\ pool.asked[job] = thread[w].tries /\ thread[w].tries < Bound /\ thread[w].tries \in Nat
      /\ job \in Nat /\ pool.cursor \in Nat /\ pool.asked \in [DOMAIN pool.jobs -> Nat]
  BY <1>1 DEF TeamInv, PoolInv
<1>3. /\ pool'.jobs = pool.jobs /\ pool'.results = results /\ pool'.asked = asked
      /\ pool'.error = error /\ pool'.cursor = pool.cursor
      /\ pool' = [jobs |-> pool'.jobs, cursor |-> pool'.cursor, results |-> pool'.results,
                  asked |-> pool'.asked, error |-> pool'.error]
  BY <1>1 DEF PoolInv
<1>4. /\ thread' \in [Worker -> [at : {"off", "look", "take", "ask", "done"}, job : Nat, tries : Nat]]
      /\ thread'[w] = new
      /\ \A u \in Worker : u # w => thread'[u] = thread[u]
  BY <1>1 DEF TeamInv
<1>5. Bound' = Bound /\ Bound \in Nat
  BY BoundTyped DEF Bound
<1>6. /\ asked \in [DOMAIN pool.jobs -> Nat] /\ asked[job] = thread[w].tries + 1
      /\ \A j \in DOMAIN pool.jobs : j # job => asked[j] = pool.asked[j]
  BY <1>2
<1> HIDE DEF asked
<1>7. PoolInv'
  <2>1. ASSUME NEW j \in DOMAIN pool.jobs
        PROVE  asked[j] <= Bound /\ (j > pool.cursor => asked[j] = 0)
    <3>1. CASE j = job
      BY <1>2, <1>5, <1>6, <3>1
    <3>2. CASE j # job
      BY <1>1, <1>6, <3>2 DEF PoolInv
    <3> QED
      BY <3>1, <3>2
  <2>2. config.embedder = "llama" =>
          \A i, j \in DOMAIN pool.jobs : pool.jobs[i] = pool.jobs[j] => i = j
    BY <1>1 DEF PoolInv
  <2>3. IsSeq(pool.jobs) /\ pool.cursor \in Nat
    BY <1>1 DEF PoolInv
  <2>4. \A j \in DOMAIN pool.jobs : asked[j] <= Bound
    BY <2>1
  <2>5. \A j \in DOMAIN pool.jobs : j > pool.cursor => asked[j] = 0
    BY <2>1
  <2>6. /\ DOMAIN pool'.results \subseteq DOMAIN pool'.jobs
        /\ \A j \in DOMAIN pool'.results : pool'.results[j] = Vector(pool'.jobs[j], "server")
    BY <1>3
  <2>7. /\ IsSeq(pool'.jobs) /\ pool'.cursor \in Nat /\ pool'.asked \in [DOMAIN pool'.jobs -> Nat]
        /\ \A j \in DOMAIN pool'.jobs :
             pool'.asked[j] <= Bound' /\ (j > pool'.cursor => pool'.asked[j] = 0)
    BY <1>3, <1>5, <1>6, <2>3, <2>4, <2>5, Zenon
  <2>8. config'.embedder = "llama" =>
          \A i, j \in DOMAIN pool'.jobs : pool'.jobs[i] = pool'.jobs[j] => i = j
    <3>1. config'.embedder = config.embedder /\ pool'.jobs = pool.jobs
      BY <1>3
    <3> QED
      BY <2>2, <3>1
  <2>9. pool' = [jobs |-> pool'.jobs, cursor |-> pool'.cursor, results |-> pool'.results,
                 asked |-> pool'.asked, error |-> pool'.error]
    BY <1>3, Zenon
  <2> QED
    BY <2>6, <2>7, <2>8, <2>9, Zenon DEF PoolInv
<1>8. TeamInv'
  <2>1. ASSUME NEW u \in Worker, thread'[u].at = "ask"
        PROVE  /\ thread[u].at = "ask" /\ thread'[u].job = thread[u].job
               /\ thread'[u].job \in DOMAIN pool.jobs /\ thread'[u].job <= pool.cursor
               /\ asked[thread'[u].job] = thread'[u].tries /\ thread'[u].tries < Bound
    <3>1. CASE u = w
      BY <1>2, <1>4, <1>6, <2>1, <3>1
    <3>2. CASE u # w
      <4>1. thread'[u] = thread[u] /\ thread[u].at = "ask"
        BY <1>4, <2>1, <3>2
      <4>2. /\ thread[u].job \in DOMAIN pool.jobs /\ thread[u].job <= pool.cursor
            /\ pool.asked[thread[u].job] = thread[u].tries /\ thread[u].tries < Bound
            /\ thread[u].job # job
        BY <1>1, <3>2, <4>1 DEF TeamInv
      <4> QED
        BY <1>6, <4>1, <4>2
    <3> QED
      BY <3>1, <3>2
  <2>2. ASSUME NEW u \in Worker, NEW x \in Worker,
               thread'[u].at = "ask", thread'[x].at = "ask", thread'[u].job = thread'[x].job
        PROVE  u = x
    BY <1>1, <2>1, <2>2 DEF TeamInv
  <2>3. ASSUME NEW u \in Worker, thread'[u].at = "done"
        PROVE  Len(pool.jobs) <= pool.cursor \/ error
    <3>1. CASE u = w
      BY <1>4, <2>3, <3>1
    <3>2. CASE u # w
      BY <1>1, <1>4, <2>3, <3>2 DEF TeamInv
    <3> QED
      BY <3>1, <3>2
  <2>4. ASSUME NEW j \in DOMAIN pool.jobs, j <= pool.cursor
        PROVE  \/ j \in DOMAIN results \/ error
               \/ \E u \in Worker : thread'[u].at = "ask" /\ thread'[u].job = j
    <3>1. CASE j \in DOMAIN pool.results \/ pool.error
      BY <3>1
    <3>2. CASE \E u \in Worker : thread[u].at = "ask" /\ thread[u].job = j
      <4>1. PICK u \in Worker : thread[u].at = "ask" /\ thread[u].job = j
        BY <3>2
      <4>2. CASE u = w
        BY <1>4, <4>1, <4>2
      <4>3. CASE u # w
        BY <1>4, <4>1, <4>3
      <4> QED
        BY <4>2, <4>3
    <3> QED
      BY <1>1, <2>4, <3>1, <3>2 DEF TeamInv
  <2> QED
    BY <1>3, <1>4, <1>5, <2>1, <2>2, <2>3, <2>4 DEF TeamInv
<1>9. thread'[w].at # "off" /\ thread[w].at # "off"
  BY <1>4
<1> QED
  BY <1>3, <1>7, <1>8, <1>9, ThreadStep

LEMMA AnswerInv == ASSUME IngestInv, NEW w \in Worker, Answer(w) PROVE IngestInv'
<1> DEFINE job == thread[w].job
           v == Vector(pool.jobs[job], "server")
           results == With(pool.results, job, v)
           new == [thread[w] EXCEPT !.at = "look"]
<1>1. TeamInv /\ PoolInv
  BY DEF IngestInv
<1>2. thread[w].at = "ask" /\ UNCHANGED <<config, cache, call, frames>>
  BY DEF Answer
<1>3. thread' = [thread EXCEPT ![w] = new]
  BY <1>1 DEF Answer, TeamInv
<1>4. pool' = [pool EXCEPT !.results = results, !.error = pool.error, !.asked[job] = @ + 1]
  BY <1>1 DEF Answer, PoolInv
<1>5. /\ new \in [at : {"look", "ask", "done"}, job : Nat, tries : Nat]
      /\ new.job = job /\ new.at = "look"
  BY <1>1 DEF TeamInv
<1>6. job \in DOMAIN pool.jobs
  BY <1>1, <1>2 DEF TeamInv
<1>7. results = [j \in DOMAIN pool.results \cup {job} |-> IF j = job THEN v ELSE pool.results[j]]
  BY DEF With
<1>8. /\ DOMAIN results = DOMAIN pool.results \cup {job}
      /\ \A j \in DOMAIN results : results[j] = Vector(pool.jobs[j], "server")
  BY <1>1, <1>7 DEF PoolInv
<1> HIDE DEF results, new
<1>9. DOMAIN pool.results \subseteq DOMAIN results /\ DOMAIN results \subseteq DOMAIN pool.jobs
      /\ job \in DOMAIN results
  BY <1>1, <1>6, <1>8 DEF PoolInv
<1> QED
  BY <1>2, <1>3, <1>4, <1>5, <1>8, <1>9, RequestEnds

LEMMA RefuseInv == ASSUME IngestInv, NEW w \in Worker, Refuse(w) PROVE IngestInv'
<1> DEFINE job == thread[w].job
           tries == thread[w].tries
           over == [thread[w] EXCEPT !.at = IF GivesUp THEN "done" ELSE "look"]
           again == [thread[w] EXCEPT !.tries = @ + 1]
<1>1. TeamInv /\ PoolInv
  BY DEF IngestInv
<1>2. thread[w].at = "ask" /\ UNCHANGED <<config, cache, call, frames>>
  BY DEF Refuse
<1>3. /\ DOMAIN pool.results \subseteq DOMAIN pool.jobs
      /\ \A j \in DOMAIN pool.results : pool.results[j] = Vector(pool.jobs[j], "server")
  BY <1>1 DEF PoolInv
<1>4. CASE TriesOver(tries)
  <2>1. thread' = [thread EXCEPT ![w] = over]
    BY <1>1, <1>4 DEF Refuse, TeamInv
  <2>2. pool' = [pool EXCEPT !.results = pool.results, !.error = TRUE, !.asked[job] = @ + 1]
    BY <1>1, <1>4 DEF Refuse, PoolInv
  <2>3. over \in [at : {"look", "ask", "done"}, job : Nat, tries : Nat]
        /\ over.job = job /\ over.at \in {"look", "done"}
    BY <1>1 DEF TeamInv
  <2> HIDE DEF over
  <2> QED
    BY <1>2, <1>3, <2>1, <2>2, <2>3, RequestEnds
<1>5. CASE ~TriesOver(tries)
  <2>1. thread' = [thread EXCEPT ![w] = again]
    BY <1>1, <1>5 DEF Refuse, TeamInv
  <2>2. pool' = [pool EXCEPT !.results = pool.results, !.error = pool.error, !.asked[job] = @ + 1]
    BY <1>1, <1>5 DEF Refuse, PoolInv
  <2>3. again \in [at : {"look", "ask", "done"}, job : Nat, tries : Nat]
        /\ again.job = job /\ again.at = "ask" /\ again.tries = tries + 1 /\ tries \in Nat
    BY <1>1, <1>2 DEF TeamInv
  <2>4. tries + 1 < Bound
    BY <1>5, <2>3, IngestAssumption DEF TriesOver, Bound
  <2> HIDE DEF again
  <2> QED
    BY <1>2, <1>3, <2>1, <2>2, <2>3, <2>4, RequestEnds
<1> QED
  BY <1>4, <1>5

\* The threads are joined: each job is answered, if none of them failed.
LEMMA AllAnswered ==
  ASSUME IngestInv, call.stage = "fetch", Joined, ~pool.error
  PROVE  DOMAIN pool.results = DOMAIN pool.jobs
<1>1. TeamInv /\ PoolInv /\ StageInv
  BY DEF IngestInv
<1>2. PICK w \in Worker : thread[w].at = "done"
  BY <1>1 DEF StageInv, Joined
<1>3. Len(pool.jobs) <= pool.cursor
  BY <1>1, <1>2 DEF TeamInv
<1>4. DOMAIN pool.jobs = 1 .. Len(pool.jobs) /\ Len(pool.jobs) \in Nat /\ pool.cursor \in Nat
  BY <1>1, IsSeqFacts DEF PoolInv
<1>5. \A j \in DOMAIN pool.jobs : j <= pool.cursor
  BY <1>3, <1>4
<1>6. \A u \in Worker : thread[u].at # "ask"
  BY DEF Joined
<1>7. \A j \in DOMAIN pool.jobs : j \in DOMAIN pool.results
  BY <1>1, <1>5, <1>6 DEF TeamInv
<1> QED
  BY <1>1, <1>7 DEF PoolInv

LEMMA JoinFailedInv == ASSUME IngestInv, JoinFailed PROVE IngestInv'
<1>1. CallInv' /\ PoolInv' /\ TeamInv' /\ StageInv'
  BY FailedAnew DEF JoinFailed
<1> QED
  BY <1>1 DEF JoinFailed, IngestInv, ConfigInv, FramesInv

LEMMA JoinFetchedInv == ASSUME IngestInv, JoinFetched PROVE IngestInv'
<1>1. CallInv /\ PoolInv /\ TeamInv
  BY DEF IngestInv
<1>2. call.stage = "fetch" /\ config.embedder = "llama" /\ UNCHANGED <<config, cache, pool, frames>>
      /\ call' = [call EXCEPT !.stage = "memoize"] /\ thread' = [w \in Worker |-> Off]
  BY DEF JoinFetched
<1>3. DOMAIN pool.results = DOMAIN pool.jobs
  BY AllAnswered DEF JoinFetched
<1>4. /\ call'.stage = "memoize" /\ call'.texts = call.texts /\ call'.out = call.out
      /\ call' = [stage |-> call'.stage, content |-> call'.content, puts |-> call'.puts,
                  texts |-> call'.texts, out |-> call'.out]
  BY <1>1, <1>2 DEF CallInv
<1>5. CallInv'
  BY <1>1, <1>2, <1>4 DEF CallInv
<1>6. PoolInv'
  BY <1>1, <1>2 DEF PoolInv, Bound
<1>7. TeamInv'
  BY <1>2, <1>3 DEF TeamInv, Off
<1>8. StageInv'
  BY <1>2, <1>3, <1>4 DEF StageInv
<1> QED
  BY <1>2, <1>5, <1>6, <1>7, <1>8 DEF IngestInv, ConfigInv, FramesInv

LEMMA ServedIsMade == ASSUME NEW text, NEW env PROVE Made(Vector(text, "server"), text, env)
  BY DEF Made, Vector

LEMMA JoinEachInv == ASSUME IngestInv, JoinEach PROVE IngestInv'
<1> DEFINE texts == call.texts
           out == [i \in DOMAIN texts |-> pool.results[i]]
<1>1. CallInv /\ PoolInv
  BY DEF IngestInv
<1>2. call.stage = "fetch" /\ config.embedder = "plain" /\ UNCHANGED <<config, cache, frames>>
      /\ call' = [call EXCEPT !.stage = "embed", !.out = out]
      /\ pool' = NoPool /\ thread' = [w \in Worker |-> Off]
  BY DEF JoinEach
<1>3. DOMAIN pool.results = DOMAIN texts /\ pool.jobs = texts
  BY <1>1, <1>2, AllAnswered DEF CallInv, JoinEach
<1>4. IsSeq(texts) /\ texts # <<>> /\ Len(texts) \in Nat /\ DOMAIN texts = 1 .. Len(texts)
  BY <1>1, <1>2, IsSeqFacts DEF CallInv
<1>5. \A i \in DOMAIN texts : out[i] = Vector(texts[i], "server")
  BY <1>1, <1>3 DEF PoolInv
<1>6. IsSeq(out) /\ Len(out) = Len(texts) /\ DOMAIN out = DOMAIN texts
  <2> DEFINE V == {Vector(texts[i], "server") : i \in DOMAIN texts}
  <2>1. out \in Seq(V) /\ Len(out) = Len(texts)
    <3>1. out = [i \in 1 .. Len(texts) |-> out[i]] /\ DOMAIN out = DOMAIN texts
      BY <1>4
    <3>2. \A i \in 1 .. Len(texts) : out[i] \in V
      BY <1>4, <1>5
    <3> HIDE DEF out, V
    <3> QED
      BY <1>4, <3>1, <3>2
  <2> HIDE DEF V
  <2>2. IsSeq(out)
    BY <2>1, SeqIsSeq
  <2> QED
    BY <2>1, <2>2
<1>7. /\ call'.stage = "embed" /\ call'.texts = texts /\ call'.out = out
      /\ call' = [stage |-> call'.stage, content |-> call'.content, puts |-> call'.puts,
                  texts |-> call'.texts, out |-> call'.out]
  BY <1>1, <1>2 DEF CallInv
<1> HIDE DEF texts, out
<1>8. CallInv'
  <2>1. \A i \in DOMAIN out : Made(out[i], texts[i], config.env)
    BY <1>5, <1>6, ServedIsMade
  <2> QED
    BY <1>2, <1>4, <1>6, <1>7, <2>1 DEF CallInv
<1> QED
  BY <1>2, <1>7, <1>8, Resting DEF IngestInv, ConfigInv, FramesInv

\* The vector of a missing text goes to each place that waits for it.
LEMMA MemoizeInv == ASSUME IngestInv, NEW j \in DOMAIN pool.jobs, Memoize(j) PROVE IngestInv'
<1> DEFINE text == pool.jobs[j]
           v == Result(text)
           texts == call.texts
           n == Len(call.out)
           out == [i \in DOMAIN call.out |->
                    IF call.out[i] = None /\ texts[i] = text THEN v ELSE call.out[i]]
<1>1. CallInv /\ PoolInv /\ TeamInv /\ StageInv /\ Kept(cache, config.env)
  BY DEF IngestInv
<1>2. call.stage = "memoize" /\ cache' = Memoized(cache, text, v)
      /\ UNCHANGED <<config, thread, frames>>
  BY DEF Memoize
<1>3. \/ call' = [call EXCEPT !.out = out] /\ UNCHANGED pool
      \/ call' = [call EXCEPT !.stage = "embed", !.out = out] /\ pool' = NoPool
  BY DEF Memoize
<1>4. config.embedder = "llama" /\ DOMAIN pool.results = DOMAIN pool.jobs
      /\ thread = [w \in Worker |-> Off]
  BY <1>1, <1>2 DEF StageInv
<1>5. Made(v, text, config.env)
  <2>1. v = Vector(text, "server")
    BY <1>1, <1>4 DEF Result, PoolInv
  <2> HIDE DEF text, v
  <2> QED
    BY <2>1, ServedIsMade
<1>6. Kept(cache', config'.env)
  <2> HIDE DEF text, v
  <2> QED
    BY <1>1, <1>2, <1>5, MemoizedKept
<1>7. IsSeq(texts) /\ texts # <<>> /\ n \in Nat /\ n <= Len(texts) /\ DOMAIN call.out = 1 .. n
      /\ \A i \in 1 .. n : call.out[i] # None => Made(call.out[i], texts[i], config.env)
  BY <1>1, <1>2, IsSeqFacts DEF CallInv
<1>8. /\ DOMAIN out = 1 .. n /\ out = [i \in 1 .. n |-> out[i]]
      /\ \A i \in 1 .. n : out[i] = IF call.out[i] = None /\ texts[i] = text THEN v ELSE call.out[i]
  BY <1>7
<1>9. /\ call'.texts = texts /\ call'.out = out /\ call'.stage \in {"embed", "memoize"}
      /\ call'.stage = "memoize" => UNCHANGED pool
      /\ call'.stage = "embed" => pool' = NoPool
      /\ call' = [stage |-> call'.stage, content |-> call'.content, puts |-> call'.puts,
                  texts |-> call'.texts, out |-> call'.out]
  BY <1>1, <1>2, <1>3 DEF CallInv
<1> HIDE DEF out, text, v, texts, n
<1>10. IsSeq(out) /\ Len(out) = n
  <2> DEFINE T == {out[i] : i \in 1 .. n}
  <2>1. \A i \in 1 .. n : out[i] \in T
    OBVIOUS
  <2> HIDE DEF T
  <2>2. out \in Seq(T) /\ Len(out) = n
    BY <1>7, <1>8, <2>1
  <2> QED
    BY <2>2, SeqIsSeq
<1>11. \A i \in 1 .. n : out[i] # None => Made(out[i], texts[i], config.env)
  BY <1>5, <1>7, <1>8
<1>12. CallInv'
  BY <1>2, <1>4, <1>7, <1>8, <1>9, <1>10, <1>11 DEF CallInv
<1>13. PoolInv' /\ TeamInv' /\ StageInv'
  <2>1. CASE call'.stage = "memoize"
    <3>1. UNCHANGED <<config, pool, thread>>
      BY <1>2, <1>9, <2>1
    <3>2. PoolInv' /\ TeamInv'
      BY <1>1, <3>1 DEF PoolInv, TeamInv, Bound
    <3> QED
      BY <1>4, <2>1, <3>1, <3>2 DEF StageInv
  <2>2. CASE call'.stage = "embed"
    BY <1>2, <1>4, <1>9, <2>2, Resting
  <2> QED
    BY <1>9, <2>1, <2>2
<1> QED
  BY <1>2, <1>6, <1>12, <1>13 DEF IngestInv, ConfigInv, FramesInv

\* What is left leaves all but the memoizer as it is.
LEMMA OthersInv ==
  ASSUME IngestInv, UNCHANGED <<config, cache, call, pool, thread, frames>>
  PROVE  IngestInv'
<1> SUFFICES /\ ConfigInv' /\ Kept(cache', config'.env) /\ FramesInv'
             /\ CallInv' /\ PoolInv' /\ TeamInv' /\ StageInv'
  BY DEF IngestInv
<1> QED
  BY DEF IngestInv, ConfigInv, FramesInv, CallInv, PoolInv, TeamInv, StageInv, Bound

-----------------------------------------------------------------------------
(* The theorem.                                                             *)

LEMMA IngestNext == ASSUME IngestInv, Next PROVE IngestInv'
<1>1. CASE \E text \in Content : Remember(text)
  BY <1>1, RememberInv
<1>2. CASE \E text \in Query : EmbedQuery(text)
  BY <1>2, EmbedQueryInv
<1>3. CASE Lookup \/ Fetch \/ EmbedEach \/ EmbedTorch
  BY <1>3, LookupInv, FetchInv, EmbedEachInv, EmbedTorchInv
<1>4. CASE \E w \in Worker : Look(w) \/ Take(w) \/ Answer(w) \/ Refuse(w)
  BY <1>4, LookInv, TakeInv, AnswerInv, RefuseInv
<1>5. CASE JoinFailed \/ JoinFetched \/ JoinEach
  BY <1>5, JoinFailedInv, JoinFetchedInv, JoinEachInv
<1>6. CASE \E j \in DOMAIN pool.jobs : Memoize(j)
  BY <1>6, MemoizeInv
<1>7. CASE StartPuts \/ PutChunk \/ PutFails
  BY <1>7, StartPutsInv, PutChunkInv, PutFailsInv
<1>8. CASE (\E id \in DOMAIN frames : LookupFrame(id)) \/ ClearMemoizer
  BY <1>8, OthersInv DEF LookupFrame, ClearMemoizer
<1> QED
  BY <1>1, <1>2, <1>3, <1>4, <1>5, <1>6, <1>7, <1>8 DEF Next, Run

\* Whatever is cached, evicted, asked twice in a batch, refused or answered out of
\* order, each vector that is kept or put is that of its text, no text is asked
\* for more often than the retries allow, and a strict runtime makes fallback
\* vectors only where the manifest has nothing for a CUDA device.
THEOREM OwnVectorsAlways == Spec => []OwnVectors
<1>1. IngestInv /\ [Next]_vars => IngestInv'
  <2>1. CASE UNCHANGED vars
    BY <2>1, OthersInv DEF vars
  <2> QED
    BY <2>1, IngestNext
<1> QED
  BY <1>1, IngestInit, InvImpliesOwn, PTL DEF Spec
=============================================================================
