----------------------------- MODULE FactProofs -----------------------------
(***************************************************************************)
(* Proofs about FactMemory, for any keys, texts, limits and bounds, and    *)
(* whatever calls and commits fail or die: what of a fact a restart reads, *)
(* how revisions are linked in the file, when memory is what a restart     *)
(* would make of the file, and when a refused commit can be repeated.      *)
(***************************************************************************)
EXTENDS FactMemory, SetInduction, FiniteSetTheorems

-----------------------------------------------------------------------------
(* Payloads.                                                                *)

\* The recursion in Bytes.
Counts(f, p) ==
  f = [i \in 0 .. Len(p.strings) |->
        IF i = 0 THEN HeadBytes(p.op) ELSE f[i - 1] + 4 + Size[p.strings[i]]]

Strings == DOMAIN Size

CountedFrom(f, head, s, n) ==
  f[0] = head /\ \A i \in 1 .. n : f[i] = f[i - 1] + 4 + Size[s[i]]

LEMMA BytesAre ==
  ASSUME NEW p, p.strings \in Seq(Strings)
  PROVE  \E f : /\ f \in [0 .. Len(p.strings) -> Nat]
                /\ CountedFrom(f, HeadBytes(p.op), p.strings, Len(p.strings))
                /\ Bytes(p) = f[Len(p.strings)]
<1> PICK s \in Seq(Strings), n \in Nat : s = p.strings /\ n = Len(p.strings)
  OBVIOUS
<1> PICK head \in Nat : head = HeadBytes(p.op)
  BY DEF HeadBytes
<1>0. Size \in [Strings -> Nat]
  BY PayloadAssumption DEF Strings
<1> DEFINE step == [q \in (1 .. n) \X Nat |-> q[2] + 4 + Size[s[q[1]]]]
<1>1. step \in Steps(n, Nat)
  <2>1. ASSUME NEW q \in (1 .. n) \X Nat
        PROVE  q[2] + 4 + Size[s[q[1]]] \in Nat
    <3>1. s[q[1]] \in Strings /\ q[2] \in Nat
      OBVIOUS
    <3>2. Size[s[q[1]]] \in Nat
      BY <1>0, <3>1
    <3> QED
      BY <3>1, <3>2
  <2> QED
    BY <2>1, Zenon DEF Steps
<1>2. \A i \in 1 .. n, x \in Nat : step[<<i, x>>] = x + 4 + Size[s[i]]
  <2>1. \A i \in 1 .. n, x \in Nat : <<i, x>> \in (1 .. n) \X Nat
    OBVIOUS
  <2> QED
    BY <2>1
<1> HIDE DEF step
<1>3. PICK f : f \in [0 .. n -> Nat] /\ Iterates(f, head, step, n)
  BY <1>0, <1>1, RecursionExists, Zenon
<1>4. CountedFrom(f, head, s, n)
  <2>1. \A i \in 1 .. n : f[i - 1] \in Nat
    BY <1>3
  <2> QED
    BY <1>2, <1>3, <2>1 DEF Iterates, CountedFrom
<1>5. Counts(f, p)
  <2>1. \A i \in 0 .. n : f[i] = IF i = 0 THEN head ELSE f[i - 1] + 4 + Size[s[i]]
    BY <1>4 DEF CountedFrom
  <2>2. f = [i \in 0 .. n |-> f[i]]
    BY <1>3
  <2>3. f = [i \in 0 .. n |-> IF i = 0 THEN head ELSE f[i - 1] + 4 + Size[s[i]]]
    BY <2>1, <2>2
  <2> QED
    BY <2>3, Zenon DEF Counts
<1> DEFINE g == CHOOSE g : Counts(g, p)
<1>6. Counts(g, p)
  BY <1>5
<1>7. Bytes(p) = g[n]
  BY DEF Bytes, Counts
<1> HIDE DEF g
<1>8. CountedFrom(g, head, s, n) /\ g = [i \in 0 .. n |-> g[i]]
  <2> DEFINE h == [i \in 0 .. n |-> IF i = 0 THEN head ELSE g[i - 1] + 4 + Size[s[i]]]
  <2>1. g = h
    BY <1>6, Zenon DEF Counts
  <2>2. h[0] = head /\ \A i \in 1 .. n : h[i] = g[i - 1] + 4 + Size[s[i]]
    OBVIOUS
  <2>3. h = [i \in 0 .. n |-> h[i]]
    OBVIOUS
  <2> HIDE DEF h
  <2> QED
    BY <2>1, <2>2, <2>3 DEF CountedFrom
<1>9. \A i \in 0 .. n : g[i] = f[i]
  <2>1. InStep(g, f, n)
    BY <1>4, <1>8 DEF InStep, CountedFrom
  <2>2. Agree(g, f, n)
    BY <2>1, SameSteps
  <2> QED
    BY <2>2 DEF Agree
<1>10. Bytes(p) = f[n]
  <2>1. n \in 0 .. n
    OBVIOUS
  <2> QED
    BY <1>7, <1>9, <2>1
<1> QED
  BY <1>3, <1>4, <1>10, Zenon

\* A payload of more strings, with a larger head, has more bytes.
LEMMA BytesOfMore ==
  ASSUME NEW p, NEW q, p.strings \in Seq(Strings), q.strings \in Seq(Strings),
         Len(p.strings) <= Len(q.strings), HeadBytes(p.op) <= HeadBytes(q.op),
         \A i \in DOMAIN p.strings : p.strings[i] = q.strings[i]
  PROVE  Bytes(p) <= Bytes(q)
<1> PICK n \in Nat, m \in Nat : n = Len(p.strings) /\ m = Len(q.strings)
  OBVIOUS
<1> PICK a, b : a = HeadBytes(p.op) /\ b = HeadBytes(q.op)
  OBVIOUS
<1> PICK s \in Seq(Strings), t \in Seq(Strings) : s = p.strings /\ t = q.strings
  OBVIOUS
<1>1. PICK f : f \in [0 .. n -> Nat] /\ CountedFrom(f, a, s, n) /\ Bytes(p) = f[n]
  BY BytesAre
<1>2. PICK g : g \in [0 .. m -> Nat] /\ CountedFrom(g, b, t, m) /\ Bytes(q) = g[m]
  BY BytesAre
<1>3. \A i \in 1 .. m : t[i] \in Strings /\ Size[t[i]] \in Nat
  BY PayloadAssumption DEF Strings
<1> DEFINE S == {i \in 0 .. m : IF i <= n THEN f[i] <= g[i] ELSE f[n] <= g[i]}
<1>4. 0 \in S
  <2>1. 0 \in 0 .. m /\ 0 \in 0 .. n
    OBVIOUS
  <2> QED
    BY <1>1, <1>2, <2>1 DEF CountedFrom
<1>5. ASSUME NEW i \in 1 .. m, i - 1 \in S
      PROVE  i \in S
  <2>0. i \in 0 .. m /\ i - 1 \in 0 .. m
    OBVIOUS
  <2>1. g[i] = g[i - 1] + 4 + Size[t[i]] /\ g[i - 1] \in Nat /\ g[i] \in Nat /\ Size[t[i]] \in Nat
    BY <1>2, <1>3, <2>0 DEF CountedFrom
  <2>2. CASE i <= n
    <3>1. i \in 1 .. n /\ i - 1 <= n /\ i - 1 \in 0 .. n
      BY <2>2
    <3>2. f[i] = f[i - 1] + 4 + Size[s[i]] /\ f[i - 1] \in Nat
      BY <1>1, <3>1 DEF CountedFrom
    <3>3. s[i] = t[i]
      BY <3>1
    <3>4. f[i - 1] <= g[i - 1]
      BY <1>5, <3>1
    <3>5. f[i] <= g[i]
      BY <2>1, <3>2, <3>3, <3>4
    <3> QED
      BY <2>0, <2>2, <3>5
  <2>3. CASE i > n
    <3>1. f[n] <= g[i - 1]
      BY <1>5, <2>3
    <3>2. f[n] \in Nat
      BY <1>1
    <3>3. f[n] <= g[i]
      <4> PICK x \in Nat, y \in Nat, z \in Nat : x = f[n] /\ y = g[i - 1] /\ z = Size[t[i]]
        BY <2>1, <3>2
      <4>1. g[i] = y + 4 + z /\ x <= y
        BY <2>1, <3>1
      <4>2. x <= y + 4 + z
        <5> HIDE DEF S
        <5> QED
          BY <4>1
      <4> HIDE DEF S
      <4> QED
        BY <4>1, <4>2, Zenon
    <3> QED
      BY <2>0, <2>3, <3>3
  <2> QED
    BY <2>2, <2>3
<1>6. 0 .. m \subseteq S
  <2> HIDE DEF S
  <2> QED
    BY <1>4, <1>5, InductionUpTo
<1>7. m \in S
  <2>1. m \in 0 .. m
    OBVIOUS
  <2> HIDE DEF S
  <2> QED
    BY <1>6, <2>1
<1> QED
  BY <1>1, <1>2, <1>7

\* A set of numbers up to a bound has a greatest one, which Max gives.
LEMMA MaxExists ==
  ASSUME NEW S, S # {}, NEW b \in Nat, S \subseteq 0 .. b
  PROVE  Max(S) \in S /\ \A y \in S : Max(S) >= y
<1> DEFINE Up(k) == \A x \in S : x <= k
           U == {k \in Nat : Up(k) => \E x \in S : \A y \in S : x >= y}
<1>1. 0 \in U
  <2>1. PICK x \in S : TRUE
    OBVIOUS
  <2>2. ASSUME Up(0)
        PROVE  \A y \in S : x >= y
    BY <2>2
  <2> QED
    BY <2>1, <2>2
<1>2. ASSUME NEW k \in Nat, k \in U
      PROVE  k + 1 \in U
  <2>1. CASE k + 1 \in S
    BY <2>1
  <2>2. CASE k + 1 \notin S
    <3>1. Up(k + 1) => Up(k)
      BY <2>2
    <3> QED
      BY <1>2, <3>1
  <2> QED
    BY <2>1, <2>2
<1>3. Nat \subseteq U
  <2> HIDE DEF U
  <2> QED
    BY <1>1, <1>2, SetInduction
<1>4. Up(b)
  OBVIOUS
<1>5. \E x \in S : \A y \in S : x >= y
  BY <1>3, <1>4
<1> QED
  BY <1>5 DEF Max

\* A restart sees the whole of a payload that is not too long.
LEMMA WholeRead ==
  ASSUME NEW p, p.strings \in Seq(Strings), NEW n, Bytes(p) <= n,
         p = [op |-> p.op, strings |-> p.strings, pairs |-> p.pairs]
  PROVE  FirstBytes(p, n) = p
<1> DEFINE Part(k) == [p EXCEPT !.strings = SubSeq(@, 1, k)]
           whole == {k \in 0 .. Len(p.strings) : Bytes(Part(k)) <= n}
           S == {0} \cup whole
<1>1. FirstBytes(p, n) = Part(Max(S))
  BY DEF FirstBytes
<1> PICK s \in Seq(Strings), len \in Nat : s = p.strings /\ len = Len(s)
  OBVIOUS
<1>2. Part(len) = p
  <2>1. SubSeq(s, 1, len) = s
    OBVIOUS
  <2> PICK op, pairs : op = p.op /\ pairs = p.pairs
    OBVIOUS
  <2>2. p = [op |-> op, strings |-> s, pairs |-> pairs]
    OBVIOUS
  <2>3. [p EXCEPT !.strings = s] = p
    BY <2>2
  <2> QED
    BY <2>1, <2>3
<1>3. len \in whole
  <2>1. len \in 0 .. len
    OBVIOUS
  <2> HIDE DEF Part
  <2> QED
    BY <1>2, <2>1
<1>4. \A k \in S : k \in Nat /\ k <= len
  OBVIOUS
<1> HIDE DEF whole, Part
<1>5. Max(S) = len
  <2>1. len \in S /\ \A k \in S : len >= k
    BY <1>3, <1>4
  <2> HIDE DEF S
  <2>2. Max(S) \in S /\ \A k \in S : Max(S) >= k
    BY <2>1 DEF Max
  <2> PICK x : x = Max(S)
    OBVIOUS
  <2>3. x \in Nat /\ x <= len /\ x >= len
    BY <1>4, <2>1, <2>2
  <2>4. x = len
    BY <2>3
  <2> QED
    BY <2>4
<1> QED
  BY <1>1, <1>2, <1>5

-----------------------------------------------------------------------------
(* Metadata in a payload.                                                   *)

\* The recursion in Pairs.
Pairings(f, meta) ==
  f = [i \in 0 .. Len(KeyOrder) |->
        IF i = 0 THEN <<>>
        ELSE IF KeyOrder[i] \in DOMAIN meta
             THEN f[i - 1] \o <<KeyOrder[i], meta[KeyOrder[i]]>>
             ELSE f[i - 1]]

\* s has each key of D once, with its value behind it.
Paired(s, D, meta) ==
  /\ s \in Seq(Strings) /\ IsFiniteSet(D) /\ Len(s) = 2 * Cardinality(D)
  /\ \A i \in 1 .. Cardinality(D) : s[2 * i - 1] \in D /\ s[2 * i] = meta[s[2 * i - 1]]
  /\ \A i, j \in 1 .. Cardinality(D) : s[2 * i - 1] = s[2 * j - 1] => i = j
  /\ \A k \in D : \E i \in 1 .. Cardinality(D) : s[2 * i - 1] = k

\* t is s with two strings behind it.
PairAfter(s, t, k, v) ==
  /\ t \in Seq(Strings) /\ Len(t) = Len(s) + 2 /\ t[Len(s) + 1] = k /\ t[Len(s) + 2] = v
  /\ \A i \in 1 .. Len(s) : t[i] = s[i]

LEMMA PairBehind ==
  ASSUME NEW s \in Seq(Strings), NEW k \in Strings, NEW v \in Strings
  PROVE  PairAfter(s, s \o <<k, v>>, k, v)
<1>1. <<k, v>> \in Seq(Strings) /\ Len(<<k, v>>) = 2 /\ <<k, v>>[1] = k /\ <<k, v>>[2] = v
  OBVIOUS
<1> QED
  BY <1>1 DEF PairAfter

LEMMA PairsNext ==
  ASSUME NEW D, NEW meta, NEW s, Paired(s, D, meta), NEW k \in Strings, k \notin D,
         meta[k] \in Strings
  PROVE  Paired(s \o <<k, meta[k]>>, D \cup {k}, meta)
<1> PICK v \in Strings : v = meta[k]
  OBVIOUS
<1> PICK c \in Nat : c = Cardinality(D)
  BY FS_CardinalityType DEF Paired
<1> PICK E : E = D \cup {k}
  OBVIOUS
<1> PICK t : t = s \o <<k, v>>
  OBVIOUS
<1>1. IsFiniteSet(E) /\ Cardinality(E) = c + 1
  BY FS_AddElement DEF Paired
<1>2. s \in Seq(Strings) /\ Len(s) = 2 * c
  BY DEF Paired
<1>3. /\ t \in Seq(Strings) /\ Len(t) = 2 * c + 2
      /\ \A i \in 1 .. 2 * c : t[i] = s[i]
      /\ t[2 * c + 1] = k /\ t[2 * c + 2] = v
  <2> PICK n \in Nat : n = 2 * c
    OBVIOUS
  <2>1. Len(s) = n
    BY <1>2
  <2>2. PairAfter(s, s \o <<k, v>>, k, v)
    BY <1>2, PairBehind
  <2> HIDE DEF Paired
  <2> QED
    BY <2>1, <2>2 DEF PairAfter
<1>4. ASSUME NEW i \in 1 .. c
      PROVE  t[2 * i - 1] = s[2 * i - 1] /\ t[2 * i] = s[2 * i]
  <2>1. 2 * i - 1 \in 1 .. 2 * c /\ 2 * i \in 1 .. 2 * c
    OBVIOUS
  <2> QED
    BY <1>3, <2>1
<1>5. t[2 * (c + 1) - 1] = k /\ t[2 * (c + 1)] = v
  <2>1. 2 * (c + 1) - 1 = 2 * c + 1 /\ 2 * (c + 1) = 2 * c + 2
    OBVIOUS
  <2> QED
    BY <1>3, <2>1
<1>6. \A i \in 1 .. c + 1 : i \in 1 .. c \/ i = c + 1
  OBVIOUS
<1> DEFINE K(i) == t[2 * i - 1]
           V(i) == t[2 * i]
<1>7. /\ \A i \in 1 .. c : K(i) \in D /\ V(i) = meta[K(i)]
      /\ \A i, j \in 1 .. c : K(i) = K(j) => i = j
      /\ \A x \in D : \E i \in 1 .. c : K(i) = x
      /\ K(c + 1) = k /\ V(c + 1) = meta[k]
  <2>1. \A i \in 1 .. c : K(i) = s[2 * i - 1] /\ V(i) = s[2 * i]
    BY <1>4
  <2>2. K(c + 1) = k /\ V(c + 1) = meta[k]
    BY <1>5
  <2> HIDE DEF K, V
  <2>3. /\ \A i \in 1 .. c : s[2 * i - 1] \in D /\ s[2 * i] = meta[s[2 * i - 1]]
        /\ \A i, j \in 1 .. c : s[2 * i - 1] = s[2 * j - 1] => i = j
        /\ \A x \in D : \E i \in 1 .. c : s[2 * i - 1] = x
    BY Zenon DEF Paired
  <2>4. \A i \in 1 .. c : K(i) \in D /\ V(i) = meta[K(i)]
    <3> TAKE i \in 1 .. c
    <3>1. s[2 * i - 1] \in D /\ s[2 * i] = meta[s[2 * i - 1]]
      BY <2>3, Zenon
    <3>2. K(i) = s[2 * i - 1] /\ V(i) = s[2 * i]
      BY <2>1, Zenon
    <3> QED
      BY <3>1, <3>2, Zenon
  <2>5. \A i, j \in 1 .. c : K(i) = K(j) => i = j
    <3> TAKE i, j \in 1 .. c
    <3>1. s[2 * i - 1] = s[2 * j - 1] => i = j
      BY <2>3
    <3> QED
      BY <2>1, <3>1
  <2>6. \A x \in D : \E i \in 1 .. c : K(i) = x
    BY <2>1, <2>3
  <2> QED
    BY <2>2, <2>4, <2>5, <2>6
<1>8. Len(t) = 2 * (c + 1)
  BY <1>3
<1>9. \A i \in 1 .. c : i \in 1 .. c + 1
  OBVIOUS
<1>10. c + 1 \in 1 .. c + 1
  OBVIOUS
<1> HIDE DEF K, V
<1>11. /\ \A i \in 1 .. c + 1 : K(i) \in E /\ V(i) = meta[K(i)]
       /\ \A i, j \in 1 .. c + 1 : K(i) = K(j) => i = j
       /\ \A x \in E : \E i \in 1 .. c + 1 : K(i) = x
  BY <1>6, <1>7, <1>9, <1>10
<1>12. Paired(t, E, meta)
  <2>1. /\ \A i \in 1 .. c + 1 : t[2 * i - 1] \in E /\ t[2 * i] = meta[t[2 * i - 1]]
        /\ \A i, j \in 1 .. c + 1 : t[2 * i - 1] = t[2 * j - 1] => i = j
        /\ \A x \in E : \E i \in 1 .. c + 1 : t[2 * i - 1] = x
    BY <1>11, Zenon DEF K, V
  <2> PICK n : n = Cardinality(E)
    OBVIOUS
  <2>2. n = c + 1 /\ Len(t) = 2 * n /\ t \in Seq(Strings) /\ IsFiniteSet(E)
    BY <1>1, <1>3, <1>8
  <2>3. /\ \A i \in 1 .. n : t[2 * i - 1] \in E /\ t[2 * i] = meta[t[2 * i - 1]]
        /\ \A i, j \in 1 .. n : t[2 * i - 1] = t[2 * j - 1] => i = j
        /\ \A x \in E : \E i \in 1 .. n : t[2 * i - 1] = x
    BY <2>1, <2>2, Zenon
  <2> QED
    BY <2>2, <2>3, Zenon DEF Paired
<1> QED
  BY <1>12

\* The keys of meta among the first n.
KeysTo(meta, n) == {k \in DOMAIN meta : \E i \in 1 .. n : KeyOrder[i] = k}

IsMeta(meta) == meta \in [DOMAIN meta -> Strings] /\ DOMAIN meta \subseteq ToSet(KeyOrder)

LEMMA PairsPair ==
  ASSUME NEW meta, IsMeta(meta)
  PROVE  Paired(Pairs(meta), DOMAIN meta, meta)
<1> PICK n \in Nat : n = Len(KeyOrder)
  BY PayloadAssumption
<1>0. /\ KeyOrder \in Seq(Strings) /\ DOMAIN KeyOrder = 1 .. n
      /\ \A i, j \in 1 .. n : KeyOrder[i] = KeyOrder[j] => i = j
  BY PayloadAssumption DEF Strings
<1> DEFINE Next1(i, x) == IF KeyOrder[i] \in DOMAIN meta
                          THEN x \o <<KeyOrder[i], meta[KeyOrder[i]]>> ELSE x
           step == [p \in (1 .. n) \X Seq(Strings) |-> Next1(p[1], p[2])]
<1>1. \A i \in 1 .. n, x \in Seq(Strings) : Next1(i, x) \in Seq(Strings)
  <2> TAKE i \in 1 .. n, x \in Seq(Strings)
  <2>1. CASE KeyOrder[i] \in DOMAIN meta
    <3> PICK k \in Strings, v \in Strings : k = KeyOrder[i] /\ v = meta[k]
      BY <1>0, <2>1 DEF IsMeta
    <3>1. x \o <<k, v>> \in Seq(Strings)
      OBVIOUS
    <3> QED
      BY <2>1, <3>1
  <2> QED
    BY <2>1
<1>2. \A i \in 1 .. n, x \in Seq(Strings) : step[<<i, x>>] = Next1(i, x)
  <2>1. \A i \in 1 .. n, x \in Seq(Strings) : <<i, x>> \in (1 .. n) \X Seq(Strings)
    OBVIOUS
  <2> HIDE DEF Next1
  <2> QED
    BY <2>1
<1>3. step \in Steps(n, Seq(Strings))
  <2>1. ASSUME NEW p \in (1 .. n) \X Seq(Strings)
        PROVE  Next1(p[1], p[2]) \in Seq(Strings)
    <3>1. p[1] \in 1 .. n /\ p[2] \in Seq(Strings)
      OBVIOUS
    <3> HIDE DEF Next1
    <3> QED
      BY <1>1, <3>1
  <2> HIDE DEF Next1
  <2> QED
    BY <2>1, Zenon DEF Steps
<1> HIDE DEF step
<1>4. <<>> \in Seq(Strings)
  OBVIOUS
<1>5. PICK f : f \in [0 .. n -> Seq(Strings)] /\ Iterates(f, <<>>, step, n)
  BY <1>3, <1>4, RecursionExists, Zenon
<1>6. f[0] = <<>> /\ \A i \in 1 .. n : f[i] = Next1(i, f[i - 1])
  <2>1. \A i \in 1 .. n : f[i - 1] \in Seq(Strings)
    BY <1>5
  <2> HIDE DEF Next1
  <2> QED
    BY <1>2, <1>5, <2>1 DEF Iterates
<1>7. Pairings(f, meta)
  <2>1. \A i \in 0 .. n : f[i] = IF i = 0 THEN <<>> ELSE Next1(i, f[i - 1])
    <3> HIDE DEF Next1
    <3> QED
      BY <1>6
  <2>2. f = [i \in 0 .. n |-> f[i]]
    BY <1>5
  <2>3. f = [i \in 0 .. n |-> IF i = 0 THEN <<>> ELSE Next1(i, f[i - 1])]
    <3> HIDE DEF Next1
    <3> QED
      BY <2>1, <2>2
  <2> QED
    BY <2>3, Zenon DEF Pairings
<1> DEFINE g == CHOOSE g : Pairings(g, meta)
<1>8. Pairings(g, meta)
  BY <1>7
<1>9. Pairs(meta) = g[n]
  BY DEF Pairs, Pairings
<1> HIDE DEF g
<1>10. g[0] = <<>> /\ \A i \in 1 .. n : g[i] = Next1(i, g[i - 1])
  <2> DEFINE h == [i \in 0 .. n |-> IF i = 0 THEN <<>> ELSE Next1(i, g[i - 1])]
  <2>1. g = h
    BY <1>8, Zenon DEF Pairings
  <2> HIDE DEF Next1
  <2>2. h[0] = <<>> /\ \A i \in 1 .. n : h[i] = Next1(i, g[i - 1])
    OBVIOUS
  <2> HIDE DEF h
  <2> QED
    BY <2>1, <2>2
<1> DEFINE S == {i \in 0 .. n : Paired(g[i], KeysTo(meta, i), meta)}
<1>11. 0 \in S
  <2>1. KeysTo(meta, 0) = {}
    BY DEF KeysTo
  <2>2. Paired(<<>>, {}, meta)
    <3>1. Cardinality({}) = 0 /\ IsFiniteSet({})
      BY FS_EmptySet
    <3>2. Len(<<>>) = 2 * 0
      OBVIOUS
    <3> QED
      BY <1>4, <3>1, <3>2 DEF Paired
  <2>3. 0 \in 0 .. n
    OBVIOUS
  <2> QED
    BY <1>10, <2>1, <2>2, <2>3
<1>12. ASSUME NEW i \in 1 .. n, i - 1 \in S
       PROVE  i \in S
  <2> PICK x, k, D : x = g[i - 1] /\ k = KeyOrder[i] /\ D = KeysTo(meta, i - 1)
    OBVIOUS
  <2>1. Paired(x, D, meta)
    BY <1>12
  <2>2. \A j \in 1 .. i : j = i \/ j \in 1 .. (i - 1)
    OBVIOUS
  <2>3. \A j \in 1 .. (i - 1) : j \in 1 .. i /\ j \in 1 .. n /\ j # i
    OBVIOUS
  <2>4. i \in 1 .. i /\ i \in 0 .. n
    OBVIOUS
  <2>5. CASE k \in DOMAIN meta
    <3>1. KeysTo(meta, i) = D \cup {k}
      BY <2>2, <2>3, <2>4, <2>5 DEF KeysTo
    <3>2. k \notin D
      BY <1>0, <2>3 DEF KeysTo
    <3>3. k \in Strings /\ meta[k] \in Strings
      BY <1>0, <2>5 DEF IsMeta
    <3>4. g[i] = x \o <<k, meta[k]>>
      BY <1>10, <2>5
    <3>5. Paired(x \o <<k, meta[k]>>, D \cup {k}, meta)
      BY <2>1, <3>2, <3>3, PairsNext
    <3> QED
      BY <2>4, <3>1, <3>4, <3>5
  <2>6. CASE k \notin DOMAIN meta
    <3>1. KeysTo(meta, i) = D
      BY <2>2, <2>3, <2>6 DEF KeysTo
    <3>2. g[i] = x
      BY <1>10, <2>6
    <3> QED
      BY <2>1, <2>4, <3>1, <3>2
  <2> QED
    BY <2>5, <2>6
<1>13. 0 .. n \subseteq S
  <2> HIDE DEF S
  <2> QED
    BY <1>11, <1>12, InductionUpTo
<1>14. Paired(g[n], KeysTo(meta, n), meta)
  <2>1. n \in 0 .. n
    OBVIOUS
  <2> QED
    BY <1>13, <2>1
<1>15. KeysTo(meta, n) = DOMAIN meta
  <2>1. ASSUME NEW k \in DOMAIN meta
        PROVE  \E i \in 1 .. n : KeyOrder[i] = k
    <3>1. k \in {KeyOrder[i] : i \in DOMAIN KeyOrder}
      BY Zenon DEF IsMeta, ToSet
    <3> QED
      BY <1>0, <3>1
  <2> QED
    BY <2>1 DEF KeysTo
<1> QED
  BY <1>9, <1>14, <1>15

-----------------------------------------------------------------------------
(* What a restart reads.                                                    *)

Said(k, text) ==
  [op |-> "upsert", entity |-> k[1], attribute |-> k[2], value |-> text.value, meta |-> text.meta]

IsRemoval(fact, k) == fact.op = "remove" /\ fact.entity = k[1] /\ fact.attribute = k[2]

LEMMA KeyTyped ==
  ASSUME NEW k \in Key
  PROVE  /\ k[1] \in Strings /\ k[2] \in Strings /\ k = <<k[1], k[2]>>
         /\ Size[k[1]] > 0 /\ Size[k[2]] > 0
BY FactAssumption DEF Strings

LEMMA TextTyped ==
  ASSUME NEW k \in Key, NEW text \in Text[k]
  PROVE  text.value \in Strings /\ IsMeta(text.meta)
BY FactAssumption, Zenon DEF Strings, IsMeta

\* The strings of a fact: three, and the pairs behind them.
Facts(p, k, text) ==
  /\ p = [op |-> "upsert", strings |-> p.strings, pairs |-> Cardinality(DOMAIN text.meta)]
  /\ p.op = "upsert" /\ p.pairs = Cardinality(DOMAIN text.meta) /\ p.pairs \in Nat
  /\ p.strings \in Seq(Strings) /\ Len(p.strings) = 3 + 2 * p.pairs
  /\ p.strings[1] = k[1] /\ p.strings[2] = k[2] /\ p.strings[3] = text.value
  /\ \A i \in 1 .. 2 * p.pairs : p.strings[3 + i] = Pairs(text.meta)[i]

LEMMA UpsertFacts ==
  ASSUME NEW k \in Key, NEW text \in Text[k]
  PROVE  Facts(UpsertOf(k, text), k, text)
<1> PICK p : p = UpsertOf(k, text)
  OBVIOUS
<1> PICK D, meta, s, c : D = DOMAIN text.meta /\ meta = text.meta /\ s = Pairs(text.meta)
                         /\ c = Cardinality(D)
  OBVIOUS
<1> PICK e \in Strings, a \in Strings, v \in Strings : e = k[1] /\ a = k[2] /\ v = text.value
  BY KeyTyped, TextTyped
<1>1. p = [op |-> "upsert", strings |-> <<e, a, v>> \o s, pairs |-> c]
  BY Zenon DEF UpsertOf, BuildUpsertPayload
<1>2. s \in Seq(Strings) /\ Len(s) = 2 * c /\ IsFiniteSet(D)
  <2>1. IsMeta(meta)
    BY TextTyped
  <2>2. Paired(s, D, meta)
    BY <2>1, PairsPair
  <2> QED
    BY <2>2 DEF Paired
<1>3. c \in Nat
  BY <1>2, FS_CardinalityType
<1> PICK l \in Nat : l = 2 * c
  BY <1>3
<1> PICK t : t = <<e, a, v>> \o s
  OBVIOUS
<1>4. <<e, a, v>> \in Seq(Strings) /\ Len(<<e, a, v>>) = 3
      /\ <<e, a, v>>[1] = e /\ <<e, a, v>>[2] = a /\ <<e, a, v>>[3] = v
  OBVIOUS
<1>5. /\ t \in Seq(Strings) /\ Len(t) = 3 + l
      /\ t[1] = e /\ t[2] = a /\ t[3] = v /\ \A i \in 1 .. l : t[3 + i] = s[i]
  BY <1>2, <1>4
<1>6. p.op = "upsert" /\ p.strings = t /\ p.pairs = c
  BY <1>1
<1>7. p = [op |-> "upsert", strings |-> t, pairs |-> c]
  BY <1>1
<1>8. Facts(p, k, text)
  BY <1>3, <1>5, <1>6, <1>7 DEF Facts
<1> QED
  BY <1>8

LEMMA PuttableIs ==
  ASSUME NEW k \in Key, NEW text
  PROVE  /\ text \in Puttable[k] <=> text \in Text[k] /\ WithinLimits(UpsertOf(k, text))
         /\ text \in Puttable[k] \ UnreadTexts[k] <=>
              /\ text \in Puttable[k] /\ ~IsKnownUserContentFrame(text.meta)
              /\ ~(Bytes(UpsertOf(k, text)) > MaxRead)
<1>1. Puttable[k] = {t \in Text[k] : WithinLimits(UpsertOf(k, t))}
  BY Zenon DEF Puttable
<1>2. UnreadTexts[k] = {t \in Puttable[k] :
        Bytes(UpsertOf(k, t)) > MaxRead \/ IsKnownUserContentFrame(t.meta)}
  BY Zenon DEF UnreadTexts
<1> QED
  BY <1>1, <1>2

LEMMA BytesTyped ==
  ASSUME NEW p, p.strings \in Seq(Strings)
  PROVE  Bytes(p) \in Nat
<1>1. PICK f : f \in [0 .. Len(p.strings) -> Nat] /\ Bytes(p) = f[Len(p.strings)]
  BY BytesAre
<1>2. Len(p.strings) \in 0 .. Len(p.strings)
  OBVIOUS
<1> QED
  BY <1>1, <1>2

\* Keys and values come back as they were put.
LEMMA MetaParsed ==
  ASSUME NEW k \in Key, NEW text \in Text[k], NEW p, Facts(p, k, text)
  PROVE  /\ \A i, j \in 1 .. p.pairs : i # j => KeyAt(p, i) # KeyAt(p, j)
         /\ ParsedMeta(p) = text.meta
<1> PICK D, meta, s, c : D = DOMAIN text.meta /\ meta = text.meta /\ s = Pairs(text.meta)
                         /\ c = Cardinality(D)
  OBVIOUS
<1>1. Paired(s, D, meta) /\ meta \in [D -> Strings]
  <2>1. IsMeta(meta)
    BY TextTyped
  <2> QED
    BY <2>1, PairsPair DEF IsMeta
<1>2. c \in Nat /\ p.pairs = c
  BY DEF Facts
<1>3. ASSUME NEW i \in 1 .. c
      PROVE  /\ KeyAt(p, i) = s[2 * i - 1] /\ ValueAt(p, i) = s[2 * i]
             /\ KeyAt(p, i) \in D /\ ValueAt(p, i) = meta[KeyAt(p, i)]
  <2>1. /\ 2 * i - 1 \in 1 .. 2 * c /\ 2 * i \in 1 .. 2 * c
        /\ 2 + 2 * i = 3 + (2 * i - 1) /\ 3 + 2 * i = 3 + (2 * i)
    BY <1>2
  <2>2. p.strings[3 + (2 * i - 1)] = s[2 * i - 1] /\ p.strings[3 + (2 * i)] = s[2 * i]
    BY <1>2, <2>1 DEF Facts
  <2>3. KeyAt(p, i) = s[2 * i - 1] /\ ValueAt(p, i) = s[2 * i]
    BY <2>1, <2>2 DEF KeyAt, ValueAt
  <2>4. s[2 * i - 1] \in D /\ s[2 * i] = meta[s[2 * i - 1]]
    BY <1>1, Zenon DEF Paired
  <2> QED
    BY <2>3, <2>4
<1> DEFINE K(i) == KeyAt(p, i)
           V(i) == ValueAt(p, i)
<1>4. \A i, j \in 1 .. c : K(i) = K(j) => i = j
  <2> TAKE i, j \in 1 .. c
  <2>1. s[2 * i - 1] = s[2 * j - 1] => i = j
    BY <1>1, Zenon DEF Paired
  <2> QED
    BY <1>3, <2>1
<1>5. \A x \in D : \E i \in 1 .. c : K(i) = x
  <2> TAKE x \in D
  <2>1. PICK i \in 1 .. c : s[2 * i - 1] = x
    BY <1>1, Zenon DEF Paired
  <2> QED
    BY <1>3, <2>1
<1>6. \A i \in 1 .. c : K(i) \in D /\ V(i) = meta[K(i)]
  BY <1>3
<1>7. ParsedMeta(p) = [x \in {K(i) : i \in 1 .. c} |-> V(CHOOSE i \in 1 .. c : K(i) = x)]
  <2>1. ParsedMeta(p) = [x \in {K(i) : i \in 1 .. p.pairs} |->
                          V(CHOOSE i \in 1 .. p.pairs : K(i) = x)]
    BY Zenon DEF ParsedMeta
  <2> HIDE DEF K, V
  <2> QED
    BY <1>2, <2>1
<1> HIDE DEF K, V
<1>8. {K(i) : i \in 1 .. c} = D
  BY <1>5, <1>6
<1>9. \A x \in D : V(CHOOSE i \in 1 .. c : K(i) = x) = meta[x]
  <2> TAKE x \in D
  <2> DEFINE n == CHOOSE i \in 1 .. c : K(i) = x
  <2>1. n \in 1 .. c /\ K(n) = x
    BY <1>5
  <2> HIDE DEF n
  <2>2. V(n) = meta[x]
    BY <1>6, <2>1
  <2> QED
    BY <2>2 DEF n
<1>10. ParsedMeta(p) = meta
  <2> DEFINE W(x) == V(CHOOSE i \in 1 .. c : K(i) = x)
  <2>1. ParsedMeta(p) = [x \in D |-> W(x)]
    BY <1>7, <1>8, Zenon
  <2>2. \A x \in D : W(x) = meta[x]
    BY <1>9
  <2> HIDE DEF W
  <2> QED
    BY <1>1, <2>1, <2>2
<1> QED
  BY <1>2, <1>4, <1>10 DEF K

\* A fact within the limits is read whole.
LEMMA UpsertReads ==
  ASSUME NEW k \in Key, NEW text \in Puttable[k] \ UnreadTexts[k]
  PROVE  UpsertRead[k][text] = Said(k, text) /\ UpsertRead[k][text] # None
<1>0. /\ text \in Puttable[k] /\ text \in Text[k] /\ WithinLimits(UpsertOf(k, text))
      /\ ~IsKnownUserContentFrame(text.meta) /\ ~(Bytes(UpsertOf(k, text)) > MaxRead)
  BY PuttableIs
<1> PICK p : p = UpsertOf(k, text)
  OBVIOUS
<1>1. Facts(p, k, text)
  BY <1>0, UpsertFacts
<1>2. FirstBytes(p, MaxRead) = p
  <2>1. p.strings \in Seq(Strings) /\ p = [op |-> p.op, strings |-> p.strings, pairs |-> p.pairs]
    BY <1>1 DEF Facts
  <2>2. Bytes(p) \in Nat /\ MaxRead \in Nat
    BY <2>1, BytesTyped, PayloadAssumption
  <2>3. Bytes(p) <= MaxRead
    BY <1>0, <2>2
  <2> QED
    BY <2>1, <2>3, WholeRead
<1>3. Readable(p)
  <2>1. Len(p.strings) = IF p.op = "upsert" THEN 3 + 2 * p.pairs ELSE 2
    BY <1>1 DEF Facts
  <2>2. Size[p.strings[1]] > 0 /\ Size[p.strings[2]] > 0
    BY <1>1, KeyTyped DEF Facts
  <2>3. \A i, j \in 1 .. p.pairs : i # j => KeyAt(p, i) # KeyAt(p, j)
    BY <1>0, <1>1, MetaParsed
  <2> QED
    BY <1>0, <2>1, <2>2, <2>3, Zenon DEF Readable
<1>4. ParsePayload(p) = Said(k, text)
  <2>1. ParsedMeta(p) = text.meta
    BY <1>0, <1>1, MetaParsed
  <2> QED
    BY <1>1, <2>1 DEF ParsePayload, Said, Facts
<1>5. UpsertRead[k][text] = ReadBack(p)
  BY <1>0, Zenon DEF UpsertRead
<1>6. ReadBack(p) = ParsePayload(p)
  BY <1>2, <1>3, Zenon DEF ReadBack
<1>7. ParsePayload(p) # None
  BY <1>0, FactAssumption, Zenon
<1> QED
  BY <1>4, <1>5, <1>6, <1>7

\* A tombstone is read when a fact of its key is.
LEMMA RemovalRead ==
  ASSUME NEW k \in Key, NEW text \in Puttable[k] \ UnreadTexts[k]
  PROVE  RemoveRead[k] # None /\ IsRemoval(RemoveRead[k], k)
<1> PICK p, q : p = RemoveOf(k) /\ q = UpsertOf(k, text)
  OBVIOUS
<1> PICK e \in Strings, a \in Strings : e = k[1] /\ a = k[2]
  BY KeyTyped
<1>0. text \in Text[k] /\ WithinLimits(q) /\ ~(Bytes(q) > MaxRead)
  BY PuttableIs
<1>1. p = [op |-> "remove", strings |-> <<e, a>>, pairs |-> 0]
  BY Zenon DEF RemoveOf, BuildRemovePayload
<1>2. /\ p.op = "remove" /\ p.strings = <<e, a>> /\ p.pairs = 0
      /\ p = [op |-> p.op, strings |-> p.strings, pairs |-> p.pairs]
  BY <1>1
<1>3. Facts(q, k, text)
  BY <1>0, UpsertFacts
<1>4. /\ p.strings \in Seq(Strings) /\ Len(p.strings) = 2 /\ DOMAIN p.strings = 1 .. 2
      /\ p.strings[1] = e /\ p.strings[2] = a
  BY <1>2
<1>5. /\ q.strings \in Seq(Strings) /\ Len(q.strings) >= 2 /\ q.op = "upsert" /\ q.pairs \in Nat
      /\ q.strings[1] = e /\ q.strings[2] = a
  BY <1>3 DEF Facts
<1>6. Bytes(p) <= Bytes(q)
  <2>1. HeadBytes(p.op) <= HeadBytes(q.op)
    BY <1>2, <1>5 DEF HeadBytes
  <2>2. \A i \in DOMAIN p.strings : p.strings[i] = q.strings[i]
    <3>1. \A i \in 1 .. 2 : i = 1 \/ i = 2
      OBVIOUS
    <3> QED
      BY <1>4, <1>5, <3>1
  <2> QED
    BY <1>4, <1>5, <2>1, <2>2, BytesOfMore
<1>7. /\ Bytes(p) \in Nat /\ Bytes(q) \in Nat
      /\ MaxRead \in Nat /\ MaxPairs \in Nat /\ MaxPayload \in Nat
  BY <1>4, <1>5, BytesTyped, PayloadAssumption
<1>8. FirstBytes(p, MaxRead) = p
  <2>1. Bytes(p) <= MaxRead
    BY <1>0, <1>6, <1>7
  <2> QED
    BY <1>2, <1>4, <2>1, WholeRead
<1>9. WithinLimits(p)
  <2>1. Bytes(q) <= MaxPayload /\ \A s \in ToSet(q.strings) : Size[s] <= MaxField
    BY <1>0 DEF WithinLimits
  <2>2. Bytes(p) <= MaxPayload
    BY <1>6, <1>7, <2>1
  <2>3. e \in ToSet(q.strings) /\ a \in ToSet(q.strings)
    <3>1. 1 \in DOMAIN q.strings /\ 2 \in DOMAIN q.strings
      BY <1>5
    <3> QED
      BY <1>5, <3>1 DEF ToSet
  <2>4. ToSet(p.strings) \subseteq {e, a}
    <3>1. \A i \in 1 .. 2 : i = 1 \/ i = 2
      OBVIOUS
    <3> QED
      BY <1>4, <3>1 DEF ToSet
  <2>5. p.pairs <= MaxPairs
    BY <1>2, <1>7
  <2> QED
    BY <2>1, <2>2, <2>3, <2>4, <2>5 DEF WithinLimits
<1>10. Readable(p)
  <2>1. Len(p.strings) = IF p.op = "upsert" THEN 3 + 2 * p.pairs ELSE 2
    BY <1>2, <1>4
  <2>2. Size[p.strings[1]] > 0 /\ Size[p.strings[2]] > 0
    BY <1>4, KeyTyped
  <2>3. \A i, j \in 1 .. p.pairs : i # j => KeyAt(p, i) # KeyAt(p, j)
    BY <1>2
  <2> QED
    BY <1>9, <2>1, <2>2, <2>3, Zenon DEF Readable
<1>11. RemoveRead[k] = ParsePayload(p)
  BY <1>8, <1>10, Zenon DEF RemoveRead, ReadBack
<1>12. IsRemoval(ParsePayload(p), k)
  BY <1>2, <1>4 DEF ParsePayload, IsRemoval
<1>13. ParsePayload(p) # None
  BY FactAssumption, Zenon
<1> QED
  BY <1>11, <1>12, <1>13

\* The strings of a tombstone.
LEMMA RemoveStrings ==
  ASSUME NEW k \in Key
  PROVE  \E s \in Seq(Strings) :
           /\ Len(s) = 2 /\ s[1] = k[1] /\ s[2] = k[2]
           /\ RemoveOf(k) = [op |-> "remove", strings |-> s, pairs |-> 0]
<1> PICK e \in Strings, a \in Strings : e = k[1] /\ a = k[2]
  BY KeyTyped
<1>1. RemoveOf(k) = [op |-> "remove", strings |-> <<e, a>>, pairs |-> 0]
  BY Zenon DEF RemoveOf, BuildRemovePayload
<1>2. /\ <<e, a>> \in Seq(Strings) /\ Len(<<e, a>>) = 2
      /\ <<e, a>>[1] = e /\ <<e, a>>[2] = a
  OBVIOUS
<1> QED
  BY <1>1, <1>2

\* What is read of a tombstone at all is the removal of its key.
LEMMA RemovalIs ==
  ASSUME NEW k \in Key, RemoveRead[k] # None
  PROVE  IsRemoval(RemoveRead[k], k)
<1> PICK s \in Seq(Strings) :
      /\ Len(s) = 2 /\ s[1] = k[1] /\ s[2] = k[2]
      /\ RemoveOf(k) = [op |-> "remove", strings |-> s, pairs |-> 0]
  BY RemoveStrings
<1> PICK p : p = RemoveOf(k)
  OBVIOUS
<1> PICK q : q = FirstBytes(p, MaxRead)
  OBVIOUS
<1>1. Readable(q) /\ RemoveRead[k] = ParsePayload(q)
  BY Zenon DEF RemoveRead, ReadBack
<1>0. p = [op |-> "remove", strings |-> s, pairs |-> 0] /\ p.strings = s
  <2>1. p = [op |-> "remove", strings |-> s, pairs |-> 0]
    BY Zenon
  <2> QED
    BY <2>1
<1> DEFINE Part(i) == [p EXCEPT !.strings = SubSeq(@, 1, i)]
           whole == {i \in 0 .. Len(p.strings) : Bytes(Part(i)) <= MaxRead}
           S == {0} \cup whole
<1>2. q = Part(Max(S))
  BY DEF FirstBytes
<1>3. Max(S) \in 0 .. 2
  <2> HIDE DEF Part
  <2>1. S \subseteq 0 .. 2 /\ S # {}
    <3>1. Len(p.strings) = 2
      BY <1>0
    <3>2. whole \subseteq 0 .. 2
      BY <3>1
    <3> HIDE DEF whole
    <3> QED
      BY <3>2
  <2>2. 2 \in Nat
    OBVIOUS
  <2> HIDE DEF S
  <2>3. Max(S) \in S
    BY <2>1, <2>2, MaxExists
  <2> QED
    BY <2>1, <2>3
<1> HIDE DEF S
<1> PICK n \in 0 .. 2 : n = Max(S)
  BY <1>3
<1> PICK cut : cut = SubSeq(s, 1, n)
  OBVIOUS
<1>4. q.op = "remove" /\ q.strings = cut
  <2>1. q = [p EXCEPT !.strings = cut]
    <3>1. q = Part(n)
      BY <1>2, Zenon
    <3> QED
      BY <1>0, <3>1
  <2> HIDE DEF Part
  <2> PICK op, pairs : op = "remove" /\ pairs = 0
    OBVIOUS
  <2>2. p = [op |-> op, strings |-> s, pairs |-> pairs]
    BY <1>0
  <2> HIDE DEF whole, S
  <2>3. q = [op |-> op, strings |-> cut, pairs |-> pairs]
    BY <2>1, <2>2
  <2> QED
    BY <2>3
<1> HIDE DEF Part, whole
<1>5. Len(cut) = n
  OBVIOUS
<1>6. n = 2
  BY <1>1, <1>4, <1>5 DEF Readable
<1>7. cut = s
  BY <1>6
<1>8. ParsePayload(q).op = "remove" /\ ParsePayload(q).entity = k[1]
      /\ ParsePayload(q).attribute = k[2]
  BY <1>4, <1>7 DEF ParsePayload
<1> QED
  BY <1>1, <1>8 DEF IsRemoval

\* The first strings of a payload.
PayloadOf(p, op, s, pairs) == p = [op |-> op, strings |-> s, pairs |-> pairs]
LEMMA PartIs ==
  ASSUME NEW op, NEW s, NEW pairs, NEW cut, NEW p, PayloadOf(p, op, s, pairs)
  PROVE  PayloadOf([p EXCEPT !.strings = cut], op, cut, pairs)
<1>1. p = [op |-> op, strings |-> s, pairs |-> pairs]
  BY DEF PayloadOf
<1>2. [p EXCEPT !.strings = cut] = [op |-> op, strings |-> cut, pairs |-> pairs]
  BY <1>1
<1> QED
  BY <1>2 DEF PayloadOf
LEMMA PartFields ==
  ASSUME NEW op, NEW s, NEW pairs, NEW p, PayloadOf(p, op, s, pairs)
  PROVE  p.op = op /\ p.strings = s /\ p.pairs = pairs
BY DEF PayloadOf

LEMMA CutUnreadable ==
  ASSUME NEW q, NEW cut, NEW pairs, PayloadOf(q, "upsert", cut, pairs),
         Len(cut) # 3 + 2 * pairs
  PROVE  ~Readable(q)
<1> PICK op : op = "upsert"
  OBVIOUS
<1>1. q.op = op /\ q.strings = cut /\ q.pairs = pairs
  BY PartFields
<1> QED
  BY <1>1 DEF Readable

\* Nothing is read of a fact that is too long or taken for content.
LEMMA UnreadNone ==
  ASSUME NEW k \in Key, NEW text \in UnreadTexts[k]
  PROVE  text \in Puttable[k] /\ UpsertRead[k][text] = None
<1>1. /\ text \in Puttable[k] /\ text \in Text[k]
      /\ Bytes(UpsertOf(k, text)) > MaxRead \/ IsKnownUserContentFrame(text.meta)
  <2>1. UnreadTexts[k] = {t \in Puttable[k] :
          Bytes(UpsertOf(k, t)) > MaxRead \/ IsKnownUserContentFrame(t.meta)}
    BY Zenon DEF UnreadTexts
  <2> QED
    BY <2>1, PuttableIs
<1>2. UpsertRead[k][text]
        = IF IsKnownUserContentFrame(text.meta) THEN None ELSE ReadBack(UpsertOf(k, text))
  BY <1>1, Zenon DEF UpsertRead
<1>3. CASE IsKnownUserContentFrame(text.meta)
  BY <1>1, <1>2, <1>3
<1>4. CASE ~IsKnownUserContentFrame(text.meta)
  <2> PICK p : p = UpsertOf(k, text)
    OBVIOUS
  <2>1. Facts(p, k, text)
    BY <1>1, UpsertFacts
  <2> PICK s \in Seq(Strings) : s = p.strings
    BY <2>1 DEF Facts
  <2> PICK pairs \in Nat : pairs = p.pairs
    BY <2>1 DEF Facts
  <2> PICK len \in Nat : len = Len(s)
    OBVIOUS
  <2> PICK q : q = FirstBytes(p, MaxRead)
    OBVIOUS
  <2>2. p.op = "upsert" /\ len = 3 + 2 * pairs /\ p = [op |-> "upsert", strings |-> s, pairs |-> pairs]
    BY <2>1 DEF Facts
  <2> DEFINE Part(i) == [p EXCEPT !.strings = SubSeq(@, 1, i)]
             whole == {i \in 0 .. len : Bytes(Part(i)) <= MaxRead}
             S == {0} \cup whole
  <2>3. q = Part(Max(S))
    BY DEF FirstBytes
  <2>4. Max(S) \in S
    <3> HIDE DEF Part
    <3>1. whole \subseteq 0 .. len
      OBVIOUS
    <3> HIDE DEF whole
    <3> HIDE DEF whole
    <3>2. S \subseteq 0 .. len /\ S # {}
      <4>1. 0 \in 0 .. len
        OBVIOUS
      <4> QED
        BY <3>1, <4>1, Zenon
    <3> HIDE DEF S
    <3> QED
      BY <3>2, MaxExists, Zenon
  <2> PICK n : n = Max(S)
    OBVIOUS
  <2>5. \A i \in 0 .. len : PayloadOf(Part(i), "upsert", SubSeq(s, 1, i), pairs)
    <3> TAKE i \in 0 .. len
    <3> PICK cut : cut = SubSeq(s, 1, i)
      OBVIOUS
    <3>1. PayloadOf(p, "upsert", s, pairs)
      BY <2>2 DEF PayloadOf
    <3>2. PayloadOf([p EXCEPT !.strings = cut], "upsert", cut, pairs)
      BY <3>1, PartIs
    <3>3. Part(i) = [p EXCEPT !.strings = cut]
      BY <2>2
    <3> HIDE DEF Part
    <3> QED
      BY <3>2, <3>3
  <2>6. len \notin whole
    <3>1. SubSeq(s, 1, len) = s
      OBVIOUS
    <3>2. len \in 0 .. len
      OBVIOUS
    <3>3. Part(len) = p
      <4>1. PayloadOf(Part(len), "upsert", s, pairs)
        BY <2>5, <3>1, <3>2, Zenon
      <4> HIDE DEF Part
      <4> QED
        BY <2>2, <4>1, Zenon DEF PayloadOf
    <3>4. Bytes(p) > MaxRead /\ Bytes(p) \in Nat /\ MaxRead \in Nat
      BY <1>1, <1>4, <2>1, BytesTyped, PayloadAssumption DEF Facts
    <3> HIDE DEF Part
    <3> QED
      BY <3>3, <3>4
  <2> HIDE DEF Part
  <2>7. n \in 0 .. len /\ n < len
    <3>1. n = 0 \/ n \in whole
      BY <2>4
    <3>2. whole \subseteq 0 .. len
      OBVIOUS
    <3> HIDE DEF whole
    <3> HIDE DEF S
    <3>3. n \in 0 .. len /\ (n = len => n = 0)
      <4>1. 0 \in 0 .. len
        OBVIOUS
      <4> QED
        BY <2>6, <3>1, <3>2, <4>1, Zenon
    <3>4. len >= 3
      BY <2>2
    <3> QED
      BY <3>3, <3>4
  <2> HIDE DEF whole, S
  <2> PICK cut : cut = SubSeq(s, 1, n)
    OBVIOUS
  <2>8. PayloadOf(q, "upsert", cut, pairs)
    BY <2>3, <2>5, <2>7, Zenon
  <2>9. Len(cut) = n
    BY <2>7
  <2>10. ~Readable(q)
    <3> HIDE DEF Part
    <3>1. Len(cut) # 3 + 2 * pairs
      <4> PICK double : double = 2 * pairs
        OBVIOUS
      <4> QED
        BY <2>2, <2>7, <2>9
    <3> QED
      BY <2>8, <3>1, CutUnreadable, Zenon
  <2>11. ReadBack(UpsertOf(k, text)) = None
    BY <2>10, Zenon DEF ReadBack
  <2> QED
    BY <1>1, <1>2, <1>4, <2>11
<1> QED
  BY <1>3, <1>4

-----------------------------------------------------------------------------
(* Frames, and the mutations that change them.                              *)

Link == Nat \cup {None}
Texts == UNION {Puttable[k] : k \in Key}

AnyFrame ==
  [op : {"upsert", "remove", "other"}, key : Key \cup {None}, text : Texts \cup {None},
   pinned : BOOLEAN, deleted : BOOLEAN, supersedes : Link, superseded_by : Link]

Fitting(op, k, text) ==
  /\ op = "upsert" => k \in Key /\ text \in Puttable[k]
  /\ op = "remove" => k \in Key

Frames == {f \in AnyFrame : Fitting(f.op, f.key, f.text)}

NewFrames ==
  {f \in Frames : f.deleted = FALSE /\ f.supersedes = None /\ f.superseded_by = None}

Mutation ==
  [kind : {"put"}, frame : NewFrames] \cup [kind : {"delete"}, id : Nat]
    \cup [kind : {"supersede"}, old : Nat, new : Nat]

LEMMA FrameTyped ==
  ASSUME NEW f \in Frames
  PROVE  /\ f.op \in {"upsert", "remove", "other"} /\ f.key \in Key \cup {None}
         /\ f.text \in Texts \cup {None} /\ f.pinned \in BOOLEAN /\ f.deleted \in BOOLEAN
         /\ f.supersedes \in Link /\ f.superseded_by \in Link /\ Fitting(f.op, f.key, f.text)
         /\ f = [op |-> f.op, key |-> f.key, text |-> f.text, pinned |-> f.pinned,
                 deleted |-> f.deleted, supersedes |-> f.supersedes,
                 superseded_by |-> f.superseded_by]
BY Zenon DEF Frames, AnyFrame

\* A frame by its fields.
FrameIs(f, op, k, text, pinned, deleted, old, new) ==
  f = [op |-> op, key |-> k, text |-> text, pinned |-> pinned,
       deleted |-> deleted, supersedes |-> old, superseded_by |-> new]
LEMMA FrameDeleted ==
  ASSUME NEW op, NEW k, NEW text, NEW pinned, NEW deleted, NEW old, NEW new, NEW x, NEW f,
         FrameIs(f, op, k, text, pinned, deleted, old, new)
  PROVE  FrameIs([f EXCEPT !.deleted = x], op, k, text, pinned, x, old, new)
BY DEF FrameIs
LEMMA FrameOlder ==
  ASSUME NEW op, NEW k, NEW text, NEW pinned, NEW deleted, NEW old, NEW new, NEW x, NEW f,
         FrameIs(f, op, k, text, pinned, deleted, old, new)
  PROVE  FrameIs([f EXCEPT !.superseded_by = x], op, k, text, pinned, deleted, old, x)
BY DEF FrameIs
LEMMA FrameNewer ==
  ASSUME NEW op, NEW k, NEW text, NEW pinned, NEW deleted, NEW old, NEW new, NEW x, NEW f,
         FrameIs(f, op, k, text, pinned, deleted, old, new)
  PROVE  FrameIs([f EXCEPT !.supersedes = x], op, k, text, pinned, deleted, x, new)
BY DEF FrameIs
LEMMA FrameFields ==
  ASSUME NEW op, NEW k, NEW text, NEW pinned, NEW deleted, NEW old, NEW new, NEW f,
         FrameIs(f, op, k, text, pinned, deleted, old, new)
  PROVE  f.op = op /\ f.key = k /\ f.text = text /\ f.pinned = pinned /\ f.deleted = deleted
         /\ f.supersedes = old /\ f.superseded_by = new
BY DEF FrameIs

Fields(op, k, text, pinned, deleted, old, new) ==
  /\ op \in {"upsert", "remove", "other"} /\ k \in Key \cup {None}
  /\ text \in Texts \cup {None} /\ pinned \in BOOLEAN /\ deleted \in BOOLEAN
  /\ old \in Link /\ new \in Link /\ Fitting(op, k, text)

LEMMA FrameMade ==
  ASSUME NEW op, NEW k, NEW text, NEW pinned, NEW deleted, NEW old, NEW new,
         Fields(op, k, text, pinned, deleted, old, new),
         NEW f, FrameIs(f, op, k, text, pinned, deleted, old, new)
  PROVE  f \in Frames
<1>1. f \in AnyFrame
  BY Zenon DEF AnyFrame, FrameIs, Fields
<1>2. f.op = op /\ f.key = k /\ f.text = text
  BY FrameFields
<1>3. Fitting(op, k, text)
  BY Zenon DEF Fields
<1> QED
  BY <1>1, <1>2, <1>3, Zenon DEF Frames

\* Frames with the same content.
Alike(f, g) == f.op = g.op /\ f.key = g.key /\ f.text = g.text /\ f.pinned = g.pinned

\* g is frame f but for a mark or a link.
Changes(f, g, deleted, old, new) ==
  /\ g \in Frames /\ Alike(f, g)
  /\ g.deleted = deleted /\ g.supersedes = old /\ g.superseded_by = new

LEMMA FrameChanged ==
  ASSUME NEW f \in Frames, NEW x \in Link
  PROVE  /\ Changes(f, [f EXCEPT !.deleted = TRUE], TRUE, f.supersedes, f.superseded_by)
         /\ Changes(f, [f EXCEPT !.superseded_by = x], f.deleted, f.supersedes, x)
         /\ Changes(f, [f EXCEPT !.supersedes = x], f.deleted, x, f.superseded_by)
<1> PICK op, k, text : op = f.op /\ k = f.key /\ text = f.text
  OBVIOUS
<1> PICK pinned, deleted, old, new :
      pinned = f.pinned /\ deleted = f.deleted /\ old = f.supersedes /\ new = f.superseded_by
  OBVIOUS
<1> PICK yes \in BOOLEAN : yes = TRUE
  BY Zenon
<1> PICK a, b, c :
      a = [f EXCEPT !.deleted = yes] /\ b = [f EXCEPT !.superseded_by = x]
      /\ c = [f EXCEPT !.supersedes = x]
  OBVIOUS
<1>1. /\ op \in {"upsert", "remove", "other"} /\ k \in Key \cup {None}
      /\ text \in Texts \cup {None} /\ pinned \in BOOLEAN /\ deleted \in BOOLEAN
      /\ old \in Link /\ new \in Link /\ Fitting(op, k, text)
  BY FrameTyped, Zenon
<1>2. FrameIs(f, op, k, text, pinned, deleted, old, new)
  BY FrameTyped, Zenon DEF FrameIs
<1>3. /\ FrameIs(a, op, k, text, pinned, yes, old, new)
      /\ FrameIs(b, op, k, text, pinned, deleted, old, x)
      /\ FrameIs(c, op, k, text, pinned, deleted, x, new)
  BY <1>2, FrameDeleted, FrameOlder, FrameNewer
<1>4. a \in Frames /\ b \in Frames /\ c \in Frames
  <2>1. /\ Fields(op, k, text, pinned, yes, old, new)
        /\ Fields(op, k, text, pinned, deleted, old, x)
        /\ Fields(op, k, text, pinned, deleted, x, new)
    BY <1>1, Zenon DEF Fields
  <2> QED
    BY <1>3, <2>1, FrameMade
<1>5. /\ Alike(f, a) /\ a.deleted = yes /\ a.supersedes = old /\ a.superseded_by = new
      /\ Alike(f, b) /\ b.deleted = deleted /\ b.supersedes = old /\ b.superseded_by = x
      /\ Alike(f, c) /\ c.deleted = deleted /\ c.supersedes = x /\ c.superseded_by = new
  BY <1>2, <1>3, FrameFields DEF Alike
<1>6. /\ Changes(f, a, yes, old, new) /\ Changes(f, b, deleted, old, x)
      /\ Changes(f, c, deleted, x, new)
  BY <1>4, <1>5, Zenon DEF Changes
<1> QED
  BY <1>6, Zenon

-----------------------------------------------------------------------------
(* Mutations.                                                               *)

\* The frames of fs, in place, with the same content.
Same(fs, gs) ==
  /\ gs \in Seq(Frames) /\ Len(gs) = Len(fs)
  /\ \A i \in DOMAIN fs : Alike(fs[i], gs[i])

Deleted(fs, gs, x) ==
  /\ Same(fs, gs)
  /\ \A i \in DOMAIN fs :
       /\ i = x => gs[i].deleted = TRUE
       /\ i # x => gs[i].deleted = fs[i].deleted
       /\ gs[i].supersedes = fs[i].supersedes
       /\ gs[i].superseded_by = fs[i].superseded_by

Superseded(fs, gs, old, new) ==
  /\ Same(fs, gs)
  /\ \A i \in DOMAIN fs :
       /\ gs[i].deleted = fs[i].deleted
       /\ gs[i].supersedes = IF i = new THEN old ELSE fs[i].supersedes
       /\ gs[i].superseded_by = IF i = old THEN new ELSE fs[i].superseded_by

Put(fs, gs, f) ==
  /\ gs \in Seq(Frames) /\ Len(gs) = Len(fs) + 1 /\ f \in Frames
  /\ \A i \in DOMAIN fs : gs[i] = fs[i]
  /\ gs[Len(fs) + 1] = f
  /\ f.deleted = FALSE /\ f.supersedes = None /\ f.superseded_by = None

LEMMA NoneNotNat == \A n \in Nat : n # None
BY FactAssumption

LEMMA AlikeItself ==
  ASSUME NEW f
  PROVE  Alike(f, f)
BY DEF Alike

LEMMA AlikeTwice ==
  ASSUME NEW f, NEW g, NEW h, Alike(f, g), Alike(g, h)
  PROVE  Alike(f, h)
BY DEF Alike

\* Frames of fs, where frame x is f instead.
Replaced(fs, gs, x, f) == gs = [fs EXCEPT ![x] = f]
InPlace(fs, gs, x, f) ==
  /\ gs \in Seq(Frames) /\ Len(gs) = Len(fs)
  /\ \A i \in DOMAIN fs : gs[i] = IF i = x THEN f ELSE fs[i]

LEMMA FrameReplaced ==
  ASSUME NEW fs \in Seq(Frames), NEW x, NEW f \in Frames, NEW gs, Replaced(fs, gs, x, f)
  PROVE  InPlace(fs, gs, x, f)
<1>1. DOMAIN fs = 1 .. Len(fs) /\ Len(fs) \in Nat
  OBVIOUS
<1>2. DOMAIN gs = DOMAIN fs /\ \A i \in DOMAIN fs : gs[i] = IF i = x THEN f ELSE fs[i]
  BY DEF Replaced
<1>3. gs = [i \in 1 .. Len(fs) |-> gs[i]]
  BY <1>1, <1>2 DEF Replaced
<1>4. \A i \in 1 .. Len(fs) : gs[i] \in Frames
  BY <1>1, <1>2
<1>5. gs \in Seq(Frames) /\ Len(gs) = Len(fs)
  <2> PICK n \in Nat : n = Len(fs)
    OBVIOUS
  <2>1. gs \in [1 .. n -> Frames]
    BY <1>3, <1>4
  <2> QED
    BY <2>1
<1> QED
  BY <1>2, <1>5 DEF InPlace

LEMMA Deleting ==
  ASSUME NEW fs \in Seq(Frames), NEW x
  PROVE  Deleted(fs, Preview(fs, DeleteFrame(x)), x)
<1> PICK gs : gs = Preview(fs, DeleteFrame(x))
  OBVIOUS
<1>1. gs = [fs EXCEPT ![x].deleted = TRUE]
  BY DEF Preview, DeleteFrame
<1>2. CASE x \in DOMAIN fs
  <2> PICK f \in Frames : f = fs[x]
    BY <1>2
  <2> PICK g : g = [f EXCEPT !.deleted = TRUE]
    OBVIOUS
  <2>1. /\ g \in Frames /\ Alike(f, g) /\ g.deleted = TRUE
        /\ g.supersedes = f.supersedes /\ g.superseded_by = f.superseded_by
    <3>1. None \in Link
      BY DEF Link
    <3> QED
      BY <3>1, FrameChanged, Zenon DEF Changes
  <2>2. Replaced(fs, gs, x, g)
    BY <1>1 DEF Replaced
  <2>3. /\ gs \in Seq(Frames) /\ Len(gs) = Len(fs)
        /\ \A i \in DOMAIN fs : gs[i] = IF i = x THEN g ELSE fs[i]
    <3>1. InPlace(fs, gs, x, g)
      BY <2>1, <2>2, FrameReplaced, Zenon
    <3> QED
      BY <3>1, Zenon DEF InPlace
  <2>4. Same(fs, gs)
    BY <2>1, <2>3, AlikeItself DEF Same
  <2>5. ASSUME NEW i \in DOMAIN fs
        PROVE  /\ i = x => gs[i].deleted = TRUE
               /\ i # x => gs[i].deleted = fs[i].deleted
               /\ gs[i].supersedes = fs[i].supersedes
               /\ gs[i].superseded_by = fs[i].superseded_by
    <3>1. CASE i = x
      BY <2>1, <2>3, <3>1, Zenon
    <3>2. CASE i # x
      BY <2>3, <3>2, Zenon
    <3> QED
      BY <3>1, <3>2
  <2> QED
    BY <2>4, <2>5, Zenon DEF Deleted
<1>3. CASE x \notin DOMAIN fs
  <2>1. gs = fs
    BY <1>1, <1>3
  <2>2. Same(fs, gs)
    BY <2>1, AlikeItself DEF Same
  <2> QED
    BY <1>3, <2>1, <2>2, Zenon DEF Deleted
<1> QED
  BY <1>2, <1>3

LEMMA Superseding ==
  ASSUME NEW fs \in Seq(Frames), NEW old \in Nat, NEW new \in Nat
  PROVE  Superseded(fs, Preview(fs, SupersedeFrame(old, new)), old, new)
<1> PICK gs : gs = Preview(fs, SupersedeFrame(old, new))
  OBVIOUS
<1>0. old \in Link /\ new \in Link
  BY DEF Link
<1> PICK once : once = [fs EXCEPT ![old].superseded_by = new]
  OBVIOUS
<1>1. gs = [once EXCEPT ![new].supersedes = old]
  BY DEF Preview, SupersedeFrame
<1>2. /\ once \in Seq(Frames) /\ Len(once) = Len(fs)
      /\ \A i \in DOMAIN fs :
           /\ Alike(fs[i], once[i]) /\ once[i].deleted = fs[i].deleted
           /\ once[i].supersedes = fs[i].supersedes
           /\ once[i].superseded_by = IF i = old THEN new ELSE fs[i].superseded_by
  <2>1. CASE old \in DOMAIN fs
    <3> PICK f \in Frames : f = fs[old]
      BY <2>1
    <3> PICK g : g = [f EXCEPT !.superseded_by = new]
      OBVIOUS
    <3>1. /\ g \in Frames /\ Alike(f, g) /\ g.deleted = f.deleted
          /\ g.supersedes = f.supersedes /\ g.superseded_by = new
      <4>1. Changes(f, g, f.deleted, f.supersedes, new)
        BY <1>0, FrameChanged, Zenon
      <4> QED
        BY <4>1, Zenon DEF Changes
    <3>2. Replaced(fs, once, old, g)
      BY DEF Replaced
    <3>3. /\ once \in Seq(Frames) /\ Len(once) = Len(fs)
          /\ \A i \in DOMAIN fs : once[i] = IF i = old THEN g ELSE fs[i]
      <4>1. InPlace(fs, once, old, g)
        BY <3>1, <3>2, FrameReplaced, Zenon
      <4> QED
        BY <4>1, Zenon DEF InPlace
    <3>4. ASSUME NEW i \in DOMAIN fs
          PROVE  /\ Alike(fs[i], once[i]) /\ once[i].deleted = fs[i].deleted
                 /\ once[i].supersedes = fs[i].supersedes
                 /\ once[i].superseded_by = IF i = old THEN new ELSE fs[i].superseded_by
      <4>1. CASE i = old
        BY <3>1, <3>3, <4>1, Zenon
      <4>2. CASE i # old
        BY <3>3, <4>2, AlikeItself, Zenon
      <4> QED
        BY <4>1, <4>2
    <3> QED
      BY <3>3, <3>4
  <2>2. CASE old \notin DOMAIN fs
    <3>1. once = fs
      BY <2>2
    <3> QED
      BY <2>2, <3>1, AlikeItself, Zenon
  <2> QED
    BY <2>1, <2>2
<1>3. DOMAIN once = DOMAIN fs
  BY <1>2
<1>4. /\ gs \in Seq(Frames) /\ Len(gs) = Len(fs)
      /\ \A i \in DOMAIN fs :
           /\ Alike(once[i], gs[i]) /\ gs[i].deleted = once[i].deleted
           /\ gs[i].superseded_by = once[i].superseded_by
           /\ gs[i].supersedes = IF i = new THEN old ELSE once[i].supersedes
  <2>1. CASE new \in DOMAIN fs
    <3> PICK f \in Frames : f = once[new]
      BY <1>2, <1>3, <2>1
    <3> PICK g : g = [f EXCEPT !.supersedes = old]
      OBVIOUS
    <3>1. /\ g \in Frames /\ Alike(f, g) /\ g.deleted = f.deleted
          /\ g.supersedes = old /\ g.superseded_by = f.superseded_by
      <4>1. Changes(f, g, f.deleted, old, f.superseded_by)
        BY <1>0, FrameChanged, Zenon
      <4> QED
        BY <4>1, Zenon DEF Changes
    <3>2. Replaced(once, gs, new, g)
      BY <1>1 DEF Replaced
    <3>3. /\ gs \in Seq(Frames) /\ Len(gs) = Len(once)
          /\ \A i \in DOMAIN once : gs[i] = IF i = new THEN g ELSE once[i]
      <4>1. InPlace(once, gs, new, g)
        BY <1>2, <3>1, <3>2, FrameReplaced, Zenon
      <4> QED
        BY <4>1, Zenon DEF InPlace
    <3>4. ASSUME NEW i \in DOMAIN fs
          PROVE  /\ Alike(once[i], gs[i]) /\ gs[i].deleted = once[i].deleted
                 /\ gs[i].superseded_by = once[i].superseded_by
                 /\ gs[i].supersedes = IF i = new THEN old ELSE once[i].supersedes
      <4>1. CASE i = new
        BY <1>3, <3>1, <3>3, <4>1, Zenon
      <4>2. CASE i # new
        BY <1>3, <3>3, <4>2, AlikeItself, Zenon
      <4> QED
        BY <4>1, <4>2
    <3> QED
      BY <1>2, <3>3, <3>4
  <2>2. CASE new \notin DOMAIN fs
    <3>1. gs = once
      BY <1>1, <1>3, <2>2
    <3> QED
      BY <1>2, <2>2, <3>1, AlikeItself, Zenon
  <2> QED
    BY <2>1, <2>2
<1>5. Same(fs, gs)
  BY <1>2, <1>4, AlikeTwice DEF Same
<1> QED
  BY <1>2, <1>4, <1>5 DEF Superseded

LEMMA NewFrameTyped ==
  ASSUME NEW f \in NewFrames
  PROVE  f \in Frames /\ f.deleted = FALSE /\ f.supersedes = None /\ f.superseded_by = None
BY Zenon DEF NewFrames

LEMMA Putting ==
  ASSUME NEW fs \in Seq(Frames), NEW f \in NewFrames
  PROVE  Put(fs, Preview(fs, PutFrame(f)), f)
<1> PICK gs : gs = Append(fs, f)
  OBVIOUS
<1>1. Preview(fs, PutFrame(f)) = gs
  BY DEF Preview, PutFrame
<1>2. f \in Frames /\ f.deleted = FALSE /\ f.supersedes = None /\ f.superseded_by = None
  BY NewFrameTyped
<1>3. /\ gs \in Seq(Frames) /\ Len(gs) = Len(fs) + 1
      /\ \A i \in DOMAIN fs : gs[i] = fs[i]
      /\ gs[Len(fs) + 1] = f
  BY <1>2
<1> QED
  BY <1>1, <1>2, <1>3 DEF Put

LEMMA MutationKinds ==
  ASSUME NEW m \in Mutation
  PROVE  \/ m.kind = "put" /\ m.frame \in NewFrames /\ m = PutFrame(m.frame)
         \/ m.kind = "delete" /\ m.id \in Nat /\ m = DeleteFrame(m.id)
         \/ m.kind = "supersede" /\ m.old \in Nat /\ m.new \in Nat
            /\ m = SupersedeFrame(m.old, m.new)
BY DEF Mutation, PutFrame, DeleteFrame, SupersedeFrame

\* A mutation gives frames.
LEMMA PreviewTyped ==
  ASSUME NEW fs \in Seq(Frames), NEW m \in Mutation
  PROVE  Preview(fs, m) \in Seq(Frames)
<1>1. CASE m.kind = "put"
  <2> PICK f : f = m.frame
    OBVIOUS
  <2>1. f \in NewFrames /\ m = PutFrame(f)
    BY <1>1, MutationKinds
  <2> QED
    BY <2>1, Putting DEF Put
<1>2. CASE m.kind = "delete"
  <2> PICK x : x = m.id
    OBVIOUS
  <2>1. m = DeleteFrame(x)
    BY <1>2, MutationKinds
  <2> QED
    BY <2>1, Deleting DEF Deleted, Same
<1>3. CASE m.kind = "supersede"
  <2> PICK old, new : old = m.old /\ new = m.new
    OBVIOUS
  <2>1. old \in Nat /\ new \in Nat /\ m = SupersedeFrame(old, new)
    BY <1>3, MutationKinds
  <2>2. Superseded(fs, Preview(fs, m), old, new)
    BY <2>1, Superseding, Zenon
  <2> QED
    BY <2>2 DEF Superseded, Same
<1> QED
  BY <1>1, <1>2, <1>3, MutationKinds

(* What readers see of pending mutations.                                   *)

\* The equation of the recursion in View.
Previews(after, fs, ms) ==
  after = [n \in 0 .. Len(ms) |-> IF n = 0 THEN fs ELSE Preview(after[n - 1], ms[n])]

LEMMA PreviewsAt ==
  ASSUME NEW after, NEW fs, NEW ms \in Seq(Mutation), Previews(after, fs, ms)
  PROVE  after[0] = fs /\ \A n \in 1 .. Len(ms) : after[n] = Preview(after[n - 1], ms[n])
<1> DEFINE h == [n \in 0 .. Len(ms) |-> IF n = 0 THEN fs ELSE Preview(after[n - 1], ms[n])]
<1>1. after = h
  BY Zenon DEF Previews
<1>2. h[0] = fs /\ \A n \in 1 .. Len(ms) : h[n] = Preview(after[n - 1], ms[n])
  OBVIOUS
<1> HIDE DEF h
<1> QED
  BY <1>1, <1>2

LEMMA PreviewsExist ==
  ASSUME NEW fs \in Seq(Frames), NEW ms \in Seq(Mutation)
  PROVE  \E after : Previews(after, fs, ms)
<1> DEFINE n == Len(ms)
           D == Seq(Frames)
           step == [p \in (1 .. n) \X D |-> Preview(p[2], ms[p[1]])]
<1>1. n \in Nat /\ fs \in D
  OBVIOUS
<1>2. \A i \in 1 .. n, x \in D : <<i, x>> \in (1 .. n) \X D /\ step[<<i, x>>] = Preview(x, ms[i])
  BY Zenon
<1>3. step \in Steps(n, D)
  <2>1. ASSUME NEW p \in (1 .. n) \X D
        PROVE  Preview(p[2], ms[p[1]]) \in D
    <3>1. p[1] \in 1 .. n /\ p[2] \in D
      OBVIOUS
    <3>2. ms[p[1]] \in Mutation
      BY <3>1
    <3> QED
      BY <3>1, <3>2, PreviewTyped
  <2> HIDE DEF D
  <2> QED
    BY <2>1, Zenon DEF Steps
<1> HIDE DEF step, D
<1>4. PICK f : f \in [0 .. n -> D] /\ Iterates(f, fs, step, n)
  <2> HIDE DEF n
  <2> QED
    BY <1>1, <1>3, RecursionExists, Zenon
<1>5. \A i \in 1 .. n : f[i] = Preview(f[i - 1], ms[i])
  <2>1. \A i \in 1 .. n : i - 1 \in 0 .. n
    BY <1>1
  <2> QED
    BY <1>2, <1>4, <2>1 DEF Iterates
<1>6. f = [i \in 0 .. n |-> IF i = 0 THEN fs ELSE Preview(f[i - 1], ms[i])]
  <2>1. \A i \in 0 .. n : f[i] = IF i = 0 THEN fs ELSE Preview(f[i - 1], ms[i])
    BY <1>4, <1>5 DEF Iterates
  <2>2. f = [i \in 0 .. n |-> f[i]]
    BY <1>4
  <2> QED
    BY <2>1, <2>2
<1> QED
  BY <1>6 DEF Previews

LEMMA ViewIs ==
  ASSUME NEW fs \in Seq(Frames), NEW ms \in Seq(Mutation)
  PROVE  \E after : Previews(after, fs, ms) /\ View(fs, ms) = after[Len(ms)]
<1> DEFINE after == CHOOSE after : Previews(after, fs, ms)
<1>1. Previews(after, fs, ms)
  BY PreviewsExist
<1>2. View(fs, ms) = after[Len(ms)]
  BY DEF View, Previews
<1> HIDE DEF after
<1> QED
  BY <1>1, <1>2

LEMMA ViewNone ==
  ASSUME NEW fs \in Seq(Frames)
  PROVE  View(fs, <<>>) = fs
<1>1. <<>> \in Seq(Mutation) /\ Len(<<>>) = 0
  OBVIOUS
<1> PICK ms : ms = <<>>
  OBVIOUS
<1>2. PICK after : Previews(after, fs, ms) /\ View(fs, ms) = after[Len(ms)]
  BY <1>1, ViewIs
<1>3. after[0] = fs
  BY <1>1, <1>2, PreviewsAt
<1> QED
  BY <1>1, <1>2, <1>3

\* One mutation more is applied to what the others give.
LEMMA ViewAppend ==
  ASSUME NEW fs \in Seq(Frames), NEW ms \in Seq(Mutation), NEW m \in Mutation
  PROVE  View(fs, Append(ms, m)) = Preview(View(fs, ms), m)
<1> DEFINE longer == Append(ms, m)
           n == Len(ms)
<1>1. /\ longer \in Seq(Mutation) /\ Len(longer) = n + 1 /\ n \in Nat
      /\ \A i \in 1 .. n : longer[i] = ms[i]
      /\ longer[n + 1] = m
  OBVIOUS
<1>2. PICK f : Previews(f, fs, ms) /\ View(fs, ms) = f[n]
  BY ViewIs
<1> HIDE DEF longer
<1>3. PICK h : Previews(h, fs, longer) /\ View(fs, longer) = h[Len(longer)]
  BY <1>1, ViewIs
<1>4. f[0] = fs /\ \A i \in 1 .. n : f[i] = Preview(f[i - 1], ms[i])
  BY <1>2, PreviewsAt
<1>5. h[0] = fs /\ \A i \in 1 .. n + 1 : h[i] = Preview(h[i - 1], longer[i])
  BY <1>1, <1>3, PreviewsAt
<1>6. \A i \in 0 .. n : f[i] = h[i]
  <2>1. InStep(f, h, n)
    BY <1>1, <1>4, <1>5 DEF InStep
  <2> HIDE DEF n
  <2> QED
    BY <1>1, <2>1, SameSteps DEF Agree
<1>7. h[n + 1] = Preview(f[n], m)
  <2>1. n + 1 \in 1 .. n + 1 /\ (n + 1) - 1 = n /\ n \in 0 .. n
    BY <1>1
  <2>2. h[n + 1] = Preview(h[(n + 1) - 1], longer[n + 1])
    BY <1>5, <2>1
  <2> QED
    BY <1>1, <1>6, <2>1, <2>2
<1> QED
  BY <1>1, <1>2, <1>3, <1>7 DEF longer

LEMMA ViewTyped ==
  ASSUME NEW fs \in Seq(Frames), NEW ms \in Seq(Mutation)
  PROVE  View(fs, ms) \in Seq(Frames)
<1> DEFINE n == Len(ms)
<1>1. PICK f : Previews(f, fs, ms) /\ View(fs, ms) = f[n]
  BY ViewIs
<1>2. f[0] = fs /\ \A i \in 1 .. n : f[i] = Preview(f[i - 1], ms[i])
  BY <1>1, PreviewsAt
<1> DEFINE S == {i \in 0 .. n : f[i] \in Seq(Frames)}
<1>3. 0 \in S
  BY <1>2
<1>4. ASSUME NEW i \in 1 .. n, i - 1 \in S
      PROVE  i \in S
  <2> PICK x : x = f[i - 1]
    OBVIOUS
  <2>1. x \in Seq(Frames) /\ ms[i] \in Mutation /\ f[i] = Preview(x, ms[i])
    BY <1>2, <1>4
  <2>2. f[i] \in Seq(Frames)
    BY <2>1, PreviewTyped
  <2> QED
    BY <2>2
<1>5. n \in S
  <2>1. n \in Nat /\ n \in 0 .. n
    OBVIOUS
  <2> HIDE DEF S, n
  <2> QED
    BY <1>3, <1>4, <2>1, InductionUpTo
<1> QED
  BY <1>1, <1>5

LEMMA AppendsOfOne ==
  ASSUME NEW T, NEW s \in Seq(T), NEW m \in T
  PROVE  s \o SubSeq(<<m>>, 1, 1) = Append(s, m)
<1>1. <<m>> \in Seq(T) /\ Len(<<m>>) = 1 /\ <<m>>[1] = m
  OBVIOUS
<1> QED
  BY <1>1

LEMMA WholeSubSeq ==
  ASSUME NEW T, NEW s \in Seq(T)
  PROVE  SubSeq(s, 1, Len(s)) = s
OBVIOUS

LEMMA AppendsOfTwo ==
  ASSUME NEW T, NEW s \in Seq(T), NEW m \in T, NEW n \in T
  PROVE  /\ s \o SubSeq(<<m, n>>, 1, 1) = Append(s, m)
         /\ s \o SubSeq(<<m, n>>, 1, 2) = Append(Append(s, m), n)
<1>1. <<m, n>> \in Seq(T) /\ Len(<<m, n>>) = 2
  OBVIOUS
<1>2. s \o SubSeq(<<m, n>>, 1, 1) = Append(s, m)
  BY <1>1
<1>3. s \o SubSeq(<<m, n>>, 1, 2) = Append(Append(s, m), n)
  <2>1. SubSeq(<<m, n>>, 1, 2) = <<m, n>>
    <3> PICK p \in Seq(T) : p = <<m, n>>
      BY <1>1
    <3>1. SubSeq(p, 1, Len(p)) = p
      BY WholeSubSeq
    <3>2. Len(p) = 2
      BY <1>1
    <3> QED
      BY <3>1, <3>2
  <2>2. s \o <<m, n>> = Append(Append(s, m), n)
    OBVIOUS
  <2> QED
    BY <2>1, <2>2
<1> QED
  BY <1>2, <1>3

\* What a call appends, when each record links what is there rightly.
-----------------------------------------------------------------------------
(* What a commit checks.                                                    *)

\* Each frame that supersedes one is what that one is superseded by.
BackLinked(fs) ==
  \A i \in DOMAIN fs : fs[i].supersedes # None =>
    /\ fs[i].supersedes \in DOMAIN fs
    /\ fs[fs[i].supersedes].superseded_by = i

LEMMA PutBackLinked ==
  ASSUME NEW fs \in Seq(Frames), NEW gs, NEW f, Put(fs, gs, f), BackLinked(fs)
  PROVE  BackLinked(gs)
<1>1. ASSUME NEW i \in DOMAIN gs, gs[i].supersedes # None
      PROVE  gs[i].supersedes \in DOMAIN gs /\ gs[gs[i].supersedes].superseded_by = i
  <2>1. i \in DOMAIN fs /\ DOMAIN fs \subseteq DOMAIN gs
    BY <1>1 DEF Put
  <2>2. gs[i] = fs[i] /\ fs[i].supersedes \in DOMAIN fs /\ fs[fs[i].supersedes].superseded_by = i
    BY <1>1, <2>1 DEF BackLinked, Put
  <2> QED
    BY <2>1, <2>2 DEF Put
<1> QED
  BY <1>1 DEF BackLinked

LEMMA DeleteBackLinked ==
  ASSUME NEW fs \in Seq(Frames), NEW gs, NEW x, Deleted(fs, gs, x), BackLinked(fs)
  PROVE  BackLinked(gs)
<1>1. DOMAIN gs = DOMAIN fs
  BY DEF Deleted, Same
<1> QED
  BY <1>1 DEF BackLinked, Deleted

LEMMA SupersedeBackLinked ==
  ASSUME NEW fs \in Seq(Frames), NEW old \in DOMAIN fs, NEW new \in DOMAIN fs, BackLinked(fs),
         fs[old].superseded_by \in {None, new}, fs[new].supersedes \in {None, old},
         NEW gs, Superseded(fs, gs, old, new)
  PROVE  BackLinked(gs)
<1>1. /\ DOMAIN gs = DOMAIN fs
      /\ \A i \in DOMAIN fs :
           /\ gs[i].superseded_by = IF i = old THEN new ELSE fs[i].superseded_by
           /\ gs[i].supersedes = IF i = new THEN old ELSE fs[i].supersedes
  BY DEF Superseded, Same
<1>2. ASSUME NEW i \in DOMAIN gs, gs[i].supersedes # None
      PROVE  gs[i].supersedes \in DOMAIN gs /\ gs[gs[i].supersedes].superseded_by = i
  <2>1. CASE i = new
    BY <1>1, <2>1
  <2>2. CASE i # new
    <3>1. i \in DOMAIN fs /\ gs[i].supersedes = fs[i].supersedes
      BY <1>1, <2>2
    <3> PICK j : j = fs[i].supersedes
      OBVIOUS
    <3>2. j \in DOMAIN fs /\ fs[j].superseded_by = i
      BY <1>2, <3>1 DEF BackLinked
    <3>3. j # old
      <4>1. i # None
        <5>1. i \in Nat
          BY <3>1
        <5> QED
          BY <5>1, NoneNotNat
      <4> QED
        BY <2>2, <3>2, <4>1
    <3> QED
      BY <1>1, <3>1, <3>2, <3>3
  <2> QED
    BY <2>1, <2>2
<1> QED
  BY <1>2 DEF BackLinked

LEMMA AdmitsBackLinked ==
  ASSUME NEW fs \in Seq(Frames), NEW m \in Mutation, BackLinked(fs), Admits(fs, m)
  PROVE  BackLinked(Preview(fs, m))
<1>1. CASE m.kind = "put"
  <2> PICK f : f = m.frame
    OBVIOUS
  <2>1. f \in NewFrames /\ m = PutFrame(f)
    BY <1>1, MutationKinds
  <2>2. Put(fs, Preview(fs, m), f)
    BY <2>1, Putting, Zenon
  <2> QED
    BY <2>2, PutBackLinked, Zenon
<1>2. CASE m.kind = "delete"
  <2> PICK x : x = m.id
    OBVIOUS
  <2>1. m = DeleteFrame(x)
    BY <1>2, MutationKinds
  <2>2. Deleted(fs, Preview(fs, m), x)
    BY <2>1, Deleting, Zenon
  <2> QED
    BY <2>2, DeleteBackLinked, Zenon
<1>3. CASE m.kind = "supersede"
  <2> PICK old, new : old = m.old /\ new = m.new
    OBVIOUS
  <2>1. /\ old \in Nat /\ new \in Nat /\ m = SupersedeFrame(old, new)
        /\ old \in DOMAIN fs /\ new \in DOMAIN fs
        /\ fs[old].superseded_by \in {None, new} /\ fs[new].supersedes \in {None, old}
    BY <1>3, MutationKinds DEF Admits
  <2>2. Superseded(fs, Preview(fs, m), old, new)
    BY <2>1, Superseding, Zenon
  <2> QED
    BY <2>1, <2>2, SupersedeBackLinked, Zenon
<1> QED
  BY <1>1, <1>2, <1>3, MutationKinds

LEMMA ApplicableBackLinked ==
  ASSUME NEW fs \in Seq(Frames), NEW ms \in Seq(Mutation), BackLinked(fs), Applicable(fs, ms)
  PROVE  BackLinked(View(fs, ms))
<1> DEFINE n == Len(ms)
           S == {i \in 0 .. n : BackLinked(View(fs, SubSeq(ms, 1, i)))}
<1>1. 0 \in S
  <2>1. SubSeq(ms, 1, 0) = <<>> /\ 0 \in 0 .. n
    OBVIOUS
  <2> QED
    BY <2>1, ViewNone
<1>2. ASSUME NEW i \in 1 .. n, i - 1 \in S
      PROVE  i \in S
  <2> PICK rs : rs = SubSeq(ms, 1, i - 1)
    OBVIOUS
  <2> PICK m : m = ms[i]
    OBVIOUS
  <2>1. rs \in Seq(Mutation) /\ m \in Mutation /\ SubSeq(ms, 1, i) = Append(rs, m)
    OBVIOUS
  <2> PICK gs : gs = View(fs, rs)
    OBVIOUS
  <2>2. gs \in Seq(Frames) /\ BackLinked(gs) /\ Admits(gs, m)
    <3>1. gs \in Seq(Frames)
      BY <2>1, ViewTyped
    <3>2. BackLinked(gs)
      BY <1>2
    <3>3. Admits(View(fs, SubSeq(ms, 1, i - 1)), ms[i])
      BY Zenon DEF Applicable
    <3> QED
      BY <3>1, <3>2, <3>3
  <2>3. View(fs, Append(rs, m)) = Preview(gs, m)
    BY <2>1, ViewAppend
  <2>4. BackLinked(Preview(gs, m))
    BY <2>1, <2>2, AdmitsBackLinked
  <2>5. BackLinked(View(fs, SubSeq(ms, 1, i)))
    BY <2>1, <2>3, <2>4, Zenon
  <2>6. i \in 0 .. n
    OBVIOUS
  <2> QED
    BY <2>5, <2>6
<1>3. n \in S
  <2>1. n \in Nat /\ n \in 0 .. n
    OBVIOUS
  <2> HIDE DEF S, n
  <2> QED
    BY <1>1, <1>2, <2>1, InductionUpTo
<1>4. SubSeq(ms, 1, n) = ms
  BY WholeSubSeq
<1> QED
  BY <1>3, <1>4

-----------------------------------------------------------------------------
(* Frames in order.                                                         *)

\* Frames supersede older ones of their key, and facts are all that is deleted.
InOrder(fs, i) ==
  /\ fs[i].supersedes # None =>
       fs[i].supersedes \in 1 .. (i - 1) /\ fs[fs[i].supersedes].key = fs[i].key
  /\ fs[i].deleted => fs[i].op = "upsert"

Ordered(fs) == \A i \in DOMAIN fs : InOrder(fs, i)

LEMMA PutOrdered ==
  ASSUME NEW fs \in Seq(Frames), NEW gs, NEW f, Put(fs, gs, f), Ordered(fs)
  PROVE  Ordered(gs)
<1>1. ASSUME NEW i \in DOMAIN gs
      PROVE  InOrder(gs, i)
  <2>1. CASE i \in DOMAIN fs
    <3>1. InOrder(fs, i) /\ gs[i] = fs[i]
      BY <2>1 DEF Ordered, Put
    <3> PICK j : j = fs[i].supersedes
      OBVIOUS
    <3>2. j # None => j \in DOMAIN fs /\ gs[j] = fs[j]
      BY <2>1, <3>1 DEF InOrder, Put
    <3> QED
      BY <3>1, <3>2 DEF InOrder
  <2>2. CASE i \notin DOMAIN fs
    <3>1. gs[i] = f
      BY <2>2 DEF Put
    <3> QED
      BY <3>1 DEF InOrder, Put
  <2> QED
    BY <2>1, <2>2
<1> QED
  BY <1>1 DEF Ordered

LEMMA DeleteOrdered ==
  ASSUME NEW fs \in Seq(Frames), NEW gs, NEW x, Deleted(fs, gs, x), Ordered(fs),
         x \in DOMAIN fs => fs[x].op = "upsert"
  PROVE  Ordered(gs)
<1>1. DOMAIN gs = DOMAIN fs
  BY DEF Deleted, Same
<1>2. ASSUME NEW i \in DOMAIN gs
      PROVE  InOrder(gs, i)
  <2>1. /\ InOrder(fs, i) /\ Alike(fs[i], gs[i]) /\ gs[i].supersedes = fs[i].supersedes
        /\ i # x => gs[i].deleted = fs[i].deleted
    BY <1>1, <1>2, Zenon DEF Ordered, Deleted, Same
  <2> PICK j : j = fs[i].supersedes
    OBVIOUS
  <2>2. j # None => j \in DOMAIN fs /\ gs[j].key = fs[j].key
    BY <1>1, <2>1 DEF InOrder, Deleted, Same, Alike
  <2>3. gs[i].deleted => gs[i].op = "upsert"
    BY <1>1, <2>1, Zenon DEF InOrder, Alike
  <2> QED
    BY <2>1, <2>2, <2>3 DEF InOrder, Alike
<1> QED
  BY <1>2 DEF Ordered

LEMMA SupersedeOrdered ==
  ASSUME NEW fs \in Seq(Frames), NEW new \in DOMAIN fs, NEW old \in 1 .. (new - 1), Ordered(fs),
         fs[old].key = fs[new].key, NEW gs, Superseded(fs, gs, old, new)
  PROVE  Ordered(gs)
<1>1. DOMAIN gs = DOMAIN fs
  BY DEF Superseded, Same
<1>2. ASSUME NEW i \in DOMAIN gs
      PROVE  InOrder(gs, i)
  <2>1. /\ InOrder(fs, i) /\ Alike(fs[i], gs[i]) /\ gs[i].deleted = fs[i].deleted
        /\ gs[i].supersedes = IF i = new THEN old ELSE fs[i].supersedes
    BY <1>1, <1>2, Zenon DEF Ordered, Superseded, Same
  <2>2. \A j \in DOMAIN fs : gs[j].key = fs[j].key
    BY DEF Superseded, Same, Alike
  <2>3. gs[i].deleted => gs[i].op = "upsert"
    BY <2>1, Zenon DEF InOrder, Alike
  <2> PICK j : j = gs[i].supersedes
    OBVIOUS
  <2>4. j # None => j \in 1 .. (i - 1) /\ fs[j].key = fs[i].key
    BY <2>1 DEF InOrder
  <2>5. j # None => j \in DOMAIN fs
    BY <1>1, <2>4
  <2> QED
    BY <1>1, <2>2, <2>3, <2>4, <2>5 DEF InOrder
<1> QED
  BY <1>2 DEF Ordered

\* The equation of the walk in WouldCreateSupersedeCycle.
Walks(walk, fs, old) ==
  walk = [n \in 0 .. Len(fs) |->
           IF n = 0 THEN old
           ELSE LET last == walk[n - 1] IN IF last = None THEN None ELSE fs[last].supersedes]

\* Where frames supersede older ones only, each hop goes down, and the walk runs
\* out of frames before it runs out of hops.
WalksDown(walk, fs, old) ==
  \A n \in 0 .. Len(fs) : walk[n] # None => walk[n] \in 1 .. (old - n)

LEMMA WalkExists ==
  ASSUME NEW fs \in Seq(Frames), NEW old \in DOMAIN fs, Ordered(fs)
  PROVE  \E walk : Walks(walk, fs, old) /\ WalksDown(walk, fs, old)
<1> PICK count \in Nat : count = Len(fs)
  OBVIOUS
<1> DEFINE D == {None} \cup DOMAIN fs
           Hop(x) == IF x = None THEN None ELSE fs[x].supersedes
           step == [p \in (1 .. count) \X D |-> Hop(p[2])]
<1>1. \A x \in D : Hop(x) \in D
  <2> TAKE x \in D
  <2>1. CASE x # None
    <3>1. fs[x].supersedes # None => fs[x].supersedes \in 1 .. (x - 1)
      BY <2>1 DEF Ordered, InOrder
    <3> QED
      BY <2>1, <3>1
  <2> QED
    BY <2>1
<1>2. step \in Steps(count, D)
  <2>1. ASSUME NEW p \in (1 .. count) \X D
        PROVE  Hop(p[2]) \in D
    <3>1. p[2] \in D
      OBVIOUS
    <3> HIDE DEF Hop, D
    <3> QED
      BY <1>1, <3>1
  <2> HIDE DEF Hop
  <2> QED
    BY <2>1, Zenon DEF Steps
<1>3. \A n \in 1 .. count, x \in D : step[<<n, x>>] = Hop(x)
  <2> HIDE DEF Hop, D
  <2>1. \A n \in 1 .. count, x \in D : <<n, x>> \in (1 .. count) \X D
    OBVIOUS
  <2> QED
    BY <2>1
<1>4. old \in D
  OBVIOUS
<1> HIDE DEF step, D
<1>5. PICK f : f \in [0 .. count -> D] /\ Iterates(f, old, step, count)
  BY <1>2, <1>4, RecursionExists, Zenon
<1> HIDE DEF Hop
<1>6. f[0] = old /\ \A n \in 1 .. count : f[n] = Hop(f[n - 1]) /\ f[n - 1] \in D
  <2>1. \A n \in 1 .. count : n - 1 \in 0 .. count
    OBVIOUS
  <2> QED
    BY <1>3, <1>5, <2>1 DEF Iterates
<1>7. Walks(f, fs, old)
  <2>1. \A n \in 0 .. count : f[n] = IF n = 0 THEN old ELSE Hop(f[n - 1])
    BY <1>6
  <2>2. f = [n \in 0 .. count |-> f[n]]
    BY <1>5
  <2>3. f = [n \in 0 .. count |-> IF n = 0 THEN old ELSE Hop(f[n - 1])]
    BY <2>1, <2>2
  <2> QED
    BY <2>3, Zenon DEF Walks, Hop
<1> DEFINE S == {n \in 0 .. count : f[n] # None => f[n] \in 1 .. (old - n)}
<1>8. 0 \in S
  <2>1. 0 \in 0 .. count /\ old \in 1 .. (old - 0)
    OBVIOUS
  <2> QED
    BY <1>6, <2>1
<1>9. ASSUME NEW n \in 1 .. count, n - 1 \in S
      PROVE  n \in S
  <2> PICK x : x = f[n - 1]
    OBVIOUS
  <2>1. f[n] = Hop(x) /\ x \in D /\ (x # None => x \in 1 .. (old - (n - 1)))
    BY <1>6, <1>9
  <2>2. CASE x = None
    BY <2>1, <2>2 DEF Hop
  <2>3. CASE x # None
    <3>1. x \in DOMAIN fs /\ f[n] = fs[x].supersedes
      BY <2>1, <2>3 DEF Hop, D
    <3>2. f[n] # None => f[n] \in 1 .. (x - 1)
      BY <3>1 DEF Ordered, InOrder
    <3> QED
      BY <2>1, <2>3, <3>2
  <2> QED
    BY <2>2, <2>3
<1>10. 0 .. count \subseteq S
  <2> HIDE DEF S
  <2> QED
    BY <1>8, <1>9, InductionUpTo
<1>11. WalksDown(f, fs, old)
  BY <1>10 DEF WalksDown
<1> QED
  BY <1>7, <1>11

LEMMA NoCycle ==
  ASSUME NEW fs \in Seq(Frames), NEW new \in DOMAIN fs, NEW old \in 1 .. (new - 1), Ordered(fs)
  PROVE  ~WouldCreateSupersedeCycle(fs, old, new)
<1> DEFINE walk == CHOOSE walk : Walks(walk, fs, old)
<1>0. old \in DOMAIN fs
  OBVIOUS
<1>1. PICK f : Walks(f, fs, old) /\ WalksDown(f, fs, old)
  BY <1>0, WalkExists
<1>2. Walks(walk, fs, old)
  BY <1>1
<1>3. WouldCreateSupersedeCycle(fs, old, new)
        <=> walk[Len(fs)] # None \/ \E n \in 1 .. Len(fs) : walk[n] = new
  BY DEF WouldCreateSupersedeCycle, Walks
<1> HIDE DEF walk
<1> DEFINE Hop(x) == IF x = None THEN None ELSE fs[x].supersedes
<1>4. \A w : Walks(w, fs, old) => w[0] = old /\ \A n \in 1 .. Len(fs) : w[n] = Hop(w[n - 1])
  <2> TAKE w
  <2> HAVE Walks(w, fs, old)
  <2> DEFINE h == [n \in 0 .. Len(fs) |-> IF n = 0 THEN old ELSE Hop(w[n - 1])]
  <2>1. w = h
    BY Zenon DEF Walks
  <2> HIDE DEF Hop
  <2>2. h[0] = old /\ \A n \in 1 .. Len(fs) : h[n] = Hop(w[n - 1])
    OBVIOUS
  <2> HIDE DEF h
  <2> QED
    BY <2>1, <2>2
<1> HIDE DEF Hop
<1>5. Agree(walk, f, Len(fs))
  <2>1. InStep(walk, f, Len(fs))
    BY <1>1, <1>2, <1>4 DEF InStep
  <2> PICK n, w, h : n = Len(fs) /\ n \in Nat /\ w = walk /\ h = f
    OBVIOUS
  <2>2. Agree(w, h, n)
    BY <2>1, SameSteps
  <2> QED
    BY <2>2
<1>6. \A n \in 0 .. Len(fs) : walk[n] # None => walk[n] \in 1 .. (old - n)
  BY <1>1, <1>5 DEF Agree, WalksDown
<1>7. walk[Len(fs)] = None
  <2>1. Len(fs) \in 0 .. Len(fs)
    OBVIOUS
  <2> QED
    BY <1>6, <2>1
<1>8. \A n \in 1 .. Len(fs) : walk[n] # new
  <2>1. new # None
    <3>1. new \in Nat
      OBVIOUS
    <3> QED
      BY <3>1, NoneNotNat
  <2>2. \A n \in 1 .. Len(fs) : n \in 0 .. Len(fs) /\ new \notin 1 .. (old - n)
    OBVIOUS
  <2> QED
    BY <1>6, <2>1, <2>2
<1> QED
  BY <1>3, <1>7, <1>8

LEMMA SupersedeAdmitted ==
  ASSUME NEW fs \in Seq(Frames), NEW new \in DOMAIN fs, NEW old \in 1 .. (new - 1), Ordered(fs),
         fs[old].superseded_by = None, fs[new].supersedes = None
  PROVE  Admits(fs, SupersedeFrame(old, new))
<1>1. ~WouldCreateSupersedeCycle(fs, old, new)
  BY NoCycle
<1>2. old \in DOMAIN fs /\ old # new
  OBVIOUS
<1>3. /\ SupersedeFrame(old, new).kind = "supersede"
      /\ SupersedeFrame(old, new).old = old /\ SupersedeFrame(old, new).new = new
  BY DEF SupersedeFrame
<1> QED
  BY <1>1, <1>2, <1>3 DEF Admits

LEMMA PutAdmitted ==
  ASSUME NEW fs, NEW f
  PROVE  Admits(fs, PutFrame(f))
BY DEF Admits, PutFrame

LEMMA ApplicableNone ==
  ASSUME NEW fs
  PROVE  Applicable(fs, <<>>)
BY DEF Applicable

LEMMA ApplicableAppend ==
  ASSUME NEW fs \in Seq(Frames), NEW ms \in Seq(Mutation), NEW m \in Mutation,
         Applicable(fs, ms), Admits(View(fs, ms), m)
  PROVE  Applicable(fs, Append(ms, m))
<1> PICK longer : longer = Append(ms, m)
  OBVIOUS
<1>1. /\ Len(longer) = Len(ms) + 1 /\ Len(ms) \in Nat /\ longer[Len(ms) + 1] = m
      /\ SubSeq(longer, 1, Len(ms)) = ms
      /\ \A i \in 1 .. Len(ms) :
           longer[i] = ms[i] /\ SubSeq(longer, 1, i - 1) = SubSeq(ms, 1, i - 1)
  OBVIOUS
<1>2. ASSUME NEW i \in 1 .. Len(longer)
      PROVE  Admits(View(fs, SubSeq(longer, 1, i - 1)), longer[i])
  <2>1. CASE i \in 1 .. Len(ms)
    <3>1. Admits(View(fs, SubSeq(ms, 1, i - 1)), ms[i])
      BY <2>1, Zenon DEF Applicable
    <3> QED
      BY <1>1, <2>1, <3>1, Zenon
  <2>2. CASE i = Len(ms) + 1
    <3>1. i - 1 = Len(ms)
      BY <1>1, <2>2
    <3> QED
      BY <1>1, <2>2, <3>1
  <2> QED
    BY <1>1, <2>1, <2>2
<1> QED
  BY <1>2, Zenon DEF Applicable

-----------------------------------------------------------------------------
(* Facts in memory.                                                         *)

\* An entry without an id has nothing else.
EntryOf == {NoEntry} \cup [id : Nat, supersedes : Link, pinned : BOOLEAN]
Entries == [Key -> EntryOf]
Memory == [entries : Entries, staged : Entries, staging : BOOLEAN, visible : BOOLEAN]

\* The entries that a commit leaves.
Held(m) == IF m.staging THEN m.staged ELSE m.entries

LEMMA EntryTyped ==
  ASSUME NEW id \in Nat, NEW old \in Link, NEW pinned \in BOOLEAN
  PROVE  Entry(id, old, pinned) \in EntryOf /\ Entry(id, old, pinned).id = id
<1>1. Entry(id, old, pinned) \in [id : Nat, supersedes : Link, pinned : BOOLEAN]
  BY Zenon DEF Entry
<1>2. Entry(id, old, pinned).id = id
  BY DEF Entry
<1> QED
  BY <1>1, <1>2, Zenon DEF EntryOf

LEMMA NothingTyped ==
  /\ NoEntry \in EntryOf /\ NoEntry.id = None
  /\ NoEntries \in Entries /\ \A k \in Key : NoEntries[k] = NoEntry
<1>1. NoEntry \in EntryOf
  BY Zenon DEF EntryOf
<1>2. NoEntry.id = None
  BY DEF NoEntry, Entry
<1> QED
  BY <1>1, <1>2 DEF NoEntries, Entries

LEMMA EmptyTyped == Empty \in Memory /\ Held(Empty) = NoEntries /\ Empty.entries = NoEntries
<1>1. FALSE \in BOOLEAN
  OBVIOUS
<1>2. Empty \in Memory
  BY <1>1, NothingTyped, Zenon DEF Empty, Memory
<1>3. Held(Empty) = NoEntries /\ Empty.entries = NoEntries
  BY DEF Held, Empty
<1> QED
  BY <1>2, <1>3

LEMMA MemoryTyped ==
  ASSUME NEW m \in Memory
  PROVE  m.entries \in Entries /\ m.staged \in Entries /\ m.staging \in BOOLEAN
         /\ m.visible \in BOOLEAN /\ Held(m) \in Entries
         /\ m = [entries |-> m.entries, staged |-> m.staged, staging |-> m.staging,
                 visible |-> m.visible]
<1>1. m.entries \in Entries /\ m.staged \in Entries /\ m.staging \in BOOLEAN
      /\ m.visible \in BOOLEAN
      /\ m = [entries |-> m.entries, staged |-> m.staged, staging |-> m.staging,
              visible |-> m.visible]
  BY Zenon DEF Memory
<1> QED
  BY <1>1 DEF Held

MemoryIs(m, entries, staged, staging, visible) ==
  m = [entries |-> entries, staged |-> staged, staging |-> staging, visible |-> visible]

Holding(m, entries, staged, staging) ==
  /\ m \in Memory /\ m.entries = entries
  /\ Held(m) = IF staging THEN staged ELSE entries

LEMMA MemoryMade ==
  ASSUME NEW entries \in Entries, NEW staged \in Entries, NEW staging \in BOOLEAN,
         NEW visible \in BOOLEAN, NEW m, MemoryIs(m, entries, staged, staging, visible)
  PROVE  Holding(m, entries, staged, staging)
<1>1. m \in Memory
  BY Zenon DEF Memory, MemoryIs
<1>2. m.entries = entries /\ m.staged = staged
  BY DEF MemoryIs
<1>3. m.staging = staging
  BY Zenon DEF MemoryIs
<1> QED
  BY <1>1, <1>2, <1>3, Zenon DEF Held, Holding

LEMMA CommitStagedTyped ==
  ASSUME NEW m \in Memory
  PROVE  CommitStaged(m) \in Memory /\ Held(CommitStaged(m)) = Held(m)
         /\ CommitStaged(m).entries = Held(m)
<1>1. CASE m.staging
  <2> PICK staged \in Entries : staged = m.staged
    BY MemoryTyped
  <2> PICK no \in BOOLEAN : no = FALSE
    BY Zenon
  <2> PICK next : next = CommitStaged(m)
    OBVIOUS
  <2>1. next = [Empty EXCEPT !.entries = staged]
    BY <1>1 DEF CommitStaged
  <2>2. MemoryIs(next, staged, NoEntries, no, no)
    BY <2>1 DEF Empty, MemoryIs
  <2>3. next \in Memory /\ next.entries = staged /\ Held(next) = IF no THEN NoEntries ELSE staged
    BY <2>2, NothingTyped, MemoryMade, Zenon DEF Holding
  <2> QED
    BY <1>1, <2>3 DEF Held
<1>2. CASE ~m.staging
  BY <1>2 DEF CommitStaged, Held
<1> QED
  BY <1>1, <1>2

LEMMA HideTyped ==
  ASSUME NEW m \in Memory
  PROVE  [m EXCEPT !.visible = FALSE] \in Memory /\ Held([m EXCEPT !.visible = FALSE]) = Held(m)
<1> PICK entries \in Entries, staged \in Entries : entries = m.entries /\ staged = m.staged
  BY MemoryTyped
<1> PICK staging, visible : staging = m.staging /\ visible = m.visible
  OBVIOUS
<1>1. staging \in BOOLEAN /\ visible \in BOOLEAN
  BY MemoryTyped, Zenon
<1> PICK no \in BOOLEAN : no = FALSE
  BY Zenon
<1> PICK next : next = [m EXCEPT !.visible = FALSE]
  OBVIOUS
<1>2. m = [entries |-> entries, staged |-> staged, staging |-> staging, visible |-> visible]
  BY MemoryTyped, Zenon
<1>3. MemoryIs(next, entries, staged, staging, no)
  BY <1>2 DEF MemoryIs
<1>4. Holding(next, entries, staged, staging)
  BY <1>1, <1>3, MemoryMade, Zenon
<1> QED
  BY <1>4 DEF Held, Holding

\* now is m with entry e for key k.
HeldWith(m, k, e, now) ==
  /\ now \in Memory /\ now.entries = m.entries
  /\ Held(now)[k] = e
  /\ \A j \in Key : j # k => Held(now)[j] = Held(m)[j]

LEMMA StagedHeld ==
  ASSUME NEW m \in Memory, NEW k \in Key, NEW e \in EntryOf, NEW base, base = Held(m),
         NEW now, now = [m EXCEPT !.staged = [base EXCEPT ![k] = e], !.staging = TRUE,
                                  !.visible = TRUE]
  PROVE  HeldWith(m, k, e, now)
<1> PICK entries \in Entries, staged \in Entries : entries = m.entries /\ staged = m.staged
  BY MemoryTyped
<1> PICK staging, visible : staging = m.staging /\ visible = m.visible
  OBVIOUS
<1> PICK yes \in BOOLEAN : yes = TRUE
  BY Zenon
<1> PICK held : held = [base EXCEPT ![k] = e]
  OBVIOUS
<1>1. held \in Entries /\ held[k] = e /\ \A j \in Key : j # k => held[j] = base[j]
  <2>1. base \in Entries
    BY MemoryTyped
  <2> QED
    BY <2>1 DEF Entries
<1>2. m = [entries |-> entries, staged |-> staged, staging |-> staging, visible |-> visible]
  BY MemoryTyped, Zenon
<1>3. MemoryIs(now, entries, held, yes, yes)
  BY <1>2 DEF MemoryIs
<1>4. Holding(now, entries, held, yes)
  BY <1>1, <1>3, MemoryMade, Zenon
<1> QED
  BY <1>1, <1>4 DEF HeldWith, Holding

LEMMA UpsertHeld ==
  ASSUME NEW m \in Memory, NEW k \in Key, NEW e \in EntryOf
  PROVE  HeldWith(m, k, e, StageUpsert(m, k, e))
<1> PICK base : base = Held(m)
  OBVIOUS
<1> PICK now : now = StageUpsert(m, k, e)
  OBVIOUS
<1>1. now = [m EXCEPT !.staged = [base EXCEPT ![k] = e], !.staging = TRUE, !.visible = TRUE]
  BY Zenon DEF StageUpsert, Held
<1> QED
  BY <1>1, StagedHeld, Zenon

\* Unless it brings back what was removed.
LEMMA RemoveTyped ==
  ASSUME NEW m \in Memory, NEW k \in Key
  PROVE  /\ StageRemove(m, k) \in Memory
         /\ (~StartsOver(m) \/ m.entries = NoEntries) => HeldWith(m, k, NoEntry, StageRemove(m, k))
<1> PICK now : now = StageRemove(m, k)
  OBVIOUS
<1> PICK base : base = RemoveBase(m)
  OBVIOUS
<1>0. base \in Entries /\ m.entries \in Entries /\ m.staged \in Entries
  BY MemoryTyped DEF RemoveBase
<1>1. (~StartsOver(m) \/ m.entries = NoEntries) => base = Held(m)
  BY DEF RemoveBase, Held, StartsOver
<1>2. CASE RemovedId(m, k) # None
  <2>1. now = [m EXCEPT !.staged = [base EXCEPT ![k] = NoEntry], !.staging = TRUE, !.visible = TRUE]
    BY <1>2, Zenon DEF StageRemove
  <2>2. now \in Memory
    <3> PICK entries \in Entries, staged \in Entries : entries = m.entries /\ staged = m.staged
      BY <1>0
    <3> PICK staging, visible : staging = m.staging /\ visible = m.visible
      OBVIOUS
    <3> PICK yes \in BOOLEAN : yes = TRUE
      BY Zenon
    <3> PICK held : held = [base EXCEPT ![k] = NoEntry]
      OBVIOUS
    <3>1. held \in Entries
      BY <1>0, NothingTyped DEF Entries
    <3>2. m = [entries |-> entries, staged |-> staged, staging |-> staging, visible |-> visible]
      BY MemoryTyped, Zenon
    <3>3. MemoryIs(now, entries, held, yes, yes)
      BY <2>1, <3>2 DEF MemoryIs
    <3>4. Holding(now, entries, held, yes)
      BY <3>1, <3>3, MemoryMade, Zenon
    <3> QED
      BY <3>4 DEF Holding
  <2>3. ASSUME base = Held(m)
        PROVE  HeldWith(m, k, NoEntry, now)
    BY <2>1, <2>3, NothingTyped, StagedHeld, Zenon
  <2> QED
    BY <1>1, <2>2, <2>3
<1>3. CASE RemovedId(m, k) = None
  <2> PICK entries \in Entries, staged \in Entries : entries = m.entries /\ staged = m.staged
    BY <1>0
  <2> PICK staging, visible : staging = m.staging /\ visible = m.visible
    OBVIOUS
  <2>1. staging \in BOOLEAN /\ visible \in BOOLEAN
    BY MemoryTyped, Zenon
  <2>2. m = [entries |-> entries, staged |-> staged, staging |-> staging, visible |-> visible]
    BY MemoryTyped, Zenon
  <2> PICK held \in Entries : held = IF m.staging THEN base ELSE m.staged
    BY <1>0
  <2>3. now = [m EXCEPT !.staged = held]
    BY <1>3, Zenon DEF StageRemove
  <2>4. MemoryIs(now, entries, held, staging, visible)
    BY <2>2, <2>3 DEF MemoryIs
  <2>5. now \in Memory /\ now.entries = entries
        /\ Held(now) = IF staging THEN held ELSE entries
    <3>1. Holding(now, entries, held, staging)
      BY <2>1, <2>4, MemoryMade, Zenon
    <3> QED
      BY <3>1 DEF Holding
  <2>6. Held(now) = base
    <3>1. m.staging => Held(now) = base
      BY <2>5
    <3>2. ~m.staging => Held(now) = entries /\ base = entries
      BY <2>5 DEF RemoveBase
    <3> QED
      BY <3>1, <3>2
  <2>7. base[k] = NoEntry
    <3>1. base[k] \in EntryOf /\ base[k].id = None
      BY <1>0, <1>3 DEF Entries, RemovedId
    <3>2. base[k] \in [id : Nat, supersedes : Link, pinned : BOOLEAN] => base[k].id \in Nat
      BY Zenon
    <3> QED
      BY <3>1, <3>2, NoneNotNat, Zenon DEF EntryOf
  <2> QED
    BY <1>1, <2>5, <2>6, <2>7, Zenon DEF HeldWith
<1> QED
  BY <1>2, <1>3

-----------------------------------------------------------------------------
(* What a restart makes of the frames: of each key, the newest that it reads. *)

Read(fs, j, k) == fs[j].key = k /\ FactOf(fs[j]) # None

\* The entry that frame x leaves, None for no frame.
EntryAt(fs, x) ==
  IF x # None /\ fs[x].op = "upsert" THEN Entry(x, fs[x].supersedes, fs[x].pinned) ELSE NoEntry

\* x is the newest of the first n frames that is read for key k, or None.
Newest(fs, n, k, x) ==
  /\ x # None => x \in 1 .. n /\ Read(fs, x, k)
  /\ \A j \in 1 .. n : Read(fs, j, k) => x # None /\ j <= x

\* What a frame that is read says: of which key, and whether it is a removal.
Says(f, fact) ==
  /\ ~f.deleted /\ f.key \in Key
  /\ <<fact.entity, fact.attribute>> = f.key
  /\ \/ f.op = "upsert" /\ fact.op = "upsert" /\ f.text \in Puttable[f.key] \ UnreadTexts[f.key]
     \/ f.op = "remove" /\ fact.op = "remove" /\ RemoveRead[f.key] # None

LEMMA FactSays ==
  ASSUME NEW f \in Frames, FactOf(f) # None
  PROVE  Says(f, FactOf(f))
<1> PICK k, text, op, fact : k = f.key /\ text = f.text /\ op = f.op /\ fact = FactOf(f)
  OBVIOUS
<1>1. op \in {"upsert", "remove", "other"} /\ Fitting(op, k, text)
  BY FrameTyped, Zenon
<1>2. ~f.deleted /\ op # "other"
  <2>1. f.deleted \in BOOLEAN
    BY FrameTyped, Zenon
  <2> QED
    BY <2>1, Zenon DEF FactOf
<1>3. CASE op = "upsert"
  <2>1. k \in Key /\ text \in Puttable[k]
    BY <1>1, <1>3 DEF Fitting
  <2>2. fact = UpsertRead[k][text]
    BY <1>2, <1>3 DEF FactOf
  <2>3. text \notin UnreadTexts[k]
    BY <2>1, <2>2, UnreadNone, Zenon
  <2>4. fact = Said(k, text)
    BY <2>1, <2>2, <2>3, UpsertReads
  <2>5. fact.op = "upsert" /\ fact.entity = k[1] /\ fact.attribute = k[2]
    BY <2>4 DEF Said
  <2>6. <<fact.entity, fact.attribute>> = k
    BY <2>1, <2>5, KeyTyped
  <2> QED
    BY <1>2, <1>3, <2>1, <2>3, <2>5, <2>6, Zenon DEF Says
<1>4. CASE op = "remove"
  <2>1. k \in Key
    BY <1>1, <1>4 DEF Fitting
  <2>2. fact = RemoveRead[k]
    BY <1>2, <1>4 DEF FactOf
  <2>3. IsRemoval(fact, k) /\ RemoveRead[k] # None
    BY <2>1, <2>2, RemovalIs
  <2>4. <<fact.entity, fact.attribute>> = k
    BY <2>1, <2>3, KeyTyped DEF IsRemoval
  <2> QED
    BY <1>2, <1>4, <2>1, <2>3, <2>4, Zenon DEF Says, IsRemoval
<1> QED
  BY <1>1, <1>2, <1>3, <1>4

\* A replay starts from no entries.
Blank(m) == m \in Memory /\ m.entries = NoEntries

LEMMA ReplayFrameHeld ==
  ASSUME NEW fs \in Seq(Frames), NEW m, Blank(m), NEW i \in DOMAIN fs
  PROVE  /\ Blank(ReplayFrame(fs, m, i))
         /\ \A k \in Key : Held(ReplayFrame(fs, m, i))[k]
                             = IF Read(fs, i, k) THEN EntryAt(fs, i) ELSE Held(m)[k]
<1> PICK f \in Frames : f = fs[i]
  OBVIOUS
<1> PICK e : e = Entry(i, f.supersedes, f.pinned)
  OBVIOUS
<1> PICK fact : fact = FactOf(f)
  OBVIOUS
<1> PICK next : next = ReplayFrame(fs, m, i)
  OBVIOUS
<1>0. m \in Memory /\ m.entries = NoEntries
  BY DEF Blank
<1>1. next = StageFact(m, fact, e)
  BY Zenon DEF ReplayFrame
<1>2. CASE fact = None
  <2>1. next = m
    BY <1>1, <1>2 DEF StageFact
  <2> QED
    BY <1>2, <2>1 DEF Read
<1>3. CASE fact # None
  <2> PICK k : k = f.key
    OBVIOUS
  <2>1. Says(f, fact)
    BY <1>3, FactSays
  <2>2. k \in Key /\ <<fact.entity, fact.attribute>> = k
    BY <2>1 DEF Says
  <2>3. \A j : Read(fs, i, j) <=> j = k
    BY <1>3 DEF Read
  <2>4. i # None
    <3>1. i \in Nat
      OBVIOUS
    <3> QED
      BY <3>1, NoneNotNat
  <2>5. HeldWith(m, k, EntryAt(fs, i), next)
    <3>1. CASE f.op = "upsert"
      <4>1. fact.op = "upsert"
        BY <2>1, <3>1 DEF Says
      <4>2. next = StageUpsert(m, k, e)
        BY <1>1, <1>3, <2>2, <4>1 DEF StageFact
      <4>3. e \in EntryOf
        <5>1. i \in Nat
          OBVIOUS
        <5>2. f.supersedes \in Link /\ f.pinned \in BOOLEAN
          BY FrameTyped, Zenon
        <5> QED
          BY <5>1, <5>2, EntryTyped, Zenon
      <4>4. EntryAt(fs, i) = e
        BY <2>4, <3>1 DEF EntryAt
      <4> QED
        BY <1>0, <2>2, <4>2, <4>3, <4>4, UpsertHeld, Zenon
    <3>2. CASE f.op # "upsert"
      <4>1. fact.op = "remove"
        BY <2>1, <3>2 DEF Says
      <4>2. next = StageRemove(m, k)
        BY <1>1, <1>3, <2>2, <4>1 DEF StageFact
      <4>3. EntryAt(fs, i) = NoEntry
        BY <2>4, <3>2 DEF EntryAt
      <4> QED
        BY <1>0, <2>2, <4>2, <4>3, RemoveTyped, Zenon
    <3> QED
      BY <3>1, <3>2
  <2> QED
    BY <1>0, <2>3, <2>5 DEF HeldWith, Blank
<1> QED
  BY <1>2, <1>3

\* A replay of frames fs, step by step.
Replays(f, fs) == f = [i \in 0 .. Len(fs) |-> IF i = 0 THEN Empty ELSE ReplayFrame(fs, f[i - 1], i)]

LEMMA ReplaysExist ==
  ASSUME NEW fs \in Seq(Frames)
  PROVE  \E f : Replays(f, fs)
<1> DEFINE n == Len(fs)
           B == {m \in Memory : m.entries = NoEntries}
           step == [p \in (1 .. n) \X B |-> ReplayFrame(fs, p[2], p[1])]
<1>1. n \in Nat /\ Empty \in B
  BY EmptyTyped
<1>2. \A i \in 1 .. n, x \in B :
        <<i, x>> \in (1 .. n) \X B /\ step[<<i, x>>] = ReplayFrame(fs, x, i)
  <2> HIDE DEF B
  <2> QED
    BY Zenon
<1>3. step \in Steps(n, B)
  <2>1. ASSUME NEW p \in (1 .. n) \X B
        PROVE  ReplayFrame(fs, p[2], p[1]) \in B
    <3>0. p[2] \in B /\ p[1] \in 1 .. n
      <4> HIDE DEF B
      <4> QED
        OBVIOUS
    <3> PICK m, i : m = p[2] /\ i = p[1]
      OBVIOUS
    <3>1. Blank(m) /\ i \in DOMAIN fs
      BY <3>0 DEF Blank
    <3>2. Blank(ReplayFrame(fs, m, i))
      BY <3>1, ReplayFrameHeld
    <3>3. ReplayFrame(fs, p[2], p[1]) = ReplayFrame(fs, m, i)
      OBVIOUS
    <3> QED
      BY <3>2, <3>3 DEF Blank
  <2> HIDE DEF B
  <2> QED
    BY <2>1, Zenon DEF Steps
<1> HIDE DEF step, B
<1>4. PICK f : f \in [0 .. n -> B] /\ Iterates(f, Empty, step, n)
  <2> HIDE DEF n
  <2> QED
    BY <1>1, <1>3, RecursionExists, Zenon
<1>5. \A i \in 1 .. n : f[i] = ReplayFrame(fs, f[i - 1], i)
  <2>1. \A i \in 1 .. n : i - 1 \in 0 .. n
    BY <1>1
  <2> QED
    BY <1>2, <1>4, <2>1 DEF Iterates
<1>6. f = [i \in 0 .. n |-> IF i = 0 THEN Empty ELSE ReplayFrame(fs, f[i - 1], i)]
  <2>1. \A i \in 0 .. n : f[i] = IF i = 0 THEN Empty ELSE ReplayFrame(fs, f[i - 1], i)
    BY <1>4, <1>5 DEF Iterates
  <2>2. f = [i \in 0 .. n |-> f[i]]
    BY <1>4
  <2> QED
    BY <2>1, <2>2
<1> QED
  BY <1>6 DEF Replays

LEMMA ReplaysAt ==
  ASSUME NEW f, NEW fs \in Seq(Frames), Replays(f, fs)
  PROVE  f[0] = Empty /\ \A i \in 1 .. Len(fs) : f[i] = ReplayFrame(fs, f[i - 1], i)
<1> DEFINE h == [i \in 0 .. Len(fs) |-> IF i = 0 THEN Empty ELSE ReplayFrame(fs, f[i - 1], i)]
<1>1. f = h
  BY Zenon DEF Replays
<1>2. h[0] = Empty /\ \A i \in 1 .. Len(fs) : h[i] = ReplayFrame(fs, f[i - 1], i)
  OBVIOUS
<1> HIDE DEF h
<1> QED
  BY <1>1, <1>2

\* Entry e of key k is what the newest of the first n frames says.
Told(fs, n, k, e) == \E x : Newest(fs, n, k, x) /\ e = EntryAt(fs, x)

LEMMA ToldMore ==
  ASSUME NEW fs \in Seq(Frames), NEW i \in DOMAIN fs, NEW k, NEW e, Told(fs, i - 1, k, e)
  PROVE  Told(fs, i, k, IF Read(fs, i, k) THEN EntryAt(fs, i) ELSE e)
<1> PICK x : Newest(fs, i - 1, k, x) /\ e = EntryAt(fs, x)
  BY DEF Told
<1>1. i \in Nat /\ i # None
  <2>1. i \in Nat
    OBVIOUS
  <2> QED
    BY <2>1, NoneNotNat
<1>2. CASE Read(fs, i, k)
  <2>1. i \in 1 .. i /\ \A j \in 1 .. i : j <= i
    BY <1>1
  <2>2. Newest(fs, i, k, i)
    BY <1>1, <1>2, <2>1 DEF Newest
  <2> QED
    BY <1>2, <2>2, Zenon DEF Told
<1>3. CASE ~Read(fs, i, k)
  <2>1. \A j \in 1 .. i : j # i => j \in 1 .. (i - 1)
    BY <1>1
  <2>2. \A j \in 1 .. (i - 1) : j \in 1 .. i
    BY <1>1
  <2>3. Newest(fs, i, k, x)
    BY <1>3, <2>1, <2>2 DEF Newest
  <2> QED
    BY <1>3, <2>3, Zenon DEF Told
<1> QED
  BY <1>2, <1>3

LEMMA ReplayTold ==
  ASSUME NEW fs \in Seq(Frames)
  PROVE  /\ Replay(fs) \in Memory /\ Held(Replay(fs)) = Replay(fs).entries
         /\ \A k \in Key : Told(fs, Len(fs), k, Replay(fs).entries[k])
<1> DEFINE f == CHOOSE f : Replays(f, fs)
<1>1. Replays(f, fs)
  BY ReplaysExist
<1>2. Replay(fs) = CommitStaged(f[Len(fs)])
  BY DEF Replay, Replays
<1> HIDE DEF f
<1> PICK n \in Nat : n = Len(fs)
  OBVIOUS
<1>3. f[0] = Empty /\ \A i \in 1 .. n : f[i] = ReplayFrame(fs, f[i - 1], i)
  BY <1>1, ReplaysAt
<1> DEFINE S == {i \in 0 .. n : Blank(f[i]) /\ \A k \in Key : Told(fs, i, k, Held(f[i])[k])}
<1>4. 0 \in S
  <2>1. Blank(Empty) /\ \A k \in Key : Held(Empty)[k] = NoEntry
    BY EmptyTyped, NothingTyped DEF Blank
  <2>2. ASSUME NEW k \in Key
        PROVE  Told(fs, 0, k, NoEntry)
    <3>1. Newest(fs, 0, k, None)
      BY DEF Newest
    <3>2. EntryAt(fs, None) = NoEntry
      BY DEF EntryAt
    <3> QED
      BY <3>1, <3>2, Zenon DEF Told
  <2>3. 0 \in 0 .. n
    OBVIOUS
  <2> QED
    BY <1>3, <2>1, <2>2, <2>3
<1>5. ASSUME NEW i \in 1 .. n, i - 1 \in S
      PROVE  i \in S
  <2> PICK m : m = f[i - 1]
    OBVIOUS
  <2> PICK next : next = f[i]
    OBVIOUS
  <2>1. Blank(m) /\ \A k \in Key : Told(fs, i - 1, k, Held(m)[k])
    BY <1>5
  <2>2. /\ Blank(next)
        /\ \A k \in Key : Held(next)[k] = IF Read(fs, i, k) THEN EntryAt(fs, i) ELSE Held(m)[k]
    <3>1. next = ReplayFrame(fs, m, i) /\ i \in DOMAIN fs
      BY <1>3
    <3> QED
      BY <2>1, <3>1, ReplayFrameHeld
  <2>3. ASSUME NEW k \in Key
        PROVE  Told(fs, i, k, Held(next)[k])
    <3> PICK e : e = Held(m)[k]
      OBVIOUS
    <3>1. i \in DOMAIN fs /\ Told(fs, i - 1, k, e)
      BY <2>1
    <3>2. Told(fs, i, k, IF Read(fs, i, k) THEN EntryAt(fs, i) ELSE e)
      BY <3>1, ToldMore
    <3> QED
      BY <2>2, <3>2
  <2>4. i \in 0 .. n
    OBVIOUS
  <2> QED
    BY <2>2, <2>3, <2>4
<1>6. 0 .. n \subseteq S
  <2> HIDE DEF S
  <2> QED
    BY <1>4, <1>5, InductionUpTo
<1> PICK m : m = f[n]
  OBVIOUS
<1>7. m \in Memory /\ \A k \in Key : Told(fs, n, k, Held(m)[k])
  <2>1. n \in 0 .. n
    OBVIOUS
  <2> QED
    BY <1>6, <2>1 DEF Blank
<1>8. Replay(fs) = CommitStaged(m)
  BY <1>2
<1> QED
  BY <1>7, <1>8, CommitStagedTyped

-----------------------------------------------------------------------------
(* Memory and frames.                                                       *)

UnreadAt(fs, x) == x \in DOMAIN fs /\ Unread(fs[x])
AnyUnread(fs) == \E x \in DOMAIN fs : UnreadAt(fs, x)

\* Entry e of key k is what a restart would make of fs, or a fact it does not read.
Agrees(e, fs, k) ==
  \E x : Newest(fs, Len(fs), k, x) /\ (e # EntryAt(fs, x) => UnreadAt(fs, e.id))

Sync(m, fs) == \A k \in Key : Agrees(Held(m)[k], fs, k)

\* Nothing has superseded the facts in memory.
Current(fs, k, x) == x \in DOMAIN fs /\ fs[x].key = k /\ fs[x].superseded_by = None

InForce(m, fs) == \A k \in Key : Held(m)[k].id # None => Current(fs, k, Held(m)[k].id)

\* What was deleted or superseded has a newer frame over it.
Gone(f) == f.deleted \/ f.superseded_by # None
Covers(fs, i) == \E j \in DOMAIN fs : j > i /\ Read(fs, j, fs[i].key)
Covered(fs) == AnyUnread(fs) \/ \A i \in DOMAIN fs : Gone(fs[i]) => Covers(fs, i)

LEMMA AlikeFact ==
  ASSUME NEW f, NEW g, Alike(f, g)
  PROVE  (Unread(f) <=> Unread(g)) /\ (f.deleted = g.deleted => FactOf(f) = FactOf(g))
BY DEF Alike, Unread, FactOf

\* A fact that is not deleted is read, or one that a restart does not read.
LEMMA FactRead ==
  ASSUME NEW f \in Frames, f.op = "upsert"
  PROVE  /\ f.key \in Key /\ f.text \in Puttable[f.key]
         /\ ~Unread(f) => RemoveRead[f.key] # None /\ (~f.deleted => FactOf(f) # None)
<1> PICK k, text : k = f.key /\ text = f.text
  OBVIOUS
<1>1. k \in Key /\ text \in Puttable[k]
  BY FrameTyped DEF Fitting
<1>2. ASSUME ~Unread(f)
      PROVE  RemoveRead[k] # None /\ (~f.deleted => FactOf(f) # None)
  <2>1. text \in Puttable[k] \ UnreadTexts[k]
    BY <1>1, <1>2 DEF Unread
  <2>2. RemoveRead[k] # None /\ UpsertRead[k][text] # None
    BY <1>1, <2>1, RemovalRead, UpsertReads
  <2>3. ~f.deleted => FactOf(f) = UpsertRead[k][text]
    BY DEF FactOf
  <2> QED
    BY <2>2, <2>3
<1> QED
  BY <1>1, <1>2

LEMMA TombstoneRead ==
  ASSUME NEW f \in Frames, f.op = "remove", ~f.deleted
  PROVE  f.key \in Key /\ FactOf(f) = RemoveRead[f.key]
<1>1. f.key \in Key
  BY FrameTyped DEF Fitting
<1> QED
  BY <1>1 DEF FactOf

LEMMA NewestExists ==
  ASSUME NEW fs \in Seq(Frames), NEW k \in Key
  PROVE  \E x : Newest(fs, Len(fs), k, x)
BY ReplayTold DEF Told

\* The last frame is the newest when it is read.
LEMMA LastNewest ==
  ASSUME NEW fs \in Seq(Frames), NEW n \in DOMAIN fs, n = Len(fs), NEW k, Read(fs, n, k)
  PROVE  Newest(fs, Len(fs), k, n) /\ n # None
<1>1. n \in Nat /\ n # None
  <2>1. n \in Nat
    OBVIOUS
  <2> QED
    BY <2>1, NoneNotNat
<1>2. n \in 1 .. n /\ \A j \in 1 .. n : j <= n
  BY <1>1
<1> QED
  BY <1>1, <1>2 DEF Newest

\* A fact just put is what a restart reads, or one it does not.
LEMMA FactAgrees ==
  ASSUME NEW fs \in Seq(Frames), NEW n \in DOMAIN fs, n = Len(fs), NEW k \in Key,
         fs[n].op = "upsert", fs[n].key = k, ~fs[n].deleted
  PROVE  Agrees(EntryAt(fs, n), fs, k)
<1> PICK f \in Frames : f = fs[n]
  OBVIOUS
<1>0. n # None /\ EntryAt(fs, n).id = n
  <2>1. n \in Nat
    OBVIOUS
  <2> QED
    BY <2>1, NoneNotNat DEF EntryAt, Entry
<1>1. CASE Unread(f)
  <2>1. UnreadAt(fs, n)
    BY <1>1 DEF UnreadAt
  <2> PICK x : Newest(fs, Len(fs), k, x)
    BY NewestExists
  <2> QED
    BY <1>0, <2>1 DEF Agrees
<1>2. CASE ~Unread(f)
  <2>1. FactOf(f) # None
    BY <1>2, FactRead
  <2>2. Read(fs, n, k)
    BY <2>1 DEF Read
  <2>3. Newest(fs, Len(fs), k, n)
    BY <2>2, LastNewest
  <2> QED
    BY <2>3 DEF Agrees
<1> QED
  BY <1>1, <1>2

\* Of a key with a tombstone just put, a restart makes nothing, read or not.
LEMMA NothingAgrees ==
  ASSUME NEW fs \in Seq(Frames), NEW n \in DOMAIN fs, n = Len(fs), NEW k \in Key,
         fs[n].op = "remove", fs[n].key = k, ~fs[n].deleted
  PROVE  Agrees(NoEntry, fs, k)
<1> PICK f \in Frames : f = fs[n]
  OBVIOUS
<1>1. FactOf(f) = RemoveRead[k]
  BY TombstoneRead
<1>2. CASE RemoveRead[k] # None
  <2>1. Read(fs, n, k)
    BY <1>1, <1>2 DEF Read
  <2>2. Newest(fs, Len(fs), k, n)
    BY <2>1, LastNewest
  <2>3. EntryAt(fs, n) = NoEntry
    BY DEF EntryAt
  <2> QED
    BY <2>2, <2>3 DEF Agrees
<1>3. CASE RemoveRead[k] = None
  <2> PICK x : Newest(fs, Len(fs), k, x)
    BY NewestExists
  <2>1. EntryAt(fs, x) = NoEntry
    <3>1. CASE x = None
      BY <3>1 DEF EntryAt
    <3>2. CASE x # None
      <4>1. x \in DOMAIN fs /\ Read(fs, x, k)
        BY <3>2 DEF Newest
      <4> PICK g \in Frames : g = fs[x]
        BY <4>1
      <4>2. Says(g, FactOf(g)) /\ g.key = k
        BY <4>1, FactSays DEF Read
      <4>3. ~(g.text \in Puttable[k] \ UnreadTexts[k])
        BY <1>3, RemovalRead
      <4>4. g.op = "remove"
        BY <4>2, <4>3 DEF Says
      <4> QED
        BY <4>4 DEF EntryAt
    <3> QED
      BY <3>1, <3>2
  <2> QED
    BY <2>1 DEF Agrees
<1> QED
  BY <1>2, <1>3

-----------------------------------------------------------------------------
(* A put.                                                                   *)

LEMMA PutReads ==
  ASSUME NEW fs \in Seq(Frames), NEW gs, NEW f, Put(fs, gs, f), NEW i \in DOMAIN fs
  PROVE  /\ i \in DOMAIN gs /\ gs[i] = fs[i]
         /\ \A k : Read(gs, i, k) <=> Read(fs, i, k)
         /\ UnreadAt(fs, i) => UnreadAt(gs, i)
         /\ EntryAt(gs, i) = EntryAt(fs, i)
<1>1. i \in DOMAIN gs /\ gs[i] = fs[i]
  BY DEF Put
<1> QED
  BY <1>1 DEF Read, UnreadAt, EntryAt

LEMMA PutAgrees ==
  ASSUME NEW fs \in Seq(Frames), NEW gs, NEW f, Put(fs, gs, f), NEW k, NEW e, Agrees(e, fs, k),
         f.key # k \/ FactOf(f) = None
  PROVE  Agrees(e, gs, k)
<1> PICK x : Newest(fs, Len(fs), k, x) /\ (e # EntryAt(fs, x) => UnreadAt(fs, e.id))
  BY DEF Agrees
<1> PICK n \in Nat : n = Len(fs)
  OBVIOUS
<1>1. Len(gs) = n + 1 /\ gs[n + 1] = f
  BY DEF Put
<1>2. ~Read(gs, n + 1, k)
  BY <1>1 DEF Read
<1>3. \A j \in 1 .. n : Read(gs, j, k) <=> Read(fs, j, k)
  BY PutReads
<1>4. Newest(gs, Len(gs), k, x)
  <2>1. \A j \in 1 .. (n + 1) : j \in 1 .. n \/ j = n + 1
    OBVIOUS
  <2>2. x # None => x \in 1 .. n /\ x \in 1 .. (n + 1)
    BY DEF Newest
  <2> QED
    BY <1>1, <1>2, <1>3, <2>1, <2>2 DEF Newest
<1>5. EntryAt(gs, x) = EntryAt(fs, x)
  <2>1. CASE x = None
    BY <2>1 DEF EntryAt
  <2>2. CASE x # None
    <3>1. x \in DOMAIN fs
      BY <2>2 DEF Newest
    <3> QED
      BY <3>1, PutReads
  <2> QED
    BY <2>1, <2>2
<1>6. UnreadAt(fs, e.id) => UnreadAt(gs, e.id)
  <2> PICK i : i = e.id
    OBVIOUS
  <2>1. UnreadAt(fs, i) => i \in DOMAIN fs
    BY DEF UnreadAt
  <2> QED
    BY <2>1, PutReads
<1> QED
  BY <1>4, <1>5, <1>6 DEF Agrees

LEMMA PutCurrent ==
  ASSUME NEW fs \in Seq(Frames), NEW gs, NEW f, Put(fs, gs, f), NEW k, NEW x, Current(fs, k, x)
  PROVE  Current(gs, k, x)
BY PutReads DEF Current

LEMMA PutInForce ==
  ASSUME NEW fs \in Seq(Frames), NEW gs, NEW f, Put(fs, gs, f), NEW m, InForce(m, fs)
  PROVE  InForce(m, gs)
BY PutCurrent DEF InForce

LEMMA PutCovered ==
  ASSUME NEW fs \in Seq(Frames), NEW gs, NEW f, Put(fs, gs, f), Covered(fs)
  PROVE  Covered(gs)
<1>1. CASE AnyUnread(fs)
  BY <1>1, PutReads DEF AnyUnread, Covered
<1>2. CASE ~AnyUnread(fs)
  <2>1. ASSUME NEW i \in DOMAIN gs, Gone(gs[i])
        PROVE  Covers(gs, i)
    <3>1. i \in DOMAIN fs
      <4>1. i \in DOMAIN fs \/ gs[i] = f
        BY DEF Put
      <4>2. ~Gone(f)
        BY DEF Put, Gone
      <4> QED
        BY <2>1, <4>1, <4>2
    <3>2. gs[i] = fs[i]
      BY <3>1, PutReads
    <3> PICK j \in DOMAIN fs : j > i /\ Read(fs, j, fs[i].key)
      BY <1>2, <2>1, <3>1, <3>2 DEF Covered, Covers
    <3> QED
      BY <3>2, PutReads DEF Covers
  <2> QED
    BY <2>1 DEF Covered
<1> QED
  BY <1>1, <1>2

-----------------------------------------------------------------------------
(* A supersede.                                                             *)

LEMMA SupersedeReads ==
  ASSUME NEW fs \in Seq(Frames), NEW gs, NEW old, NEW new, Superseded(fs, gs, old, new)
  PROVE  /\ DOMAIN gs = DOMAIN fs /\ Len(gs) = Len(fs)
         /\ \A i \in DOMAIN fs :
              /\ gs[i].op = fs[i].op /\ gs[i].key = fs[i].key /\ gs[i].text = fs[i].text
              /\ gs[i].deleted = fs[i].deleted /\ gs[i].pinned = fs[i].pinned
              /\ \A k : Read(gs, i, k) <=> Read(fs, i, k)
              /\ UnreadAt(gs, i) <=> UnreadAt(fs, i)
              /\ i # new => EntryAt(gs, i) = EntryAt(fs, i)
<1>1. DOMAIN gs = DOMAIN fs /\ Len(gs) = Len(fs)
  BY DEF Superseded, Same
<1>2. ASSUME NEW i \in DOMAIN fs
      PROVE  /\ gs[i].op = fs[i].op /\ gs[i].key = fs[i].key /\ gs[i].text = fs[i].text
             /\ gs[i].deleted = fs[i].deleted /\ gs[i].pinned = fs[i].pinned
             /\ \A k : Read(gs, i, k) <=> Read(fs, i, k)
             /\ UnreadAt(gs, i) <=> UnreadAt(fs, i)
             /\ i # new => EntryAt(gs, i) = EntryAt(fs, i)
  <2> PICK f, g : f = fs[i] /\ g = gs[i]
    OBVIOUS
  <2>1. Alike(f, g) /\ g.deleted = f.deleted /\ (i # new => g.supersedes = f.supersedes)
    BY DEF Superseded, Same
  <2>2. FactOf(g) = FactOf(f) /\ (Unread(g) <=> Unread(f))
    BY <2>1, AlikeFact
  <2>3. g.op = f.op /\ g.key = f.key /\ g.text = f.text /\ g.pinned = f.pinned
    BY <2>1 DEF Alike
  <2>4. \A k : Read(gs, i, k) <=> Read(fs, i, k)
    BY <2>2, <2>3 DEF Read
  <2>5. UnreadAt(gs, i) <=> UnreadAt(fs, i)
    BY <1>1, <2>2 DEF UnreadAt
  <2>6. i # new => EntryAt(gs, i) = EntryAt(fs, i)
    BY <2>1, <2>3 DEF EntryAt
  <2> QED
    BY <2>1, <2>3, <2>4, <2>5, <2>6
<1> QED
  BY <1>1, <1>2

LEMMA SupersedeAgrees ==
  ASSUME NEW fs \in Seq(Frames), NEW gs, NEW old, NEW new, Superseded(fs, gs, old, new),
         NEW k, NEW e, Agrees(e, fs, k), ~Read(fs, new, k)
  PROVE  Agrees(e, gs, k)
<1> PICK x : Newest(fs, Len(fs), k, x) /\ (e # EntryAt(fs, x) => UnreadAt(fs, e.id))
  BY DEF Agrees
<1>1. Newest(gs, Len(gs), k, x)
  BY SupersedeReads DEF Newest
<1>2. EntryAt(gs, x) = EntryAt(fs, x)
  <2>1. CASE x = None
    BY <2>1 DEF EntryAt
  <2>2. CASE x # None
    <3>1. x \in DOMAIN fs /\ x # new
      BY <2>2 DEF Newest
    <3> QED
      BY <3>1, SupersedeReads
  <2> QED
    BY <2>1, <2>2
<1>3. UnreadAt(fs, e.id) => UnreadAt(gs, e.id)
  <2> PICK i : i = e.id
    OBVIOUS
  <2>1. UnreadAt(fs, i) => i \in DOMAIN fs
    BY DEF UnreadAt
  <2> QED
    BY <2>1, SupersedeReads
<1> QED
  BY <1>1, <1>2, <1>3 DEF Agrees

LEMMA SupersedeCurrent ==
  ASSUME NEW fs \in Seq(Frames), NEW gs, NEW old, NEW new, Superseded(fs, gs, old, new),
         NEW k, NEW x, Current(fs, k, x), x # old
  PROVE  Current(gs, k, x)
<1>1. x \in DOMAIN fs /\ fs[x].key = k /\ fs[x].superseded_by = None
  BY DEF Current
<1>2. x \in DOMAIN gs /\ gs[x].key = k
  BY <1>1, SupersedeReads
<1>3. gs[x].superseded_by = None
  BY <1>1 DEF Superseded
<1> QED
  BY <1>2, <1>3 DEF Current

LEMMA SupersedeCovered ==
  ASSUME NEW fs \in Seq(Frames), NEW gs, NEW new \in DOMAIN fs, NEW old \in 1 .. (new - 1),
         Superseded(fs, gs, old, new), Covered(fs), fs[old].key = fs[new].key,
         fs[new].op = "upsert", ~fs[new].deleted
  PROVE  Covered(gs)
<1>1. CASE AnyUnread(fs)
  BY <1>1, SupersedeReads DEF AnyUnread, Covered
<1>2. CASE ~AnyUnread(fs)
  <2> PICK f \in Frames : f = fs[new]
    OBVIOUS
  <2>1. Read(gs, new, fs[new].key)
    <3>1. ~Unread(f)
      BY <1>2 DEF AnyUnread, UnreadAt
    <3>2. FactOf(f) # None
      BY <3>1, FactRead
    <3>3. Read(fs, new, fs[new].key)
      BY <3>2 DEF Read
    <3> QED
      BY <3>3, SupersedeReads
  <2>2. ASSUME NEW i \in DOMAIN gs, Gone(gs[i])
        PROVE  Covers(gs, i)
    <3>0. i \in DOMAIN fs /\ gs[i].key = fs[i].key /\ DOMAIN gs = DOMAIN fs
      BY SupersedeReads
    <3>1. CASE i = old
      <4>1. new > old
        OBVIOUS
      <4> QED
        BY <2>1, <3>0, <3>1, <4>1 DEF Covers
    <3>2. CASE i # old
      <4>1. Gone(fs[i])
        BY <2>2, <3>0, <3>2 DEF Gone, Superseded
      <4> PICK j \in DOMAIN fs : j > i /\ Read(fs, j, fs[i].key)
        BY <1>2, <3>0, <4>1 DEF Covered, Covers
      <4>2. Read(gs, j, gs[i].key)
        BY <3>0, SupersedeReads
      <4> QED
        BY <3>0, <4>2 DEF Covers
    <3> QED
      BY <3>1, <3>2
  <2> QED
    BY <2>2 DEF Covered
<1> QED
  BY <1>1, <1>2

-----------------------------------------------------------------------------
(* A delete.                                                                *)

LEMMA DeleteReads ==
  ASSUME NEW fs \in Seq(Frames), NEW gs, NEW x, Deleted(fs, gs, x)
  PROVE  /\ gs \in Seq(Frames) /\ DOMAIN gs = DOMAIN fs /\ Len(gs) = Len(fs)
         /\ \A i \in DOMAIN fs :
              /\ gs[i].op = fs[i].op /\ gs[i].key = fs[i].key
              /\ gs[i].superseded_by = fs[i].superseded_by
              /\ i # x => gs[i].deleted = fs[i].deleted
              /\ \A k : Read(gs, i, k) <=> Read(fs, i, k) /\ i # x
              /\ UnreadAt(gs, i) <=> UnreadAt(fs, i)
              /\ EntryAt(gs, i) = EntryAt(fs, i)
<1>1. gs \in Seq(Frames) /\ DOMAIN gs = DOMAIN fs /\ Len(gs) = Len(fs)
  BY DEF Deleted, Same
<1>2. ASSUME NEW i \in DOMAIN fs
      PROVE  /\ gs[i].op = fs[i].op /\ gs[i].key = fs[i].key
             /\ gs[i].superseded_by = fs[i].superseded_by
             /\ i # x => gs[i].deleted = fs[i].deleted
             /\ \A k : Read(gs, i, k) <=> Read(fs, i, k) /\ i # x
             /\ UnreadAt(gs, i) <=> UnreadAt(fs, i)
             /\ EntryAt(gs, i) = EntryAt(fs, i)
  <2> PICK f, g : f = fs[i] /\ g = gs[i]
    OBVIOUS
  <2>1. /\ Alike(f, g) /\ g.supersedes = f.supersedes /\ g.superseded_by = f.superseded_by
        /\ (i # x => g.deleted = f.deleted) /\ (i = x => g.deleted = TRUE)
    BY Zenon DEF Deleted, Same
  <2>2. (i # x => FactOf(g) = FactOf(f)) /\ (Unread(g) <=> Unread(f))
    BY <2>1, AlikeFact, Zenon
  <2>3. i = x => FactOf(g) = None
    BY <2>1, Zenon DEF FactOf
  <2>4. g.op = f.op /\ g.key = f.key /\ g.text = f.text /\ g.pinned = f.pinned
    BY <2>1, Zenon DEF Alike
  <2>5. \A k : Read(gs, i, k) <=> Read(fs, i, k) /\ i # x
    BY <2>2, <2>3, <2>4 DEF Read
  <2>6. UnreadAt(gs, i) <=> UnreadAt(fs, i)
    BY <1>1, <2>2 DEF UnreadAt
  <2>7. EntryAt(gs, i) = EntryAt(fs, i)
    BY <2>1, <2>4, Zenon DEF EntryAt
  <2> QED
    BY <2>1, <2>4, <2>5, <2>6, <2>7, Zenon
<1> QED
  BY <1>1, <1>2, Zenon

\* Unless the frame in memory is deleted.
LEMMA DeleteAgrees ==
  ASSUME NEW fs \in Seq(Frames), NEW gs, NEW x \in DOMAIN fs, Deleted(fs, gs, x),
         NEW k \in Key, NEW e, Agrees(e, fs, k), fs[x].op = "upsert", fs[x].key # k \/ e.id # x
  PROVE  Agrees(e, gs, k)
<1> PICK y : Newest(fs, Len(fs), k, y) /\ (e # EntryAt(fs, y) => UnreadAt(fs, e.id))
  BY DEF Agrees
<1>1. UnreadAt(fs, e.id) => UnreadAt(gs, e.id)
  <2> PICK i : i = e.id
    OBVIOUS
  <2>1. UnreadAt(fs, i) => i \in DOMAIN fs
    BY DEF UnreadAt
  <2> QED
    BY <2>1, DeleteReads
<1>2. CASE y = x
  <2>1. x # None
    <3>1. x \in Nat
      OBVIOUS
    <3> QED
      BY <3>1, NoneNotNat
  <2>2. fs[x].key = k /\ EntryAt(fs, x).id = x
    BY <1>2, <2>1 DEF Newest, Read, EntryAt, Entry
  <2>3. UnreadAt(gs, e.id)
    BY <1>1, <1>2, <2>2
  <2>4. gs \in Seq(Frames)
    BY DeleteReads
  <2> PICK z : Newest(gs, Len(gs), k, z)
    BY <2>4, NewestExists
  <2> QED
    BY <2>3 DEF Agrees
<1>3. CASE y # x
  <2>1. Newest(gs, Len(gs), k, y)
    BY <1>3, DeleteReads DEF Newest
  <2>2. EntryAt(gs, y) = EntryAt(fs, y)
    <3>1. CASE y = None
      BY <3>1 DEF EntryAt
    <3>2. CASE y # None
      <4>1. y \in DOMAIN fs
        BY <3>2 DEF Newest
      <4> QED
        BY <4>1, DeleteReads
    <3> QED
      BY <3>1, <3>2
  <2> QED
    BY <1>1, <2>1, <2>2 DEF Agrees
<1> QED
  BY <1>2, <1>3

LEMMA DeleteInForce ==
  ASSUME NEW fs \in Seq(Frames), NEW gs, NEW x, Deleted(fs, gs, x), NEW m, InForce(m, fs)
  PROVE  InForce(m, gs)
BY DeleteReads DEF InForce, Current

\* A newer revision lies over the deleted one.
LEMMA DeleteCovered ==
  ASSUME NEW fs \in Seq(Frames), NEW gs, NEW x \in DOMAIN fs, Deleted(fs, gs, x), Covered(fs),
         AnyUnread(fs) \/ Covers(fs, x)
  PROVE  Covered(gs)
<1>1. CASE AnyUnread(fs)
  BY <1>1, DeleteReads DEF AnyUnread, Covered
<1>2. CASE ~AnyUnread(fs)
  <2> PICK z \in DOMAIN fs : z > x /\ Read(fs, z, fs[x].key)
    BY <1>2 DEF Covers
  <2>1. Read(gs, z, fs[x].key)
    <3>1. z # x
      OBVIOUS
    <3> QED
      BY <3>1, DeleteReads
  <2>2. ASSUME NEW i \in DOMAIN gs, Gone(gs[i])
        PROVE  Covers(gs, i)
    <3>0. i \in DOMAIN fs /\ gs[i].key = fs[i].key /\ DOMAIN gs = DOMAIN fs
      BY DeleteReads
    <3>1. CASE i = x
      BY <2>1, <3>0, <3>1 DEF Covers
    <3>2. CASE i # x
      <4>1. Gone(fs[i])
        BY <2>2, <3>0, <3>2, DeleteReads DEF Gone
      <4> PICK j \in DOMAIN fs : j > i /\ Read(fs, j, fs[i].key)
        BY <1>2, <3>0, <4>1 DEF Covered, Covers
      <4>2. CASE j # x
        <5>1. Read(gs, j, gs[i].key)
          BY <3>0, <4>2, DeleteReads
        <5> QED
          BY <3>0, <5>1 DEF Covers
      <4>3. CASE j = x
        <5>1. fs[x].key = fs[i].key /\ z > i
          BY <3>0, <4>3 DEF Read
        <5> QED
          BY <2>1, <3>0, <5>1 DEF Covers
      <4> QED
        BY <4>2, <4>3
    <3> QED
      BY <3>1, <3>2
  <2> QED
    BY <2>2 DEF Covered
<1> QED
  BY <1>1, <1>2

\* Or the tombstone that follows.
LEMMA TombstoneCovered ==
  ASSUME NEW fs \in Seq(Frames), NEW gs, NEW x \in DOMAIN fs, Deleted(fs, gs, x), Covered(fs),
         fs[x].op = "upsert", NEW hs, NEW f, Put(gs, hs, f), f.op = "remove", f.key = fs[x].key
  PROVE  Covered(hs)
<1> PICK k : k = f.key
  OBVIOUS
<1>0. gs \in Seq(Frames) /\ DOMAIN gs = DOMAIN fs /\ f \in Frames /\ f.deleted = FALSE
  BY DeleteReads DEF Put
<1>1. CASE AnyUnread(fs)
  <2> PICK i \in DOMAIN fs : UnreadAt(fs, i)
    BY <1>1 DEF AnyUnread
  <2>1. UnreadAt(gs, i)
    BY DeleteReads
  <2>2. UnreadAt(hs, i) /\ i \in DOMAIN hs
    BY <1>0, <2>1, PutReads
  <2> QED
    BY <2>2 DEF AnyUnread, Covered
<1>2. CASE ~AnyUnread(fs)
  <2> PICK g \in Frames : g = fs[x]
    OBVIOUS
  <2>1. RemoveRead[k] # None
    <3>1. ~Unread(g)
      BY <1>2 DEF AnyUnread, UnreadAt
    <3> QED
      BY <3>1, FactRead
  <2> PICK n \in Nat : n = Len(gs) + 1
    BY <1>0
  <2>2. n \in DOMAIN hs /\ Read(hs, n, k) /\ \A i \in DOMAIN fs : n > i
    <3>1. hs[n] = f /\ Len(hs) = n
      BY DEF Put
    <3>2. FactOf(f) # None
      BY <1>0, <2>1, TombstoneRead
    <3>3. \A i \in DOMAIN gs : n > i
      BY <1>0
    <3>4. hs \in Seq(Frames) /\ n \in 1 .. n
      BY <1>0 DEF Put
    <3> QED
      BY <1>0, <3>1, <3>2, <3>3, <3>4 DEF Read
  <2>3. ASSUME NEW i \in DOMAIN hs, Gone(hs[i])
        PROVE  Covers(hs, i)
    <3>1. i \in DOMAIN fs
      <4>1. i \in DOMAIN gs \/ hs[i] = f
        BY <1>0 DEF Put
      <4>2. ~Gone(f)
        BY DEF Put, Gone
      <4> QED
        BY <1>0, <2>3, <4>1, <4>2
    <3>2. hs[i] = gs[i] /\ gs[i].key = fs[i].key
      BY <1>0, <3>1, PutReads, DeleteReads
    <3>3. CASE fs[i].key = k
      BY <2>2, <3>1, <3>2, <3>3 DEF Covers
    <3>4. CASE fs[i].key # k
      <4>1. Gone(fs[i])
        <5>1. i # x
          BY <3>4
        <5> QED
          BY <2>3, <3>1, <3>2, <5>1, DeleteReads DEF Gone
      <4> PICK j \in DOMAIN fs : j > i /\ Read(fs, j, fs[i].key)
        BY <1>2, <3>1, <4>1 DEF Covered, Covers
      <4>2. j # x
        BY <3>4 DEF Read
      <4>3. Read(gs, j, fs[i].key)
        BY <4>2, DeleteReads
      <4>4. Read(hs, j, hs[i].key) /\ j \in DOMAIN hs
        BY <1>0, <3>2, <4>3, PutReads
      <4> QED
        BY <4>4 DEF Covers
    <3> QED
      BY <3>3, <3>4
  <2> QED
    BY <2>3 DEF Covered
<1> QED
  BY <1>1, <1>2

\* Over a revision that is not in memory lies a newer one.
LEMMA InactiveCovered ==
  ASSUME NEW fs \in Seq(Frames), NEW x \in DOMAIN fs, fs[x].op = "upsert", ~fs[x].deleted,
         NEW e, Agrees(e, fs, fs[x].key), e.id # x
  PROVE  AnyUnread(fs) \/ Covers(fs, x)
<1> SUFFICES ASSUME ~AnyUnread(fs)
             PROVE  Covers(fs, x)
  OBVIOUS
<1> PICK k : k = fs[x].key
  OBVIOUS
<1> PICK y : Newest(fs, Len(fs), k, y) /\ (e # EntryAt(fs, y) => UnreadAt(fs, e.id))
  BY DEF Agrees
<1>1. e = EntryAt(fs, y)
  BY DEF AnyUnread, UnreadAt
<1>2. Read(fs, x, k)
  <2> PICK f \in Frames : f = fs[x]
    OBVIOUS
  <2>1. ~Unread(f)
    BY DEF AnyUnread, UnreadAt
  <2> QED
    BY <2>1, FactRead DEF Read
<1>3. y # None /\ x <= y /\ y \in DOMAIN fs /\ Read(fs, y, k)
  BY <1>2 DEF Newest
<1>4. y # x
  BY <1>1, <1>3 DEF EntryAt, Entry
<1>5. y > x
  BY <1>3, <1>4
<1> QED
  BY <1>3, <1>5 DEF Covers

-----------------------------------------------------------------------------
(* A restart.                                                               *)

LEMMA ReplaySync ==
  ASSUME NEW fs \in Seq(Frames)
  PROVE  Replay(fs) \in Memory /\ Sync(Replay(fs), fs)
BY ReplayTold DEF Sync, Agrees, Told

LEMMA ReplayInForce ==
  ASSUME NEW fs \in Seq(Frames), Covered(fs), ~AnyUnread(fs)
  PROVE  InForce(Replay(fs), fs)
<1> SUFFICES ASSUME NEW k \in Key, Replay(fs).entries[k].id # None
             PROVE  Current(fs, k, Replay(fs).entries[k].id)
  BY ReplayTold DEF InForce
<1> PICK x : Newest(fs, Len(fs), k, x) /\ Replay(fs).entries[k] = EntryAt(fs, x)
  BY ReplayTold DEF Told
<1>1. x # None /\ Replay(fs).entries[k].id = x
  BY DEF EntryAt, Entry, NoEntry
<1>2. x \in DOMAIN fs /\ fs[x].key = k
  BY <1>1 DEF Newest, Read
<1>3. fs[x].superseded_by = None
  <2> SUFFICES ASSUME Gone(fs[x])
               PROVE  FALSE
    BY DEF Gone
  <2> PICK j \in DOMAIN fs : j > x /\ Read(fs, j, k)
    BY <1>2 DEF Covered, Covers
  <2>1. j <= x
    BY DEF Newest
  <2> QED
    BY <1>2, <2>1
<1> QED
  BY <1>1, <1>2, <1>3 DEF Current

-----------------------------------------------------------------------------
(* The inductive invariant.                                                 *)

\* Frames and the mutations in the ring: revisions supersede older ones of
\* their key, also in what readers see, and committed ones are linked both ways.
Shape(fs, ms) ==
  /\ fs \in Seq(Frames) /\ ms \in Seq(Mutation)
  /\ Ordered(fs) /\ BackLinked(fs)
  /\ Ordered(View(fs, ms))

\* A commit accepts the ring, and no fact in memory has been superseded: an
\* update of one can be committed too.
Retry(fs, ms, m) == Applicable(fs, ms) /\ InForce(m, View(fs, ms))

Good(fs, ms, m, ups) ==
  /\ Shape(fs, ms) /\ m \in Memory
  /\ ups \subseteq {"failed"} => Retry(fs, ms, m)
  /\ ups \subseteq {"past", "unread"} => Sync(m, View(fs, ms))
  /\ ups = {} => Covered(fs) /\ Covered(View(fs, ms))

FactInv == Good(frames, pending, memory, upsets)

LEMMA InvAfter ==
  ASSUME NEW fs, NEW ms, NEW m, NEW ups, Good(fs, ms, m, ups),
         frames' = fs, pending' = ms, memory' = m, upsets' = ups
  PROVE  FactInv'
BY DEF FactInv

\* Only what memory holds counts, not what of it is staged or hidden.
LEMMA GoodHeld ==
  ASSUME NEW fs, NEW ms, NEW m, NEW ups, Good(fs, ms, m, ups), NEW n \in Memory, Held(n) = Held(m)
  PROVE  Good(fs, ms, n, ups)
BY Zenon DEF Good, Retry, InForce, Sync

LEMMA RebuildKeeps ==
  ASSUME NEW fs, NEW ms, NEW past, Shape(fs, ms), Rebuild(fs, ms, past),
         upsets = {} /\ ~past /\ ms = <<>> => Covered(fs)
  PROVE  FactInv'
<1> PICK m, ups : m = Replay(fs) /\ ups = upsets'
  OBVIOUS
<1>1. fs \in Seq(Frames)
  BY DEF Shape
<1>2. m \in Memory /\ Sync(m, fs)
  BY <1>1, ReplaySync
<1>3. /\ frames' = fs /\ pending' = ms /\ memory' = m
      /\ "past" \in ups <=> upsets # {} \/ past
      /\ ms # <<>> => "recovered" \in ups
      /\ "unread" \in ups <=> \E f \in ToSet(fs) : Unread(f)
  <2>1. ups = (IF upsets # {} \/ past THEN {"past"} ELSE {})
              \cup (IF ms # <<>> THEN {"recovered"} ELSE {})
              \cup (IF \E f \in ToSet(fs) : Unread(f) THEN {"unread"} ELSE {})
    BY DEF Rebuild
  <2> DEFINE U == \E f \in ToSet(fs) : Unread(f)
  <2> HIDE DEF U
  <2>2. /\ "past" \in ups <=> upsets # {} \/ past
        /\ ms # <<>> => "recovered" \in ups
        /\ "unread" \in ups <=> U
    BY <2>1 DEF U
  <2> QED
    BY <2>2 DEF U, Rebuild
<1>4. CASE ms # <<>>
  <2>1. Good(fs, ms, m, ups)
    BY <1>2, <1>3, <1>4 DEF Good
  <2> QED
    BY <1>3, <2>1, InvAfter
<1>5. CASE ms = <<>>
  <2>1. View(fs, ms) = fs /\ Applicable(fs, ms)
    BY <1>1, <1>5, ViewNone, ApplicableNone
  <2>2. ASSUME ups \subseteq {"failed"}
        PROVE  upsets = {} /\ ~past /\ ~AnyUnread(fs)
    <3>1. "past" \notin ups /\ "unread" \notin ups
      BY <2>2
    <3>2. \A i \in DOMAIN fs : fs[i] \in ToSet(fs)
      BY DEF ToSet
    <3> QED
      BY <1>3, <3>1, <3>2 DEF AnyUnread, UnreadAt
  <2>3. ups \subseteq {"failed"} => Covered(fs) /\ InForce(m, fs)
    BY <1>1, <1>5, <2>2, ReplayInForce
  <2>4. Good(fs, ms, m, ups)
    BY <1>2, <2>1, <2>3 DEF Good, Retry
  <2> QED
    BY <1>3, <2>4, InvAfter
<1> QED
  BY <1>4, <1>5

\* What a commit makes of the state, before memory is committed too.
LEMMA GoodCommit ==
  ASSUME NEW fs, NEW ms, NEW m, NEW ups, Good(fs, ms, m, ups), Applicable(fs, ms)
  PROVE  Good(View(fs, ms), <<>>, m, ups)
<1> PICK now : now = View(fs, ms)
  OBVIOUS
<1>1. fs \in Seq(Frames) /\ ms \in Seq(Mutation) /\ BackLinked(fs) /\ Ordered(now)
  BY DEF Good, Shape
<1>2. now \in Seq(Frames) /\ BackLinked(now)
  BY <1>1, ViewTyped, ApplicableBackLinked
<1>3. View(now, <<>>) = now /\ Applicable(now, <<>>) /\ <<>> \in Seq(Mutation)
  BY <1>2, ViewNone, ApplicableNone
<1>4. Good(now, <<>>, m, ups)
  BY <1>1, <1>2, <1>3 DEF Good, Shape, Retry
<1> QED
  BY <1>4

LEMMA Committed ==
  ASSUME FactInv, Applicable(frames, pending)
  PROVE  Good(Now, <<>>, memory, upsets)
BY GoodCommit DEF FactInv, Now

-----------------------------------------------------------------------------
(* Calls that append records.                                               *)

Calm(up) == up = {} /\ ~IsHidden

\* With mutations ms, or the first records of a call, and memory m.
KeepsAt(ms, m, up) ==
  /\ Shape(frames, ms) /\ m \in Memory
  /\ Calm(up) /\ upsets \subseteq {"failed"} => Retry(frames, ms, m)

\* And with all of its records.
KeepsAll(ms, m, up) ==
  Calm(up) => /\ upsets \subseteq {"past", "unread"} => Sync(m, View(frames, ms))
              /\ upsets = {} => Covered(View(frames, ms))

CallKeeps(records, mems, up) ==
  /\ records \in Seq(Mutation) /\ up \subseteq {"restored"}
  /\ \A k \in 0 .. Len(records) : KeepsAt(pending \o SubSeq(records, 1, k), mems[k], up)
  /\ KeepsAll(pending \o SubSeq(records, 1, Len(records)), mems[Len(records)], up)

LEMMA CallGood ==
  ASSUME FactInv, NEW ms, NEW m, NEW up, KeepsAt(ms, m, up), up \subseteq {"restored"},
         NEW more, more = upsets \cup up \cup (IF IsHidden THEN {"hidden"} ELSE {}),
         NEW ups, (ups = more /\ KeepsAll(ms, m, up)) \/ ups = {"failed"} \cup more
  PROVE  Good(frames, ms, m, ups)
<1>1. /\ Shape(frames, ms) /\ m \in Memory
      /\ Calm(up) /\ upsets \subseteq {"failed"} => Retry(frames, ms, m)
  BY DEF KeepsAt
<1>2. \A T : more \subseteq T /\ "hidden" \notin T /\ "restored" \notin T
               => upsets \subseteq T /\ Calm(up)
  BY DEF Calm
<1>3. ups \subseteq {"failed"} => Retry(frames, ms, m)
  BY <1>1, <1>2
<1>4. ups \subseteq {"past", "unread"} => Sync(m, View(frames, ms))
  <2> SUFFICES ASSUME ups \subseteq {"past", "unread"}
               PROVE  Sync(m, View(frames, ms))
    OBVIOUS
  <2>1. "failed" \notin ups
    OBVIOUS
  <2>2. ups = more /\ KeepsAll(ms, m, up)
    BY <2>1
  <2>3. upsets \subseteq {"past", "unread"} /\ Calm(up)
    BY <1>2, <2>2
  <2> QED
    BY <2>2, <2>3 DEF KeepsAll
<1>5. ups = {} => Covered(frames) /\ Covered(View(frames, ms))
  <2> SUFFICES ASSUME ups = {}
               PROVE  Covered(frames) /\ Covered(View(frames, ms))
    OBVIOUS
  <2>1. upsets = {} /\ Calm(up) /\ KeepsAll(ms, m, up)
    BY <1>2
  <2> QED
    BY <2>1 DEF KeepsAll, FactInv, Good
<1> QED
  BY <1>1, <1>3, <1>4, <1>5 DEF Good

LEMMA CallKeepsInv ==
  ASSUME FactInv, NEW records, NEW mems, NEW docs, NEW up, Call(records, mems, docs, up),
         CallKeeps(records, mems, up)
  PROVE  FactInv'
<1> PICK n \in Nat : n = Len(records)
  BY DEF CallKeeps
<1> DEFINE ring(k) == pending \o SubSeq(records, 1, k)
           more == upsets \cup up \cup (IF IsHidden THEN {"hidden"} ELSE {})
<1>1. \E k \in 0 .. n :
        \/ /\ frames' = frames /\ pending' = ring(k) /\ memory' = mems[k]
           /\ \/ k = n /\ upsets' = more
              \/ (k > 0 \/ mems[k] # memory) /\ upsets' = {"failed"} \cup more
              \/ k = 0 /\ mems[k] = memory /\ upsets' = upsets
        \/ k > 0 /\ Rebuild(frames, ring(k), k < n)
  <2>1. CASE /\ pending' = ring(n) /\ memory' = mems[n] /\ frames' = frames
             /\ upsets' = more
    BY <2>1
  <2>2. CASE \E k \in 0 .. n - 1 :
               /\ pending' = ring(k) /\ memory' = mems[k] /\ frames' = frames
               /\ upsets' = upsets \cup (IF k > 0 \/ mems[k] # memory
                                         THEN {"failed"} \cup up \cup (IF IsHidden THEN {"hidden"} ELSE {})
                                         ELSE {})
    <3> PICK k \in 0 .. n - 1 :
               /\ pending' = ring(k) /\ memory' = mems[k] /\ frames' = frames
               /\ upsets' = upsets \cup (IF k > 0 \/ mems[k] # memory
                                         THEN {"failed"} \cup up \cup (IF IsHidden THEN {"hidden"} ELSE {})
                                         ELSE {})
      BY <2>2
    <3>1. k \in 0 .. n
      OBVIOUS
    <3>2. \/ (k > 0 \/ mems[k] # memory) /\ upsets' = {"failed"} \cup more
          \/ k = 0 /\ mems[k] = memory /\ upsets' = upsets
      <4> HIDE DEF ring
      <4> QED
        OBVIOUS
    <3> QED
      BY <3>1, <3>2
  <2>3. CASE \E k \in 1 .. n : Rebuild(frames, ring(k), k < n)
    <3> PICK k \in 1 .. n : Rebuild(frames, ring(k), k < n)
      BY <2>3
    <3>1. k \in 0 .. n /\ k > 0
      OBVIOUS
    <3> QED
      BY <3>1
  <2> QED
    BY <2>1, <2>2, <2>3 DEF Call
<1> PICK k \in 0 .. n :
        \/ /\ frames' = frames /\ pending' = ring(k) /\ memory' = mems[k]
           /\ \/ k = n /\ upsets' = more
              \/ (k > 0 \/ mems[k] # memory) /\ upsets' = {"failed"} \cup more
              \/ k = 0 /\ mems[k] = memory /\ upsets' = upsets
        \/ k > 0 /\ Rebuild(frames, ring(k), k < n)
  BY <1>1
<1> PICK fs, ms, m, ups, rest :
      fs = frames /\ ms = ring(k) /\ m = mems[k] /\ ups = upsets' /\ rest = more
  OBVIOUS
<1>2. KeepsAt(ms, m, up) /\ up \subseteq {"restored"} /\ (k = n => KeepsAll(ms, m, up))
  BY DEF CallKeeps
<1>3. CASE /\ frames' = fs /\ pending' = ms /\ memory' = m
           /\ \/ ups = rest /\ k = n
              \/ ups = {"failed"} \cup rest
  <2>1. Good(frames, ms, m, ups)
    BY <1>2, <1>3, CallGood
  <2> QED
    BY <1>3, <2>1, InvAfter
<1>4. CASE /\ frames' = fs /\ pending' = ms /\ memory' = m
           /\ k = 0 /\ mems[k] = memory /\ upsets' = upsets
  <2>1. pending \in Seq(Mutation)
    BY DEF FactInv, Good, Shape
  <2>2. ring(0) = pending
    BY <2>1 DEF CallKeeps
  <2>3. UNCHANGED <<frames, pending, memory, upsets>>
    BY <1>4, <2>2
  <2> QED
    BY <2>3 DEF FactInv
<1>5. CASE k > 0 /\ Rebuild(fs, ms, k < n)
  <2>1. Shape(fs, ms)
    BY <1>2 DEF KeepsAt
  <2>2. ms # <<>>
    <3>1. pending \in Seq(Mutation) /\ records \in Seq(Mutation)
      BY DEF FactInv, Good, Shape, CallKeeps
    <3>2. SubSeq(records, 1, k) \in Seq(Mutation) /\ Len(SubSeq(records, 1, k)) = k
      BY <3>1
    <3>3. Len(ms) = Len(pending) + k
      BY <3>1, <3>2
    <3>4. Len(ms) > 0
      BY <1>5, <3>1, <3>3
    <3> QED
      BY <3>4
  <2> PICK past : past = (k < n)
    OBVIOUS
  <2>3. Rebuild(fs, ms, past)
    BY <1>5
  <2> HIDE DEF ring
  <2> QED
    BY <2>1, <2>2, <2>3, RebuildKeeps
<1> QED
  BY <1>3, <1>4, <1>5

\* Memory before the first record, after record r over frames fs, and at the end.
Starts(m, up) ==
  m \in Memory /\ (Calm(up) /\ upsets \subseteq {"failed"} => InForce(m, Now))

Takes(fs, r, m, up) ==
  /\ r \in Mutation /\ Ordered(Preview(fs, r)) /\ m \in Memory
  /\ Calm(up) /\ upsets \subseteq {"failed"} => Admits(fs, r) /\ InForce(m, Preview(fs, r))

Ends(fs, m, up) ==
  Calm(up) => /\ upsets \subseteq {"past", "unread"} => Sync(m, fs)
              /\ upsets = {} => Covered(fs)

LEMMA KeepsNone ==
  ASSUME FactInv, NEW m, NEW up, Starts(m, up)
  PROVE  KeepsAt(pending, m, up) /\ View(frames, pending) = Now
<1> PICK now : now = Now
  OBVIOUS
<1>1. View(frames, pending) = now
  BY DEF Now
<1> QED
  BY <1>1 DEF FactInv, Good, Retry, KeepsAt, Starts

LEMMA KeepsMore ==
  ASSUME NEW ms, NEW m, NEW up, KeepsAt(ms, m, up), NEW fs, fs = View(frames, ms),
         NEW r, NEW n, Takes(fs, r, n, up)
  PROVE  KeepsAt(Append(ms, r), n, up) /\ View(frames, Append(ms, r)) = Preview(fs, r)
<1> PICK base, longer : base = frames /\ longer = Append(ms, r)
  OBVIOUS
<1>1. base \in Seq(Frames) /\ ms \in Seq(Mutation) /\ r \in Mutation /\ Shape(base, ms)
  BY DEF KeepsAt, Shape, Takes
<1>2. longer \in Seq(Mutation) /\ View(base, longer) = Preview(fs, r)
  BY <1>1, ViewAppend
<1>3. Applicable(base, ms) /\ Admits(fs, r) => Applicable(base, longer)
  BY <1>1, ApplicableAppend
<1>4. Shape(base, longer)
  BY <1>1, <1>2 DEF Shape, Takes
<1>5. KeepsAt(longer, n, up)
  BY <1>2, <1>3, <1>4 DEF KeepsAt, Retry, Takes
<1> QED
  BY <1>2, <1>5

LEMMA KeepsEnd ==
  ASSUME NEW ms, NEW m, NEW up, Ends(View(frames, ms), m, up)
  PROVE  KeepsAll(ms, m, up)
BY Zenon DEF Ends, KeepsAll

LEMMA KeepsOne ==
  ASSUME FactInv, NEW r, NEW mems, NEW up, up \subseteq {"restored"}, Starts(mems[0], up),
         Takes(Now, r, mems[1], up), Ends(Preview(Now, r), mems[1], up)
  PROVE  CallKeeps(<<r>>, mems, up)
<1> PICK ms, now : ms = pending /\ now = Now
  OBVIOUS
<1>1. KeepsAt(ms, mems[0], up) /\ View(frames, ms) = now
  BY KeepsNone
<1>2. KeepsAt(Append(ms, r), mems[1], up) /\ View(frames, Append(ms, r)) = Preview(now, r)
  BY <1>1, KeepsMore
<1>3. KeepsAll(Append(ms, r), mems[1], up)
  BY <1>2, KeepsEnd
<1>4. ms \in Seq(Mutation) /\ r \in Mutation
  BY <1>1 DEF KeepsAt, Shape, Takes
<1>5. ms \o SubSeq(<<r>>, 1, 1) = Append(ms, r)
  BY <1>4, AppendsOfOne
<1> PICK records : records = <<r>>
  OBVIOUS
<1>6. /\ records \in Seq(Mutation) /\ Len(records) = 1 /\ \A k \in 0 .. Len(records) : k = 0 \/ k = 1
      /\ ms \o SubSeq(records, 1, 0) = ms
  BY <1>4
<1>7. KeepsAt(pending \o SubSeq(records, 1, 0), mems[0], up)
  BY <1>1, <1>6
<1>8. /\ KeepsAt(pending \o SubSeq(records, 1, 1), mems[1], up)
      /\ KeepsAll(pending \o SubSeq(records, 1, 1), mems[1], up)
  BY <1>2, <1>3, <1>5
<1>9. CallKeeps(records, mems, up)
  BY <1>6, <1>7, <1>8 DEF CallKeeps
<1> QED
  BY <1>9

LEMMA KeepsTwo ==
  ASSUME FactInv, NEW q, NEW r, NEW mems, NEW up, up \subseteq {"restored"}, Starts(mems[0], up),
         Takes(Now, q, mems[1], up), Takes(Preview(Now, q), r, mems[2], up),
         Ends(Preview(Preview(Now, q), r), mems[2], up)
  PROVE  CallKeeps(<<q, r>>, mems, up)
<1> PICK ms, now, ns, next : ms = pending /\ now = Now /\ ns = Append(ms, q) /\ next = Preview(now, q)
  OBVIOUS
<1>1. KeepsAt(ms, mems[0], up) /\ View(frames, ms) = now
  BY KeepsNone
<1>2. KeepsAt(ns, mems[1], up) /\ View(frames, ns) = next
  BY <1>1, KeepsMore
<1>3. KeepsAt(Append(ns, r), mems[2], up) /\ View(frames, Append(ns, r)) = Preview(next, r)
  BY <1>2, KeepsMore
<1>4. KeepsAll(Append(ns, r), mems[2], up)
  BY <1>3, KeepsEnd
<1>5. ms \in Seq(Mutation) /\ q \in Mutation /\ r \in Mutation
  BY <1>1 DEF KeepsAt, Shape, Takes
<1>6. ms \o SubSeq(<<q, r>>, 1, 1) = ns /\ ms \o SubSeq(<<q, r>>, 1, 2) = Append(ns, r)
  BY <1>5, AppendsOfTwo
<1> PICK records : records = <<q, r>>
  OBVIOUS
<1>7. /\ records \in Seq(Mutation) /\ Len(records) = 2
      /\ \A k \in 0 .. Len(records) : k = 0 \/ k = 1 \/ k = 2
      /\ ms \o SubSeq(records, 1, 0) = ms
  BY <1>5
<1>8. KeepsAt(pending \o SubSeq(records, 1, 0), mems[0], up)
  BY <1>1, <1>7
<1>9. /\ KeepsAt(pending \o SubSeq(records, 1, 1), mems[1], up)
      /\ KeepsAt(pending \o SubSeq(records, 1, 2), mems[2], up)
      /\ KeepsAll(pending \o SubSeq(records, 1, 2), mems[2], up)
  BY <1>2, <1>3, <1>4, <1>6
<1>10. CallKeeps(records, mems, up)
  BY <1>7, <1>8, <1>9 DEF CallKeeps
<1> QED
  BY <1>10

-----------------------------------------------------------------------------
(* What is put, and what memory makes of it.                                *)

LEMMA RevisionIs ==
  ASSUME NEW k \in Key, NEW text \in Puttable[k], NEW pinned \in BOOLEAN,
         NEW f, f = Revision(k, text, pinned)
  PROVE  f \in NewFrames /\ f.op = "upsert" /\ f.key = k /\ f.pinned = pinned
<1> PICK no : no = FALSE
  OBVIOUS
<1> PICK op : op = "upsert"
  OBVIOUS
<1>1. FrameIs(f, op, k, text, pinned, no, None, None)
  BY DEF Revision, Frame, FrameIs
<1>2. Fields(op, k, text, pinned, no, None, None)
  BY DEF Fields, Fitting, Texts, Link
<1>3. f \in Frames
  BY <1>1, <1>2, FrameMade, Zenon
<1>4. f.op = op /\ f.key = k /\ f.text = text /\ f.pinned = pinned /\ f.deleted = no
      /\ f.supersedes = None /\ f.superseded_by = None
  BY <1>1, FrameFields
<1> QED
  BY <1>3, <1>4, Zenon DEF NewFrames

LEMMA TombstoneIs ==
  ASSUME NEW k \in Key, NEW f, f = Tombstone(k)
  PROVE  f \in NewFrames /\ f.op = "remove" /\ f.key = k
<1> PICK no : no = FALSE
  OBVIOUS
<1> PICK op : op = "remove"
  OBVIOUS
<1>1. FrameIs(f, op, k, None, no, no, None, None)
  BY DEF Tombstone, Frame, FrameIs
<1>2. Fields(op, k, None, no, no, None, None)
  BY DEF Fields, Fitting, Link
<1>3. f \in Frames
  BY <1>1, <1>2, FrameMade, Zenon
<1>4. f.op = op /\ f.key = k /\ f.text = None /\ f.pinned = no /\ f.deleted = no
      /\ f.supersedes = None /\ f.superseded_by = None
  BY <1>1, FrameFields
<1> QED
  BY <1>3, <1>4, Zenon DEF NewFrames

LEMMA HandoffIs ==
  ASSUME NEW f, f = Handoff
  PROVE  f \in NewFrames /\ FactOf(f) = None
<1> PICK no : no = FALSE
  OBVIOUS
<1> PICK op : op = "other"
  OBVIOUS
<1>1. FrameIs(f, op, None, None, no, no, None, None)
  BY DEF Handoff, Frame, FrameIs
<1>2. Fields(op, None, None, no, no, None, None)
  BY DEF Fields, Fitting, Link
<1>3. f \in Frames
  BY <1>1, <1>2, FrameMade, Zenon
<1>4. f.op = op /\ f.key = None /\ f.text = None /\ f.pinned = no /\ f.deleted = no
      /\ f.supersedes = None /\ f.superseded_by = None
  BY <1>1, FrameFields
<1>5. FactOf(f) = None
  BY <1>4 DEF FactOf
<1> QED
  BY <1>3, <1>4, <1>5, Zenon DEF NewFrames

LEMMA PutIs ==
  ASSUME NEW fs \in Seq(Frames), NEW f \in NewFrames, NEW gs, gs = Preview(fs, PutFrame(f)),
         Ordered(fs)
  PROVE  PutFrame(f) \in Mutation /\ Put(fs, gs, f) /\ Ordered(gs) /\ Admits(fs, PutFrame(f))
<1>1. PutFrame(f) \in Mutation
  BY DEF PutFrame, Mutation
<1>2. Put(fs, gs, f)
  BY Putting
<1> QED
  BY <1>1, <1>2, PutOrdered, PutAdmitted

LEMMA SyncWith ==
  ASSUME NEW m, NEW k, NEW e, NEW n, HeldWith(m, k, e, n), NEW fs, Agrees(e, fs, k),
         \A j \in Key : j # k => Agrees(Held(m)[j], fs, j)
  PROVE  Sync(n, fs)
<1> SUFFICES ASSUME NEW j \in Key
             PROVE  Agrees(Held(n)[j], fs, j)
  BY DEF Sync
<1>1. CASE j = k
  BY <1>1 DEF HeldWith
<1>2. CASE j # k
  BY <1>2, Zenon DEF HeldWith
<1> QED
  BY <1>1, <1>2

LEMMA InForceWith ==
  ASSUME NEW m, NEW k, NEW e, NEW n, HeldWith(m, k, e, n), NEW fs,
         e.id # None => Current(fs, k, e.id),
         \A j \in Key : j # k /\ Held(m)[j].id # None => Current(fs, j, Held(m)[j].id)
  PROVE  InForce(n, fs)
<1> SUFFICES ASSUME NEW j \in Key, Held(n)[j].id # None
             PROVE  Current(fs, j, Held(n)[j].id)
  BY DEF InForce
<1>1. CASE j = k
  BY <1>1 DEF HeldWith
<1>2. CASE j # k
  BY <1>2 DEF HeldWith
<1> QED
  BY <1>1, <1>2

\* Facts that memory does not start over from its entries by.
LEMMA RemoveBaseIs ==
  ASSUME NEW m \in Memory, NEW k \in Key, ~StartsOver(m) \/ m.entries = NoEntries
  PROVE  /\ HeldWith(m, k, NoEntry, StageRemove(m, k))
         /\ RemovedId(m, k) = None => Held(m)[k] = NoEntry
<1>1. RemoveBase(m) = Held(m)
  BY DEF RemoveBase, Held, StartsOver
<1>2. Held(m)[k].id = None => Held(m)[k] = NoEntry
  <2> PICK e : e = Held(m)[k]
    OBVIOUS
  <2>1. e \in EntryOf
    BY MemoryTyped DEF Entries
  <2>2. e # NoEntry => e.id \in Nat
    BY <2>1 DEF EntryOf
  <2> QED
    BY <2>2, NoneNotNat
<1> QED
  BY <1>1, <1>2, RemoveTyped DEF RemovedId

LEMMA RestoredIs ==
  ASSUME Restored = {}
  PROVE  ~StartsOver(memory) \/ memory.entries = NoEntries
BY DEF Restored

LEMMA RestoredTyped == Restored \subseteq {"restored"}
BY DEF Restored

\* What is known of readers' frames and of memory before a call.
Before(fs, m) ==
  /\ fs \in Seq(Frames) /\ Ordered(fs) /\ m \in Memory
  /\ upsets \subseteq {"failed"} => InForce(m, fs)
  /\ upsets \subseteq {"past", "unread"} => Sync(m, fs)
  /\ upsets = {} => Covered(fs)

LEMMA NowGood ==
  ASSUME FactInv
  PROVE  Before(Now, memory)
<1> PICK now : now = Now
  OBVIOUS
<1>1. View(frames, pending) = now
  BY DEF Now
<1>2. frames \in Seq(Frames) /\ pending \in Seq(Mutation)
  BY DEF FactInv, Good, Shape
<1>3. now \in Seq(Frames)
  BY <1>1, <1>2, ViewTyped
<1> QED
  BY <1>1, <1>3 DEF FactInv, Good, Shape, Retry, Before

\* A fact put of key k, with memory that holds it.
LEMMA RememberTakes ==
  ASSUME NEW fs \in Seq(Frames), NEW m, Before(fs, m), NEW k \in Key, NEW f \in NewFrames,
         f.op = "upsert", f.key = k, NEW gs, gs = Preview(fs, PutFrame(f)), NEW n,
         HeldWith(m, k, Entry(Len(fs) + 1, None, f.pinned), n)
  PROVE  Takes(fs, PutFrame(f), n, {}) /\ Ends(gs, n, {})
<1> PICK id : id = Len(fs) + 1
  OBVIOUS
<1> PICK e : e = Entry(id, None, f.pinned)
  OBVIOUS
<1>1. /\ PutFrame(f) \in Mutation /\ Put(fs, gs, f) /\ Ordered(gs) /\ Admits(fs, PutFrame(f))
  BY PutIs DEF Before
<1>2. /\ gs \in Seq(Frames) /\ id \in DOMAIN gs /\ id = Len(gs) /\ gs[id] = f /\ id # None
      /\ id \in Nat
  BY <1>1, NoneNotNat DEF Put
<1>3. f.deleted = FALSE /\ f.supersedes = None /\ f.superseded_by = None
  BY <1>1, Zenon DEF Put
<1>4. HeldWith(m, k, e, n) /\ n \in Memory
  BY DEF HeldWith
<1>5. e.id = id
  BY DEF Entry
<1>6. InForce(m, fs) => InForce(n, gs)
  <2> SUFFICES ASSUME InForce(m, fs)
               PROVE  InForce(n, gs)
    OBVIOUS
  <2>1. Current(gs, k, e.id)
    BY <1>2, <1>3, <1>5 DEF Current
  <2>2. InForce(m, gs)
    BY <1>1, PutInForce
  <2>3. \A j \in Key : j # k /\ Held(m)[j].id # None => Current(gs, j, Held(m)[j].id)
    BY <2>2 DEF InForce
  <2> QED
    BY <1>4, <2>1, <2>3, InForceWith
<1>7. Sync(m, fs) => Sync(n, gs)
  <2> SUFFICES ASSUME Sync(m, fs)
               PROVE  Sync(n, gs)
    OBVIOUS
  <2>1. e = EntryAt(gs, id)
    BY <1>2, <1>3 DEF EntryAt
  <2>2. Agrees(EntryAt(gs, id), gs, k)
    BY <1>2, <1>3, FactAgrees
  <2>3. ASSUME NEW j \in Key, j # k
        PROVE  Agrees(Held(m)[j], gs, j)
    <3> PICK d : d = Held(m)[j]
      OBVIOUS
    <3>1. Agrees(d, fs, j)
      BY DEF Sync
    <3> QED
      BY <1>1, <2>3, <3>1, PutAgrees
  <2>4. Agrees(e, gs, k)
    BY <2>1, <2>2
  <2> QED
    BY <1>4, <2>3, <2>4, SyncWith
<1>8. Covered(fs) => Covered(gs)
  BY <1>1, PutCovered
<1> QED
  BY <1>1, <1>4, <1>6, <1>7, <1>8 DEF Takes, Ends, Before

LEMMA RememberKeeps ==
  ASSUME FactInv, NEW k \in Key, NEW text \in Puttable[k], RememberFact(k, text)
  PROVE  FactInv'
<1> PICK fs, m, id, pinned :
      fs = Now /\ m = memory /\ id = NextId /\ pinned = MetadataFlagTrue(text.meta, "fact_pinned")
  OBVIOUS
<1> PICK f, e : f = Revision(k, text, pinned) /\ e = Entry(id, None, pinned)
  OBVIOUS
<1>1. pinned \in BOOLEAN
  BY Zenon DEF MetadataFlagTrue
<1>2. Before(fs, m) /\ fs \in Seq(Frames) /\ m \in Memory
  BY NowGood DEF Before
<1>3. f \in NewFrames /\ f.op = "upsert" /\ f.key = k /\ f.pinned = pinned
  BY <1>1, RevisionIs
<1>4. id = Len(fs) + 1 /\ id \in Nat
  BY <1>2 DEF NextId
<1>5. e \in EntryOf
  <2>1. None \in Link
    BY DEF Link
  <2> QED
    BY <1>1, <1>4, <2>1, EntryTyped
<1> PICK n : n = StageUpsert(m, k, e)
  OBVIOUS
<1>6. HeldWith(m, k, e, n)
  BY <1>2, <1>5, UpsertHeld
<1> PICK mems, docs :
      /\ mems = [i \in 0 .. 1 |-> IF i = 1 THEN StageUpsert(memory, k, Entry(id, None, pinned)) ELSE memory]
      /\ docs = [i \in 0 .. 1 |-> IF i = 1 THEN index.staged \cup {id} ELSE index.staged]
  OBVIOUS
<1>7. mems[0] = m /\ mems[1] = n
  OBVIOUS
<1>8. Call(<<PutFrame(f)>>, mems, docs, {})
  BY DEF RememberFact
<1>9. Takes(fs, PutFrame(f), n, {}) /\ Ends(Preview(fs, PutFrame(f)), n, {})
  <2> PICK gs : gs = Preview(fs, PutFrame(f))
    OBVIOUS
  <2>1. HeldWith(m, k, Entry(Len(fs) + 1, None, f.pinned), n)
    BY <1>3, <1>4, <1>6
  <2> QED
    BY <1>2, <1>3, <2>1, RememberTakes
<1>10. Starts(m, {})
  BY <1>2 DEF Starts, Before
<1>11. CallKeeps(<<PutFrame(f)>>, mems, {})
  BY <1>7, <1>9, <1>10, KeepsOne
<1> QED
  BY <1>8, <1>11, CallKeepsInv

\* A tombstone put of key k, with memory that holds nothing of it.
LEMMA TombstoneTakes ==
  ASSUME NEW fs \in Seq(Frames), Ordered(fs), NEW k \in Key, NEW f \in NewFrames,
         f.op = "remove", f.key = k, NEW gs, gs = Preview(fs, PutFrame(f)),
         NEW m, NEW n, HeldWith(m, k, NoEntry, n)
  PROVE  /\ InForce(n, fs) => InForce(n, gs)
         /\ (\A j \in Key : j # k => Agrees(Held(m)[j], fs, j)) => Sync(n, gs)
<1>1. Put(fs, gs, f)
  BY PutIs
<1> PICK id : id = Len(gs)
  OBVIOUS
<1>2. gs \in Seq(Frames) /\ id \in DOMAIN gs /\ gs[id] = f /\ ~f.deleted
  BY <1>1 DEF Put
<1>3. Agrees(NoEntry, gs, k)
  BY <1>2, NothingAgrees
<1>4. ASSUME NEW j \in Key, j # k, Agrees(Held(m)[j], fs, j)
      PROVE  Agrees(Held(m)[j], gs, j)
  <2> PICK d : d = Held(m)[j]
    OBVIOUS
  <2> QED
    BY <1>1, <1>4, PutAgrees
<1>5. (\A j \in Key : j # k => Agrees(Held(m)[j], fs, j)) => Sync(n, gs)
  <2> PICK e : e = NoEntry
    OBVIOUS
  <2> QED
    BY <1>3, <1>4, SyncWith
<1>6. InForce(n, fs) => InForce(n, gs)
  BY <1>1, PutInForce
<1> QED
  BY <1>5, <1>6

\* Memory without key k, over the same frames.
LEMMA RemoveInForce ==
  ASSUME NEW fs, NEW m, InForce(m, fs), NEW k, NEW n, HeldWith(m, k, NoEntry, n)
  PROVE  InForce(n, fs)
<1> PICK e : e = NoEntry
  OBVIOUS
<1>1. e.id = None
  BY NothingTyped
<1>2. \A j \in Key : j # k /\ Held(m)[j].id # None => Current(fs, j, Held(m)[j].id)
  BY DEF InForce
<1> QED
  BY <1>1, <1>2, InForceWith

LEMMA ForgetKeeps ==
  ASSUME FactInv, NEW k \in Key, ForgetFact(k)
  PROVE  FactInv'
<1> PICK fs, m, n, f, up :
      fs = Now /\ m = memory /\ n = StageRemove(memory, k) /\ f = Tombstone(k) /\ up = Restored
  OBVIOUS
<1> PICK gs : gs = Preview(fs, PutFrame(f))
  OBVIOUS
<1>1. Before(fs, m) /\ fs \in Seq(Frames) /\ m \in Memory /\ Ordered(fs)
  BY NowGood DEF Before
<1>2. f \in NewFrames /\ f.op = "remove" /\ f.key = k
  BY TombstoneIs
<1>3. n \in Memory
  BY <1>1, RemoveTyped
<1>4. up = {} => HeldWith(m, k, NoEntry, n)
  BY <1>1, RestoredIs, RemoveBaseIs
<1>5. /\ PutFrame(f) \in Mutation /\ Put(fs, gs, f) /\ Ordered(gs) /\ Admits(fs, PutFrame(f))
  BY <1>1, <1>2, PutIs
<1>6. up = {} /\ InForce(m, fs) => InForce(n, fs) /\ InForce(n, gs)
  BY <1>1, <1>2, <1>4, RemoveInForce, TombstoneTakes
<1>7. up = {} /\ Sync(m, fs) => Sync(n, gs)
  BY <1>1, <1>2, <1>4, TombstoneTakes DEF Sync
<1>8. Covered(fs) => Covered(gs)
  BY <1>1, <1>5, PutCovered
<1>9. Starts(n, up)
  BY <1>1, <1>3, <1>6 DEF Starts, Before, Calm
<1>10. Takes(fs, PutFrame(f), n, up) /\ Ends(Preview(fs, PutFrame(f)), n, up)
  BY <1>1, <1>3, <1>5, <1>6, <1>7, <1>8 DEF Takes, Ends, Before, Calm
<1> PICK mems, docs :
      /\ mems = [i \in 0 .. 1 |-> StageRemove(memory, k)]
      /\ docs = [i \in 0 .. 1 |-> index.staged \ {RemovedId(memory, k)}]
  OBVIOUS
<1>11. mems[0] = n /\ mems[1] = n
  OBVIOUS
<1>12. Call(<<PutFrame(f)>>, mems, docs, up)
  BY DEF ForgetFact
<1>13. up \subseteq {"restored"}
  BY RestoredTyped
<1>14. CallKeeps(<<PutFrame(f)>>, mems, up)
  BY <1>9, <1>10, <1>11, <1>13, KeepsOne
<1> QED
  BY <1>12, <1>14, CallKeepsInv

LEMMA ForgetNothingKeeps ==
  ASSUME FactInv, NEW k \in Key, ForgetNothing(k)
  PROVE  FactInv'
<1> PICK fs, ms, m, n, ups :
      /\ fs = frames /\ ms = pending /\ m = memory /\ n = StageRemove(memory, k)
      /\ ups = upsets \cup Restored
  OBVIOUS
<1>1. Good(fs, ms, m, upsets) /\ m \in Memory
  BY DEF FactInv, Good
<1>2. frames' = fs /\ pending' = ms /\ memory' = n /\ upsets' = ups /\ RemovedId(m, k) = None
  BY DEF ForgetNothing
<1>3. n \in Memory
  BY <1>1, RemoveTyped
<1>4. Good(fs, ms, n, ups)
  <2>1. CASE Restored = {}
    <3>1. HeldWith(m, k, NoEntry, n) /\ Held(m)[k] = NoEntry
      BY <1>1, <1>2, <2>1, RestoredIs, RemoveBaseIs
    <3>2. \A j \in Key : Held(n)[j] = Held(m)[j]
      BY <3>1 DEF HeldWith
    <3>3. Held(n) = Held(m)
      BY <1>1, <1>3, <3>2, MemoryTyped DEF Entries
    <3>4. ups = upsets
      BY <2>1
    <3> QED
      BY <1>1, <1>3, <3>3, <3>4, GoodHeld
  <2>2. CASE Restored # {}
    <3>1. "restored" \in ups
      BY <2>2, RestoredTyped
    <3> QED
      BY <1>1, <1>3, <3>1 DEF Good
  <2> QED
    BY <2>1, <2>2
<1> QED
  BY <1>2, <1>4, InvAfter

\* A fact in force: what memory answers from, when nothing is hidden.
LEMMA VisibleHeld ==
  ASSUME ~IsHidden
  PROVE  Visible(memory) = Held(memory)
BY DEF IsHidden, Visible, Held

LEMMA FactIs ==
  ASSUME FactInv, NEW id, IsFact(id), NEW fs, fs = Now
  PROVE  /\ id \in DOMAIN fs /\ id \in Nat /\ fs[id].op = "upsert" /\ ~fs[id].deleted
         /\ fs[id].key \in Key /\ fs[id].text \in Puttable[fs[id].key]
<1>1. fs \in Seq(Frames)
  BY NowGood DEF Before
<1>2. id \in DOMAIN fs /\ fs[id].op = "upsert" /\ ~fs[id].deleted
  BY DEF IsFact
<1> PICK f \in Frames : f = fs[id]
  BY <1>1, <1>2
<1>3. f.key \in Key /\ f.text \in Puttable[f.key]
  BY <1>2, FactRead
<1> QED
  BY <1>1, <1>2, <1>3

\* A revision put behind fact old of its key, and the link between the two.
Revised(fs, gs, hs, old, new, f) ==
  /\ fs \in Seq(Frames) /\ Ordered(fs) /\ Put(fs, gs, f)
  /\ new = Len(fs) + 1 /\ old \in DOMAIN fs /\ f.op = "upsert" /\ f.key = fs[old].key
  /\ f.key \in Key
  /\ Superseded(gs, hs, old, new)

LEMMA RevisedIs ==
  ASSUME NEW fs, NEW gs, NEW hs, NEW old, NEW new, NEW f, Revised(fs, gs, hs, old, new, f)
  PROVE  /\ fs \in Seq(Frames) /\ Ordered(fs) /\ Put(fs, gs, f) /\ Superseded(gs, hs, old, new)
         /\ gs \in Seq(Frames) /\ hs \in Seq(Frames) /\ Len(gs) = new /\ Len(hs) = new
         /\ new \in Nat /\ new \in DOMAIN gs /\ old \in 1 .. (new - 1)
         /\ gs[old] = fs[old] /\ gs[new] = f /\ Ordered(gs) /\ Ordered(hs)
         /\ f.op = "upsert" /\ f.key \in Key /\ fs[old].key = f.key
<1>1. /\ fs \in Seq(Frames) /\ Ordered(fs) /\ Put(fs, gs, f) /\ Superseded(gs, hs, old, new)
      /\ new = Len(fs) + 1 /\ old \in DOMAIN fs
      /\ f.op = "upsert" /\ f.key \in Key /\ fs[old].key = f.key
  BY Zenon DEF Revised
<1>2. new \in Nat /\ old \in 1 .. (new - 1)
  BY <1>1
<1>3. /\ gs \in Seq(Frames) /\ Len(gs) = new /\ new \in DOMAIN gs
      /\ gs[old] = fs[old] /\ gs[new] = f
  BY <1>1 DEF Put
<1>4. Ordered(gs)
  BY <1>1, PutOrdered
<1>5. hs \in Seq(Frames) /\ Len(hs) = new
  BY <1>1, <1>3 DEF Superseded, Same
<1>6. gs[old].key = gs[new].key
  BY <1>1, <1>3
<1>7. Ordered(hs)
  BY <1>1, <1>2, <1>3, <1>4, <1>6, SupersedeOrdered
<1> QED
  BY <1>1, <1>2, <1>3, <1>4, <1>5, <1>7

LEMMA RevisedInForce ==
  ASSUME NEW fs, NEW gs, NEW hs, NEW old, NEW new, NEW f, Revised(fs, gs, hs, old, new, f),
         NEW m, InForce(m, fs), NEW k, k = f.key, Held(m)[k].id = old,
         NEW e, e.id = new, NEW n, HeldWith(m, k, e, n)
  PROVE  Admits(gs, SupersedeFrame(old, new)) /\ InForce(n, hs)
<1>1. /\ gs \in Seq(Frames) /\ new \in DOMAIN gs /\ old \in 1 .. (new - 1) /\ new \in Nat
      /\ gs[old] = fs[old] /\ gs[new] = f /\ Ordered(gs) /\ k \in Key /\ Superseded(gs, hs, old, new)
      /\ fs[old].key = k /\ fs \in Seq(Frames) /\ Put(fs, gs, f)
  BY RevisedIs
<1>2. old # None
  BY <1>1, NoneNotNat
<1>3. gs[old].superseded_by = None
  BY <1>1, <1>2 DEF InForce, Current
<1>4. gs[new].supersedes = None /\ gs[new].superseded_by = None
  BY <1>1, Zenon DEF Put
<1>5. Admits(gs, SupersedeFrame(old, new))
  BY <1>1, <1>3, <1>4, SupersedeAdmitted
<1>6. Current(hs, k, new)
  <2>1. Current(gs, k, new)
    BY <1>1, <1>4 DEF Current
  <2> QED
    BY <1>1, <2>1, SupersedeCurrent
<1>7. ASSUME NEW j \in Key, j # k, Held(m)[j].id # None
      PROVE  Current(hs, j, Held(m)[j].id)
  <2> PICK x : x = Held(m)[j].id
    OBVIOUS
  <2>1. Current(fs, j, x)
    BY <1>7 DEF InForce
  <2>2. x # old
    BY <1>1, <1>7, <2>1 DEF Current
  <2>3. Current(gs, j, x)
    BY <1>1, <2>1, PutCurrent
  <2> QED
    BY <1>1, <2>2, <2>3, SupersedeCurrent
<1>8. InForce(n, hs)
  BY <1>6, <1>7, InForceWith
<1> QED
  BY <1>5, <1>8

LEMMA RevisedSync ==
  ASSUME NEW fs, NEW gs, NEW hs, NEW old, NEW new, NEW f, Revised(fs, gs, hs, old, new, f),
         NEW m, Sync(m, fs), NEW k, k = f.key,
         NEW n, HeldWith(m, k, Entry(new, old, f.pinned), n)
  PROVE  Sync(n, hs)
<1>1. /\ gs \in Seq(Frames) /\ hs \in Seq(Frames) /\ new \in DOMAIN gs /\ old \in 1 .. (new - 1)
      /\ Len(hs) = new /\ new \in Nat
      /\ gs[new] = f /\ k \in Key /\ Superseded(gs, hs, old, new)
      /\ fs \in Seq(Frames) /\ Put(fs, gs, f)
  BY RevisedIs
<1>2. /\ new \in DOMAIN hs /\ hs[new].op = "upsert" /\ hs[new].key = k /\ hs[new].supersedes = old
      /\ hs[new].deleted = f.deleted /\ hs[new].pinned = f.pinned
  <2>1. f.op = "upsert"
    BY RevisedIs
  <2>2. hs[new].supersedes = old
    BY <1>1 DEF Superseded
  <2> QED
    BY <1>1, <2>1, <2>2, SupersedeReads
<1>3. ~hs[new].deleted
  <2>1. f.deleted = FALSE
    BY <1>1, Zenon DEF Put
  <2> QED
    BY <1>2, <2>1
<1>4. EntryAt(hs, new) = Entry(new, old, f.pinned)
  BY <1>1, <1>2, NoneNotNat DEF EntryAt
<1>5. Agrees(EntryAt(hs, new), hs, k)
  BY <1>1, <1>2, <1>3, FactAgrees
<1>6. ASSUME NEW j \in Key, j # k
      PROVE  Agrees(Held(m)[j], hs, j)
  <2> PICK d : d = Held(m)[j]
    OBVIOUS
  <2>1. Agrees(d, fs, j)
    BY DEF Sync
  <2>2. Agrees(d, gs, j)
    BY <1>1, <1>6, <2>1, PutAgrees
  <2>3. ~Read(gs, new, j)
    BY <1>1, <1>6 DEF Read
  <2> QED
    BY <1>1, <2>2, <2>3, SupersedeAgrees
<1> PICK e : e = EntryAt(hs, new)
  OBVIOUS
<1>7. Agrees(e, hs, k) /\ HeldWith(m, k, e, n)
  BY <1>4, <1>5
<1> QED
  BY <1>6, <1>7, SyncWith

LEMMA RevisedCovered ==
  ASSUME NEW fs, NEW gs, NEW hs, NEW old, NEW new, NEW f, Revised(fs, gs, hs, old, new, f),
         Covered(fs)
  PROVE  Covered(hs)
<1>1. /\ gs \in Seq(Frames) /\ new \in DOMAIN gs /\ old \in 1 .. (new - 1)
      /\ gs[old].key = gs[new].key /\ gs[new] = f /\ Superseded(gs, hs, old, new)
      /\ fs \in Seq(Frames) /\ Put(fs, gs, f) /\ f.op = "upsert"
  BY RevisedIs
<1>2. f.deleted = FALSE
  BY <1>1, Zenon DEF Put
<1>3. Covered(gs)
  BY <1>1, PutCovered
<1> QED
  BY <1>1, <1>2, <1>3, SupersedeCovered

LEMMA ReviseKeeps ==
  ASSUME FactInv, NEW id, IsFact(id), IsActive(id), NEW text \in Puttable[Now[id].key],
         NEW pinned \in BOOLEAN, Revise(id, text, pinned)
  PROVE  FactInv'
<1> PICK fs, m, new, k : fs = Now /\ m = memory /\ new = NextId /\ k = Now[id].key
  OBVIOUS
<1> PICK f, e : f = Revision(k, text, pinned) /\ e = Entry(new, id, pinned)
  OBVIOUS
<1> PICK gs : gs = Preview(fs, PutFrame(f))
  OBVIOUS
<1> PICK hs : hs = Preview(gs, SupersedeFrame(id, new))
  OBVIOUS
<1>1. Before(fs, m) /\ fs \in Seq(Frames) /\ m \in Memory /\ Ordered(fs)
  BY NowGood DEF Before
<1>2. id \in DOMAIN fs /\ id \in Nat /\ k \in Key /\ fs[id].key = k
  BY FactIs
<1>3. f \in NewFrames /\ f.op = "upsert" /\ f.key = k /\ f.pinned = pinned
  BY <1>2, RevisionIs
<1>4. new = Len(fs) + 1 /\ new \in Nat
  BY <1>1 DEF NextId
<1>5. /\ PutFrame(f) \in Mutation /\ Put(fs, gs, f) /\ Ordered(gs) /\ Admits(fs, PutFrame(f))
      /\ gs \in Seq(Frames)
  <2>1. /\ PutFrame(f) \in Mutation /\ Put(fs, gs, f) /\ Ordered(gs) /\ Admits(fs, PutFrame(f))
    BY <1>1, <1>3, PutIs
  <2> QED
    BY <2>1, Zenon DEF Put
<1>6. SupersedeFrame(id, new) \in Mutation /\ Superseded(gs, hs, id, new)
  BY <1>2, <1>4, <1>5, Superseding DEF SupersedeFrame, Mutation
<1>7. Revised(fs, gs, hs, id, new, f)
  BY <1>1, <1>2, <1>3, <1>4, <1>5, <1>6 DEF Revised
<1>8. Ordered(hs)
  BY <1>7, RevisedIs
<1>9. e \in EntryOf /\ e.id = new
  <2>1. id \in Link
    BY <1>2 DEF Link
  <2> QED
    BY <1>4, <2>1, EntryTyped
<1> PICK n : n = StageUpsert(m, k, e)
  OBVIOUS
<1>10. HeldWith(m, k, e, n) /\ n \in Memory
  BY <1>1, <1>2, <1>9, UpsertHeld DEF HeldWith
<1>11. ~IsHidden => Held(m)[k].id = id
  BY VisibleHeld DEF IsActive
<1>12. ~IsHidden /\ InForce(m, fs)
         => InForce(m, gs) /\ Admits(gs, SupersedeFrame(id, new)) /\ InForce(n, hs)
  <2> SUFFICES ASSUME ~IsHidden, InForce(m, fs)
               PROVE  InForce(m, gs) /\ Admits(gs, SupersedeFrame(id, new)) /\ InForce(n, hs)
    OBVIOUS
  <2>1. InForce(m, gs)
    BY <1>1, <1>5, PutInForce
  <2>2. Held(m)[k].id = id /\ k = f.key
    BY <1>3, <1>11
  <2>3. Admits(gs, SupersedeFrame(id, new)) /\ InForce(n, hs)
    BY <1>7, <1>9, <1>10, <2>2, RevisedInForce
  <2> QED
    BY <2>1, <2>3
<1>13. Sync(m, fs) => Sync(n, hs)
  <2>1. HeldWith(m, k, Entry(new, id, f.pinned), n)
    BY <1>3, <1>10
  <2> QED
    BY <1>3, <1>7, <2>1, RevisedSync
<1>14. Covered(fs) => Covered(hs)
  BY <1>7, RevisedCovered
<1>15. Starts(m, {})
  BY <1>1 DEF Starts, Before
<1>16. Takes(fs, PutFrame(f), m, {})
  BY <1>1, <1>5, <1>12 DEF Takes, Before, Calm
<1>17. Takes(gs, SupersedeFrame(id, new), n, {})
  BY <1>1, <1>6, <1>8, <1>10, <1>12 DEF Takes, Before, Calm
<1>18. Ends(hs, n, {})
  BY <1>1, <1>13, <1>14 DEF Ends, Before
<1> PICK mems, docs :
      /\ mems = [i \in 0 .. 2 |-> IF i = 2 THEN StageUpsert(memory, k, Entry(new, id, pinned)) ELSE memory]
      /\ docs = [i \in 0 .. 2 |-> IF i = 2 THEN (index.staged \ {id}) \cup {new} ELSE index.staged]
  OBVIOUS
<1>19. mems[0] = m /\ mems[1] = m /\ mems[2] = n
  OBVIOUS
<1>20. Call(<<PutFrame(f), SupersedeFrame(id, new)>>, mems, docs, {})
  BY DEF Revise
<1>21. CallKeeps(<<PutFrame(f), SupersedeFrame(id, new)>>, mems, {})
  BY <1>15, <1>16, <1>17, <1>18, <1>19, KeepsTwo
<1> QED
  BY <1>20, <1>21, CallKeepsInv

LEMMA UpdateKeeps ==
  ASSUME FactInv, NEW id, UpdateFactById(id)
  PROVE  FactInv'
<1> PICK text \in Updates(id) : Revise(id, text, FALSE)
  BY DEF UpdateFactById
<1>1. text \in Puttable[Now[id].key] /\ IsFact(id) /\ IsActive(id)
  BY DEF UpdateFactById, Updates
<1> PICK pinned \in BOOLEAN : pinned = FALSE
  OBVIOUS
<1>2. Revise(id, text, pinned)
  OBVIOUS
<1> QED
  BY <1>1, <1>2, ReviseKeeps

LEMMA PinKeeps ==
  ASSUME FactInv, NEW id, NEW pinned \in BOOLEAN, SetFactPinned(id, pinned)
  PROVE  FactInv'
<1> PICK text : text = Now[id].text
  OBVIOUS
<1>1. IsFact(id) /\ IsActive(id) /\ Revise(id, text, pinned)
  BY DEF SetFactPinned
<1>2. text \in Puttable[Now[id].key]
  BY <1>1, FactIs
<1> QED
  BY <1>1, <1>2, ReviseKeeps

-----------------------------------------------------------------------------
(* Facts deleted by their id. *)

LEMMA DeleteIs ==
  ASSUME NEW fs \in Seq(Frames), Ordered(fs), NEW x \in DOMAIN fs, fs[x].op = "upsert",
         NEW gs, gs = Preview(fs, DeleteFrame(x))
  PROVE  /\ DeleteFrame(x) \in Mutation /\ Deleted(fs, gs, x) /\ Ordered(gs)
         /\ Admits(fs, DeleteFrame(x)) /\ gs \in Seq(Frames)
<1>1. DeleteFrame(x) \in Mutation
  BY DEF DeleteFrame, Mutation
<1>2. Deleted(fs, gs, x)
  BY Deleting
<1>3. Admits(fs, DeleteFrame(x))
  BY DEF Admits, DeleteFrame
<1>4. gs \in Seq(Frames)
  BY <1>2, Zenon DEF Deleted, Same
<1>5. Ordered(gs)
  BY <1>2, DeleteOrdered
<1> QED
  BY <1>1, <1>2, <1>3, <1>4, <1>5

LEMMA DeleteInactiveKeeps ==
  ASSUME FactInv, NEW id, IsFact(id), ~IsActive(id),
         Call(<<DeleteFrame(id)>>, [n \in 0..1 |-> memory], [n \in 0..1 |-> index.staged], {})
  PROVE  FactInv'
<1> PICK fs, m, k : fs = Now /\ m = memory /\ k = Now[id].key
  OBVIOUS
<1> PICK gs : gs = Preview(fs, DeleteFrame(id))
  OBVIOUS
<1>1. Before(fs, m) /\ fs \in Seq(Frames) /\ m \in Memory /\ Ordered(fs)
  BY NowGood DEF Before
<1>2. /\ id \in DOMAIN fs /\ k \in Key /\ fs[id].key = k /\ fs[id].op = "upsert"
      /\ ~fs[id].deleted
  BY FactIs
<1>3. /\ DeleteFrame(id) \in Mutation /\ Deleted(fs, gs, id) /\ Ordered(gs)
      /\ Admits(fs, DeleteFrame(id))
  BY <1>1, <1>2, DeleteIs
<1>4. ~IsHidden => Held(m)[k].id # id
  BY VisibleHeld DEF IsActive
<1>5. InForce(m, fs) => InForce(m, gs)
  BY <1>1, <1>3, DeleteInForce
<1>6. ~IsHidden /\ Sync(m, fs) => Sync(m, gs)
  <2> SUFFICES ASSUME ~IsHidden, Sync(m, fs), NEW j \in Key
               PROVE  Agrees(Held(m)[j], gs, j)
    BY DEF Sync
  <2> PICK d : d = Held(m)[j]
    OBVIOUS
  <2>1. Agrees(d, fs, j)
    BY DEF Sync
  <2>2. fs[id].key # j \/ d.id # id
    BY <1>2, <1>4
  <2> QED
    BY <1>1, <1>2, <1>3, <2>1, <2>2, DeleteAgrees
<1>7. ~IsHidden /\ Sync(m, fs) /\ Covered(fs) => Covered(gs)
  <2> SUFFICES ASSUME ~IsHidden, Sync(m, fs), Covered(fs)
               PROVE  Covered(gs)
    OBVIOUS
  <2> PICK d : d = Held(m)[k]
    OBVIOUS
  <2>1. Agrees(d, fs, k) /\ d.id # id
    BY <1>2, <1>4 DEF Sync
  <2>2. AnyUnread(fs) \/ Covers(fs, id)
    BY <1>1, <1>2, <2>1, InactiveCovered
  <2> QED
    BY <1>1, <1>2, <1>3, <2>2, DeleteCovered
<1>8. Starts(m, {})
  BY <1>1 DEF Starts, Before
<1>9. Takes(fs, DeleteFrame(id), m, {}) /\ Ends(gs, m, {})
  BY <1>1, <1>3, <1>5, <1>6, <1>7 DEF Takes, Ends, Before, Calm
<1> PICK mems, docs : mems = [n \in 0..1 |-> memory] /\ docs = [n \in 0..1 |-> index.staged]
  OBVIOUS
<1>10. mems[0] = m /\ mems[1] = m
  OBVIOUS
<1>11. CallKeeps(<<DeleteFrame(id)>>, mems, {})
  BY <1>8, <1>9, <1>10, KeepsOne
<1> QED
  BY <1>11, CallKeepsInv

LEMMA DeleteActiveKeeps ==
  ASSUME FactInv, NEW id, IsFact(id), IsActive(id), NEW k, k = Now[id].key,
         NEW mems, NEW docs, mems = [n \in 0..2 |-> IF n > 0 THEN StageRemove(memory, k) ELSE memory],
         Call(<<DeleteFrame(id), PutFrame(Tombstone(k))>>, mems, docs, Restored)
  PROVE  FactInv'
<1> PICK fs, m, n, f, up :
      fs = Now /\ m = memory /\ n = StageRemove(memory, k) /\ f = Tombstone(k) /\ up = Restored
  OBVIOUS
<1> PICK gs : gs = Preview(fs, DeleteFrame(id))
  OBVIOUS
<1> PICK hs : hs = Preview(gs, PutFrame(f))
  OBVIOUS
<1>1. Before(fs, m) /\ fs \in Seq(Frames) /\ m \in Memory /\ Ordered(fs)
  BY NowGood DEF Before
<1>2. /\ id \in DOMAIN fs /\ k \in Key /\ fs[id].key = k /\ fs[id].op = "upsert"
      /\ ~fs[id].deleted
  BY FactIs
<1>3. /\ DeleteFrame(id) \in Mutation /\ Deleted(fs, gs, id) /\ Ordered(gs)
      /\ Admits(fs, DeleteFrame(id)) /\ gs \in Seq(Frames)
  BY <1>1, <1>2, DeleteIs
<1>4. f \in NewFrames /\ f.op = "remove" /\ f.key = k
  BY <1>2, TombstoneIs
<1>5. PutFrame(f) \in Mutation /\ Put(gs, hs, f) /\ Ordered(hs) /\ Admits(gs, PutFrame(f))
  BY <1>3, <1>4, PutIs
<1>6. n \in Memory
  BY <1>1, <1>2, RemoveTyped
<1>7. up = {} => HeldWith(m, k, NoEntry, n)
  BY <1>1, <1>2, RestoredIs, RemoveBaseIs
<1>8. up = {} /\ InForce(m, fs) => InForce(n, gs) /\ InForce(n, hs)
  <2> SUFFICES ASSUME up = {}, InForce(m, fs)
               PROVE  InForce(n, gs) /\ InForce(n, hs)
    OBVIOUS
  <2>1. InForce(m, gs)
    BY <1>1, <1>3, DeleteInForce
  <2>2. InForce(n, gs)
    BY <1>2, <1>7, <2>1, RemoveInForce
  <2> QED
    BY <1>3, <1>5, <2>2, PutInForce
<1>9. up = {} /\ Sync(m, fs) => Sync(n, hs)
  <2> SUFFICES ASSUME up = {}, Sync(m, fs)
               PROVE  Sync(n, hs)
    OBVIOUS
  <2>1. ASSUME NEW j \in Key, j # k
        PROVE  Agrees(Held(m)[j], gs, j)
    <3> PICK d : d = Held(m)[j]
      OBVIOUS
    <3>1. Agrees(d, fs, j)
      BY DEF Sync
    <3> QED
      BY <1>1, <1>2, <1>3, <2>1, <3>1, DeleteAgrees
  <2> QED
    BY <1>2, <1>3, <1>4, <1>7, <2>1, TombstoneTakes
<1>10. Covered(fs) => Covered(hs)
  BY <1>1, <1>2, <1>3, <1>4, <1>5, TombstoneCovered
<1>11. Starts(m, up)
  BY <1>1 DEF Starts, Before
<1>12. Takes(fs, DeleteFrame(id), n, up)
  BY <1>1, <1>3, <1>6, <1>8 DEF Takes, Before, Calm
<1>13. Takes(gs, PutFrame(f), n, up) /\ Ends(hs, n, up)
  BY <1>1, <1>5, <1>6, <1>8, <1>9, <1>10 DEF Takes, Ends, Before, Calm
<1>14. mems[0] = m /\ mems[1] = n /\ mems[2] = n
  OBVIOUS
<1>15. Call(<<DeleteFrame(id), PutFrame(f)>>, mems, docs, up)
  OBVIOUS
<1>16. up \subseteq {"restored"}
  BY RestoredTyped
<1>17. CallKeeps(<<DeleteFrame(id), PutFrame(f)>>, mems, up)
  BY <1>11, <1>12, <1>13, <1>14, <1>16, KeepsTwo
<1> QED
  BY <1>15, <1>17, CallKeepsInv

LEMMA DeleteKeeps ==
  ASSUME FactInv, NEW id, DeleteFactById(id)
  PROVE  FactInv'
<1> PICK k : k = Now[id].key
  OBVIOUS
<1>1. IsFact(id)
  BY DEF DeleteFactById
<1>2. CASE IsActive(id)
  <2> PICK mems, docs :
        /\ mems = [n \in 0..2 |-> IF n > 0 THEN StageRemove(memory, k) ELSE memory]
        /\ docs = [n \in 0..2 |-> IF n > 0 THEN index.staged \ {RemovedId(memory, k)} ELSE index.staged]
    OBVIOUS
  <2>1. Call(<<DeleteFrame(id), PutFrame(Tombstone(k))>>, mems, docs, Restored)
    BY <1>2 DEF DeleteFactById
  <2> QED
    BY <1>1, <1>2, <2>1, DeleteActiveKeeps
<1>3. CASE ~IsActive(id)
  <2>1. Call(<<DeleteFrame(id)>>, [n \in 0..1 |-> memory], [n \in 0..1 |-> index.staged], {})
    BY <1>3 DEF DeleteFactById
  <2> QED
    BY <1>1, <1>3, <2>1, DeleteInactiveKeeps
<1> QED
  BY <1>2, <1>3

-----------------------------------------------------------------------------
(* Commits and restarts.                                                    *)

\* A frame that is no fact changes nothing that counts.
LEMMA GoodHandoff ==
  ASSUME NEW fs, NEW ms, NEW m, NEW ups, Good(fs, ms, m, ups)
  PROVE  Good(fs, Append(ms, PutFrame(Handoff)), m, ups)
<1> PICK f : f = Handoff
  OBVIOUS
<1> PICK now, longer : now = View(fs, ms) /\ longer = Append(ms, PutFrame(f))
  OBVIOUS
<1> PICK gs : gs = Preview(now, PutFrame(f))
  OBVIOUS
<1>1. /\ fs \in Seq(Frames) /\ ms \in Seq(Mutation) /\ Ordered(fs) /\ BackLinked(fs)
      /\ Ordered(now) /\ m \in Memory
  BY DEF Good, Shape
<1>2. now \in Seq(Frames)
  BY <1>1, ViewTyped
<1>3. f \in NewFrames /\ FactOf(f) = None
  BY HandoffIs
<1>4. PutFrame(f) \in Mutation /\ Put(now, gs, f) /\ Ordered(gs) /\ Admits(now, PutFrame(f))
  BY <1>1, <1>2, <1>3, PutIs
<1>5. longer \in Seq(Mutation) /\ View(fs, longer) = gs
  BY <1>1, <1>4, ViewAppend
<1>6. Applicable(fs, ms) => Applicable(fs, longer)
  BY <1>1, <1>4, ApplicableAppend
<1>7. InForce(m, now) => InForce(m, gs)
  BY <1>2, <1>4, PutInForce
<1>8. Sync(m, now) => Sync(m, gs)
  <2> SUFFICES ASSUME Sync(m, now), NEW j \in Key
               PROVE  Agrees(Held(m)[j], gs, j)
    BY DEF Sync
  <2> PICK d : d = Held(m)[j]
    OBVIOUS
  <2>1. Agrees(d, now, j)
    BY DEF Sync
  <2> QED
    BY <1>2, <1>3, <1>4, <2>1, PutAgrees
<1>9. Covered(now) => Covered(gs)
  BY <1>2, <1>4, PutCovered
<1>10. Good(fs, longer, m, ups)
  BY <1>1, <1>4, <1>5, <1>6, <1>7, <1>8, <1>9 DEF Good, Shape, Retry
<1> QED
  BY <1>10

LEMMA FlushKeeps ==
  ASSUME FactInv, Flush
  PROVE  FactInv'
<1> PICK now, m, n, none : now = Now /\ m = memory /\ n = CommitStaged(memory) /\ none = <<>>
  OBVIOUS
<1>1. Good(now, none, m, upsets)
  BY Committed DEF Flush
<1>2. n \in Memory /\ Held(n) = Held(m)
  BY <1>1, CommitStagedTyped DEF Good
<1>3. Good(now, none, n, upsets)
  BY <1>1, <1>2, GoodHeld
<1>4. frames' = now /\ pending' = none /\ memory' = n /\ upsets' = upsets
  BY DEF Flush
<1> QED
  BY <1>3, <1>4, InvAfter

LEMMA FlushFailsKeeps ==
  ASSUME FactInv, FlushFails
  PROVE  FactInv'
<1> PICK fs, ms, m, n : fs = frames /\ ms = pending /\ m = memory /\ n = [memory EXCEPT !.visible = FALSE]
  OBVIOUS
<1>1. Good(fs, ms, m, upsets)
  BY DEF FactInv
<1>2. n \in Memory /\ Held(n) = Held(m)
  BY <1>1, HideTyped DEF Good
<1>3. Good(fs, ms, n, upsets)
  BY <1>1, <1>2, GoodHeld
<1>4. frames' = fs /\ pending' = ms /\ memory' = n /\ upsets' = upsets
  BY DEF FlushFails
<1> QED
  BY <1>3, <1>4, InvAfter

\* A process starts with what another has committed and put.
LEMMA RestartKeeps ==
  ASSUME FactInv, Rebuild(frames, pending, FALSE)
  PROVE  FactInv'
<1> PICK past : past = FALSE
  OBVIOUS
<1> PICK fs, ms : fs = frames /\ ms = pending
  OBVIOUS
<1>1. Shape(fs, ms) /\ (upsets = {} => Covered(fs))
  BY DEF FactInv, Good
<1>2. Rebuild(fs, ms, past)
  OBVIOUS
<1> QED
  BY <1>1, <1>2, RebuildKeeps

\* A process starts with a commit of all that another has put.
LEMMA RestartCommittedKeeps ==
  ASSUME FactInv, Applicable(frames, pending), Rebuild(Now, <<>>, FALSE)
  PROVE  FactInv'
<1> PICK past : past = FALSE
  OBVIOUS
<1> PICK now, none : now = Now /\ none = <<>>
  OBVIOUS
<1>1. Good(now, none, memory, upsets)
  BY Committed
<1>2. Shape(now, none) /\ (upsets = {} => Covered(now))
  BY <1>1 DEF Good
<1>3. Rebuild(now, none, past)
  OBVIOUS
<1> QED
  BY <1>2, <1>3, RebuildKeeps

LEMMA HandoffKeeps ==
  ASSUME FactInv, RememberHandoff
  PROVE  FactInv'
<1> PICK fs, ms, m : fs = frames /\ ms = Append(pending, PutFrame(Handoff)) /\ m = memory
  OBVIOUS
<1>1. Good(fs, ms, m, upsets)
  BY GoodHandoff DEF FactInv
<1>2. memory' = m /\ upsets' = upsets
  BY DEF RememberHandoff
<1>3. \/ Applicable(fs, ms) /\ frames' = View(fs, ms) /\ pending' = <<>>
      \/ frames' = fs /\ pending' = ms
  BY DEF RememberHandoff
<1>4. CASE Applicable(fs, ms) /\ frames' = View(fs, ms) /\ pending' = <<>>
  <2> PICK now, none : now = View(fs, ms) /\ none = <<>>
    OBVIOUS
  <2>1. Good(now, none, m, upsets)
    BY <1>1, <1>4, GoodCommit
  <2> QED
    BY <1>2, <1>4, <2>1, InvAfter
<1>5. CASE frames' = fs /\ pending' = ms
  BY <1>1, <1>2, <1>5, InvAfter
<1> QED
  BY <1>3, <1>4, <1>5

LEMMA CompactKeeps ==
  ASSUME FactInv, CompactIndexes
  PROVE  FactInv'
<1> PICK now, none, m : now = Now /\ none = <<>> /\ m = memory
  OBVIOUS
<1>1. Good(now, none, m, upsets)
  BY Committed DEF CompactIndexes
<1>2. frames' = now /\ pending' = none /\ memory' = m /\ upsets' = upsets
  BY DEF CompactIndexes
<1> QED
  BY <1>1, <1>2, InvAfter

-----------------------------------------------------------------------------
(* The theorems.                                                            *)

LEMMA FactInit == Init => FactInv
<1> SUFFICES ASSUME Init
             PROVE  FactInv
  OBVIOUS
<1> PICK fs, ms, m : fs = frames /\ ms = pending /\ m = memory
  OBVIOUS
<1>1. fs = <<>> /\ ms = <<>> /\ m = Empty /\ upsets = {}
  BY DEF Init
<1>2. fs \in Seq(Frames) /\ ms \in Seq(Mutation) /\ DOMAIN fs = {} /\ Len(fs) = 0
  BY <1>1
<1>3. View(fs, ms) = fs /\ Applicable(fs, ms)
  BY <1>1, <1>2, ViewNone, ApplicableNone
<1>4. Shape(fs, ms)
  BY <1>2, <1>3 DEF Shape, Ordered, BackLinked
<1>5. m \in Memory /\ \A k \in Key : Held(m)[k] = NoEntry
  BY <1>1, EmptyTyped, NothingTyped
<1>6. Sync(m, fs)
  <2>1. \A k \in Key : Newest(fs, Len(fs), k, None) /\ NoEntry = EntryAt(fs, None)
    BY <1>2 DEF Newest, EntryAt
  <2> QED
    BY <1>5, <2>1, Zenon DEF Sync, Agrees
<1>7. InForce(m, fs)
  BY <1>5, NothingTyped DEF InForce
<1>8. Covered(fs)
  BY <1>2 DEF Covered
<1>9. Good(fs, ms, m, upsets)
  BY <1>3, <1>4, <1>5, <1>6, <1>7, <1>8 DEF Good, Retry
<1> QED
  BY <1>9 DEF FactInv

LEMMA FactNext == FactInv /\ [Next]_vars => FactInv'
<1> SUFFICES ASSUME FactInv, [Next]_vars
             PROVE  FactInv'
  OBVIOUS
<1>1. ASSUME NEW k \in Key, NEW text \in Puttable[k], RememberFact(k, text)
      PROVE  FactInv'
  BY <1>1, RememberKeeps
<1>2. ASSUME NEW k \in Key, ForgetFact(k)
      PROVE  FactInv'
  BY <1>2, ForgetKeeps
<1>3. ASSUME NEW k \in Key, ForgetNothing(k)
      PROVE  FactInv'
  BY <1>3, ForgetNothingKeeps
<1>4. ASSUME NEW id, UpdateFactById(id)
      PROVE  FactInv'
  BY <1>4, UpdateKeeps
<1>5. ASSUME NEW id, NEW pinned \in BOOLEAN, SetFactPinned(id, pinned)
      PROVE  FactInv'
  BY <1>5, PinKeeps
<1>6. ASSUME NEW id, DeleteFactById(id)
      PROVE  FactInv'
  BY <1>6, DeleteKeeps
<1>7. CASE Flush
  BY <1>7, FlushKeeps
<1>8. CASE FlushFails
  BY <1>8, FlushFailsKeeps
<1>9. CASE FlushRebuilds
  BY <1>9, RestartCommittedKeeps DEF FlushRebuilds
<1>10. CASE RememberHandoff
  BY <1>10, HandoffKeeps
<1>11. CASE CompactIndexes
  BY <1>11, CompactKeeps
<1>12. CASE Close
  BY <1>12, RestartKeeps, RestartCommittedKeeps DEF Close
<1>13. CASE ProcessDies
  BY <1>13, RestartKeeps, RestartCommittedKeeps DEF ProcessDies
<1>14. CASE UNCHANGED vars
  BY <1>14 DEF FactInv, vars
<1> QED
  BY <1>1, <1>2, <1>3, <1>4, <1>5, <1>6, <1>7, <1>8, <1>9, <1>10, <1>11, <1>12, <1>13, <1>14
     DEF Next

LEMMA FactInvariant == Spec => []FactInv
<1>1. Init => FactInv
  BY FactInit
<1>2. FactInv /\ [Next]_vars => FactInv'
  BY FactNext
<1> QED
  BY <1>1, <1>2, PTL DEF Spec

LEMMA InvHistory == FactInv => HistoryLinked
<1> SUFFICES ASSUME FactInv, NEW i \in DOMAIN frames, frames[i].supersedes # None
             PROVE  /\ frames[i].supersedes < i
                    /\ frames[frames[i].supersedes].key = frames[i].key
                    /\ frames[frames[i].supersedes].superseded_by = i
  BY DEF HistoryLinked
<1> PICK fs, old : fs = frames /\ old = frames[i].supersedes
  OBVIOUS
<1>1. fs \in Seq(Frames) /\ Ordered(fs) /\ BackLinked(fs)
  BY DEF FactInv, Good, Shape
<1>2. old \in 1 .. (i - 1) /\ fs[old].key = fs[i].key /\ fs[old].superseded_by = i
  BY <1>1 DEF Ordered, InOrder, BackLinked
<1> QED
  BY <1>1, <1>2

\* Revisions in the file and the older ones they replace point at each other.
THEOREM FactHistoryLinked == Spec => []HistoryLinked
BY FactInvariant, InvHistory, PTL

\* A Flush that failed can be tried again.
THEOREM FactCommitRetryable == Spec => []CommitRetryableUnlessUpset
<1>1. FactInv => CommitRetryableUnlessUpset
  BY DEF FactInv, Good, Retry, CommitRetryableUnlessUpset, CommitRetryable
<1> QED
  BY <1>1, FactInvariant, PTL

LEMMA OneNewest ==
  ASSUME NEW fs \in Seq(Frames), NEW k, NEW x, NEW y, Newest(fs, Len(fs), k, x),
         Newest(fs, Len(fs), k, y)
  PROVE  x = y
BY DEF Newest

LEMMA InvMemory == FactInv => MemoryIsReplay
<1> SUFFICES ASSUME FactInv
             PROVE  MemoryIsReplay
  OBVIOUS
<1>1. ReadsWhole
  BY UpsertReads DEF ReadsWhole, Said
<1> PICK fs, replayed : fs = frames /\ replayed = Replay(frames).entries
  OBVIOUS
<1>2. fs \in Seq(Frames) /\ memory \in Memory
  BY DEF FactInv, Good, Shape
<1>3. ASSUME upsets \subseteq {"past", "unread"}, ~memory.staging, pending = <<>>, NEW k \in Key,
             memory.entries[k] # replayed[k]
      PROVE  memory.entries[k].id # None /\ Unread(fs[memory.entries[k].id])
  <2> PICK e, id : e = memory.entries[k] /\ id = memory.entries[k].id
    OBVIOUS
  <2>1. View(fs, pending) = fs
    BY <1>2, <1>3, ViewNone
  <2>2. Held(memory)[k] = e
    BY <1>3 DEF Held
  <2>3. Agrees(e, fs, k)
    BY <1>3, <2>1, <2>2 DEF FactInv, Good, Sync
  <2>4. PICK x : Newest(fs, Len(fs), k, x) /\ (e # EntryAt(fs, x) => UnreadAt(fs, e.id))
    BY <2>3 DEF Agrees
  <2>5. PICK y : Newest(fs, Len(fs), k, y) /\ replayed[k] = EntryAt(fs, y)
    BY <1>2, ReplayTold DEF Told
  <2>6. x = y
    BY <1>2, <2>4, <2>5, OneNewest
  <2>7. UnreadAt(fs, id)
    BY <1>3, <2>4, <2>5, <2>6
  <2>8. id \in DOMAIN fs /\ Unread(fs[id])
    BY <2>7 DEF UnreadAt
  <2>9. id # None
    BY <1>2, <2>8, NoneNotNat
  <2> QED
    BY <2>8, <2>9
<1> QED
  BY <1>1, <1>3 DEF MemoryIsReplay

\* Memory, index and file do not drift apart.
THEOREM FactMemoryIsReplay == Spec => []MemoryIsReplay
BY FactInvariant, InvMemory, PTL

LEMMA InvNoOlder == FactInv => NoOlderRevisionReturns
<1> SUFFICES ASSUME FactInv, upsets = {}, ~(\E f \in ToSet(frames) : Unread(f)),
                    NEW i \in DOMAIN frames, frames[i].deleted,
                    Replay(frames).entries[frames[i].key].id # None
             PROVE  Replay(frames).entries[frames[i].key].id > i
  BY DEF NoOlderRevisionReturns
<1> PICK fs, k : fs = frames /\ k = frames[i].key
  OBVIOUS
<1> PICK e : e = Replay(fs).entries[k]
  OBVIOUS
<1>1. fs \in Seq(Frames) /\ Ordered(fs) /\ Covered(fs)
  BY DEF FactInv, Good, Shape
<1>2. ~AnyUnread(fs)
  <2>1. \A x \in DOMAIN fs : fs[x] \in ToSet(fs)
    BY DEF ToSet
  <2> QED
    BY <2>1 DEF AnyUnread, UnreadAt
<1>3. k \in Key
  <2> PICK f \in Frames : f = fs[i]
    BY <1>1
  <2>1. f.op = "upsert"
    BY <1>1 DEF Ordered, InOrder
  <2> QED
    BY <2>1, FactRead
<1>4. PICK x : Newest(fs, Len(fs), k, x) /\ e = EntryAt(fs, x)
  BY <1>1, <1>3, ReplayTold DEF Told
<1>5. PICK j \in DOMAIN fs : j > i /\ Read(fs, j, k)
  BY <1>1, <1>2 DEF Covered, Covers, Gone
<1>6. x # None /\ e.id = x
  BY <1>4, NothingTyped DEF EntryAt, Entry
<1>7. x \in 1 .. Len(fs) /\ j <= x
  BY <1>1, <1>4, <1>5, <1>6 DEF Newest
<1> QED
  BY <1>1, <1>5, <1>6, <1>7

\* A deleted fact stays deleted at a restart.
THEOREM FactStaysDeleted == Spec => []NoOlderRevisionReturns
BY FactInvariant, InvNoOlder, PTL

=============================================================================
