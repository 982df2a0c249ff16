--------------------------- MODULE WaxStoreProofs ---------------------------
(***************************************************************************)
(* Proofs about the store behind an .mv2s file, for every size of ring and *)
(* every bound, and for deaths and failing writes at any stage.            *)
(***************************************************************************)
EXTENDS WaxStore, SetInduction, FiniteSetTheorems, SequenceTheorems

-----------------------------------------------------------------------------
(* Elements of a sequence, and the recursion that picks some of them.       *)

IsOnly(f, s, S, n) ==
  f = [i \in 0 .. n |-> IF i = 0 THEN <<>>
                        ELSE IF s[i] \in S THEN Append(f[i - 1], s[i]) ELSE f[i - 1]]

LEMMA OnlyExists ==
  ASSUME NEW s, NEW S, NEW n \in Nat
  PROVE  \E f : IsOnly(f, s, S, n)
<1> DEFINE T == {k \in Nat : \E f : IsOnly(f, s, S, k)}
<1>1. 0 \in T
  <2> DEFINE f == [i \in 0 .. 0 |-> <<>>]
  <2>1. IsOnly(f, s, S, 0)
    BY DEF IsOnly
  <2> QED
    BY <2>1
<1>2. ASSUME NEW k \in Nat, k \in T
      PROVE  k + 1 \in T
  <2>1. PICK f : IsOnly(f, s, S, k)
    BY <1>2
  <2> DEFINE Step(prev, e) == IF e \in S THEN Append(prev, e) ELSE prev
             g == [i \in 0 .. k + 1 |-> IF i <= k THEN f[i] ELSE Step(f[k], s[k + 1])]
  <2>2. \A i \in 0 .. k + 1 : g[i] = IF i = 0 THEN <<>> ELSE Step(g[i - 1], s[i])
    <3> TAKE i \in 0 .. k + 1
    <3> HIDE DEF Step
    <3>1. CASE i = 0
      BY <2>1, <3>1 DEF IsOnly
    <3>2. CASE i \in 1 .. k
      <4>0. i \in 0 .. k /\ i # 0
        BY <3>2
      <4>1. f[i] = Step(f[i - 1], s[i])
        BY <2>1, <4>0, Zenon DEF IsOnly, Step
      <4>2. g[i] = f[i] /\ g[i - 1] = f[i - 1]
        BY <3>2
      <4> QED
        BY <3>2, <4>1, <4>2
    <3>3. CASE i = k + 1
      <4>1. g[i] = Step(f[k], s[i]) /\ g[i - 1] = f[k]
        BY <3>3
      <4> QED
        BY <3>3, <4>1
    <3> QED
      BY <3>1, <3>2, <3>3
  <2>3. IsOnly(g, s, S, k + 1)
    <3>1. g = [i \in 0 .. k + 1 |-> g[i]]
      OBVIOUS
    <3> HIDE DEF g
    <3> QED
      BY <2>2, <3>1 DEF IsOnly
  <2> QED
    BY <2>3
<1>3. Nat \subseteq T
  <2> HIDE DEF T
  <2> QED
    BY <1>1, <1>2, SetInduction
<1> QED
  BY <1>3

LEMMA OnlyAmongAt ==
  ASSUME NEW s, NEW S, Len(s) \in Nat
  PROVE  /\ OnlyAmong(s, S)[0] = <<>>
         /\ \A i \in 1 .. Len(s) :
              OnlyAmong(s, S)[i] = IF s[i] \in S THEN Append(OnlyAmong(s, S)[i - 1], s[i])
                                   ELSE OnlyAmong(s, S)[i - 1]
<1> DEFINE f == OnlyAmong(s, S)
<1>1. \E g : IsOnly(g, s, S, Len(s))
  BY OnlyExists
<1>2. IsOnly(f, s, S, Len(s))
  BY <1>1 DEF OnlyAmong, IsOnly
<1> HIDE DEF f
<1>3. \A i \in 0 .. Len(s) :
        f[i] = IF i = 0 THEN <<>>
               ELSE IF s[i] \in S THEN Append(f[i - 1], s[i]) ELSE f[i - 1]
  BY <1>2 DEF IsOnly
<1>4. f[0] = <<>>
  BY <1>3
<1>5. \A i \in 1 .. Len(s) : f[i] = IF s[i] \in S THEN Append(f[i - 1], s[i]) ELSE f[i - 1]
  BY <1>3
<1> QED
  BY <1>4, <1>5 DEF f

\* Where in the first n elements of s those of k were, which are all that are in S.
Places(at, k, s, S, n) ==
  /\ at \in [1 .. Len(k) -> 1 .. n]
  /\ \A i \in 1 .. Len(k) : k[i] = s[at[i]] /\ s[at[i]] \in S
  /\ \A i, j \in 1 .. Len(k) : i < j => at[i] < at[j]
  /\ \A j \in 1 .. n : s[j] \in S => \E i \in 1 .. Len(k) : at[i] = j

LEMMA PlacesGrow ==
  ASSUME NEW T, NEW S, NEW s, NEW n \in Nat, NEW k \in Seq(T), NEW at, Places(at, k, s, S, n),
         s[n + 1] \in T
  PROVE  IF s[n + 1] \in S
           THEN \E new : Places(new, Append(k, s[n + 1]), s, S, n + 1)
           ELSE Places(at, k, s, S, n + 1)
<1>1. CASE s[n + 1] \in S
  <2> DEFINE k1 == Append(k, s[n + 1])
             new == [i \in 1 .. Len(k) + 1 |-> IF i <= Len(k) THEN at[i] ELSE n + 1]
  <2>1. Len(k1) = Len(k) + 1 /\ k1[Len(k) + 1] = s[n + 1] /\ \A i \in 1 .. Len(k) : k1[i] = k[i]
    OBVIOUS
  <2> HIDE DEF k1
  <2>2. \A i \in 1 .. Len(k) : new[i] = at[i] /\ at[i] \in 1 .. n
    BY DEF Places
  <2>3. new[Len(k) + 1] = n + 1
    OBVIOUS
  <2>4. new \in [1 .. Len(k1) -> 1 .. n + 1]
    <3>1. \A i \in 1 .. Len(k1) : i \in 1 .. Len(k) \/ i = Len(k) + 1
      BY <2>1
    <3>2. \A i \in 1 .. Len(k1) : new[i] \in 1 .. n + 1
      <4> HIDE DEF new
      <4> QED
        BY <2>2, <2>3, <3>1
    <3>3. DOMAIN new = 1 .. Len(k1)
      BY <2>1
    <3> QED
      BY <3>2, <3>3
  <2> HIDE DEF new
  <2>5. \A i \in 1 .. Len(k1) : k1[i] = s[new[i]] /\ s[new[i]] \in S
    BY <1>1, <2>1, <2>2, <2>3 DEF Places
  <2>6. ASSUME NEW i \in 1 .. Len(k1), NEW j \in 1 .. Len(k1), i < j
        PROVE  new[i] < new[j]
    <3>1. i \in 1 .. Len(k)
      BY <2>1, <2>6
    <3>2. CASE j = Len(k) + 1
      BY <2>2, <2>3, <3>1, <3>2
    <3>3. CASE j \in 1 .. Len(k)
      BY <2>2, <2>6, <3>1, <3>3 DEF Places
    <3> QED
      BY <2>1, <3>2, <3>3
  <2>7. ASSUME NEW j \in 1 .. n + 1, s[j] \in S
        PROVE  \E i \in 1 .. Len(k1) : new[i] = j
    <3>1. CASE j = n + 1
      BY <2>1, <2>3, <3>1
    <3>2. CASE j \in 1 .. n
      <4>1. PICK i \in 1 .. Len(k) : at[i] = j
        BY <2>7, <3>2 DEF Places
      <4> QED
        BY <2>1, <2>2, <4>1
    <3> QED
      BY <3>1, <3>2
  <2> QED
    BY <1>1, <2>4, <2>5, <2>6, <2>7 DEF Places, k1
<1>2. CASE s[n + 1] \notin S
  <2>1. at \in [1 .. Len(k) -> 1 .. n + 1]
    BY DEF Places
  <2>2. \A j \in 1 .. n + 1 : s[j] \in S => j \in 1 .. n
    BY <1>2
  <2> QED
    BY <1>2, <2>1, <2>2 DEF Places
<1> QED
  BY <1>1, <1>2

LEMMA OnlyPlaces ==
  ASSUME NEW T, NEW S, NEW s \in Seq(T), NEW n \in 0 .. Len(s)
  PROVE  /\ OnlyAmong(s, S)[n] \in Seq(T)
         /\ \E at : Places(at, OnlyAmong(s, S)[n], s, S, n)
<1> DEFINE f == OnlyAmong(s, S)
           Good(k) == f[k] \in Seq(T) /\ \E at : Places(at, f[k], s, S, k)
           U == {k \in Nat : k <= Len(s) => Good(k)}
<1>0. /\ f[0] = <<>>
      /\ \A i \in 1 .. Len(s) :
           f[i] = IF s[i] \in S THEN Append(f[i - 1], s[i]) ELSE f[i - 1]
  BY OnlyAmongAt
<1> HIDE DEF f
<1>1. 0 \in U
  <2>1. Places([i \in 1 .. 0 |-> 0], <<>>, s, S, 0)
    BY DEF Places
  <2>2. Good(0)
    BY <1>0, <2>1
  <2> QED
    BY <2>2
<1>2. ASSUME NEW k \in Nat, k \in U
      PROVE  k + 1 \in U
  <2> SUFFICES ASSUME k + 1 <= Len(s)
               PROVE  Good(k + 1)
    OBVIOUS
  <2>1. f[k] \in Seq(T)
    BY <1>2
  <2>2. PICK at : Places(at, f[k], s, S, k)
    BY <1>2
  <2>3. s[k + 1] \in T
    OBVIOUS
  <2>4. f[k + 1] = IF s[k + 1] \in S THEN Append(f[k], s[k + 1]) ELSE f[k]
    BY <1>0
  <2> QED
    BY <2>1, <2>2, <2>3, <2>4, PlacesGrow
<1>3. Nat \subseteq U
  <2> HIDE DEF U
  <2> QED
    BY <1>1, <1>2, SetInduction
<1>4. Good(n)
  BY <1>3
<1> QED
  BY <1>4 DEF f

LEMMA OnlyElements ==
  ASSUME NEW T, NEW S, NEW s \in Seq(T)
  PROVE  /\ Only(s, S) \in Seq(T)
         /\ \A i \in DOMAIN Only(s, S) : Only(s, S)[i] \in S
         /\ \E at : Places(at, Only(s, S), s, S, Len(s))
<1>1. Len(s) \in 0 .. Len(s)
  OBVIOUS
<1>2. /\ Only(s, S) \in Seq(T)
      /\ \E at : Places(at, Only(s, S), s, S, Len(s))
  BY <1>1, OnlyPlaces DEF Only
<1>3. DOMAIN Only(s, S) = 1 .. Len(Only(s, S))
  BY <1>2
<1>4. PICK at : Places(at, Only(s, S), s, S, Len(s))
  BY <1>2
<1>5. \A i \in 1 .. Len(Only(s, S)) : Only(s, S)[i] \in S
  BY <1>4, Zenon DEF Places
<1> QED
  BY <1>2, <1>3, <1>5

LEMMA CountStep ==
  ASSUME NEW T, NEW S, NEW s \in Seq(T), NEW i \in 1 .. Len(s)
  PROVE  /\ Len(OnlyAmong(s, S)[0]) = 0
         /\ Len(OnlyAmong(s, S)[i - 1]) \in Nat
         /\ s[i] \in S => Len(OnlyAmong(s, S)[i]) = Len(OnlyAmong(s, S)[i - 1]) + 1
         /\ s[i] \notin S => Len(OnlyAmong(s, S)[i]) = Len(OnlyAmong(s, S)[i - 1])
<1> DEFINE f == OnlyAmong(s, S)
<1>1. f[i - 1] \in Seq(T)
  BY OnlyPlaces
<1>2. f[0] = <<>> /\ f[i] = IF s[i] \in S THEN Append(f[i - 1], s[i]) ELSE f[i - 1]
  BY OnlyAmongAt
<1>3. s[i] \in T
  OBVIOUS
<1> HIDE DEF f
<1>4. Len(f[0]) = 0 /\ Len(f[i - 1]) \in Nat
  BY <1>1, <1>2
<1>5. CASE s[i] \in S
  BY <1>1, <1>2, <1>3, <1>4, <1>5 DEF f
<1>6. CASE s[i] \notin S
  BY <1>1, <1>2, <1>4, <1>6 DEF f
<1> QED
  BY <1>5, <1>6

LEMMA CountGrows ==
  ASSUME NEW T, NEW S, NEW s \in Seq(T), NEW i \in 0 .. Len(s), NEW j \in 0 .. Len(s), i <= j
  PROVE  /\ Len(OnlyAmong(s, S)[i]) \in Nat
         /\ Len(OnlyAmong(s, S)[i]) <= Len(OnlyAmong(s, S)[j])
         /\ i < j /\ s[j] \in S => Len(OnlyAmong(s, S)[i]) < Len(OnlyAmong(s, S)[j])
<1> DEFINE c(k) == Len(OnlyAmong(s, S)[k])
           U == {k \in Nat : i + k <= Len(s) => c(i) <= c(i + k)}
<1>0. \A k \in 1 .. Len(s) : /\ c(k - 1) \in Nat
                             /\ s[k] \in S => c(k) = c(k - 1) + 1
                             /\ s[k] \notin S => c(k) = c(k - 1)
  BY CountStep
<1>1. \A k \in 0 .. Len(s) : c(k) \in Nat
  BY OnlyPlaces
<1> HIDE DEF c
<1>2. 0 \in U
  BY <1>1
<1>3. ASSUME NEW k \in Nat, k \in U
      PROVE  k + 1 \in U
  <2> SUFFICES ASSUME i + (k + 1) <= Len(s)
               PROVE  c(i) <= c(i + (k + 1))
    OBVIOUS
  <2>1. i + (k + 1) \in 1 .. Len(s) /\ (i + (k + 1)) - 1 = i + k /\ i + k \in 0 .. Len(s)
    OBVIOUS
  <2>2. c(i) <= c(i + k)
    BY <1>3, <2>1
  <2>3. c(i + k) <= c(i + (k + 1))
    <3> DEFINE l == i + (k + 1)
    <3>1. /\ c(l - 1) \in Nat
          /\ s[l] \in S => c(l) = c(l - 1) + 1
          /\ s[l] \notin S => c(l) = c(l - 1)
      BY <1>0, <2>1
    <3>2. c(l - 1) <= c(l)
      BY <3>1
    <3> QED
      BY <2>1, <3>2
  <2> QED
    BY <1>1, <2>1, <2>2, <2>3
<1>4. \A k \in Nat : k \in U
  <2> HIDE DEF U
  <2> QED
    BY <1>2, <1>3, SetInduction
<1>5. c(i) <= c(j)
  <2>1. j - i \in Nat /\ i + (j - i) = j
    OBVIOUS
  <2>2. \A k \in Nat : i + k <= Len(s) => c(i) <= c(i + k)
    BY <1>4
  <2> DEFINE k == j - i
  <2>3. k \in Nat /\ i + k = j
    BY <2>1
  <2> HIDE DEF k
  <2>4. i + k <= Len(s)
    BY <2>3
  <2>5. c(i) <= c(i + k)
    BY <2>2, <2>3, <2>4
  <2> QED
    BY <2>3, <2>5
<1>6. ASSUME i < j, s[j] \in S
      PROVE  c(i) < c(j)
  <2>1. (j - 1) - i \in Nat /\ i + ((j - 1) - i) = j - 1 /\ j \in 1 .. Len(s) /\ j - 1 \in 0 .. Len(s)
    BY <1>6
  <2>2. c(i) <= c(j - 1)
    <3>0. \A k \in Nat : i + k <= Len(s) => c(i) <= c(i + k)
      BY <1>4
    <3> DEFINE k == (j - 1) - i
    <3>1. k \in Nat /\ i + k <= Len(s) /\ i + k = j - 1
      BY <2>1
    <3> HIDE DEF k
    <3>2. c(i) <= c(i + k)
      BY <3>0, <3>1
    <3> QED
      BY <3>1, <3>2
  <2>3. c(j) = c(j - 1) + 1
    BY <1>0, <1>6, <2>1
  <2> QED
    BY <1>1, <2>1, <2>2, <2>3
<1> QED
  BY <1>1, <1>5, <1>6 DEF c

LEMMA SameCount ==
  ASSUME NEW T, NEW S, NEW s \in Seq(T), NEW W, NEW V, NEW t \in Seq(W), Len(s) = Len(t),
         \A i \in 1 .. Len(s) : s[i] \in S <=> t[i] \in V
  PROVE  Len(Only(s, S)) = Len(Only(t, V))
<1> DEFINE c(k) == Len(OnlyAmong(s, S)[k])
           e(k) == Len(OnlyAmong(t, V)[k])
           U == {k \in Nat : k <= Len(s) => c(k) = e(k)}
<1>0. \A k \in 1 .. Len(s) : /\ s[k] \in S => c(k) = c(k - 1) + 1
                             /\ s[k] \notin S => c(k) = c(k - 1)
                             /\ t[k] \in V => e(k) = e(k - 1) + 1
                             /\ t[k] \notin V => e(k) = e(k - 1)
  BY CountStep
<1>1. c(0) = e(0)
  BY OnlyAmongAt
<1> HIDE DEF c, e
<1>2. 0 \in U
  BY <1>1
<1>3. ASSUME NEW k \in Nat, k \in U
      PROVE  k + 1 \in U
  <2> SUFFICES ASSUME k + 1 <= Len(s)
               PROVE  c(k + 1) = e(k + 1)
    OBVIOUS
  <2>1. k + 1 \in 1 .. Len(s) /\ (k + 1) - 1 = k /\ k <= Len(s)
    OBVIOUS
  <2>2. c(k) = e(k)
    BY <1>3, <2>1
  <2> QED
    BY <1>0, <2>1, <2>2
<1>4. Nat \subseteq U
  <2> HIDE DEF U
  <2> QED
    BY <1>2, <1>3, SetInduction
<1>5. c(Len(s)) = e(Len(s))
  BY <1>4
<1> QED
  BY <1>5 DEF c, e, Only

\* A set of numbers up to a bound has a greatest one, which Max gives.
LEMMA MaxExists ==
  ASSUME NEW S, S # {}, NEW b \in Nat, S \subseteq 0 .. b
  PROVE  Max(S) \in S /\ \A y \in S : Max(S) >= y
<1> DEFINE Up(k) == \A x \in S : x <= k
           U == {k \in Nat : Up(k) => \E x \in S : \A y \in S : x >= y}
<1>1. 0 \in U
  <2>1. PICK x \in S : TRUE
    OBVIOUS
  <2>2. ASSUME Up(0)
        PROVE  \A y \in S : x >= y
    BY <2>2
  <2> QED
    BY <2>1, <2>2
<1>2. ASSUME NEW k \in Nat, k \in U
      PROVE  k + 1 \in U
  <2>1. CASE k + 1 \in S
    BY <2>1
  <2>2. CASE k + 1 \notin S
    <3>1. Up(k + 1) => Up(k)
      BY <2>2
    <3> QED
      BY <1>2, <3>1
  <2> QED
    BY <2>1, <2>2
<1>3. Nat \subseteq U
  <2> HIDE DEF U
  <2> QED
    BY <1>1, <1>2, SetInduction
<1>4. Up(b)
  OBVIOUS
<1>5. \E x \in S : \A y \in S : x >= y
  BY <1>3, <1>4
<1> QED
  BY <1>5 DEF Max


-----------------------------------------------------------------------------
(* Values.                                                                  *)

PutMutation == [kind : {"put"}, id : Nat, len : Nat, off : Nat]
Mutation == PutMutation \cup [kind : {"delete", "embedding"}, id : Nat]
Record == [seq : Nat, m : Mutation]
Frame == [off : Nat, len : Nat, deleted : BOOLEAN]
Cell == [kind : {"payload"}, bytes : Nat]
        \cup [kind : {"toc"}, frames : Seq(Frame)]
        \cup [kind : {"footer"}, gen : Nat, cseq : Nat, frames : Seq(Frame)]
Page == [hpgen : Nat, fgen : Nat, footer : Nat, wpos : Nat, cpos : Nat, cseq : Nat]
Mem == [gen : Nat, hpgen : Nat, cseq : Nat, wpos : Nat, cpos : Nat, pend : Nat, last : Nat,
        foff : Nat, frames : Seq(Frame), cache : Seq(Record), next_id : Nat,
        dirty : BOOLEAN, local : BOOLEAN]
Plan == [frames : Seq(Frame), at : Nat, gen : Nat, cseq : Nat]

-----------------------------------------------------------------------------
(***************************************************************************)
(* The invariant, in parts that speak of a file and not of the state, so   *)
(* that they can be asked of the file before and after a step.             *)
(***************************************************************************)

\* Footers are where their tables of contents are, and the last one in the file
\* is the latest.
FooterIn(d, i) ==
  /\ i \in DOMAIN d
  /\ i > 1
  /\ d[i].kind = "footer"
  /\ d[i - 1] = TocCell(d[i].frames)

IsLatest(d, l) ==
  /\ FooterIn(d, l)
  /\ \A j \in DOMAIN d : d[j].kind = "footer" =>
       /\ j <= l
       /\ FooterIn(d, j)
       /\ j < l => d[j].gen < d[l].gen
  /\ RangesValid(d[l].frames, l)

\* Steps from slot a to slot i in a ring of n slots.
Behind(n, a, i) == IF i >= a THEN i - a ELSE i - a + n

\* What the scan reads of ring rg from slot s, when w is the slot to be written next.
ReadLen(rg, n, s, w) == IF w = s /\ rg[w] # Blank THEN n ELSE Behind(n, s, w)

\* A put behind sequence number c, which names a payload.
Fresh(r, c) == r \in PutRecord /\ r.seq > c /\ r.m.len > 0

Ascending(rg, n, a, k, c) ==
  \A i, j \in 0 .. n - 1 :
    Behind(n, a, i) < Behind(n, a, j) /\ Behind(n, a, j) < k =>
      /\ rg[i].seq < rg[j].seq
      /\ Fresh(rg[i], c) /\ Fresh(rg[j], c) => rg[i].m.off < rg[j].m.off

\* From s to w there are records in sequence, whose payloads are in the file, behind
\* its footer at lo and not behind its end hi.  When slot w is not blank the whole
\* ring is in sequence.
Laid(rg, n, s, w, c, lo, hi) ==
  /\ n \in Nat \ {0}
  /\ rg \in [0 .. n - 1 -> Record \cup {Blank}]
  /\ s \in 0 .. n - 1 /\ w \in 0 .. n - 1
  /\ \A i \in 0 .. n - 1 : Behind(n, s, i) < ReadLen(rg, n, s, w) =>
       /\ rg[i] \in Record
       /\ Fresh(rg[i], c) => lo < rg[i].m.off /\ rg[i].m.off <= hi
  /\ Ascending(rg, n, s, ReadLen(rg, n, s, w), c)
  /\ rg[w] # Blank =>
       \A i, j \in 0 .. n - 1 :
         /\ rg[i] \in Record
         /\ Behind(n, w, i) < Behind(n, w, j) => rg[i].seq < rg[j].seq

\* What a running process knows of the ring: nothing in it is newer than its last
\* record, and its pending records, whose number it keeps, are in sequence.
Known(rg, n, s, m) ==
  /\ \A i \in 0 .. n - 1 :
       /\ Behind(n, s, i) < ReadLen(rg, n, s, m.wpos) => rg[i].seq <= m.last
       /\ rg[m.wpos] # Blank => rg[i].seq <= m.last
  /\ m.cpos \in 0 .. n - 1
  /\ m.pend <= n
  /\ IF m.pend = n THEN m.wpos = m.cpos ELSE Behind(n, m.cpos, m.wpos) = m.pend
  /\ \A i, j \in 0 .. n - 1 : Behind(n, m.cpos, i) < m.pend =>
       /\ rg[i] \in Record
       /\ rg[i].seq <= m.last
       /\ Behind(n, m.cpos, j) < Behind(n, m.cpos, i) => rg[j].seq < rg[i].seq

\* Its pending mutations are those of a store whose latest footer, at lo, has
\* published sequence numbers up to c.
IsCache(cache, c, lo, hi) ==
  /\ \A i \in DOMAIN cache : cache[i].seq > c
  /\ \A i \in DOMAIN cache : Fresh(cache[i], c) => lo < cache[i].m.off /\ cache[i].m.off <= hi
  /\ \A i, j \in DOMAIN cache : i < j /\ Fresh(cache[i], c) /\ Fresh(cache[j], c) =>
       cache[i].m.off < cache[j].m.off

\* Payloads of the records still to be appended are behind all others.
IsTodo(q, rg, n, s, m, c, hi) ==
  \A i \in DOMAIN q : q[i].len > 0 =>
    /\ q[i].off <= hi
    /\ m.foff < q[i].off
    /\ \A j \in DOMAIN q : i < j /\ q[j].len > 0 => q[i].off < q[j].off
    /\ \A j \in 0 .. n - 1 :
         Behind(n, s, j) < ReadLen(rg, n, s, m.wpos) /\ Fresh(rg[j], c) => rg[j].m.off < q[i].off
    /\ \A j \in DOMAIN m.cache : Fresh(m.cache[j], c) => m.cache[j].m.off < q[i].off

-----------------------------------------------------------------------------
Stages == {"down", "closed", "idle", "append"} \cup CommitStages

FileTyped ==
  /\ \E n \in RingSizes : ring \in [0 .. n - 1 -> Record \cup {Blank}]
  /\ data \in Seq(Cell)
  /\ pageA \in Page /\ pageB \in Page

TypeOK ==
  /\ FileTyped
  /\ stage \in Stages
  /\ stage \notin {"down", "closed"} => mem \in Mem
  /\ todo \in Seq(PutMutation)
  /\ stage = "append" <=> todo # <<>>
  /\ stage \in CommitStages => plan \in Plan
  /\ closing \in BOOLEAN /\ failed \in BOOLEAN
  /\ failed => stage = "idle"

LaidAt(w) == Laid(ring, WalSlots, pageA.cpos, w, data[Latest].cseq, Latest, Len(data))

FileInv ==
  /\ IsLatest(data, Latest)
  /\ pageB.hpgen <= pageA.hpgen
  /\ \E w \in Slots : LaidAt(w)

\* The process has seen what the file publishes.
UpToDate ==
  /\ mem.foff = Latest
  /\ mem.gen = data[Latest].gen
  /\ mem.cseq = data[Latest].cseq
  /\ mem.hpgen = pageA.hpgen
  /\ mem.last >= mem.cseq
  /\ IsCache(mem.cache, mem.cseq, mem.foff, Len(data))
  /\ IsTodo(todo, ring, WalSlots, pageA.cpos, mem, mem.cseq, Len(data))

Running == stage \notin {"down", "closed"}

MemInv ==
  /\ LaidAt(mem.wpos)
  /\ Known(ring, WalSlots, pageA.cpos, mem)
  /\ mem.local => mem.dirty
  /\ stage \in {"append", "toc", "footer"} \/ (stage = "idle" /\ ~failed) => UpToDate
  /\ stage = "idle" => UpToDate \/ data[Latest].gen > mem.gen

\* A table of contents is written behind all that the file still needs.
PlanInv ==
  /\ plan.cseq >= mem.last
  /\ plan.gen = mem.gen + 1
  /\ RangesValid(plan.frames, plan.at)
  /\ stage \in {"toc", "footer"} => plan.at > Latest /\ plan.at <= Len(data) + 1
  /\ stage = "footer" =>
       plan.at <= Len(data) /\ data[plan.at] = TocCell(plan.frames)
  /\ stage \notin {"toc", "footer"} =>
       Latest = plan.at + 1 /\ data[Latest] = FooterCell(plan.gen, plan.cseq, plan.frames)
  /\ stage \in {"resize", "pageA"} => mem.hpgen = pageA.hpgen
  /\ stage \in {"pageB", "finish"} => pageA = NewPage(mem.hpgen + 1)

StoreInv ==
  /\ TypeOK
  /\ FileInv
  /\ Running => MemInv
  /\ stage \in CommitStages => PlanInv
-----------------------------------------------------------------------------
(* Around the ring.                                                         *)

\* The slot k steps from s.
At(n, s, k) == IF s + k < n THEN s + k ELSE s + k - n

LEMMA Wraps ==
  ASSUME NEW n \in Nat \ {0}, NEW s \in 0 .. n - 1, NEW k \in 0 .. n
  PROVE  (s + k) % n = At(n, s, k) /\ At(n, s, k) \in 0 .. n - 1
<1>1. CASE s + k < n
  BY <1>1 DEF At
<1>2. CASE ~(s + k < n)
  BY <1>2 DEF At
<1> QED
  BY <1>1, <1>2

LEMMA BehindAt ==
  ASSUME NEW n \in Nat \ {0}, NEW s \in 0 .. n - 1
  PROVE  /\ \A k \in 0 .. n - 1 : Behind(n, s, At(n, s, k)) = k
         /\ \A i \in 0 .. n - 1 : Behind(n, s, i) \in 0 .. n - 1 /\ At(n, s, Behind(n, s, i)) = i
         /\ Behind(n, s, s) = 0
         /\ \A i \in 0 .. n - 1 : Behind(n, s, i) = 0 => i = s
BY DEF Behind, At

LEMMA SlotsOfRing ==
  ASSUME NEW n \in Nat \ {0}, NEW T, ring \in [0 .. n - 1 -> T]
  PROVE  Slots = 0 .. n - 1 /\ WalSlots = n
<1>1. Cardinality(0 .. n - 1) = n
  BY FS_Interval
<1> QED
  BY <1>1 DEF Slots, WalSlots


LEMMA RecordNotBlank == \A r \in Record : r # Blank
<1> SUFFICES ASSUME NEW r \in Record
             PROVE  r # Blank
  OBVIOUS
<1>1. "seq" \in DOMAIN r
  BY DEF Record
<1>2. DOMAIN Blank = {}
  BY DEF Blank
<1> QED
  BY <1>1, <1>2

LEMMA ReadLenTyped ==
  ASSUME NEW rg, NEW n \in Nat \ {0}, NEW s \in 0 .. n - 1, NEW w \in 0 .. n - 1
  PROVE  ReadLen(rg, n, s, w) \in 0 .. n /\ At(n, s, ReadLen(rg, n, s, w)) = w
BY DEF ReadLen, Behind, At

\* The scan stops where the ring's next slot is, or after one round.
LEMMA ScanReads ==
  ASSUME NEW n, n = WalSlots, NEW s, NEW w, NEW c, NEW lo, NEW hi,
         Laid(ring, n, s, w, c, lo, hi)
  PROVE  ReadRing(s) = [i \in 1 .. ReadLen(ring, n, s, w) |-> ring[At(n, s, i - 1)]]
<1> DEFINE R == ReadLen(ring, n, s, w)
<1>1. n \in Nat \ {0} /\ s \in 0 .. n - 1 /\ w \in 0 .. n - 1
  BY DEF Laid
<1>2. R \in 0 .. n /\ At(n, s, R) = w
  BY <1>1, ReadLenTyped
<1> USE <1>1
<1> HIDE DEF R
<1>3. \A k \in 0 .. n : Slot(s, k) = ring[At(n, s, k)] /\ At(n, s, k) \in 0 .. n - 1
  BY <1>1, Wraps DEF Slot
<1>4. \A k \in 0 .. n - 1 : Behind(n, s, At(n, s, k)) = k
  BY <1>1, BehindAt
<1>5. ASSUME NEW k \in 0 .. R - 1
      PROVE  Follows(s, k)
  <2>1. k \in 0 .. n - 1 /\ k < R
    BY <1>2
  <2>2. ring[At(n, s, k)] \in Record
    BY <1>3, <1>4, <2>1 DEF Laid, R
  <2>3. ASSUME k > 0
        PROVE  ring[At(n, s, k - 1)].seq < ring[At(n, s, k)].seq
    <3>1. k - 1 \in 0 .. n - 1 /\ k - 1 < k
      BY <2>1, <2>3
    <3>2. Ascending(ring, n, s, R, c)
      BY DEF Laid, R
    <3> QED
      BY <1>3, <1>4, <2>1, <3>1, <3>2 DEF Ascending
  <2>4. k > 0 => ring[At(n, s, k - 1)] \in Record
    <3> SUFFICES ASSUME k > 0
                 PROVE  ring[At(n, s, k - 1)] \in Record
      OBVIOUS
    <3>1. k - 1 \in 0 .. n - 1 /\ k - 1 < R
      BY <1>2, <2>1
    <3> QED
      BY <1>3, <1>4, <3>1 DEF Laid, R
  <2>5. k > 0 => Slot(s, k).seq > Slot(s, k - 1).seq
    <3> SUFFICES ASSUME k > 0
                 PROVE  Slot(s, k).seq > Slot(s, k - 1).seq
      OBVIOUS
    <3>1. k - 1 \in 0 .. n
      BY <2>1
    <3>2. Slot(s, k) = ring[At(n, s, k)] /\ Slot(s, k - 1) = ring[At(n, s, k - 1)]
      BY <1>3, <2>1, <3>1
    <3>3. Slot(s, k).seq \in Nat /\ Slot(s, k - 1).seq \in Nat
      BY <2>2, <2>4, <3>2 DEF Record
    <3> QED
      BY <2>3, <3>2, <3>3
  <2>6. Slot(s, k) # Blank
    BY <1>3, <2>1, <2>2, RecordNotBlank
  <2> QED
    BY <2>5, <2>6 DEF Follows
<1>6. ASSUME R # n
      PROVE  ~Follows(s, R)
  <2>1. CASE ring[w] = Blank
    BY <1>2, <1>3, <2>1 DEF Follows
  <2>2. CASE ring[w] # Blank
    <3>1. w # s /\ R > 0
      BY <1>1, <1>2, <1>6, <2>2 DEF ReadLen, Behind, R
    <3>2. R - 1 \in 0 .. n - 1 /\ R - 1 < R /\ R - 1 \in 0 .. n /\ R \in 0 .. n
      BY <1>2, <3>1
    <3> DEFINE l == At(n, s, R - 1)
    <3>3. l \in 0 .. n - 1 /\ l # w
      <4>1. Behind(n, s, l) = R - 1 /\ l \in 0 .. n - 1
        BY <1>3, <1>4, <3>2
      <4>2. Behind(n, s, w) = R
        BY <1>6, <2>2, <3>1 DEF ReadLen, R
      <4> QED
        BY <3>2, <4>1, <4>2
    <3>4. Behind(n, w, w) < Behind(n, w, l)
      BY <1>1, <3>3, BehindAt
    <3>5. ring[w] \in Record /\ ring[l] \in Record /\ ring[w].seq < ring[l].seq
      BY <1>1, <2>2, <3>3, <3>4 DEF Laid
    <3>6. Slot(s, R) = ring[w] /\ Slot(s, R - 1) = ring[l]
      BY <1>2, <1>3, <3>2
    <3>7. ~(ring[w].seq > ring[l].seq)
      BY <3>5 DEF Record
    <3> QED
      BY <3>1, <3>6, <3>7 DEF Follows
  <2> QED
    BY <2>1, <2>2
<1> DEFINE Ends(k) == /\ \A j \in 0 .. k - 1 : Follows(s, j)
                      /\ k = WalSlots \/ ~Follows(s, k)
<1>7. Ends(R)
  BY <1>5, <1>6
<1>8. \A k \in 0 .. n : Ends(k) => k = R
  <2> SUFFICES ASSUME NEW k \in 0 .. n, Ends(k)
               PROVE  k = R
    OBVIOUS
  <2>1. CASE k < R
    <3>1. k \in 0 .. R - 1 /\ k # n
      BY <1>2, <2>1
    <3> QED
      BY <1>5, <3>1
  <2>2. CASE k > R
    <3>1. R \in 0 .. k - 1 /\ R # n
      BY <1>2, <2>2
    <3> QED
      BY <1>6, <3>1
  <2> QED
    BY <1>2, <2>1, <2>2
<1>9. (CHOOSE k \in 0 .. WalSlots : Ends(k)) = R
  <2> HIDE DEF Ends
  <2> QED
    BY <1>2, <1>7, <1>8
<1>10. ReadRing(s) = [i \in 1 .. R |-> Slot(s, i - 1)]
  BY <1>9 DEF ReadRing
<1>11. \A i \in 1 .. R : Slot(s, i - 1) = ring[At(n, s, i - 1)]
  <2> TAKE i \in 1 .. R
  <2>1. i - 1 \in 0 .. n
    BY <1>2
  <2> QED
    BY <1>3, <2>1
<1>12. ReadRing(s) = [i \in 1 .. R |-> ring[At(n, s, i - 1)]]
  BY <1>10, <1>11
<1> QED
  BY <1>12 DEF R


-----------------------------------------------------------------------------
(* What LoadState makes of a file.                                          *)

LEMMA OnceIs == ASSUME NEW x PROVE Once({x}) = x
BY DEF Once

LEMMA SeqBounded ==
  ASSUME NEW q \in Seq(Nat)
  PROVE  \E b \in Nat : \A i \in DOMAIN q : q[i] <= b
<1> DEFINE Under(k, b) == \A i \in 1 .. k : q[i] <= b
           U == {k \in Nat : k <= Len(q) => \E b \in Nat : Under(k, b)}
<1>1. 0 \in U
  OBVIOUS
<1>2. ASSUME NEW k \in Nat, k \in U
      PROVE  k + 1 \in U
  <2> SUFFICES ASSUME k + 1 <= Len(q)
               PROVE  \E b \in Nat : Under(k + 1, b)
    OBVIOUS
  <2>1. PICK b \in Nat : Under(k, b)
    BY <1>2
  <2>2. q[k + 1] \in Nat
    OBVIOUS
  <2>3. PICK a \in Nat : a >= b /\ a >= q[k + 1]
    BY <2>1, <2>2
  <2>4. ASSUME NEW i \in 1 .. k + 1
        PROVE  q[i] <= a
    <3>1. q[i] \in Nat
      OBVIOUS
    <3>2. CASE i = k + 1
      BY <2>3, <3>2
    <3>3. CASE i \in 1 .. k
      BY <2>1, <2>3, <3>1, <3>3
    <3> QED
      BY <3>2, <3>3
  <2> QED
    BY <2>4
<1>3. Nat \subseteq U
  <2> HIDE DEF U
  <2> QED
    BY <1>1, <1>2, SetInduction
<1>4. Len(q) \in Nat /\ Len(q) <= Len(q) /\ DOMAIN q = 1 .. Len(q)
  OBVIOUS
<1>5. \E b \in Nat : Under(Len(q), b)
  <2>1. Len(q) \in U
    <3> HIDE DEF U
    <3> QED
      BY <1>3, <1>4
  <2> QED
    BY <1>4, <2>1
<1> QED
  BY <1>4, <1>5

LEMMA RecordHas ==
  ASSUME NEW r \in Record
  PROVE  /\ r.seq \in Nat /\ r.m \in Mutation /\ r.m.id \in Nat
         /\ r \in PutRecord <=> r.m \in PutMutation
         /\ r \in PutRecord => r.m.len \in Nat /\ r.m.off \in Nat
BY DEF Record, Mutation, PutMutation, PutRecord

LEMMA NextIdTyped ==
  ASSUME NEW T, NEW fs \in Seq(T), NEW records \in Seq(Record)
  PROVE  NextId(fs, records) \in Nat
<1> DEFINE q == [i \in 1 .. Len(records) |-> records[i].m.id + 1]
           ids == {Len(fs)} \cup {m.id + 1 : m \in Puts(records)}
<1>1. \A i \in 1 .. Len(records) : records[i].m.id + 1 \in Nat
  BY RecordHas
<1>2. q \in Seq(Nat)
  BY <1>1
<1>3. PICK b \in Nat : \A i \in DOMAIN q : q[i] <= b
  BY <1>2, SeqBounded
<1>4. ASSUME NEW m \in Puts(records)
      PROVE  m.id + 1 \in 0 .. b
  <2>1. PICK i \in DOMAIN records : m = records[i].m
    BY DEF Puts, ToSet
  <2> QED
    BY <1>1, <1>3, <2>1
<1>5. PICK a \in Nat : b <= a /\ Len(fs) <= a
  OBVIOUS
<1>6. ids \subseteq 0 .. a
  BY <1>4, <1>5
<1> HIDE DEF ids
<1>7. ids # {}
  BY DEF ids
<1>8. Max(ids) \in ids
  BY <1>6, <1>7, MaxExists
<1>9. Max(ids) \in Nat
  <2>1. \A x \in ids : x \in Nat
    BY <1>6
  <2> QED
    BY <1>8, <2>1
<1> QED
  BY <1>9 DEF NextId, ids

\* The records the scan reads, in order.
ReadFrom(rg, n, s, w) == [i \in 1 .. ReadLen(rg, n, s, w) |-> rg[At(n, s, i - 1)]]

IsRead(read, rg, n, s, R, c) ==
  /\ read \in Seq(Record)
  /\ Len(read) = R
  /\ \A i \in DOMAIN read : \E k \in 0 .. n - 1 : Behind(n, s, k) < R /\ read[i] = rg[k]
  /\ \A k \in 0 .. n - 1 : Behind(n, s, k) < R => \E i \in DOMAIN read : read[i] = rg[k]
  /\ \A i, j \in DOMAIN read : i < j =>
       /\ read[i].seq < read[j].seq
       /\ Fresh(read[i], c) /\ Fresh(read[j], c) => read[i].m.off < read[j].m.off

LEMMA ReadFacts ==
  ASSUME NEW rg, NEW n, NEW s, NEW w, NEW c \in Nat, NEW lo, NEW hi, Laid(rg, n, s, w, c, lo, hi),
         NEW read, read = ReadFrom(rg, n, s, w)
  PROVE  IsRead(read, rg, n, s, ReadLen(rg, n, s, w), c)
<1> DEFINE R == ReadLen(rg, n, s, w)
<1>1. n \in Nat \ {0} /\ s \in 0 .. n - 1 /\ w \in 0 .. n - 1
  BY DEF Laid
<1>2. R \in 0 .. n
  BY <1>1, ReadLenTyped
<1>3. /\ \A k \in 0 .. n - 1 : rg[k] \in Record \/ ~(Behind(n, s, k) < R)
      /\ Ascending(rg, n, s, R, c)
  BY DEF Laid
<1> USE <1>1
<1> HIDE DEF R
<1>4. \A i \in 1 .. R : /\ read[i] = rg[At(n, s, i - 1)]
                        /\ At(n, s, i - 1) \in 0 .. n - 1
                        /\ Behind(n, s, At(n, s, i - 1)) = i - 1
  <2> TAKE i \in 1 .. R
  <2>1. i - 1 \in 0 .. n - 1 /\ i - 1 \in 0 .. n
    BY <1>2
  <2>2. read[i] = rg[At(n, s, i - 1)]
    BY DEF ReadFrom, R
  <2> QED
    BY <2>1, <2>2, Wraps, BehindAt
<1>5. \A i \in 1 .. R : Behind(n, s, At(n, s, i - 1)) < R /\ read[i] \in Record
  BY <1>2, <1>3, <1>4
<1>6. DOMAIN read = 1 .. R /\ read = [i \in 1 .. R |-> read[i]]
  BY DEF ReadFrom, R
<1>7. read \in Seq(Record) /\ Len(read) = R
  <2>1. read \in [1 .. R -> Record]
    BY <1>5, <1>6
  <2> QED
    BY <1>2, <2>1
<1>8. \A i \in DOMAIN read : \E k \in 0 .. n - 1 : Behind(n, s, k) < R /\ read[i] = rg[k]
  BY <1>4, <1>5, <1>6
<1>9. ASSUME NEW k \in 0 .. n - 1, Behind(n, s, k) < R
      PROVE  \E i \in DOMAIN read : read[i] = rg[k]
  <2> DEFINE i == Behind(n, s, k) + 1
  <2>1. Behind(n, s, k) \in 0 .. n - 1 /\ At(n, s, Behind(n, s, k)) = k
    BY BehindAt
  <2>2. i \in 1 .. R /\ i - 1 = Behind(n, s, k)
    BY <1>2, <1>9, <2>1
  <2>3. read[i] = rg[k]
    BY <1>4, <2>1, <2>2
  <2> QED
    BY <1>6, <2>2, <2>3
<1>10. ASSUME NEW i \in 1 .. R, NEW j \in 1 .. R, i < j
       PROVE  /\ read[i].seq < read[j].seq
              /\ Fresh(read[i], c) /\ Fresh(read[j], c) => read[i].m.off < read[j].m.off
  <2>1. Behind(n, s, At(n, s, i - 1)) < Behind(n, s, At(n, s, j - 1))
    <3>1. Behind(n, s, At(n, s, i - 1)) = i - 1 /\ Behind(n, s, At(n, s, j - 1)) = j - 1
      BY <1>4
    <3> QED
      BY <1>2, <1>10, <3>1
  <2> QED
    BY <1>3, <1>4, <1>5, <2>1 DEF Ascending
<1> QED
  BY <1>6, <1>7, <1>8, <1>9, <1>10 DEF R, IsRead


Newer(read, c) == Only(read, {r \in ToSet(read) : r.seq > c})

\* All of the ring's records from s on, R in number, that are newer than c are in q.
HoldsNewer(q, rg, n, s, R, c) ==
  \A k \in 0 .. n - 1 :
    Behind(n, s, k) < R /\ rg[k].seq > c => \E i \in DOMAIN q : q[i] = rg[k]

\* What is in q was read there.
FromRing(q, rg, n, s, R) ==
  \A i \in DOMAIN q : \E k \in 0 .. n - 1 : Behind(n, s, k) < R /\ q[i] = rg[k]

\* Behind the footer's sequence number the scan finds the pending mutations of a store.
LEMMA NewerFacts ==
  ASSUME NEW rg, NEW n, NEW s, NEW w, NEW c \in Nat, NEW lo, NEW hi, Laid(rg, n, s, w, c, lo, hi),
         NEW read, read = ReadFrom(rg, n, s, w)
  PROVE  /\ Newer(read, c) \in Seq(Record)
         /\ IsCache(Newer(read, c), c, lo, hi)
         /\ HoldsNewer(Newer(read, c), rg, n, s, ReadLen(rg, n, s, w), c)
         /\ FromRing(Newer(read, c), rg, n, s, ReadLen(rg, n, s, w))
<1> DEFINE new == Newer(read, c)
           S == {r \in ToSet(read) : r.seq > c}
           R == ReadLen(rg, n, s, w)
<1>1. /\ read \in Seq(Record)
      /\ \A i \in DOMAIN read :
           \E k \in 0 .. n - 1 : Behind(n, s, k) < R /\ read[i] = rg[k]
      /\ \A k \in 0 .. n - 1 : Behind(n, s, k) < R => \E i \in DOMAIN read : read[i] = rg[k]
      /\ \A i, j \in DOMAIN read : i < j =>
           /\ read[i].seq < read[j].seq
           /\ Fresh(read[i], c) /\ Fresh(read[j], c) => read[i].m.off < read[j].m.off
  <2>1. IsRead(read, rg, n, s, ReadLen(rg, n, s, w), c)
    BY ReadFacts, Zenon
  <2> QED
    BY <2>1 DEF IsRead
<1>2. \A k \in 0 .. n - 1 : Behind(n, s, k) < R /\ Fresh(rg[k], c) =>
        lo < rg[k].m.off /\ rg[k].m.off <= hi
  BY DEF Laid
<1> HIDE DEF R
<1>3. new \in Seq(Record) /\ \E at : Places(at, new, read, S, Len(read))
  <2> HIDE DEF S
  <2>1. new = Only(read, S)
    BY DEF Newer, S
  <2> QED
    BY <1>1, <2>1, OnlyElements
<1>4. DOMAIN new = 1 .. Len(new) /\ DOMAIN read = 1 .. Len(read)
  BY <1>1, <1>3
<1>5. PICK at : Places(at, new, read, S, Len(read))
  BY <1>3
<1> HIDE DEF new
<1>6. \A i \in DOMAIN new : at[i] \in DOMAIN read /\ new[i] = read[at[i]] /\ new[i].seq > c
  BY <1>4, <1>5 DEF Places
<1>7. \A i, j \in DOMAIN new : i < j => at[i] < at[j]
  BY <1>4, <1>5 DEF Places
<1>8. ASSUME NEW j \in DOMAIN read, read[j].seq > c
      PROVE  \E i \in DOMAIN new : new[i] = read[j]
  <2>1. read[j] \in S
    BY <1>8 DEF ToSet
  <2>2. \E i \in 1 .. Len(new) : at[i] = j
    BY <1>4, <1>5, <2>1 DEF Places
  <2> QED
    BY <1>4, <1>6, <2>2
<1>9. IsCache(new, c, lo, hi)
  <2>1. \A i \in DOMAIN new : new[i].seq > c
    BY <1>6
  <2>2. ASSUME NEW i \in DOMAIN new, Fresh(new[i], c)
        PROVE  lo < new[i].m.off /\ new[i].m.off <= hi
    <3>1. PICK k \in 0 .. n - 1 : Behind(n, s, k) < R /\ new[i] = rg[k]
      BY <1>1, <1>6
    <3> QED
      BY <1>2, <2>2, <3>1
  <2>3. ASSUME NEW i \in DOMAIN new, NEW j \in DOMAIN new, i < j,
               Fresh(new[i], c), Fresh(new[j], c)
        PROVE  new[i].m.off < new[j].m.off
    BY <1>1, <1>6, <1>7, <2>3
  <2> QED
    BY <2>1, <2>2, <2>3 DEF IsCache
<1>10. ASSUME NEW k \in 0 .. n - 1, Behind(n, s, k) < R, rg[k].seq > c
       PROVE  \E i \in DOMAIN new : new[i] = rg[k]
  <2>1. PICK j \in DOMAIN read : read[j] = rg[k]
    BY <1>1, <1>10
  <2> QED
    BY <1>8, <1>10, <2>1
<1>11. FromRing(new, rg, n, s, R)
  <2>1. ASSUME NEW i \in DOMAIN new
        PROVE  \E k \in 0 .. n - 1 : Behind(n, s, k) < R /\ new[i] = rg[k]
    <3>1. at[i] \in DOMAIN read /\ new[i] = read[at[i]]
      BY <1>6
    <3>2. PICK k \in 0 .. n - 1 : Behind(n, s, k) < R /\ read[at[i]] = rg[k]
      BY <1>1, <3>1
    <3> QED
      BY <3>1, <3>2
  <2> HIDE DEF new
  <2> QED
    BY <2>1, Zenon DEF FromRing
<1>12. HoldsNewer(new, rg, n, s, R, c)
  BY <1>10 DEF HoldsNewer
<1> QED
  BY <1>3, <1>9, <1>11, <1>12 DEF new, R

\* The last record read is the newest one of the ring, if the scan stops in a full ring.
LEMMA LastIsNewest ==
  ASSUME NEW rg, NEW n, NEW s, NEW w, NEW c \in Nat, NEW lo, NEW hi, Laid(rg, n, s, w, c, lo, hi),
         NEW read, read = ReadFrom(rg, n, s, w)
  PROVE  /\ \A k \in 0 .. n - 1 : Behind(n, s, k) < ReadLen(rg, n, s, w) =>
              /\ read # <<>>
              /\ rg[k].seq <= Last(read).seq
         /\ \A k \in 0 .. n - 1 : rg[w] # Blank =>
              /\ read # <<>>
              /\ rg[k].seq <= Last(read).seq
         /\ read # <<>> => Last(read) \in Record
<1> DEFINE R == ReadLen(rg, n, s, w)
<1>1. n \in Nat \ {0} /\ s \in 0 .. n - 1 /\ w \in 0 .. n - 1
  BY DEF Laid
<1> USE <1>1
<1>2. /\ read \in Seq(Record)
      /\ Len(read) = R
      /\ \A k \in 0 .. n - 1 : Behind(n, s, k) < R => \E i \in DOMAIN read : read[i] = rg[k]
      /\ \A i, j \in DOMAIN read : i < j => read[i].seq < read[j].seq
  <2>1. IsRead(read, rg, n, s, ReadLen(rg, n, s, w), c)
    BY ReadFacts, Zenon
  <2> QED
    BY <2>1 DEF IsRead
<1>3. R \in 0 .. n /\ At(n, s, R) = w
  BY ReadLenTyped
<1>4. DOMAIN read = 1 .. R
  BY <1>2
<1>5. \A i \in DOMAIN read : read[i] \in Record /\ read[i].seq \in Nat
  BY <1>2, RecordHas
<1>6. read # <<>> => R \in DOMAIN read /\ Last(read) = read[R]
  BY <1>2, <1>4 DEF Last
<1>7. ASSUME NEW k \in 0 .. n - 1, Behind(n, s, k) < R
      PROVE  read # <<>> /\ rg[k].seq <= Last(read).seq
  <2>1. PICK i \in DOMAIN read : read[i] = rg[k]
    BY <1>2, <1>7
  <2>2. read # <<>> /\ R \in DOMAIN read /\ Last(read) = read[R]
    BY <1>6, <2>1
  <2>3. i = R \/ read[i].seq < read[R].seq
    BY <1>2, <1>4, <2>1, <2>2
  <2> QED
    BY <1>5, <2>1, <2>2, <2>3
<1>8. ASSUME NEW k \in 0 .. n - 1, rg[w] # Blank
      PROVE  read # <<>> /\ rg[k].seq <= Last(read).seq
  <2> DEFINE l == IF w = 0 THEN n - 1 ELSE w - 1
  <2>1. l \in 0 .. n - 1 /\ Behind(n, w, l) = n - 1
    BY DEF Behind
  <2>2. Behind(n, s, l) < R
    BY <1>8 DEF Behind, ReadLen
  <2>3. read # <<>> /\ rg[l].seq <= Last(read).seq
    BY <1>7, <2>1, <2>2
  <2>4. k = l \/ Behind(n, w, k) < Behind(n, w, l)
    BY <2>1 DEF Behind
  <2>5. k = l \/ rg[k].seq < rg[l].seq
    BY <1>8, <2>1, <2>4 DEF Laid
  <2>6. rg[k].seq \in Nat /\ rg[l].seq \in Nat /\ Last(read).seq \in Nat
    BY <1>5, <1>6, <1>8, <2>1, <2>3, RecordHas DEF Laid
  <2> QED
    BY <2>3, <2>5, <2>6
<1>9. read # <<>> => Last(read) \in Record
  BY <1>5, <1>6
<1> QED
  BY <1>7, <1>8, <1>9


LEMMA RingFacts ==
  ASSUME FileTyped
  PROVE  /\ WalSlots \in RingSizes /\ WalSlots \in Nat \ {0} /\ Slots = 0 .. WalSlots - 1
         /\ ring \in [0 .. WalSlots - 1 -> Record \cup {Blank}]
<1>1. PICK n \in RingSizes : ring \in [0 .. n - 1 -> Record \cup {Blank}]
  BY DEF FileTyped
<1>2. n \in Nat \ {0}
  BY StoreAssumption
<1>3. Slots = 0 .. n - 1 /\ WalSlots = n
  BY <1>1, <1>2, SlotsOfRing
<1> QED
  BY <1>1, <1>2, <1>3

\* What a process knows of a file it has just read, when w is the ring's next slot.
IsReopened(m, w) ==
  /\ m \in Mem
  /\ m.foff = Latest
  /\ m.gen = data[Latest].gen
  /\ m.hpgen = pageA.hpgen
  /\ m.cseq = data[Latest].cseq
  /\ m.frames = data[Latest].frames
  /\ m.wpos = w
  /\ m.last >= m.cseq
  /\ ~m.local
  /\ Known(ring, WalSlots, pageA.cpos, m)
  /\ IsCache(m.cache, m.cseq, Latest, Len(data))
  /\ HoldsNewer(m.cache, ring, WalSlots, pageA.cpos, ReadLen(ring, WalSlots, pageA.cpos, w),
                 m.cseq)
  /\ FromRing(m.cache, ring, WalSlots, pageA.cpos, ReadLen(ring, WalSlots, pageA.cpos, w))

LEMMA FooterTyped ==
  ASSUME data \in Seq(Cell), NEW l, IsLatest(data, l)
  PROVE  /\ l \in Nat /\ l \in 1 .. Len(data)
         /\ data[l].gen \in Nat /\ data[l].cseq \in Nat /\ data[l].frames \in Seq(Frame)
<1>1. l \in 1 .. Len(data) /\ data[l] \in Cell /\ data[l].kind = "footer"
  BY DEF IsLatest, FooterIn
<1> QED
  BY <1>1 DEF Cell

\* What LoadState makes of the members, when it has read the records of read.
LoadedFrom(read, w) ==
  LET c == data[Latest].cseq
      last == IF read = <<>> THEN 0 ELSE Last(read).seq
      newer == last > c
      found == Newer(read, c)
  IN  [gen |-> data[Latest].gen, hpgen |-> pageA.hpgen, cseq |-> c, wpos |-> w,
       cpos |-> IF newer THEN pageA.cpos ELSE w,
       pend |-> IF newer THEN ReadLen(ring, WalSlots, pageA.cpos, w) ELSE 0,
       last |-> IF newer THEN last ELSE c, foff |-> Latest, frames |-> data[Latest].frames,
       cache |-> found, next_id |-> NextId(data[Latest].frames, found),
       dirty |-> newer, local |-> FALSE]

LEMMA LoadedForm ==
  ASSUME FileTyped, IsLatest(data, Latest), pageB.hpgen <= pageA.hpgen, NEW w, LaidAt(w)
  PROVE  Loaded = LoadedFrom(ReadFrom(ring, WalSlots, pageA.cpos, w), w)
<1> DEFINE n == WalSlots
           s == pageA.cpos
           f == Latest
           c == data[f].cseq
           read == ReadFrom(ring, n, s, w)
           last == IF read = <<>> THEN 0 ELSE Last(read).seq
           found == Newer(read, c)
           R == ReadLen(ring, n, s, w)
           newer == last > c
           m == Loaded
<1>1. n \in Nat \ {0} /\ Slots = 0 .. n - 1
  BY RingFacts
<1>2. Laid(ring, n, s, w, c, f, Len(data)) /\ s \in 0 .. n - 1 /\ w \in 0 .. n - 1
  BY DEF LaidAt, Laid
<1>3. c \in Nat /\ f \in Nat /\ data[f].gen \in Nat /\ data[f].frames \in Seq(Frame)
  BY FooterTyped DEF FileTyped
<1>4. Selected = pageA
  BY DEF FileTyped, Page, Selected
<1>5. ReadRing(s) = read
  BY <1>2, ScanReads DEF ReadFrom
<1> HIDE DEF n, s, f, c, read, last, found, R, newer, m
<1>6. IsRead(read, ring, n, s, R, c)
  BY <1>2, <1>3, ReadFacts, Zenon DEF read, R
<1>7. Len(read) = R /\ R \in 0 .. n /\ At(n, s, R) = w /\ (s + R) % n = w
  <2>1. Len(read) = R
    BY <1>6 DEF IsRead
  <2>2. R \in 0 .. n /\ At(n, s, R) = w
    BY <1>1, <1>2, ReadLenTyped DEF R
  <2> QED
    BY <1>1, <1>2, <2>1, <2>2, Wraps
<1>8. ScanRing(s, c) = [n |-> R, last |-> last, found |-> found]
  <2> DEFINE Scan(x) == [n |-> Len(x), last |-> IF x = <<>> THEN 0 ELSE Last(x).seq,
                         found |-> Only(x, {r \in ToSet(x) : r.seq > c})]
  <2>1. ScanRing(s, c) = Once({Scan(x) : x \in {read}})
    BY <1>5 DEF ScanRing
  <2>2. Scan(read) = [n |-> R, last |-> last, found |-> found]
    BY <1>7 DEF last, found, Newer
  <2> HIDE DEF Scan
  <2>3. {Scan(x) : x \in {read}} = {Scan(read)}
    OBVIOUS
  <2> QED
    BY <2>1, <2>2, <2>3, OnceIs
<1> DEFINE scan == [n |-> R, last |-> last, found |-> found]
<1>9. m = Rebuilt(f, scan)
  <2> DEFINE From(g) == Once({Rebuilt(g, x) : x \in {ScanRing(Selected.cpos, data[g].cseq)}})
  <2>1. m = Once({From(g) : g \in {f}})
    BY DEF Loaded, m, f
  <2>2. From(f) = Once({Rebuilt(f, x) : x \in {scan}})
    BY <1>4, <1>8 DEF s, c
  <2> HIDE DEF From, scan
  <2>3. {From(g) : g \in {f}} = {From(f)} /\ {Rebuilt(f, x) : x \in {scan}} = {Rebuilt(f, scan)}
    OBVIOUS
  <2> QED
    BY <2>1, <2>2, <2>3, OnceIs
<1>10. m = [gen |-> data[f].gen, hpgen |-> pageA.hpgen, cseq |-> c, wpos |-> w,
            cpos |-> IF newer THEN s ELSE w, pend |-> IF newer THEN R ELSE 0,
            last |-> IF newer THEN last ELSE c, foff |-> f, frames |-> data[f].frames,
            cache |-> found, next_id |-> NextId(data[f].frames, found),
            dirty |-> newer, local |-> FALSE]
  <2>1. pageA.cpos = s
    BY DEF s
  <2> QED
    BY <1>4, <1>7, <1>9, <2>1 DEF Rebuilt, newer, c, n
<1> QED
  BY <1>10 DEF LoadedFrom, n, s, f, c, read, last, found, R, newer, m

LEMMA LoadedFacts ==
  ASSUME FileTyped, IsLatest(data, Latest), pageB.hpgen <= pageA.hpgen, NEW w, LaidAt(w)
  PROVE  IsReopened(Loaded, w)
<1> DEFINE n == WalSlots
           s == pageA.cpos
           f == Latest
           c == data[f].cseq
           read == ReadFrom(ring, n, s, w)
           last == IF read = <<>> THEN 0 ELSE Last(read).seq
           found == Newer(read, c)
           R == ReadLen(ring, n, s, w)
           newer == last > c
           m == Loaded
<1>1. n \in Nat \ {0} /\ Slots = 0 .. n - 1
  BY RingFacts
<1>2. Laid(ring, n, s, w, c, f, Len(data)) /\ s \in 0 .. n - 1 /\ w \in 0 .. n - 1
  BY DEF LaidAt, Laid
<1>3. c \in Nat /\ f \in Nat /\ data[f].gen \in Nat /\ data[f].frames \in Seq(Frame)
  BY FooterTyped DEF FileTyped
<1> HIDE DEF n, s, f, c, read, last, found, R, newer, m
<1>6. IsRead(read, ring, n, s, R, c)
  BY <1>2, <1>3, ReadFacts, Zenon DEF read, R
<1>7. Len(read) = R /\ R \in 0 .. n /\ At(n, s, R) = w /\ (s + R) % n = w
  <2>1. Len(read) = R
    BY <1>6 DEF IsRead
  <2>2. R \in 0 .. n /\ At(n, s, R) = w
    BY <1>1, <1>2, ReadLenTyped DEF R
  <2> QED
    BY <1>1, <1>2, <2>1, <2>2, Wraps
<1>10. found \in Seq(Record) /\ IsCache(found, c, f, Len(data)) /\ HoldsNewer(found, ring, n, s, R, c)
      /\ FromRing(found, ring, n, s, R)
  BY <1>2, <1>3, NewerFacts DEF found, read, R
<1>11. /\ \A k \in 0 .. n - 1 : Behind(n, s, k) < R => read # <<>> /\ ring[k].seq <= Last(read).seq
       /\ \A k \in 0 .. n - 1 : ring[w] # Blank => read # <<>> /\ ring[k].seq <= Last(read).seq
       /\ read # <<>> => Last(read) \in Record
  BY <1>2, <1>3, LastIsNewest DEF read, R
<1>12. last \in Nat
  BY <1>11, RecordHas DEF last
<1>13. NextId(data[f].frames, found) \in Nat
  BY <1>3, <1>10, NextIdTyped
<1>14. pageA.hpgen \in Nat /\ pageA.cpos = s
  BY DEF FileTyped, Page, s
<1>15. m = [gen |-> data[f].gen, hpgen |-> pageA.hpgen, cseq |-> c, wpos |-> w,
            cpos |-> IF newer THEN s ELSE w, pend |-> IF newer THEN R ELSE 0,
            last |-> IF newer THEN last ELSE c, foff |-> f, frames |-> data[f].frames,
            cache |-> found, next_id |-> NextId(data[f].frames, found),
            dirty |-> newer, local |-> FALSE]
  BY LoadedForm DEF LoadedFrom, n, s, f, c, read, last, found, R, newer, m
<1>16. m \in Mem
  BY <1>1, <1>2, <1>3, <1>7, <1>10, <1>12, <1>13, <1>14, <1>15 DEF Mem, newer
<1>17. Known(ring, n, s, m)
  <2>1. m.wpos = w /\ m.cpos = (IF newer THEN s ELSE w) /\ m.pend = (IF newer THEN R ELSE 0)
        /\ m.last = (IF newer THEN last ELSE c)
    BY <1>15
  <2>2. last <= m.last /\ m.last \in Nat
    BY <1>3, <1>12, <2>1 DEF newer
  <2>3. \A k \in 0 .. n - 1 :
          Behind(n, s, k) < R \/ ring[w] # Blank => ring[k] \in Record /\ ring[k].seq <= m.last
    <3> SUFFICES ASSUME NEW k \in 0 .. n - 1, Behind(n, s, k) < R \/ ring[w] # Blank
                 PROVE  ring[k] \in Record /\ ring[k].seq <= m.last
      OBVIOUS
    <3>1. ring[k] \in Record
      BY <1>2 DEF Laid, R
    <3>2. ring[k].seq <= last
      BY <1>11 DEF last
    <3>3. ring[k].seq \in Nat
      BY <3>1, RecordHas
    <3> QED
      BY <1>12, <2>2, <3>1, <3>2, <3>3
  <2>4. m.cpos \in 0 .. n - 1 /\ m.pend <= n
    BY <1>1, <1>2, <1>7, <2>1
  <2>5. IF m.pend = n THEN m.wpos = m.cpos ELSE Behind(n, m.cpos, m.wpos) = m.pend
    <3>1. CASE newer
      <4>1. CASE R = n
        BY <1>1, <1>2, <1>7, <2>1, <3>1, <4>1 DEF At
      <4>2. CASE R # n
        BY <2>1, <3>1, <4>2 DEF R, ReadLen
      <4> QED
        BY <4>1, <4>2
    <3>2. CASE ~newer
      BY <1>1, <1>2, <2>1, <3>2, BehindAt
    <3> QED
      BY <3>1, <3>2
  <2>6. ASSUME NEW i \in 0 .. n - 1, NEW j \in 0 .. n - 1, Behind(n, m.cpos, i) < m.pend
        PROVE  /\ ring[i] \in Record
               /\ ring[i].seq <= m.last
               /\ Behind(n, m.cpos, j) < Behind(n, m.cpos, i) => ring[j].seq < ring[i].seq
    <3>1. newer /\ Behind(n, s, i) < R /\ m.cpos = s
      <4>1. Behind(n, m.cpos, i) \in 0 .. n - 1
        BY <1>1, <2>4, BehindAt
      <4> QED
        BY <2>1, <2>6, <4>1
    <3>2. Ascending(ring, n, s, R, c)
      BY <1>2 DEF Laid, R
    <3> QED
      BY <2>3, <3>1, <3>2 DEF Ascending
  <2> QED
    BY <2>1, <2>3, <2>4, <2>5, <2>6 DEF Known, R
<1> QED
  BY <1>1, <1>3, <1>10, <1>12, <1>15, <1>16, <1>17 DEF IsReopened, n, s, c, f, R, m, newer

LEMMA EndOfBounds ==
  ASSUME NEW items, NEW low \in Nat, NEW hi \in Nat, low <= hi,
         \A y \in items : y.len > 0 => y.off \in Nat /\ y.off <= hi
  PROVE  /\ EndOf(items, low) \in low .. hi
         /\ \A y \in items : y.len > 0 => y.off <= EndOf(items, low)
<1> DEFINE ends == {low} \cup {x.off : x \in {y \in items : y.len > 0}}
<1>1. ends \subseteq 0 .. hi /\ low \in ends /\ ends # {}
  OBVIOUS
<1>2. \A y \in items : y.len > 0 => y.off \in ends
  OBVIOUS
<1>3. EndOf(items, low) = Max(ends)
  BY DEF EndOf
<1> HIDE DEF ends
<1>4. Max(ends) \in ends /\ \A y \in ends : Max(ends) >= y
  BY <1>1, MaxExists
<1> DEFINE top == Max(ends)
<1>5. top \in ends /\ \A y \in ends : top >= y
  BY <1>4
<1> HIDE DEF top
<1>6. top \in low .. hi /\ \A y \in ends : y <= top
  BY <1>1, <1>5
<1> QED
  BY <1>2, <1>3, <1>6 DEF top

\* The end of the file a reopened store needs, which the file has.
LEMMA RequiredEndFacts ==
  ASSUME FileTyped, FileInv
  PROVE  /\ RequiredEnd \in Latest .. Len(data)
         /\ IsCache(Loaded.cache, data[Latest].cseq, Latest, RequiredEnd)
<1>1. PICK w \in Slots : LaidAt(w)
  BY DEF FileInv
<1> DEFINE f == Latest
           c == data[f].cseq
           cache == Loaded.cache
<1>2. IsReopened(Loaded, w)
  BY <1>1, LoadedFacts DEF FileInv
<1>3. f \in 1 .. Len(data) /\ c \in Nat
  BY FooterTyped DEF FileTyped, FileInv
<1>4. cache \in Seq(Record) /\ IsCache(cache, c, f, Len(data))
  BY <1>2 DEF IsReopened, Mem
<1>5. RequiredEnd = EndOf(Puts(cache), f)
  BY DEF RequiredEnd
<1>6. Len(data) \in Nat
  BY DEF FileTyped
<1> HIDE DEF f, c, cache
<1>7. \A i \in DOMAIN cache : cache[i] \in Record
  BY <1>4
<1>8. ASSUME NEW y \in Puts(cache), y.len > 0
      PROVE  y.off \in Nat /\ y.off <= Len(data)
  <2>1. PICK i \in DOMAIN cache : cache[i] \in PutRecord /\ cache[i].m = y
    BY DEF Puts, ToSet
  <2>2. Fresh(cache[i], c)
    BY <1>4, <1>8, <2>1 DEF IsCache, Fresh
  <2> QED
    BY <1>4, <1>7, <2>1, <2>2, RecordHas DEF IsCache
<1>9. /\ RequiredEnd \in f .. Len(data)
      /\ \A y \in Puts(cache) : y.len > 0 => y.off <= RequiredEnd
  BY <1>3, <1>5, <1>6, <1>8, EndOfBounds
<1>10. ASSUME NEW i \in DOMAIN cache, Fresh(cache[i], c)
       PROVE  cache[i].m.off <= RequiredEnd
  <2>1. cache[i] \in PutRecord /\ cache[i].m.len > 0
    BY <1>10 DEF Fresh
  <2>2. cache[i].m \in Puts(cache)
    BY <2>1 DEF Puts, ToSet
  <2> QED
    BY <1>9, <2>1, <2>2
<1>11. IsCache(cache, c, f, RequiredEnd)
  BY <1>4, <1>10 DEF IsCache
<1> QED
  BY <1>9, <1>11 DEF f, c, cache

\* Whatever is in the file, LoadState takes it.
LEMMA Reopens ==
  ASSUME FileTyped, FileInv
  PROVE  AlwaysReopens
<1>1. PICK w \in Slots : LaidAt(w)
  BY DEF FileInv
<1>2. IsReopened(Loaded, w)
  BY <1>1, LoadedFacts DEF FileInv
<1>3. Loaded.frames = data[Latest].frames
  BY <1>2 DEF IsReopened
<1>4. RangesValid(Loaded.frames, Latest)
  BY <1>3 DEF FileInv, IsLatest
<1>5. Latest \in Footers
  BY DEF FileInv, IsLatest, FooterIn, Footers, FooterAt
<1>6. RequiredEnd <= Len(data)
  <2>1. RequiredEnd \in Latest .. Len(data)
    BY RequiredEndFacts
  <2>2. Latest \in Nat /\ Len(data) \in Nat
    BY FooterTyped DEF FileTyped, FileInv
  <2> QED
    BY <2>1, <2>2
<1> QED
  BY <1>4, <1>5, <1>6 DEF AlwaysReopens, Loadable


-----------------------------------------------------------------------------
(* Changes to the file.                                                     *)

LatestOf(d) ==
  CHOOSE i \in {k \in DOMAIN d : FooterIn(d, k)} :
    \A j \in {k \in DOMAIN d : FooterIn(d, k)} :
      \/ d[j].gen < d[i].gen
      \/ d[j].gen = d[i].gen /\ j <= i

LEMMA LatestIsOf == Latest = LatestOf(data) /\ Latest' = LatestOf(data')
BY DEF Latest, LatestOf, Footers, FooterAt, FooterIn

LEMMA LatestFound ==
  ASSUME NEW d \in Seq(Cell), NEW l, IsLatest(d, l)
  PROVE  LatestOf(d) = l
<1> DEFINE F == {k \in DOMAIN d : FooterIn(d, k)}
           Top(i) == \A j \in F : \/ d[j].gen < d[i].gen
                                  \/ d[j].gen = d[i].gen /\ j <= i
<1>1. l \in F
  BY DEF IsLatest, FooterIn
<1>2. \A j \in F : /\ d[j] \in Cell /\ d[j].gen \in Nat /\ j \in Nat
                   /\ j <= l
                   /\ j < l => d[j].gen < d[l].gen
  <2> TAKE j \in F
  <2>1. d[j] \in Cell /\ j \in Nat /\ d[j].kind = "footer"
    BY DEF FooterIn
  <2>2. d[j].gen \in Nat
    BY <2>1 DEF Cell
  <2> QED
    BY <2>1, <2>2 DEF IsLatest
<1>3. Top(l)
  BY <1>1, <1>2
<1>4. \A i \in F : Top(i) => i = l
  <2> SUFFICES ASSUME NEW i \in F, Top(i), i # l
               PROVE  FALSE
    OBVIOUS
  <2>1. i < l /\ d[i].gen < d[l].gen
    BY <1>1, <1>2
  <2>2. d[l].gen < d[i].gen \/ l <= i
    BY <1>1
  <2> QED
    BY <1>1, <1>2, <2>1, <2>2
<1> HIDE DEF F, Top
<1>5. (CHOOSE i \in F : Top(i)) = l
  BY <1>1, <1>3, <1>4
<1> QED
  BY <1>5 DEF LatestOf, F, Top

\* Cells that are no footers may come and go behind the latest footer.
LEMMA LatestKept ==
  ASSUME NEW d \in Seq(Cell), NEW e \in Seq(Cell), NEW l, IsLatest(d, l), l <= Len(e),
         \A i \in 1 .. l : e[i] = d[i],
         \A i \in DOMAIN e : i > l => e[i].kind # "footer"
  PROVE  IsLatest(e, l) /\ e[l] = d[l]
<1>1. l \in 1 .. Len(d) /\ l > 1 /\ d[l].kind = "footer" /\ d[l - 1] = TocCell(d[l].frames)
  BY DEF IsLatest, FooterIn
<1>2. DOMAIN e = 1 .. Len(e) /\ Len(e) \in Nat /\ DOMAIN d = 1 .. Len(d)
  OBVIOUS
<1>3. l \in 1 .. l /\ l - 1 \in 1 .. l
  BY <1>1
<1>4. e[l] = d[l] /\ e[l - 1] = d[l - 1]
  BY <1>3
<1>5. FooterIn(e, l)
  BY <1>1, <1>2, <1>4 DEF FooterIn
<1>6. ASSUME NEW j \in DOMAIN e, e[j].kind = "footer"
      PROVE  j <= l /\ FooterIn(e, j) /\ (j < l => e[j].gen < e[l].gen)
  <2>1. j \in 1 .. l
    BY <1>1, <1>2, <1>6
  <2>2. e[j] = d[j] /\ j \in DOMAIN d
    BY <1>1, <1>2, <2>1
  <2>3. FooterIn(d, j) /\ (j < l => d[j].gen < d[l].gen)
    BY <1>6, <2>2 DEF IsLatest
  <2>4. e[j - 1] = d[j - 1]
    <3>1. j - 1 \in 1 .. l
      BY <1>1, <2>1, <2>3 DEF FooterIn
    <3> QED
      BY <3>1
  <2> QED
    BY <1>2, <1>4, <2>1, <2>2, <2>3, <2>4 DEF FooterIn
<1>7. RangesValid(e[l].frames, l)
  BY <1>4 DEF IsLatest
<1> QED
  BY <1>4, <1>5, <1>6, <1>7 DEF IsLatest

LEMMA SameData ==
  ASSUME data' = data
  PROVE  Latest' = Latest
BY DEF Latest, Footers, FooterAt

LEMMA SameRing ==
  ASSUME ring' = ring
  PROVE  Slots' = Slots /\ WalSlots' = WalSlots
BY DEF Slots, WalSlots

\* The records of the ring stay where they are when the file's end moves.
LEMMA LaidMoves ==
  ASSUME NEW rg, NEW n, NEW s, NEW w, NEW c, NEW lo, NEW hi, NEW hi2 \in Nat, hi \in Nat,
         Laid(rg, n, s, w, c, lo, hi),
         \A i \in 0 .. n - 1 :
           Behind(n, s, i) < ReadLen(rg, n, s, w) /\ Fresh(rg[i], c) => rg[i].m.off <= hi2
  PROVE  Laid(rg, n, s, w, c, lo, hi2)
BY DEF Laid


LEMMA CacheMoves ==
  ASSUME NEW cache \in Seq(Record), NEW c, NEW lo, NEW hi \in Nat, NEW hi2 \in Nat, hi <= hi2,
         IsCache(cache, c, lo, hi)
  PROVE  IsCache(cache, c, lo, hi2)
<1>1. ASSUME NEW i \in DOMAIN cache, Fresh(cache[i], c)
      PROVE  lo < cache[i].m.off /\ cache[i].m.off <= hi2
  <2>1. cache[i] \in Record /\ cache[i] \in PutRecord
    BY <1>1 DEF Fresh
  <2>2. cache[i].m.off \in Nat
    BY <2>1, RecordHas
  <2>3. lo < cache[i].m.off /\ cache[i].m.off <= hi
    BY <1>1 DEF IsCache
  <2> QED
    BY <2>2, <2>3
<1> QED
  BY <1>1 DEF IsCache

\* A process that reads the file, and cuts it no shorter than it must be, is up to date.
LEMMA Reopening ==
  ASSUME FileTyped, FileInv, UNCHANGED <<ring, pageA, pageB>>, mem' = Loaded,
         data' \in Seq(Cell), RequiredEnd <= Len(data'),
         \A i \in DOMAIN data' : i \in DOMAIN data /\ data'[i] = data[i],
         stage' = "idle", todo' = <<>>
  PROVE  FileTyped' /\ FileInv' /\ MemInv' /\ mem' \in Mem
<1> DEFINE f == Latest
           c == data[f].cseq
           n == WalSlots
           s == pageA.cpos
           hi == Len(data')
<1>1. PICK w \in Slots : LaidAt(w)
  BY DEF FileInv
<1> DEFINE R == ReadLen(ring, n, s, w)
<1>2. IsReopened(Loaded, w)
  BY <1>1, LoadedFacts DEF FileInv
<1>3. f \in 1 .. Len(data) /\ c \in Nat /\ Len(data) \in Nat /\ hi \in Nat
  BY FooterTyped DEF FileTyped, FileInv
<1>4. RequiredEnd \in f .. Len(data) /\ IsCache(mem'.cache, c, f, RequiredEnd)
  BY RequiredEndFacts
<1>5. Slots' = Slots /\ WalSlots' = n
  BY SameRing
<1>6. IsLatest(data', f) /\ data'[f] = data[f]
  <2>1. f <= hi /\ DOMAIN data' = 1 .. hi
    BY <1>3, <1>4
  <2>2. \A i \in 1 .. f : data'[i] = data[i]
    BY <1>3, <2>1
  <2>3. \A i \in DOMAIN data' : i > f => data'[i].kind # "footer"
    <3> SUFFICES ASSUME NEW i \in DOMAIN data', i > f, data'[i].kind = "footer"
                 PROVE  FALSE
      OBVIOUS
    <3>1. i \in DOMAIN data /\ data[i].kind = "footer"
      OBVIOUS
    <3>2. i <= f
      BY <3>1 DEF FileInv, IsLatest
    <3>3. i \in Nat
      BY <2>1
    <3> QED
      BY <1>3, <3>2, <3>3
  <2>4. IsLatest(data, f)
    BY DEF FileInv
  <2> QED
    BY <2>1, <2>2, <2>3, <2>4, LatestKept DEF FileTyped
<1>7. Latest' = f
  BY <1>6, LatestFound, LatestIsOf
<1>8. Laid(ring, n, s, w, c, f, hi)
  <2>1. Laid(ring, n, s, w, c, f, Len(data))
    BY <1>1 DEF LaidAt
  <2>2. ASSUME NEW i \in 0 .. n - 1, Behind(n, s, i) < R, Fresh(ring[i], c)
        PROVE  ring[i].m.off <= hi
    <3>1. \E k \in DOMAIN mem'.cache : mem'.cache[k] = ring[i]
      BY <1>2, <2>2 DEF IsReopened, HoldsNewer, Fresh
    <3>2. ring[i].m.off <= RequiredEnd
      BY <1>4, <2>2, <3>1 DEF IsCache
    <3>3. ring[i] \in Record /\ ring[i].m.off \in Nat
      BY <2>1, <2>2, RecordHas DEF Laid, Fresh
    <3> QED
      BY <1>3, <1>4, <3>2, <3>3
  <2> QED
    BY <1>3, <2>1, <2>2, LaidMoves
<1>9. LaidAt(w)'
  BY <1>5, <1>6, <1>7, <1>8 DEF LaidAt
<1>10. FileInv'
  BY <1>1, <1>5, <1>6, <1>7, <1>9 DEF FileInv
<1>11. FileTyped'
  BY DEF FileTyped
<1>12. mem' \in Mem /\ mem'.wpos = w /\ Known(ring, n, s, mem') /\ ~mem'.local
  BY <1>2 DEF IsReopened
<1>13. IsCache(mem'.cache, c, f, hi)
  <2>1. mem'.cache \in Seq(Record)
    BY <1>12 DEF Mem
  <2> QED
    BY <1>3, <1>4, <2>1, CacheMoves
<1>14. UpToDate'
  <2>1. IsTodo(todo', ring', WalSlots', pageA'.cpos, mem', mem'.cseq, Len(data'))
    BY DEF IsTodo
  <2> QED
    BY <1>2, <1>6, <1>7, <1>13, <2>1 DEF UpToDate, IsReopened
<1> QED
  BY <1>5, <1>9, <1>10, <1>11, <1>12, <1>14 DEF MemInv


-----------------------------------------------------------------------------
(* Put, PutBatch and their refusal write payloads behind the end of the file. *)

IsJoined(u, s, t, T) ==
  /\ u \in Seq(T) /\ Len(u) = Len(s) + Len(t)
  /\ \A i \in 1 .. Len(u) : u[i] = IF i <= Len(s) THEN s[i] ELSE t[i - Len(s)]

LEMMA Joined ==
  ASSUME NEW T, NEW s \in Seq(T), NEW t \in Seq(T), NEW u, u = s \o t
  PROVE  IsJoined(u, s, t, T)
BY ConcatProperties DEF IsJoined

LEMMA PayloadsAppend ==
  ASSUME FileTyped, mem.last \in Nat, NEW lens \in Seq(Nat), data' = data \o PayloadCells(lens)
  PROVE  /\ data' \in Seq(Cell)
         /\ Len(data') = Len(data) + Len(Only(lens, Stored))
         /\ \A i \in DOMAIN data : i \in DOMAIN data' /\ data'[i] = data[i]
         /\ \A i \in DOMAIN data' : i \notin DOMAIN data => data'[i].kind = "payload"
<1> DEFINE numbered == [i \in DOMAIN lens |-> <<lens[i], mem.last + i>>]
           stored == Only(numbered, Stored \X Nat)
           cells == PayloadCells(lens)
<1>0. DOMAIN lens = 1 .. Len(lens) /\ \A i \in 1 .. Len(lens) : lens[i] \in Nat
  OBVIOUS
<1>1. /\ numbered \in Seq(Nat \X Nat)
      /\ Len(lens) = Len(numbered)
      /\ \A i \in 1 .. Len(lens) : lens[i] \in Stored <=> numbered[i] \in Stored \X Nat
  <2>1. \A i \in 1 .. Len(lens) : numbered[i] = <<lens[i], mem.last + i>>
    BY <1>0
  <2>2. \A i \in 1 .. Len(lens) : numbered[i] \in Nat \X Nat
    BY <1>0, <2>1
  <2>3. numbered \in Seq(Nat \X Nat) /\ Len(lens) = Len(numbered)
    BY <1>0, <2>2
  <2>4. \A i \in 1 .. Len(lens) : lens[i] \in Stored <=> numbered[i] \in Stored \X Nat
    BY <1>0, <2>1
  <2> QED
    BY <2>3, <2>4
<1>2. cells = [i \in DOMAIN stored |-> PayloadCell(stored[i][2])]
  BY DEF PayloadCells
<1> HIDE DEF numbered
<1>3. stored \in Seq(Nat \X Nat) /\ Len(stored) = Len(Only(lens, Stored))
  <2>1. stored \in Seq(Nat \X Nat)
    BY <1>1, OnlyElements
  <2>2. Len(Only(lens, Stored)) = Len(stored)
    <3> DEFINE V == Stored \X Nat
               W == Nat \X Nat
    <3>1. /\ numbered \in Seq(W)
          /\ Len(lens) = Len(numbered)
          /\ \A i \in 1 .. Len(lens) : lens[i] \in Stored <=> numbered[i] \in V
      BY <1>1
    <3> HIDE DEF V, W
    <3>2. Len(Only(lens, Stored)) = Len(Only(numbered, V))
      BY <3>1, SameCount
    <3> QED
      BY <3>2 DEF V
  <2> QED
    BY <2>1, <2>2
<1> HIDE DEF stored, cells
<1>4. \A i \in 1 .. Len(stored) : PayloadCell(stored[i][2]) \in Cell
                                  /\ PayloadCell(stored[i][2]).kind = "payload"
  <2> TAKE i \in 1 .. Len(stored)
  <2>1. stored[i][2] \in Nat
    BY <1>3
  <2> QED
    BY <2>1 DEF PayloadCell, Cell
<1>5. cells \in Seq(Cell) /\ Len(cells) = Len(stored)
      /\ \A i \in 1 .. Len(cells) : cells[i].kind = "payload"
  <2>1. DOMAIN stored = 1 .. Len(stored)
    BY <1>3
  <2> QED
    BY <1>2, <1>3, <1>4, <2>1
<1>6. data \in Seq(Cell)
  BY DEF FileTyped
<1>7. data' \in Seq(Cell) /\ Len(data') = Len(data) + Len(cells)
      /\ \A i \in 1 .. Len(data') :
           data'[i] = IF i <= Len(data) THEN data[i] ELSE cells[i - Len(data)]
  <2>1. data' = data \o cells
    BY DEF cells
  <2> QED
    <3>1. IsJoined(data', data, cells, Cell)
      BY <1>5, <1>6, <2>1, Joined
    <3> QED
      BY <3>1 DEF IsJoined
<1>8. ASSUME NEW i \in DOMAIN data', i \notin DOMAIN data
      PROVE  data'[i].kind = "payload"
  <2>1. i \in 1 .. Len(data') /\ ~(i <= Len(data)) /\ i - Len(data) \in 1 .. Len(cells)
    BY <1>5, <1>6, <1>7, <1>8
  <2> QED
    BY <1>5, <1>7, <2>1
<1>9. ASSUME NEW i \in DOMAIN data
      PROVE  i \in DOMAIN data' /\ data'[i] = data[i]
  <2>1. i \in 1 .. Len(data') /\ i <= Len(data)
    BY <1>5, <1>6, <1>7
  <2> QED
    BY <1>7, <2>1
<1> QED
  BY <1>3, <1>5, <1>7, <1>8, <1>9

\* The file's records and footer are where they were when it grows behind its end.
LEMMA Growing ==
  ASSUME FileTyped, FileInv, UNCHANGED <<ring, pageA, pageB>>, data' \in Seq(Cell),
         Len(data) <= Len(data'),
         \A i \in DOMAIN data : i <= Latest => data'[i] = data[i],
         \A i \in DOMAIN data' : i > Latest => data'[i].kind # "footer"
  PROVE  /\ FileTyped' /\ FileInv'
         /\ Latest' = Latest /\ data'[Latest] = data[Latest]
         /\ \A w : LaidAt(w) => LaidAt(w)'
<1> DEFINE f == Latest
           c == data[f].cseq
           hi == Len(data')
<1>1. f \in 1 .. Len(data) /\ c \in Nat /\ Len(data) \in Nat /\ hi \in Nat
  BY FooterTyped DEF FileTyped, FileInv
<1>2. IsLatest(data', f) /\ data'[f] = data[f]
  <2>1. \A i \in 1 .. f : data'[i] = data[i]
    <3> TAKE i \in 1 .. f
    <3>1. i \in DOMAIN data /\ i <= Latest
      BY <1>1 DEF FileTyped
    <3> QED
      BY <3>1
  <2>2. \A i \in DOMAIN data' : i > f => data'[i].kind # "footer"
    OBVIOUS
  <2>3. IsLatest(data, f) /\ f <= hi
    BY <1>1 DEF FileInv
  <2> QED
    BY <2>1, <2>2, <2>3, LatestKept DEF FileTyped
<1>3. Latest' = f
  BY <1>2, LatestFound, LatestIsOf
<1>4. Slots' = Slots /\ WalSlots' = WalSlots
  BY SameRing
<1>5. ASSUME NEW w, LaidAt(w)
      PROVE  LaidAt(w)'
  <2>1. Laid(ring, WalSlots, pageA.cpos, w, c, f, Len(data))
    BY <1>5 DEF LaidAt
  <2> DEFINE R == ReadLen(ring, WalSlots, pageA.cpos, w)
  <2>2. ASSUME NEW i \in 0 .. WalSlots - 1, Behind(WalSlots, pageA.cpos, i) < R, Fresh(ring[i], c)
        PROVE  ring[i].m.off <= hi
    <3>1. ring[i].m.off <= Len(data) /\ ring[i].m.off \in Nat
      BY <2>1, <2>2, RecordHas DEF Laid, Fresh
    <3> QED
      BY <1>1, <3>1
  <2>3. Laid(ring, WalSlots, pageA.cpos, w, c, f, hi)
    BY <1>1, <2>1, <2>2, LaidMoves
  <2> QED
    BY <1>2, <1>3, <1>4, <2>3 DEF LaidAt
<1>6. FileTyped'
  BY DEF FileTyped
<1>7. FileInv'
  BY <1>2, <1>3, <1>4, <1>5 DEF FileInv
<1> QED
  BY <1>2, <1>3, <1>5, <1>6, <1>7


PayloadsWritten(lens) ==
  /\ FileTyped' /\ FileInv'
  /\ mem' = mem /\ mem \in Mem
  /\ UpToDate
  /\ Latest' = Latest /\ data'[Latest] = data[Latest]
  /\ WalSlots' = WalSlots
  /\ LaidAt(mem.wpos) /\ LaidAt(mem.wpos)'
  /\ Len(data') = Len(data) + Len(Only(lens, Stored))
  /\ IsCache(mem.cache, mem.cseq, mem.foff, Len(data'))
  /\ UNCHANGED <<ring, pageA, pageB>>

LEMMA PayloadsKeep ==
  ASSUME StoreInv, Ready, NEW lens \in Seq(Nat), WritePayloads(lens)
  PROVE  PayloadsWritten(lens)
<1>1. FileTyped /\ FileInv /\ mem \in Mem /\ UpToDate /\ LaidAt(mem.wpos)
  BY DEF StoreInv, TypeOK, MemInv, Running, Ready
<1>2. /\ data' = data \o PayloadCells(lens)
      /\ mem' = mem
      /\ UNCHANGED <<ring, pageA, pageB>>
  BY DEF WritePayloads, LeavePayloads
<1>3. mem.last \in Nat /\ mem.cache \in Seq(Record)
  BY <1>1 DEF Mem
<1>4. /\ data' \in Seq(Cell)
      /\ Len(data') = Len(data) + Len(Only(lens, Stored))
      /\ \A i \in DOMAIN data : i \in DOMAIN data' /\ data'[i] = data[i]
      /\ \A i \in DOMAIN data' : i \notin DOMAIN data => data'[i].kind = "payload"
  BY <1>1, <1>2, <1>3, PayloadsAppend
<1>5. Len(Only(lens, Stored)) \in Nat
  <2>1. Only(lens, Stored) \in Seq(Nat)
    BY OnlyElements
  <2> QED
    BY <2>1
<1>6. Len(data) \in Nat /\ Len(data') \in Nat /\ Len(data) <= Len(data')
  BY <1>1, <1>4, <1>5 DEF FileTyped
<1>7. \A i \in DOMAIN data' : i > Latest => data'[i].kind # "footer"
  <2> SUFFICES ASSUME NEW i \in DOMAIN data', i > Latest, data'[i].kind = "footer"
               PROVE  FALSE
    OBVIOUS
  <2>1. i \in DOMAIN data /\ data[i].kind = "footer"
    BY <1>4
  <2>2. i <= Latest
    BY <1>1, <2>1 DEF FileInv, IsLatest
  <2>3. i \in Nat /\ Latest \in Nat
    BY <1>1, <2>1, FooterTyped DEF FileTyped, FileInv
  <2> QED
    BY <2>2, <2>3
<1>8. /\ FileTyped' /\ FileInv'
      /\ Latest' = Latest /\ data'[Latest] = data[Latest]
      /\ \A w : LaidAt(w) => LaidAt(w)'
  BY <1>1, <1>2, <1>4, <1>6, <1>7, Growing
<1>9. LaidAt(mem.wpos)'
  <2>1. ASSUME NEW w, w = mem.wpos
        PROVE  LaidAt(w)'
    BY <1>1, <1>8, <2>1
  <2> QED
    BY <1>2, <2>1 DEF LaidAt
<1>10. IsCache(mem.cache, mem.cseq, mem.foff, Len(data'))
  BY <1>1, <1>3, <1>6, CacheMoves DEF UpToDate
<1>11. WalSlots' = WalSlots
  BY <1>2, SameRing
<1> QED
  BY <1>1, <1>2, <1>4, <1>8, <1>9, <1>10, <1>11 DEF PayloadsWritten

\* No write fails between the first and the last of an append.  One that does
\* leaves a record of a put that threw, which a reopened store takes for one of
\* its own.
AppendsWhole == \A n \in RingSizes : "between" \notin FailAt[n]

LEMMA RefusedWrites ==
  ASSUME StoreInv, AppendsWhole, NEW lens, PutRefused(lens)
  PROVE  /\ Ready /\ WritePayloads(lens)
         /\ stage = "idle" /\ stage' = "idle" /\ todo' = todo
<1>1. Ready /\ LeavePayloads(lens) /\ ring' \in RingsLeft(PutsOf(lens)) /\ UNCHANGED <<stage, todo>>
  BY DEF PutRefused
<1>2. WalSlots \in RingSizes
  BY RingFacts DEF StoreInv, TypeOK
<1>3. RingsLeft(PutsOf(lens)) = {ring}
  BY <1>2 DEF RingsLeft, AppendsWhole
<1> QED
  BY <1>1, <1>3 DEF WritePayloads, Ready

LEMMA RefusedKeeps ==
  ASSUME StoreInv, AppendsWhole, NEW lens \in Seq(Nat), PutRefused(lens)
  PROVE  StoreInv'
<1>1. Ready /\ WritePayloads(lens) /\ stage = "idle" /\ stage' = "idle" /\ todo' = todo
  BY RefusedWrites
<1>2. UNCHANGED <<ring, pageA, pageB, plan, closing, failed>>
  BY <1>1 DEF WritePayloads, LeavePayloads
<1>3. PayloadsWritten(lens)
  BY <1>1, PayloadsKeep
<1>4. todo = <<>>
  BY <1>1 DEF StoreInv, TypeOK
<1>5. UpToDate'
  <2>1. IsTodo(todo', ring', WalSlots', pageA'.cpos, mem', mem'.cseq, Len(data'))
    BY <1>1, <1>4 DEF IsTodo
  <2> QED
    BY <1>2, <1>3, <2>1 DEF UpToDate, PayloadsWritten
<1>6. Known(ring', WalSlots', pageA'.cpos, mem') /\ (mem'.local => mem'.dirty)
  BY <1>1, <1>2, <1>3 DEF StoreInv, MemInv, Running, PayloadsWritten
<1>7. MemInv'
  BY <1>3, <1>5, <1>6 DEF MemInv, PayloadsWritten
<1>8. TypeOK'
  BY <1>1, <1>2, <1>3 DEF StoreInv, TypeOK, PayloadsWritten
<1> QED
  BY <1>1, <1>3, <1>7, <1>8 DEF StoreInv, PayloadsWritten, CommitStages

\* The records to append name payloads behind all others, in order.
LEMMA PutsFacts ==
  ASSUME StoreInv, Ready, NEW lens \in Seq(Nat), lens # <<>>, PayloadsWritten(lens)
  PROVE  /\ PutsOf(lens) \in Seq(PutMutation) /\ PutsOf(lens) # <<>>
         /\ IsTodo(PutsOf(lens), ring, WalSlots, pageA.cpos, mem, mem.cseq, Len(data'))
<1> DEFINE q == PutsOf(lens)
           count(i) == Len(OnlyAmong(lens, Stored)[i])
           c == mem.cseq
           hi == Len(data)
<1>1. /\ FileTyped /\ mem \in Mem /\ UpToDate /\ LaidAt(mem.wpos)
      /\ Len(data') = hi + Len(Only(lens, Stored))
  BY DEF PayloadsWritten, StoreInv, TypeOK
<1>2. hi \in Nat /\ mem.next_id \in Nat /\ mem.foff \in Nat /\ mem.cache \in Seq(Record)
  BY <1>1 DEF FileTyped, Mem
<1>3. mem.foff <= hi
  BY <1>1, FooterTyped DEF UpToDate, StoreInv, FileInv, FileTyped
<1>4. DOMAIN lens = 1 .. Len(lens) /\ Len(lens) \in Nat /\ Len(lens) > 0
  BY EmptySeq
<1>5. ASSUME NEW i \in 0 .. Len(lens), NEW j \in 0 .. Len(lens), i <= j
      PROVE  /\ count(i) \in Nat
             /\ count(i) <= count(j)
             /\ i < j /\ lens[j] \in Stored => count(i) < count(j)
  BY <1>5, CountGrows
<1>6. count(0) = 0
  BY OnlyAmongAt
<1>7. Len(data') = hi + count(Len(lens))
  BY <1>1 DEF Only
<1> HIDE DEF count
<1>8. /\ DOMAIN q = 1 .. Len(lens)
      /\ \A i \in 1 .. Len(lens) :
           q[i] = [kind |-> "put", id |-> mem.next_id + i - 1, len |-> lens[i],
                   off |-> hi + count(i)]
  BY <1>4 DEF PutsOf, count
<1> HIDE DEF q
<1>9. q \in Seq(PutMutation) /\ q # <<>>
  <2>1. ASSUME NEW i \in 1 .. Len(lens)
        PROVE  q[i] \in PutMutation
    <3>1. mem.next_id + i - 1 \in Nat /\ lens[i] \in Nat
      BY <1>2
    <3>2. hi + count(i) \in Nat
      BY <1>2, <1>4, <1>5
    <3> QED
      BY <1>8, <3>1, <3>2 DEF PutMutation
  <2>2. q = [i \in 1 .. Len(lens) |-> q[i]]
    BY <1>8 DEF q, PutsOf
  <2>3. q \in Seq(PutMutation) /\ Len(q) = Len(lens)
    BY <1>4, <2>1, <2>2
  <2> QED
    BY <1>4, <2>3
<1>10. ASSUME NEW i \in 1 .. Len(lens), lens[i] > 0
       PROVE  /\ q[i].off \in Nat /\ q[i].off <= Len(data') /\ hi < q[i].off
              /\ \A j \in 1 .. Len(lens) : i < j /\ lens[j] > 0 => q[i].off < q[j].off
  <2>1. \A j \in 1 .. Len(lens) : lens[j] > 0 <=> lens[j] \in Stored
    BY DEF Stored
  <2>2. count(0) < count(i) /\ count(i) \in Nat
    BY <1>4, <1>5, <1>10, <2>1
  <2>3. count(i) <= count(Len(lens)) /\ count(Len(lens)) \in Nat
    BY <1>4, <1>5
  <2>4. ASSUME NEW j \in 1 .. Len(lens), i < j, lens[j] > 0
        PROVE  q[i].off < q[j].off
    <3>1. count(i) < count(j) /\ count(j) \in Nat
      BY <1>4, <1>5, <2>1, <2>4
    <3>2. q[i].off = hi + count(i) /\ q[j].off = hi + count(j)
      BY <1>8
    <3> QED
      BY <1>2, <2>2, <3>1, <3>2
  <2>5. q[i].off = hi + count(i)
    BY <1>8
  <2> QED
    BY <1>2, <1>6, <1>7, <2>2, <2>3, <2>4, <2>5
<1>11. \A i \in DOMAIN q : q[i].len = lens[i]
  BY <1>8
<1>12. ASSUME NEW r \in Record, Fresh(r, c), r.m.off <= hi, NEW i \in 1 .. Len(lens), lens[i] > 0
       PROVE  r.m.off < q[i].off
  <2>1. r.m.off \in Nat
    BY <1>12, RecordHas DEF Fresh
  <2> QED
    BY <1>2, <1>10, <1>12, <2>1
<1>13. Laid(ring, WalSlots, pageA.cpos, mem.wpos, c, Latest, hi)
  BY <1>1 DEF LaidAt, UpToDate
<1>14. \A j \in 0 .. WalSlots - 1 :
         Behind(WalSlots, pageA.cpos, j) < ReadLen(ring, WalSlots, pageA.cpos, mem.wpos)
           /\ Fresh(ring[j], c) => ring[j] \in Record /\ ring[j].m.off <= hi
  BY <1>13 DEF Laid
<1>15. \A j \in DOMAIN mem.cache :
         Fresh(mem.cache[j], c) => mem.cache[j] \in Record /\ mem.cache[j].m.off <= hi
  BY <1>1, <1>2 DEF UpToDate, IsCache
<1> HIDE DEF hi, c
<1>16. ASSUME NEW i \in DOMAIN q, q[i].len > 0
       PROVE  /\ q[i].off <= Len(data')
              /\ mem.foff < q[i].off
              /\ \A j \in DOMAIN q : i < j /\ q[j].len > 0 => q[i].off < q[j].off
  <2>1. i \in 1 .. Len(lens) /\ lens[i] > 0
    BY <1>8, <1>11, <1>16
  <2>2. \A j \in DOMAIN q : j \in 1 .. Len(lens) /\ q[j].len = lens[j]
    BY <1>8, <1>11
  <2>3. mem.foff < q[i].off
    BY <1>2, <1>3, <1>10, <2>1
  <2> QED
    BY <1>10, <2>1, <2>2, <2>3
<1>17. ASSUME NEW i \in DOMAIN q, q[i].len > 0
       PROVE  /\ \A j \in 0 .. WalSlots - 1 :
                   Behind(WalSlots, pageA.cpos, j) < ReadLen(ring, WalSlots, pageA.cpos, mem.wpos)
                     /\ Fresh(ring[j], c) => ring[j].m.off < q[i].off
              /\ \A j \in DOMAIN mem.cache :
                   Fresh(mem.cache[j], c) => mem.cache[j].m.off < q[i].off
  <2>1. i \in 1 .. Len(lens) /\ lens[i] > 0
    BY <1>8, <1>11, <1>17
  <2> QED
    BY <1>12, <1>14, <1>15, <2>1
<1>18. IsTodo(q, ring, WalSlots, pageA.cpos, mem, c, Len(data'))
  BY <1>16, <1>17 DEF IsTodo
<1> QED
  BY <1>9, <1>18 DEF q, c

LEMMA PutKeeps ==
  ASSUME StoreInv, Ready, NEW lens \in Seq(Nat), lens # <<>>, WritePayloads(lens),
         StartAppending(lens)
  PROVE  StoreInv'
<1>1. stage = "idle" /\ stage' = "append" /\ todo' = PutsOf(lens)
  BY DEF Ready, StartAppending
<1>2. UNCHANGED <<ring, pageA, pageB, plan, closing, failed>> /\ ~failed
  BY DEF WritePayloads, LeavePayloads, Ready
<1>3. PayloadsWritten(lens)
  BY PayloadsKeep
<1>4. /\ todo' \in Seq(PutMutation) /\ todo' # <<>>
      /\ IsTodo(todo', ring, WalSlots, pageA.cpos, mem, mem.cseq, Len(data'))
  BY <1>1, <1>3, PutsFacts
<1>5. UpToDate'
  BY <1>2, <1>3, <1>4 DEF UpToDate, PayloadsWritten
<1>6. Known(ring', WalSlots', pageA'.cpos, mem') /\ (mem'.local => mem'.dirty)
  BY <1>1, <1>2, <1>3 DEF StoreInv, MemInv, Running, PayloadsWritten
<1>7. MemInv'
  BY <1>1, <1>3, <1>5, <1>6 DEF MemInv, PayloadsWritten
<1>8. TypeOK'
  BY <1>1, <1>2, <1>3, <1>4 DEF StoreInv, TypeOK, PayloadsWritten, Stages, CommitStages
<1> QED
  BY <1>1, <1>3, <1>7, <1>8 DEF StoreInv, PayloadsWritten, CommitStages
-----------------------------------------------------------------------------
(* An appended record.                                                      *)

\* The ring rg with record r in slot w, and a sentinel behind it unless it is full now.
Appended(rg, n, w, full, r) ==
  [i \in 0 .. n - 1 |-> IF i = w THEN r
                        ELSE IF i = At(n, w, 1) /\ ~full THEN Blank ELSE rg[i]]

LEMMA NextSlot ==
  ASSUME NEW n \in Nat \ {0}, NEW s \in 0 .. n - 1, NEW w \in 0 .. n - 1
  PROVE  /\ At(n, w, 1) \in 0 .. n - 1
         /\ At(n, w, 1) = s => Behind(n, s, w) = n - 1
         /\ At(n, w, 1) # s => Behind(n, s, At(n, w, 1)) = Behind(n, s, w) + 1
         /\ At(n, w, 1) = w => n = 1
BY DEF At, Behind

LEMMA BehindTyped ==
  ASSUME NEW n \in Nat \ {0}, NEW s \in 0 .. n - 1
  PROVE  /\ \A i \in 0 .. n - 1 : Behind(n, s, i) \in Nat /\ Behind(n, s, i) < n
         /\ \A i, j \in 0 .. n - 1 : Behind(n, s, i) = Behind(n, s, j) => i = j
         /\ Behind(n, s, s) = 0
BY DEF Behind

\* After the append the scan reads r, at most, besides what it read before.
ReadsNoneBut(r, rg2, rg, n, s, w2, w) ==
  \A i \in 0 .. n - 1 : Behind(n, s, i) < ReadLen(rg2, n, s, w2) =>
    \/ rg2[i] = r
    \/ Behind(n, s, i) < ReadLen(rg, n, s, w) /\ rg2[i] = rg[i]

\* A process that knows m of the ring rg appends r, and knows m2 of the ring rg2 then.
Appends(rg, n, s, w, c, lo, hi, m, r, rg2, m2) ==
  /\ c \in Nat /\ Laid(rg, n, s, w, c, lo, hi)
  /\ m \in Mem /\ m.wpos = w /\ Known(rg, n, s, m) /\ m.pend < n
  /\ r \in Record /\ r.seq = m.last + 1
  /\ Fresh(r, c) =>
       /\ lo < r.m.off /\ r.m.off <= hi
       /\ \A i \in 0 .. n - 1 : Behind(n, s, i) < ReadLen(rg, n, s, w) /\ Fresh(rg[i], c) =>
            rg[i].m.off < r.m.off
  /\ rg2 = Appended(rg, n, w, m.pend + 1 = n, r)
  /\ m2.wpos = At(n, w, 1) /\ m2.pend = m.pend + 1
  /\ m2.last = m.last + 1 /\ m2.cpos = m.cpos

LEMMA AppendsToRing ==
  ASSUME NEW rg, NEW n, NEW s, NEW w, NEW c, NEW lo, NEW hi, NEW m, NEW r, NEW rg2, NEW m2,
         Appends(rg, n, s, w, c, lo, hi, m, r, rg2, m2)
  PROVE  /\ Laid(rg2, n, s, At(n, w, 1), c, lo, hi)
         /\ Known(rg2, n, s, m2)
         /\ ReadsNoneBut(r, rg2, rg, n, s, At(n, w, 1), w)
<1>0. /\ c \in Nat /\ Laid(rg, n, s, w, c, lo, hi)
      /\ m \in Mem /\ m.wpos = w /\ Known(rg, n, s, m) /\ m.pend < n
      /\ r \in Record /\ r.seq = m.last + 1
      /\ Fresh(r, c) =>
           /\ lo < r.m.off /\ r.m.off <= hi
           /\ \A i \in 0 .. n - 1 : Behind(n, s, i) < ReadLen(rg, n, s, w) /\ Fresh(rg[i], c) =>
                rg[i].m.off < r.m.off
      /\ rg2 = Appended(rg, n, w, m.pend + 1 = n, r)
      /\ m2.wpos = At(n, w, 1) /\ m2.pend = m.pend + 1
      /\ m2.last = m.last + 1 /\ m2.cpos = m.cpos
  BY DEF Appends
<1> USE <1>0
<1> DEFINE full == m.pend + 1 = n
           w2 == At(n, w, 1)
           R == ReadLen(rg, n, s, w)
           R2 == ReadLen(rg2, n, s, w2)
           cp == m.cpos
<1>1. /\ n \in Nat \ {0} /\ s \in 0 .. n - 1 /\ w \in 0 .. n - 1
      /\ rg \in [0 .. n - 1 -> Record \cup {Blank}]
  BY DEF Laid
<1>2. m.pend \in Nat /\ m.last \in Nat /\ cp \in 0 .. n - 1 /\ Behind(n, cp, w) = m.pend
  BY DEF Known, Mem
<1>3. /\ w2 \in 0 .. n - 1
      /\ w2 = s => Behind(n, s, w) = n - 1
      /\ w2 # s => Behind(n, s, w2) = Behind(n, s, w) + 1
      /\ w2 = w => n = 1
  BY <1>1, NextSlot
<1>4. /\ w2 = cp => m.pend = n - 1
      /\ w2 # cp => Behind(n, cp, w2) = m.pend + 1
  <2>1. /\ w2 = cp => Behind(n, cp, w) = n - 1
        /\ w2 # cp => Behind(n, cp, w2) = Behind(n, cp, w) + 1
    BY <1>1, <1>2, NextSlot
  <2> QED
    BY <1>2, <2>1
<1> HIDE DEF full, w2, R, R2, cp
<1>5a. /\ \A i \in 0 .. n - 1 : Behind(n, s, i) \in Nat /\ Behind(n, s, i) < n
       /\ \A i, j \in 0 .. n - 1 : Behind(n, s, i) = Behind(n, s, j) => i = j
       /\ Behind(n, s, s) = 0
  BY <1>1, BehindTyped
<1>5. /\ \A i \in 0 .. n - 1 : Behind(n, cp, i) \in Nat /\ Behind(n, cp, i) < n
      /\ \A i, j \in 0 .. n - 1 : Behind(n, cp, i) = Behind(n, cp, j) => i = j
      /\ Behind(n, cp, cp) = 0
  BY <1>1, <1>2, BehindTyped
<1>6. /\ rg2 \in [0 .. n - 1 -> Record \cup {Blank}]
      /\ rg2[w] = r
      /\ ~full => rg2[w2] = Blank
      /\ \A i \in 0 .. n - 1 : i # w /\ (full \/ i # w2) => rg2[i] = rg[i]
  BY <1>1, <1>2, <1>3 DEF Appended, full, w2
<1>7. full <=> w2 = cp
  <2>1. w2 # cp => m.pend + 1 < n
    <3>1. Behind(n, cp, w2) < n
      BY <1>3, <1>5
    <3> QED
      BY <1>4, <3>1
  <2> QED
    BY <1>1, <1>2, <1>4, <2>1 DEF full
\* The records pending after the append.
<1>8. ASSUME NEW i \in 0 .. n - 1, Behind(n, cp, i) < m.pend + 1
      PROVE  \/ i = w
             \/ /\ i # w /\ Behind(n, cp, i) < m.pend
                /\ rg2[i] = rg[i] /\ rg[i] \in Record /\ rg[i].seq <= m.last
  <2> SUFFICES ASSUME i # w
               PROVE  /\ Behind(n, cp, i) < m.pend
                      /\ rg2[i] = rg[i] /\ rg[i] \in Record /\ rg[i].seq <= m.last
    OBVIOUS
  <2>1. Behind(n, cp, i) < m.pend
    <3>1. Behind(n, cp, i) # m.pend
      BY <1>1, <1>2, <1>5
    <3>2. Behind(n, cp, i) \in Nat
      BY <1>1, <1>5
    <3> QED
      BY <1>2, <1>8, <3>1, <3>2
  <2>2. full \/ i # w2
    <3> SUFFICES ASSUME ~full, i = w2
                 PROVE  FALSE
      OBVIOUS
    <3>1. Behind(n, cp, i) = m.pend + 1
      BY <1>4, <1>7
    <3> QED
      BY <1>2, <1>8, <3>1
  <2> QED
    BY <1>6, <2>1, <2>2 DEF Known, cp
<1>9. r.seq \in Nat /\ \A q \in Record : q.seq \in Nat /\ q # Blank
  BY RecordHas, RecordNotBlank
<1>10. ASSUME full
       PROVE  /\ rg2[w2] # Blank
              /\ \A i \in 0 .. n - 1 : Behind(n, cp, i) < m.pend + 1
  <2>1. \A i \in 0 .. n - 1 : Behind(n, cp, i) < m.pend + 1
    <3>1. m.pend + 1 = n
      BY <1>10 DEF full
    <3>2. \A i \in 0 .. n - 1 : Behind(n, cp, i) < n
      BY <1>5
    <3> QED
      BY <3>1, <3>2
  <2>2. rg2[w2] \in Record
    BY <1>3, <1>6, <1>8, <2>1
  <2> QED
    BY <1>9, <2>1, <2>2
\* What the scan reads after the append.
<1>11. R2 = 0 \/ R2 = Behind(n, s, w) + 1
  <2>1. CASE w2 # s
    BY <1>3, <2>1 DEF R2, ReadLen
  <2>2. CASE w2 = s /\ full
    <3>1. R2 = n
      BY <1>10, <2>2 DEF R2, ReadLen
    <3> QED
      BY <1>1, <1>3, <2>2, <3>1
  <2>3. CASE w2 = s /\ ~full
    BY <1>5a, <1>6, <2>3 DEF R2, ReadLen
  <2> QED
    BY <2>1, <2>2, <2>3
<1>12. ASSUME NEW i \in 0 .. n - 1, Behind(n, s, i) < R2
       PROVE  \/ i = w
              \/ /\ i # w /\ Behind(n, s, i) < R /\ Behind(n, s, i) < Behind(n, s, w)
                 /\ rg2[i] = rg[i] /\ rg[i] \in Record /\ rg[i].seq <= m.last
  <2> SUFFICES ASSUME i # w
               PROVE  /\ Behind(n, s, i) < R /\ Behind(n, s, i) < Behind(n, s, w)
                      /\ rg2[i] = rg[i] /\ rg[i] \in Record /\ rg[i].seq <= m.last
    OBVIOUS
  <2>0. /\ Behind(n, s, i) \in Nat /\ Behind(n, s, w) \in Nat
        /\ Behind(n, s, i) < n /\ Behind(n, s, w) < n
        /\ Behind(n, s, i) # Behind(n, s, w)
    BY <1>1, <1>5a
  <2>1. R2 = Behind(n, s, w) + 1 /\ Behind(n, s, i) < Behind(n, s, w)
    BY <1>11, <1>12, <2>0
  <2>2. Behind(n, s, i) < R
    <3>1. w # s
      BY <1>5a, <2>1
    <3>2. R = Behind(n, s, w)
      BY <3>1 DEF R, ReadLen
    <3> QED
      BY <2>1, <3>2
  <2>3. full \/ i # w2
    <3> SUFFICES ASSUME ~full, i = w2
                 PROVE  FALSE
      OBVIOUS
    <3>1. CASE w2 # s
      BY <1>3, <2>0, <2>1, <3>1
    <3>2. CASE w2 = s
      <4>1. R2 = 0
        BY <1>5a, <1>6, <3>2 DEF R2, ReadLen
      <4> QED
        BY <2>0, <2>1, <4>1
    <3> QED
      BY <3>1, <3>2
  <2>4. rg[i] \in Record
    BY <2>2 DEF Laid, R
  <2>5. rg[i].seq <= m.last
    BY <2>2 DEF Known, R
  <2> QED
    BY <1>6, <2>1, <2>2, <2>3, <2>4, <2>5
<1>13. ASSUME NEW i \in 0 .. n - 1, NEW j \in 0 .. n - 1,
              Behind(n, s, i) < Behind(n, s, j), Behind(n, s, j) < R2
       PROVE  /\ rg2[i].seq < rg2[j].seq
              /\ Fresh(rg2[i], c) /\ Fresh(rg2[j], c) => rg2[i].m.off < rg2[j].m.off
  <2>0. /\ Behind(n, s, i) \in Nat /\ Behind(n, s, j) \in Nat /\ Behind(n, s, w) \in Nat
        /\ R2 \in Nat
    <3>1. Behind(n, s, i) \in Nat /\ Behind(n, s, j) \in Nat /\ Behind(n, s, w) \in Nat
      BY <1>1, <1>5a
    <3> QED
      BY <1>11, <3>1
  <2>1. Behind(n, s, i) < R2 /\ i # w
    <3>1. Behind(n, s, i) < R2 /\ R2 = Behind(n, s, w) + 1
      BY <1>11, <1>13, <2>0
    <3>2. Behind(n, s, i) < Behind(n, s, w)
      BY <1>13, <2>0, <3>1
    <3> QED
      BY <2>0, <3>1, <3>2
  <2>2. /\ Behind(n, s, i) < R /\ rg2[i] = rg[i] /\ rg[i] \in Record /\ rg[i].seq <= m.last
    BY <1>12, <2>1
  <2>3. CASE j = w
    <3>1. rg[i].seq \in Nat
      BY <1>9, <2>2
    <3>2. rg2[i].seq < rg2[j].seq
      BY <1>2, <1>6, <2>2, <2>3, <3>1
    <3> QED
      BY <1>6, <2>2, <2>3, <3>2 DEF R
  <2>4. CASE j # w
    <3>1. Behind(n, s, j) < R /\ rg2[j] = rg[j]
      BY <1>12, <1>13, <2>4
    <3>2. Ascending(rg, n, s, R, c)
      BY DEF Laid, R
    <3> QED
      BY <1>13, <2>2, <3>1, <3>2 DEF Ascending
  <2> QED
    BY <2>3, <2>4
<1>14. ASSUME rg2[w2] # Blank, NEW i \in 0 .. n - 1, NEW j \in 0 .. n - 1
       PROVE  /\ rg2[i] \in Record
              /\ Behind(n, w2, i) < Behind(n, w2, j) => rg2[i].seq < rg2[j].seq
  <2>1. full /\ w2 = cp
    BY <1>6, <1>7, <1>14
  <2>2. Behind(n, cp, i) < m.pend + 1 /\ Behind(n, cp, j) < m.pend + 1
    BY <1>10, <2>1
  <2>3. rg2[i] \in Record /\ rg2[j] \in Record
    BY <1>6, <1>8, <2>2
  <2>4. ASSUME Behind(n, w2, i) < Behind(n, w2, j)
        PROVE  rg2[i].seq < rg2[j].seq
    <3>0. /\ Behind(n, cp, i) \in Nat /\ Behind(n, cp, j) \in Nat
          /\ Behind(n, cp, i) < Behind(n, cp, j)
      BY <1>5, <2>1, <2>4
    <3>1. i # w
      <4>1. Behind(n, cp, i) < m.pend
        BY <1>2, <2>2, <3>0
      <4> QED
        BY <1>2, <4>1
    <3>2. rg2[i] = rg[i] /\ rg[i] \in Record /\ rg[i].seq <= m.last
      BY <1>8, <2>2, <3>1
    <3>3. CASE j = w
      <4>1. rg[i].seq \in Nat
        BY <1>9, <3>2
      <4> QED
        BY <1>2, <1>6, <3>2, <3>3, <4>1
    <3>4. CASE j # w
      <4>1. Behind(n, cp, j) < m.pend /\ rg2[j] = rg[j]
        BY <1>8, <2>2, <3>4
      <4> QED
        BY <3>0, <3>2, <4>1 DEF Known, cp
    <3> QED
      BY <3>3, <3>4
  <2> QED
    BY <2>3, <2>4
<1>15. ASSUME NEW i \in 0 .. n - 1, Behind(n, s, i) < R2
       PROVE  /\ rg2[i] \in Record
              /\ Fresh(rg2[i], c) => lo < rg2[i].m.off /\ rg2[i].m.off <= hi
              /\ rg2[i].seq <= m.last + 1
  <2>1. CASE i = w
    BY <1>2, <1>6, <2>1
  <2>2. CASE i # w
    <3>1. /\ Behind(n, s, i) < R /\ rg2[i] = rg[i] /\ rg[i] \in Record /\ rg[i].seq <= m.last
      BY <1>12, <1>15, <2>2
    <3>2. Fresh(rg[i], c) => lo < rg[i].m.off /\ rg[i].m.off <= hi
      BY <3>1 DEF Laid, R
    <3>3. rg[i].seq <= m.last + 1
      BY <1>2, <1>9, <3>1
    <3> QED
      BY <3>1, <3>2, <3>3
  <2> QED
    BY <2>1, <2>2
<1>16. Laid(rg2, n, s, w2, c, lo, hi)
  <2>1. Ascending(rg2, n, s, R2, c)
    BY <1>13 DEF Ascending
  <2> QED
    BY <1>1, <1>3, <1>6, <1>14, <1>15, <2>1 DEF Laid, R2
<1>17. ASSUME NEW i \in 0 .. n - 1, Behind(n, cp, i) < m.pend + 1
       PROVE  rg2[i] \in Record /\ rg2[i].seq <= m.last + 1
  <2>1. rg2[i] = r \/ (rg2[i] = rg[i] /\ rg[i] \in Record /\ rg[i].seq <= m.last)
    BY <1>6, <1>8, <1>17
  <2> QED
    BY <1>2, <1>9, <2>1
<1>18. ASSUME NEW i \in 0 .. n - 1, NEW j \in 0 .. n - 1, Behind(n, cp, i) < m.pend + 1,
              Behind(n, cp, j) < Behind(n, cp, i)
       PROVE  rg2[j].seq < rg2[i].seq
  <2>0. Behind(n, cp, i) \in Nat /\ Behind(n, cp, j) \in Nat
    BY <1>5
  <2>1. Behind(n, cp, j) < m.pend /\ j # w
    BY <1>2, <1>18, <2>0
  <2>2. rg2[j] = rg[j] /\ rg[j] \in Record /\ rg[j].seq <= m.last
    <3>1. Behind(n, cp, j) < m.pend + 1
      BY <1>2, <2>0, <2>1
    <3> QED
      BY <1>8, <2>1, <3>1
  <2>3. CASE i = w
    <3>1. rg[j].seq \in Nat
      BY <1>9, <2>2
    <3> QED
      BY <1>2, <1>6, <2>2, <2>3, <3>1
  <2>4. CASE i # w
    <3>1. Behind(n, cp, i) < m.pend /\ rg2[i] = rg[i]
      BY <1>8, <1>18, <2>4
    <3> QED
      BY <1>18, <2>2, <3>1 DEF Known, cp
  <2> QED
    BY <2>3, <2>4
<1>19. Known(rg2, n, s, m2)
  <2>1. \A i \in 0 .. n - 1 : rg2[w2] # Blank => rg2[i].seq <= m.last + 1
    BY <1>6, <1>10, <1>17
  <2>2. IF m.pend + 1 = n THEN w2 = cp ELSE Behind(n, cp, w2) = m.pend + 1
    BY <1>4, <1>7 DEF full
  <2>3. m.pend + 1 <= n
    BY <1>1, <1>2
  <2>4. m2.wpos = w2 /\ m2.pend = m.pend + 1 /\ m2.last = m.last + 1 /\ m2.cpos = cp
    BY DEF w2, cp
  <2>5. \A i \in 0 .. n - 1 : Behind(n, s, i) < ReadLen(rg2, n, s, w2) => rg2[i].seq <= m.last + 1
    BY <1>15 DEF R2
  <2> QED
    BY <1>2, <1>17, <1>18, <2>1, <2>2, <2>3, <2>4, <2>5 DEF Known
<1>20. ReadsNoneBut(r, rg2, rg, n, s, w2, w)
  BY <1>6, <1>12 DEF ReadsNoneBut, R2, R
<1> QED
  BY <1>16, <1>19, <1>20 DEF w2

\* The record's payload is behind those of all others.
Behindmost(m) ==
  m \in PutMutation /\ m.len > 0 =>
    /\ mem.foff < m.off /\ m.off <= Len(data)
    /\ \A i \in 0 .. WalSlots - 1 :
         Behind(WalSlots, pageA.cpos, i) < ReadLen(ring, WalSlots, pageA.cpos, mem.wpos)
           /\ Fresh(ring[i], mem.cseq) => ring[i].m.off < m.off
    /\ \A i \in DOMAIN mem.cache : Fresh(mem.cache[i], mem.cseq) => mem.cache[i].m.off < m.off

\* What an append leaves, but for the records that are still to follow.
AppendedRecord(m) ==
  /\ FileTyped' /\ FileInv' /\ mem' \in Mem
  /\ Latest' = Latest /\ data' = data /\ pageA' = pageA /\ WalSlots' = WalSlots
  /\ LaidAt(mem.wpos)'
  /\ Known(ring', WalSlots, pageA.cpos, mem')
  /\ mem'.dirty
  /\ mem'.cache = Append(mem.cache, [seq |-> mem.last + 1, m |-> m])
  /\ IsCache(mem'.cache, mem.cseq, mem.foff, Len(data))
  /\ mem'.foff = mem.foff /\ mem'.gen = mem.gen /\ mem'.cseq = mem.cseq
  /\ mem'.hpgen = mem.hpgen /\ mem'.last = mem.last + 1
  /\ ReadsNoneBut([seq |-> mem.last + 1, m |-> m], ring', ring, WalSlots, pageA.cpos,
                  mem'.wpos, mem.wpos)

LEMMA AppendMem ==
  ASSUME FileTyped, mem \in Mem, mem.wpos \in 0 .. WalSlots - 1, NEW m \in Mutation, AppendRecord(m)
  PROVE  /\ [seq |-> mem.last + 1, m |-> m] \in Record
         /\ ring' = Appended(ring, WalSlots, mem.wpos, mem.pend + 1 = WalSlots,
                             [seq |-> mem.last + 1, m |-> m])
         /\ mem' \in Mem
         /\ mem'.wpos = At(WalSlots, mem.wpos, 1)
<1> DEFINE r == [seq |-> mem.last + 1, m |-> m]
<1>1. WalSlots \in Nat \ {0} /\ Slots = 0 .. WalSlots - 1
  BY RingFacts
<1>2. (mem.wpos + 1) % WalSlots = At(WalSlots, mem.wpos, 1)
      /\ At(WalSlots, mem.wpos, 1) \in 0 .. WalSlots - 1
  <2>1. 1 \in 0 .. WalSlots
    BY <1>1
  <2> QED
    BY <1>1, <2>1, Wraps
<1>3. r \in Record
  BY DEF Record, Mem
<1>4. m.id \in Nat
  BY DEF Mutation, PutMutation
<1>5. Append(mem.cache, r) \in Seq(Record)
  BY <1>3 DEF Mem
<1>6. ring' = Appended(ring, WalSlots, mem.wpos, mem.pend + 1 = WalSlots, r)
  BY <1>1, <1>2 DEF AppendRecord, RingWith, Appended
<1>7. mem' = [mem EXCEPT !.wpos = At(WalSlots, mem.wpos, 1),
                         !.pend = mem.pend + 1,
                         !.last = mem.last + 1,
                         !.cache = Append(mem.cache, r),
                         !.next_id = IF m.kind = "put" THEN m.id + 1 ELSE mem.next_id,
                         !.dirty = TRUE,
                         !.local = TRUE]
  BY <1>2 DEF AppendRecord
<1>8. mem' \in Mem /\ mem'.wpos = At(WalSlots, mem.wpos, 1)
  <2> DEFINE next == IF m.kind = "put" THEN m.id + 1 ELSE mem.next_id
             cache == Append(mem.cache, r)
             slot == At(WalSlots, mem.wpos, 1)
  <2>1. next \in Nat /\ cache \in Seq(Record) /\ slot \in Nat
    <3>1. next \in Nat
      BY <1>4 DEF Mem
    <3>2. slot \in Nat
      BY <1>1, <1>2
    <3> QED
      BY <1>5, <3>1, <3>2
  <2>2. mem.pend + 1 \in Nat /\ mem.last + 1 \in Nat
    BY DEF Mem
  <2> HIDE DEF next, cache, slot
  <2>3. [mem EXCEPT !.wpos = slot, !.pend = mem.pend + 1, !.last = mem.last + 1, !.cache = cache,
                    !.next_id = next, !.dirty = TRUE, !.local = TRUE] \in Mem
    BY <2>1, <2>2 DEF Mem
  <2>4. mem' = [mem EXCEPT !.wpos = slot, !.pend = mem.pend + 1, !.last = mem.last + 1,
                           !.cache = cache, !.next_id = next, !.dirty = TRUE, !.local = TRUE]
    BY <1>7 DEF next, cache, slot
  <2> QED
    BY <2>3, <2>4 DEF slot, Mem
<1> QED
  BY <1>3, <1>6, <1>8

LEMMA Appending ==
  ASSUME FileTyped, FileInv, MemInv, mem \in Mem, UpToDate, UNCHANGED <<data, pageA, pageB>>,
         NEW m \in Mutation, Behindmost(m), AppendRecord(m)
  PROVE  AppendedRecord(m)
<1> DEFINE r == [seq |-> mem.last + 1, m |-> m]
           n == WalSlots
           s == pageA.cpos
           w == mem.wpos
           c == mem.cseq
<1>1. /\ n \in Nat \ {0} /\ Slots = 0 .. n - 1
  BY RingFacts
<1>2. /\ Laid(ring, n, s, w, c, mem.foff, Len(data)) /\ w \in 0 .. n - 1
      /\ c \in Nat /\ mem.foff = Latest /\ c = data[Latest].cseq
  BY DEF MemInv, LaidAt, UpToDate, Laid, Mem
<1>3. /\ r \in Record
      /\ ring' = Appended(ring, n, w, mem.pend + 1 = n, r)
      /\ mem' \in Mem /\ mem'.wpos = At(n, w, 1)
  BY <1>2, AppendMem
<1>4. /\ mem.pend < n
      /\ mem'.pend = mem.pend + 1 /\ mem'.last = mem.last + 1 /\ mem'.cpos = mem.cpos
      /\ mem'.foff = mem.foff /\ mem'.gen = mem.gen /\ mem'.cseq = mem.cseq
      /\ mem'.hpgen = mem.hpgen /\ mem'.dirty
      /\ mem'.cache = Append(mem.cache, r)
  BY DEF AppendRecord, Mem
<1>5. Known(ring, n, s, mem)
  BY DEF MemInv
<1>6. ASSUME Fresh(r, c)
      PROVE  /\ mem.foff < m.off /\ m.off <= Len(data)
             /\ \A i \in 0 .. n - 1 :
                  Behind(n, s, i) < ReadLen(ring, n, s, w) /\ Fresh(ring[i], c) =>
                    ring[i].m.off < m.off
             /\ \A i \in DOMAIN mem.cache : Fresh(mem.cache[i], c) => mem.cache[i].m.off < m.off
  <2>1. m \in PutMutation /\ m.len > 0
    BY <1>3, <1>6, RecordHas DEF Fresh
  <2> QED
    BY <2>1 DEF Behindmost
<1> HIDE DEF n, s, w, c
<1>7. r.seq = mem.last + 1 /\ r.m = m
  OBVIOUS
<1> HIDE DEF r
<1>8. /\ Laid(ring', n, s, At(n, w, 1), c, mem.foff, Len(data))
      /\ Known(ring', n, s, mem')
      /\ ReadsNoneBut(r, ring', ring, n, s, At(n, w, 1), w)
  <2>1. Fresh(r, c) =>
          /\ mem.foff < r.m.off /\ r.m.off <= Len(data)
          /\ \A i \in 0 .. n - 1 :
               Behind(n, s, i) < ReadLen(ring, n, s, w) /\ Fresh(ring[i], c) =>
                 ring[i].m.off < r.m.off
    BY <1>6, <1>7
  <2>2. mem.wpos = w
    BY DEF w
  <2> QED
    <3>1. Appends(ring, n, s, w, c, mem.foff, Len(data), mem, r, ring', mem')
      BY <1>2, <1>3, <1>4, <1>5, <1>7, <2>1, <2>2 DEF Appends
    <3> QED
      BY <3>1, AppendsToRing
<1>9. WalSlots' = n /\ Slots' = Slots
  <2>1. DOMAIN ring' = 0 .. n - 1
    BY <1>3 DEF Appended
  <2> QED
    BY <1>1, <2>1 DEF n, Slots, WalSlots
<1>10. Latest' = Latest
  BY SameData
<1>11. LaidAt(mem.wpos)'
  BY <1>2, <1>3, <1>8, <1>9, <1>10 DEF LaidAt, s
<1>12. FileTyped'
  <2>1. n \in RingSizes
    BY RingFacts DEF n
  <2>2. ring' \in [0 .. n - 1 -> Record \cup {Blank}]
    BY <1>8 DEF Laid
  <2> QED
    BY <2>1, <2>2 DEF FileTyped
<1>13. FileInv'
  <2>1. IsLatest(data', Latest') /\ pageB'.hpgen <= pageA'.hpgen
    BY <1>10 DEF FileInv
  <2>2. PICK next : next = At(n, w, 1)
    OBVIOUS
  <2>3. next \in Slots'
    BY <1>1, <1>8, <1>9, <2>2 DEF Laid, n
  <2>4. LaidAt(next)'
    BY <1>2, <1>8, <1>9, <1>10, <2>2 DEF LaidAt, s
  <2> QED
    BY <2>1, <2>3, <2>4 DEF FileInv
<1>14. IsCache(mem'.cache, c, mem.foff, Len(data))
  <2> DEFINE old == mem.cache
             new == mem'.cache
  <2>1. old \in Seq(Record)
    BY DEF Mem
  <2>2. /\ DOMAIN new = 1 .. Len(old) + 1
        /\ DOMAIN old = 1 .. Len(old)
        /\ new[Len(old) + 1] = r
        /\ \A i \in 1 .. Len(old) : new[i] = old[i]
    BY <1>3, <1>4, <2>1
  <2>3. IsCache(old, c, mem.foff, Len(data)) /\ mem.last >= c
    BY DEF UpToDate, c
  <2>4. r.seq > c
    BY <1>2, <1>7, <2>3 DEF Mem, c
  <2> HIDE DEF old, new
  <2>5. ASSUME NEW i \in DOMAIN new
        PROVE  /\ new[i].seq > c
               /\ Fresh(new[i], c) => mem.foff < new[i].m.off /\ new[i].m.off <= Len(data)
    <3>1. CASE i = Len(old) + 1
      BY <1>6, <1>7, <2>2, <2>4, <3>1
    <3>2. CASE i \in 1 .. Len(old)
      BY <2>2, <2>3, <3>2 DEF IsCache
    <3> QED
      BY <2>1, <2>2, <3>1, <3>2
  <2>6. ASSUME NEW i \in DOMAIN new, NEW j \in DOMAIN new, i < j, Fresh(new[i], c), Fresh(new[j], c)
        PROVE  new[i].m.off < new[j].m.off
    <3>1. i \in 1 .. Len(old) /\ new[i] = old[i]
      BY <2>1, <2>2, <2>6
    <3>2. CASE j = Len(old) + 1
      BY <1>6, <1>7, <2>2, <2>6, <3>1, <3>2 DEF old
    <3>3. CASE j \in 1 .. Len(old)
      BY <2>2, <2>3, <2>6, <3>1, <3>3 DEF IsCache
    <3> QED
      BY <2>1, <2>2, <3>2, <3>3
  <2> QED
    BY <2>5, <2>6 DEF IsCache, new
<1> QED
  BY <1>3, <1>4, <1>7, <1>8, <1>9, <1>10, <1>11, <1>12, <1>13, <1>14 DEF AppendedRecord, r, n, s, w, c


\* Records still to follow are behind the appended one too.
LEMMA TodoAfter ==
  ASSUME NEW m, AppendedRecord(m), mem \in Mem, m \in Mutation,
         NEW q, IsTodo(q, ring, WalSlots, pageA.cpos, mem, mem.cseq, Len(data)),
         m \in PutMutation /\ m.len > 0 => \A i \in DOMAIN q : q[i].len > 0 => m.off < q[i].off
  PROVE  IsTodo(q, ring', WalSlots', pageA'.cpos, mem', mem'.cseq, Len(data'))
<1> DEFINE r == [seq |-> mem.last + 1, m |-> m]
           n == WalSlots
           s == pageA.cpos
           c == mem.cseq
<1>1. /\ data' = data /\ pageA' = pageA /\ WalSlots' = n
      /\ mem'.foff = mem.foff /\ mem'.cseq = c
      /\ mem'.cache = Append(mem.cache, r)
      /\ ReadsNoneBut(r, ring', ring, n, s, mem'.wpos, mem.wpos)
  BY DEF AppendedRecord
<1>2. mem.cache \in Seq(Record) /\ r \in Record
  BY DEF Mem, Record
<1>3. /\ DOMAIN mem'.cache = 1 .. Len(mem.cache) + 1
      /\ DOMAIN mem.cache = 1 .. Len(mem.cache)
      /\ mem'.cache[Len(mem.cache) + 1] = r
      /\ \A i \in 1 .. Len(mem.cache) : mem'.cache[i] = mem.cache[i]
  BY <1>1, <1>2
<1>4. r.m = m
  OBVIOUS
<1> HIDE DEF r, n, s, c
<1>5. ASSUME NEW i \in DOMAIN q, q[i].len > 0
      PROVE  /\ q[i].off <= Len(data)
             /\ mem.foff < q[i].off
             /\ \A j \in DOMAIN q : i < j /\ q[j].len > 0 => q[i].off < q[j].off
             /\ \A j \in 0 .. n - 1 :
                  Behind(n, s, j) < ReadLen(ring, n, s, mem.wpos) /\ Fresh(ring[j], c) =>
                    ring[j].m.off < q[i].off
             /\ \A j \in DOMAIN mem.cache : Fresh(mem.cache[j], c) => mem.cache[j].m.off < q[i].off
             /\ Fresh(r, c) => r.m.off < q[i].off
  <2>1. Fresh(r, c) => m \in PutMutation /\ m.len > 0
    BY <1>2, <1>4, RecordHas DEF Fresh
  <2> QED
    BY <1>4, <1>5, <2>1 DEF IsTodo, n, s, c
<1>6. ASSUME NEW i \in DOMAIN q, q[i].len > 0
      PROVE  /\ \A j \in 0 .. n - 1 :
                  Behind(n, s, j) < ReadLen(ring', n, s, mem'.wpos) /\ Fresh(ring'[j], c) =>
                    ring'[j].m.off < q[i].off
             /\ \A j \in DOMAIN mem'.cache :
                  Fresh(mem'.cache[j], c) => mem'.cache[j].m.off < q[i].off
  <2>1. ASSUME NEW j \in 0 .. n - 1, Behind(n, s, j) < ReadLen(ring', n, s, mem'.wpos),
               Fresh(ring'[j], c)
        PROVE  ring'[j].m.off < q[i].off
    <3>1. \/ ring'[j] = r
          \/ Behind(n, s, j) < ReadLen(ring, n, s, mem.wpos) /\ ring'[j] = ring[j]
      BY <1>1, <2>1 DEF ReadsNoneBut
    <3> QED
      BY <1>5, <1>6, <2>1, <3>1
  <2>2. ASSUME NEW j \in DOMAIN mem'.cache, Fresh(mem'.cache[j], c)
        PROVE  mem'.cache[j].m.off < q[i].off
    <3>1. CASE j = Len(mem.cache) + 1
      BY <1>3, <1>5, <1>6, <2>2, <3>1
    <3>2. CASE j \in DOMAIN mem.cache
      BY <1>3, <1>5, <1>6, <2>2, <3>2
    <3> QED
      BY <1>2, <1>3, <3>1, <3>2
  <2> QED
    BY <2>1, <2>2
<1>7. IsTodo(q, ring', n, s, mem', c, Len(data))
  BY <1>1, <1>5, <1>6 DEF IsTodo
<1> QED
  BY <1>1, <1>7 DEF n, s, c

LEMMA AppendedKeeps ==
  ASSUME StoreInv, UpToDate, NEW m, AppendedRecord(m), UNCHANGED <<closing, failed>>,
         stage \in {"idle", "append"}, stage' \in {"idle", "append"}, ~failed,
         todo' \in Seq(PutMutation), stage' = "append" <=> todo' # <<>>,
         IsTodo(todo', ring', WalSlots', pageA'.cpos, mem', mem'.cseq, Len(data'))
  PROVE  StoreInv'
<1>1. mem \in Mem
  BY DEF StoreInv, TypeOK
<1>2. UpToDate'
  <2>1. mem'.last >= mem'.cseq
    <3>1. mem.last \in Nat /\ mem.cseq \in Nat
      BY <1>1 DEF Mem
    <3>2. mem.last >= mem.cseq
      BY DEF UpToDate
    <3>3. mem'.last = mem.last + 1 /\ mem'.cseq = mem.cseq
      BY DEF AppendedRecord
    <3> QED
      BY <3>1, <3>2, <3>3
  <2> QED
    BY <2>1 DEF UpToDate, AppendedRecord
<1>3. MemInv'
  BY <1>2 DEF MemInv, AppendedRecord
<1>4. TypeOK'
  BY DEF StoreInv, TypeOK, AppendedRecord, Stages, CommitStages
<1> QED
  BY <1>3, <1>4 DEF StoreInv, AppendedRecord, CommitStages

LEMMA AppendNextKeeps ==
  ASSUME StoreInv, AppendNext
  PROVE  StoreInv'
<1> DEFINE m == Head(todo)
<1>1. /\ stage = "append" /\ AppendRecord(m)
      /\ todo' = Tail(todo)
      /\ stage' = IF Len(todo) = 1 THEN "idle" ELSE "append"
      /\ UNCHANGED <<data, pageA, pageB, plan, closing, failed>>
  BY DEF AppendNext
<1>2. FileTyped /\ FileInv /\ MemInv /\ UpToDate /\ mem \in Mem /\ ~failed
  BY <1>1 DEF StoreInv, TypeOK, Running, MemInv
<1>3. todo \in Seq(PutMutation) /\ todo # <<>>
  BY <1>1 DEF StoreInv, TypeOK
<1>4. /\ Len(todo) \in Nat /\ Len(todo) > 0 /\ DOMAIN todo = 1 .. Len(todo)
      /\ m = todo[1] /\ m \in PutMutation /\ m \in Mutation
      /\ todo' \in Seq(PutMutation) /\ Len(todo') = Len(todo) - 1
      /\ DOMAIN todo' = 1 .. Len(todo) - 1
      /\ \A i \in DOMAIN todo' : todo'[i] = todo[i + 1]
  BY <1>1, <1>3 DEF Mutation
<1>5. IsTodo(todo, ring, WalSlots, pageA.cpos, mem, mem.cseq, Len(data))
  BY <1>2 DEF UpToDate
<1> HIDE DEF m
<1>6. Behindmost(m)
  <2>1. 1 \in DOMAIN todo
    BY <1>4
  <2> QED
    BY <1>4, <1>5, <2>1 DEF Behindmost, IsTodo
<1>7. AppendedRecord(m)
  BY <1>1, <1>2, <1>4, <1>6, Appending
<1>8. \A i \in DOMAIN todo' : i + 1 \in DOMAIN todo /\ 1 < i + 1
  BY <1>4
<1>9. IsTodo(todo', ring, WalSlots, pageA.cpos, mem, mem.cseq, Len(data))
  <2>1. \A i, j \in DOMAIN todo' : i < j => i + 1 < j + 1
    BY <1>4
  <2> QED
    BY <1>4, <1>5, <1>8, <2>1 DEF IsTodo
<1>10. m.len > 0 => \A i \in DOMAIN todo' : todo'[i].len > 0 => m.off < todo'[i].off
  <2>1. 1 \in DOMAIN todo
    BY <1>4
  <2> QED
    BY <1>4, <1>5, <1>8, <2>1 DEF IsTodo
<1>11. IsTodo(todo', ring', WalSlots', pageA'.cpos, mem', mem'.cseq, Len(data'))
  BY <1>2, <1>4, <1>7, <1>9, <1>10, TodoAfter
<1>12. stage' = "append" <=> todo' # <<>>
  <2>1. todo' = <<>> <=> Len(todo') = 0
    BY <1>4
  <2> QED
    BY <1>1, <1>4, <2>1
<1> QED
  BY <1>1, <1>2, <1>4, <1>7, <1>11, <1>12, AppendedKeeps

\* Delete and PutEmbedding append a record that names no payload.
LEMMA MutationKeeps ==
  ASSUME StoreInv, Ready, NEW m \in Mutation, m \notin PutMutation, AppendRecord(m),
         UNCHANGED <<data, pageA, pageB, stage, call, failed>>
  PROVE  StoreInv'
<1>1. stage = "idle" /\ ~failed /\ stage' = stage /\ todo' = todo
  BY DEF Ready, call
<1>2. FileTyped /\ FileInv /\ MemInv /\ UpToDate /\ mem \in Mem /\ todo = <<>>
  BY <1>1 DEF StoreInv, TypeOK, Running, MemInv
<1>3. AppendedRecord(m)
  BY <1>2, Appending DEF Behindmost
<1>4. IsTodo(todo', ring', WalSlots', pageA'.cpos, mem', mem'.cseq, Len(data'))
  BY <1>1, <1>2 DEF IsTodo
<1>5. todo' \in Seq(PutMutation)
  BY <1>1, <1>2
<1> QED
  BY <1>1, <1>2, <1>3, <1>4, <1>5, AppendedKeeps DEF call


-----------------------------------------------------------------------------
(* Steps of a running process that leave the file alone.                    *)

LEMMA SameFile ==
  ASSUME UNCHANGED file
  PROVE  /\ Latest' = Latest /\ WalSlots' = WalSlots /\ Slots' = Slots
         /\ FileTyped => FileTyped'
         /\ FileInv => FileInv'
         /\ \A w : LaidAt(w) => LaidAt(w)'
<1>1. ring' = ring /\ data' = data /\ pageA' = pageA /\ pageB' = pageB
  BY DEF file
<1>2. Latest' = Latest /\ WalSlots' = WalSlots /\ Slots' = Slots
  BY <1>1, SameData, SameRing
<1>3. \A w : LaidAt(w) => LaidAt(w)'
  BY <1>1, <1>2 DEF LaidAt
<1>4. FileInv => FileInv'
  BY <1>1, <1>2, <1>3 DEF FileInv
<1>5. FileTyped => FileTyped'
  BY <1>1 DEF FileTyped
<1> QED
  BY <1>2, <1>3, <1>4, <1>5

\* What holds of the memory goes on holding when neither it nor the file changes.
LEMMA SameMemory ==
  ASSUME MemInv, UNCHANGED <<file, mem, todo>>
  PROVE  /\ UpToDate => UpToDate'
         /\ LaidAt(mem.wpos)'
         /\ Known(ring', WalSlots', pageA'.cpos, mem')
         /\ (data[Latest].gen > mem.gen)' = (data[Latest].gen > mem.gen)
         /\ mem'.local => mem'.dirty
<1>1. /\ ring' = ring /\ data' = data /\ pageA' = pageA /\ pageB' = pageB
      /\ mem' = mem /\ todo' = todo
  BY DEF file
<1>2. Latest' = Latest /\ WalSlots' = WalSlots
  BY <1>1, SameData, SameRing
<1>3. LaidAt(mem.wpos)'
  BY <1>1, <1>2 DEF LaidAt, MemInv
<1>4. UpToDate => UpToDate'
  BY <1>1, <1>2 DEF UpToDate
<1> QED
  BY <1>1, <1>2, <1>3, <1>4 DEF MemInv

LEMMA CloseCleanKeeps ==
  ASSUME StoreInv, CloseClean
  PROVE  StoreInv'
<1>1. UNCHANGED file /\ stage' = "closed" /\ ~failed /\ stage = "idle"
      /\ UNCHANGED <<todo, plan, closing, failed>>
  BY DEF CloseClean, Ready, call
<1>2. FileTyped' /\ FileInv'
  BY <1>1, SameFile DEF StoreInv, TypeOK
<1> QED
  BY <1>1, <1>2 DEF StoreInv, TypeOK, Running, Stages, CommitStages

LEMMA ProcessDiesKeeps ==
  ASSUME StoreInv, ProcessDies
  PROVE  StoreInv'
<1>1. UNCHANGED file /\ stage' = "down" /\ todo' = <<>> /\ closing' = FALSE /\ failed' = FALSE
  BY DEF ProcessDies
<1>2. FileTyped' /\ FileInv'
  BY <1>1, SameFile DEF StoreInv, TypeOK
<1>3. todo' \in Seq(PutMutation)
  BY <1>1
<1> QED
  BY <1>1, <1>2, <1>3 DEF StoreInv, TypeOK, Running, Stages, CommitStages

\* A process that has just read the file, and has nothing else to do.
LEMMA ReopenedKeeps ==
  ASSUME FileTyped', FileInv', MemInv', mem' \in Mem, stage' = "idle", todo' = <<>>,
         closing' \in BOOLEAN, failed' \in BOOLEAN
  PROVE  StoreInv'
<1>1. todo' \in Seq(PutMutation)
  OBVIOUS
<1> QED
  BY <1>1 DEF StoreInv, TypeOK, Stages, CommitStages

LEMMA OpenKeeps ==
  ASSUME StoreInv, Open
  PROVE  StoreInv'
<1>1. /\ stage \in {"down", "closed"} /\ stage' = "idle"
      /\ mem' = Loaded /\ data' = SubSeq(data, 1, RequiredEnd)
      /\ UNCHANGED <<ring, pageA, pageB>>
      /\ todo' = todo /\ closing' = closing /\ failed' = failed
  BY DEF Open, call
<1>2. FileTyped /\ FileInv /\ todo = <<>> /\ closing \in BOOLEAN /\ failed \in BOOLEAN
  BY <1>1 DEF StoreInv, TypeOK
<1>3. RequiredEnd \in Latest .. Len(data) /\ Latest \in 1 .. Len(data)
  BY <1>2, RequiredEndFacts, FooterTyped DEF FileTyped, FileInv
<1>4. data \in Seq(Cell) /\ RequiredEnd \in 1 .. Len(data)
  BY <1>2, <1>3 DEF FileTyped
<1>5. /\ data' \in Seq(Cell) /\ Len(data') = RequiredEnd
      /\ \A i \in DOMAIN data' : i \in DOMAIN data /\ data'[i] = data[i]
  <2> DEFINE e == RequiredEnd
  <2> HIDE DEF e
  <2>1. e \in 1 .. Len(data) /\ data' = SubSeq(data, 1, e)
    BY <1>1, <1>4 DEF e
  <2>2. data' \in Seq(Cell) /\ Len(data') = e /\ \A i \in 1 .. e : data'[i] = data[i]
    BY <1>4, <2>1
  <2> QED
    BY <1>4, <2>1, <2>2 DEF e
<1>6. RequiredEnd <= Len(data')
  BY <1>4, <1>5
<1>7. FileTyped' /\ FileInv' /\ MemInv' /\ mem' \in Mem
  BY <1>1, <1>2, <1>5, <1>6, Reopening
<1> QED
  BY <1>1, <1>2, <1>7, ReopenedKeeps

LEMMA RereadKeeps ==
  ASSUME StoreInv, stage \in {"idle", "closed"}, stage' = "idle", mem' = Loaded,
         UNCHANGED <<file, call>>, failed' \in BOOLEAN
  PROVE  StoreInv'
<1>1. /\ data' = data /\ UNCHANGED <<ring, pageA, pageB>>
      /\ stage' = "idle" /\ todo' = todo /\ closing' = closing
  BY DEF file, call
<1>2. FileTyped /\ FileInv /\ todo = <<>> /\ closing \in BOOLEAN
  BY DEF StoreInv, TypeOK
<1>3. data' \in Seq(Cell) /\ RequiredEnd <= Len(data')
  <2>1. RequiredEnd \in Latest .. Len(data) /\ Latest \in 1 .. Len(data) /\ data \in Seq(Cell)
    BY <1>2, RequiredEndFacts, FooterTyped DEF FileTyped, FileInv
  <2> QED
    BY <1>1, <2>1
<1>4. FileTyped' /\ FileInv' /\ MemInv' /\ mem' \in Mem
  BY <1>1, <1>2, <1>3, Reopening
<1> QED
  BY <1>1, <1>2, <1>4, ReopenedKeeps

LEMMA VerifyKeeps ==
  ASSUME StoreInv, Verify
  PROVE  StoreInv'
<1>1. /\ failed' \in BOOLEAN /\ stage \in {"idle", "closed"} /\ stage' = "idle"
      /\ mem' = Loaded /\ UNCHANGED <<file, call>>
  BY DEF Verify, StoreInv, TypeOK
<1> QED
  BY <1>1, RereadKeeps

\* A refresh that finds nothing newer leaves a memory that was up to date.
LEMMA RefreshKeeps ==
  ASSUME StoreInv, TryRefreshIfPublishedCommitVisible
  PROVE  StoreInv'
<1>1. stage = "idle" /\ failed' = FALSE /\ UNCHANGED <<file, stage, call>>
  BY DEF TryRefreshIfPublishedCommitVisible
<1>2. CASE data[Latest].gen > mem.gen
  BY <1>1, <1>2, RereadKeeps DEF TryRefreshIfPublishedCommitVisible
<1>3. CASE ~(data[Latest].gen > mem.gen)
  <2>1. mem' = mem /\ todo' = todo /\ stage' = stage /\ closing' = closing
    BY <1>1, <1>3 DEF TryRefreshIfPublishedCommitVisible, call
  <2>2. FileTyped /\ FileInv /\ MemInv /\ UpToDate
    BY <1>1, <1>3 DEF StoreInv, TypeOK, Running, MemInv
  <2>3. FileTyped' /\ FileInv'
    BY <1>1, <2>2, SameFile
  <2>4. MemInv'
    BY <1>1, <2>1, <2>2, SameMemory DEF MemInv
  <2> QED
    BY <1>1, <2>1, <2>3, <2>4 DEF StoreInv, TypeOK, CommitStages
<1> QED
  BY <1>2, <1>3


-----------------------------------------------------------------------------
(* What a commit plans.                                                     *)

\* The ids that records delete.
Gone(records) == {r.m.id : r \in {q \in ToSet(records) : q.m.kind = "delete"}}

\* The i-th frame when the puts have been added to fs and nothing deleted yet.
Base(fs, puts, i) == IF i <= Len(fs) THEN fs[i] ELSE NewFrame(puts[i - Len(fs)].m)

\* The frames of a store with puts appended to it, and some frames deleted.
IsApplied(new, fs, records, puts) ==
  /\ puts \in Seq(Record)
  /\ new \in Seq(Frame)
  /\ Len(new) = Len(fs) + Len(puts)
  /\ \A i \in 1 .. Len(new) :
       /\ new[i].off = Base(fs, puts, i).off /\ new[i].len = Base(fs, puts, i).len
       /\ new[i].deleted = (Base(fs, puts, i).deleted \/ i - 1 \in Gone(records))

LEMMA ApplyForm ==
  ASSUME NEW fs \in Seq(Frame), NEW records \in Seq(Record)
  PROVE  IsApplied(Apply(fs, records), fs, records, PutRecords(records))
<1> DEFINE puts == PutRecords(records)
           news == [i \in DOMAIN puts |-> NewFrame(puts[i].m)]
           all == fs \o news
           gone == Gone(records)
           new == Apply(fs, records)
<1>1. puts \in Seq(Record) /\ \A i \in DOMAIN puts : puts[i] \in PutRecord
  BY OnlyElements DEF PutRecords
<1>2. new = [i \in DOMAIN all |-> [all[i] EXCEPT !.deleted = @ \/ i - 1 \in gone]]
  BY DEF Apply, Gone
<1> HIDE DEF puts, gone, new
<1>3. DOMAIN puts = 1 .. Len(puts) /\ Len(puts) \in Nat
  BY <1>1
<1>4. \A i \in 1 .. Len(puts) : NewFrame(puts[i].m) \in Frame
  <2> TAKE i \in 1 .. Len(puts)
  <2>1. puts[i] \in Record /\ puts[i] \in PutRecord
    BY <1>1, <1>3
  <2>2. puts[i].m.off \in Nat /\ puts[i].m.len \in Nat
    BY <2>1, RecordHas
  <2> QED
    BY <2>2 DEF NewFrame, Frame
<1>5. news \in Seq(Frame) /\ Len(news) = Len(puts)
      /\ \A i \in 1 .. Len(puts) : news[i] = NewFrame(puts[i].m)
  BY <1>3, <1>4
<1> HIDE DEF news
<1>6. IsJoined(all, fs, news, Frame)
  BY <1>5, Joined
<1>7. /\ all \in Seq(Frame) /\ Len(all) = Len(fs) + Len(puts)
      /\ \A i \in 1 .. Len(all) : all[i] = IF i <= Len(fs) THEN fs[i] ELSE news[i - Len(fs)]
  BY <1>5, <1>6 DEF IsJoined
<1> HIDE DEF all
<1>8. DOMAIN all = 1 .. Len(all) /\ Len(all) \in Nat
  BY <1>7
<1>9. \A i \in 1 .. Len(all) :
        /\ new[i] \in Frame /\ new[i].off = all[i].off /\ new[i].len = all[i].len
        /\ new[i].deleted = (all[i].deleted \/ i - 1 \in gone)
  <2> TAKE i \in 1 .. Len(all)
  <2> DEFINE is == i - 1 \in gone
  <2>1. is \in BOOLEAN
    OBVIOUS
  <2> HIDE DEF is
  <2>2. new[i] = [all[i] EXCEPT !.deleted = @ \/ is]
    BY <1>2, <1>8 DEF is
  <2>3. all[i] \in Frame
    BY <1>7
  <2> DEFINE bit == all[i].deleted \/ is
  <2>4. bit \in BOOLEAN
    OBVIOUS
  <2>5. new[i] = [all[i] EXCEPT !.deleted = bit]
    BY <2>2, <2>3 DEF Frame
  <2> HIDE DEF bit
  <2>6. new[i] \in Frame /\ new[i].off = all[i].off /\ new[i].len = all[i].len /\ new[i].deleted = bit
    BY <2>3, <2>4, <2>5 DEF Frame
  <2> QED
    BY <2>6, Zenon DEF bit, is
<1>10. DOMAIN new = 1 .. Len(all)
  BY <1>2, <1>8
<1>11. new \in Seq(Frame) /\ Len(new) = Len(all)
  <2>1. new = [i \in 1 .. Len(all) |-> new[i]]
    BY <1>2, <1>8, <1>10
  <2> QED
    BY <1>8, <1>9, <2>1
<1>12. ASSUME NEW i \in 1 .. Len(all)
       PROVE  all[i] = Base(fs, puts, i)
  <2>1. CASE i <= Len(fs)
    BY <1>7, <2>1 DEF Base
  <2>2. CASE ~(i <= Len(fs))
    <3>1. i - Len(fs) \in 1 .. Len(puts)
      BY <1>3, <1>7, <2>2
    <3> QED
      BY <1>5, <1>7, <2>2, <3>1 DEF Base
  <2> QED
    BY <2>1, <2>2
<1>13. ASSUME NEW i \in 1 .. Len(new)
       PROVE  /\ new[i].off = Base(fs, puts, i).off /\ new[i].len = Base(fs, puts, i).len
              /\ new[i].deleted = (Base(fs, puts, i).deleted \/ i - 1 \in gone)
  <2>1. i \in 1 .. Len(all)
    BY <1>11
  <2> QED
    BY <1>9, <1>12, <2>1
<1> QED
  BY <1>1, <1>7, <1>11, <1>13 DEF IsApplied, puts, new, gone

LEMMA ApplyFacts ==
  ASSUME NEW fs \in Seq(Frame), NEW records \in Seq(Record)
  PROVE  /\ PutRecords(records) \in Seq(Record)
         /\ Apply(fs, records) \in Seq(Frame)
         /\ Len(Apply(fs, records)) = Len(fs) + Len(PutRecords(records))
         /\ \A i \in 1 .. Len(fs) + Len(PutRecords(records)) :
              IF i <= Len(fs)
                THEN /\ Apply(fs, records)[i].off = fs[i].off
                     /\ Apply(fs, records)[i].len = fs[i].len
                ELSE /\ Apply(fs, records)[i].off = PutRecords(records)[i - Len(fs)].m.off
                     /\ Apply(fs, records)[i].len = PutRecords(records)[i - Len(fs)].m.len
BY ApplyForm DEF IsApplied, Base, NewFrame

\* Pending puts that name a payload name payloads behind the footer, in order.
PutsInOrder(puts, lo, hi) ==
  /\ \A i \in DOMAIN puts : puts[i] \in PutRecord
  /\ \A i \in DOMAIN puts : puts[i].m.len > 0 => lo < puts[i].m.off /\ puts[i].m.off <= hi
  /\ \A i, j \in DOMAIN puts : i < j /\ puts[i].m.len > 0 /\ puts[j].m.len > 0 =>
       puts[i].m.off < puts[j].m.off

LEMMA CachePuts ==
  ASSUME NEW cache \in Seq(Record), NEW c, NEW lo, NEW hi, IsCache(cache, c, lo, hi)
  PROVE  PutsInOrder(PutRecords(cache), lo, hi)
<1> DEFINE puts == PutRecords(cache)
<1>1. /\ puts \in Seq(Record) /\ \A i \in DOMAIN puts : puts[i] \in PutRecord
      /\ \E at : Places(at, puts, cache, PutRecord, Len(cache))
  BY OnlyElements DEF PutRecords
<1>2. PICK at : Places(at, puts, cache, PutRecord, Len(cache))
  BY <1>1
<1> HIDE DEF puts
<1>3. DOMAIN puts = 1 .. Len(puts) /\ DOMAIN cache = 1 .. Len(cache)
  BY <1>1
<1>4. \A i \in DOMAIN puts : at[i] \in DOMAIN cache /\ puts[i] = cache[at[i]]
  BY <1>2, <1>3 DEF Places
<1>5. \A i, j \in DOMAIN puts : i < j => at[i] < at[j]
  BY <1>2, <1>3 DEF Places
<1>6. \A i \in DOMAIN puts : puts[i].m.len > 0 => Fresh(cache[at[i]], c)
  BY <1>1, <1>4 DEF Fresh, IsCache
<1>7. \A i \in DOMAIN puts : puts[i].m.len > 0 => lo < puts[i].m.off /\ puts[i].m.off <= hi
  BY <1>4, <1>6 DEF IsCache
<1>8. \A i, j \in DOMAIN puts : i < j /\ puts[i].m.len > 0 /\ puts[j].m.len > 0 =>
        puts[i].m.off < puts[j].m.off
  BY <1>4, <1>5, <1>6 DEF IsCache
<1> QED
  BY <1>1, <1>7, <1>8 DEF PutsInOrder, puts

\* Payloads of the frames a commit publishes lie before the end hi, each in its place.
LEMMA AppliedValid ==
  ASSUME NEW fs \in Seq(Frame), NEW records \in Seq(Record), NEW lo \in Nat, NEW hi \in Nat,
         lo <= hi, RangesValid(fs, lo), PutsInOrder(PutRecords(records), lo, hi),
         NEW new, new = Apply(fs, records)
  PROVE  /\ \A i \in DOMAIN new : new[i].len > 0 => new[i].off \in Nat /\ new[i].off <= hi
         /\ \A i, j \in DOMAIN new : new[i].len > 0 /\ new[j].len > 0 /\ i # j =>
              new[i].off # new[j].off
<1> DEFINE puts == PutRecords(records)
           n == Len(fs)
<1>1. /\ puts \in Seq(Record) /\ new \in Seq(Frame) /\ Len(new) = n + Len(puts)
      /\ \A i \in 1 .. n + Len(puts) :
           IF i <= n THEN new[i].off = fs[i].off /\ new[i].len = fs[i].len
           ELSE new[i].off = puts[i - n].m.off /\ new[i].len = puts[i - n].m.len
  BY ApplyFacts
<1>2. PutsInOrder(puts, lo, hi)
  OBVIOUS
<1> HIDE DEF puts
<1>3. /\ DOMAIN new = 1 .. n + Len(puts) /\ DOMAIN fs = 1 .. n /\ DOMAIN puts = 1 .. Len(puts)
      /\ n \in Nat /\ Len(puts) \in Nat
  BY <1>1
<1> HIDE DEF n
<1>4. \A i \in DOMAIN new : new[i].off \in Nat /\ new[i].len \in Nat
  <2> TAKE i \in DOMAIN new
  <2>1. new[i] \in Frame
    BY <1>1
  <2> QED
    BY <2>1 DEF Frame
<1>5. ASSUME NEW i \in DOMAIN new, new[i].len > 0
      PROVE  \/ i \in DOMAIN fs /\ new[i].off < lo /\ new[i].off = fs[i].off /\ fs[i].len > 0
             \/ /\ i - n \in DOMAIN puts /\ lo < new[i].off /\ new[i].off <= hi
                /\ new[i].off = puts[i - n].m.off /\ puts[i - n].m.len > 0
  <2>1. CASE i <= n
    <3>1. i \in DOMAIN fs /\ new[i].off = fs[i].off /\ new[i].len = fs[i].len
      BY <1>1, <1>3, <2>1
    <3> QED
      BY <1>5, <3>1 DEF RangesValid
  <2>2. CASE ~(i <= n)
    <3>1. i - n \in DOMAIN puts
      BY <1>3, <2>2
    <3>2. new[i].off = puts[i - n].m.off /\ new[i].len = puts[i - n].m.len
      BY <1>1, <1>3, <2>2
    <3> QED
      BY <1>2, <1>5, <3>1, <3>2 DEF PutsInOrder
  <2> QED
    BY <2>1, <2>2
<1>6. \A i \in DOMAIN new : new[i].len > 0 => new[i].off \in Nat /\ new[i].off <= hi
  BY <1>4, <1>5
<1>7. ASSUME NEW i \in DOMAIN new, NEW j \in DOMAIN new, i < j, new[i].len > 0, new[j].len > 0
      PROVE  new[i].off # new[j].off
  <2>1. CASE j \in DOMAIN fs
    <3>1. i \in DOMAIN fs
      BY <1>3, <1>7, <2>1
    <3>2. ~(i - n \in DOMAIN puts) /\ ~(j - n \in DOMAIN puts)
      BY <1>3, <2>1, <3>1
    <3>3. new[i].off = fs[i].off /\ fs[i].len > 0 /\ new[j].off = fs[j].off /\ fs[j].len > 0
      BY <1>5, <1>7, <3>2
    <3> QED
      BY <1>7, <2>1, <3>1, <3>3 DEF RangesValid
  <2>2. CASE j \notin DOMAIN fs
    <3>1. /\ j - n \in DOMAIN puts /\ lo < new[j].off
          /\ new[j].off = puts[j - n].m.off /\ puts[j - n].m.len > 0
      BY <1>5, <1>7, <2>2
    <3>2. CASE i \in DOMAIN fs
      <4>1. new[i].off < lo
        <5>1. ~(i - n \in DOMAIN puts)
          BY <1>3, <3>2
        <5> QED
          BY <1>5, <1>7, <5>1
      <4> QED
        BY <1>4, <3>1, <4>1
    <3>3. CASE i \notin DOMAIN fs
      <4>1. /\ i - n \in DOMAIN puts
            /\ new[i].off = puts[i - n].m.off /\ puts[i - n].m.len > 0
        BY <1>5, <1>7, <3>3
      <4>2. i - n < j - n
        BY <1>3, <1>7
      <4>3. puts[i - n].m.off < puts[j - n].m.off
        BY <1>2, <3>1, <4>1, <4>2 DEF PutsInOrder
      <4> QED
        BY <1>4, <3>1, <4>1, <4>3
    <3> QED
      BY <3>2, <3>3
  <2> QED
    BY <2>1, <2>2
<1>8. \A i, j \in DOMAIN new : new[i].len > 0 /\ new[j].len > 0 /\ i # j => new[i].off # new[j].off
  <2> TAKE i, j \in DOMAIN new
  <2>1. i = j \/ i < j \/ j < i
    BY <1>3
  <2> QED
    BY <1>7, <2>1
<1> QED
  BY <1>6, <1>8

\* A commit plans to write behind all payloads it publishes, and all that are in the file.
LEMMA PlanFacts ==
  ASSUME FileTyped, FileInv, mem \in Mem, UpToDate
  PROVE  /\ Applied \in Seq(Frame)
         /\ TocPlace(Applied) \in Nat
         /\ TocPlace(Applied) > Latest /\ TocPlace(Applied) <= Len(data) + 1
         /\ RangesValid(Applied, TocPlace(Applied))
         /\ Max({mem.cseq, mem.last}) \in Nat /\ Max({mem.cseq, mem.last}) >= mem.last
<1> DEFINE fs == data[mem.foff].frames
           new == Applied
           hi == Len(data)
           end == EndOf(ToSet(new), mem.foff)
<1>1. /\ mem.foff = Latest /\ mem.foff \in Nat /\ mem.foff <= hi /\ hi \in Nat
      /\ fs \in Seq(Frame) /\ RangesValid(fs, mem.foff)
  BY FooterTyped DEF FileTyped, FileInv, IsLatest, UpToDate
<1>2. mem.cache \in Seq(Record) /\ IsCache(mem.cache, mem.cseq, mem.foff, hi)
  BY DEF Mem, UpToDate
<1>3. new = Apply(fs, mem.cache)
  BY DEF Applied
<1> HIDE DEF fs, new, hi
<1>4. new \in Seq(Frame)
  BY <1>1, <1>2, <1>3, ApplyFacts
<1>5. PutsInOrder(PutRecords(mem.cache), mem.foff, hi)
  BY <1>2, CachePuts
<1>6. /\ \A i \in DOMAIN new : new[i].len > 0 => new[i].off \in Nat /\ new[i].off <= hi
      /\ \A i, j \in DOMAIN new : new[i].len > 0 /\ new[j].len > 0 /\ i # j =>
           new[i].off # new[j].off
  BY <1>1, <1>2, <1>3, <1>5, AppliedValid
<1>7. \A y \in ToSet(new) : y.len > 0 => y.off \in Nat /\ y.off <= hi
  BY <1>6 DEF ToSet
<1>8. end \in mem.foff .. hi /\ \A y \in ToSet(new) : y.len > 0 => y.off <= end
  BY <1>1, <1>7, EndOfBounds
<1>9. TocPlace(new) = end + 1
  BY DEF TocPlace
<1> HIDE DEF end
<1>10. TocPlace(new) \in Nat /\ TocPlace(new) > Latest /\ TocPlace(new) <= hi + 1
  BY <1>1, <1>8, <1>9
<1>11. RangesValid(new, TocPlace(new))
  <2>1. ASSUME NEW i \in DOMAIN new, new[i].len > 0
        PROVE  new[i].off < TocPlace(new)
    <3>1. new[i] \in ToSet(new)
      BY DEF ToSet
    <3>2. new[i].off <= end /\ new[i].off \in Nat
      BY <1>6, <1>8, <2>1, <3>1
    <3> QED
      BY <1>1, <1>8, <1>9, <3>2
  <2> QED
    BY <1>6, <2>1 DEF RangesValid
<1>12. Max({mem.cseq, mem.last}) \in Nat /\ Max({mem.cseq, mem.last}) >= mem.last
  <2>1. mem.cseq \in Nat /\ mem.last \in Nat /\ mem.last >= mem.cseq
    BY DEF Mem, UpToDate
  <2> DEFINE S == {mem.cseq, mem.last}
  <2>2. S \subseteq 0 .. mem.last /\ S # {} /\ mem.last \in S
    BY <2>1
  <2> HIDE DEF S
  <2>3. Max(S) \in S /\ \A y \in S : Max(S) >= y
    BY <2>1, <2>2, MaxExists
  <2> DEFINE top == Max(S)
  <2>4. top \in S /\ \A y \in S : top >= y
    BY <2>3
  <2> HIDE DEF top
  <2>5. top \in 0 .. mem.last /\ top >= mem.last
    BY <2>2, <2>4
  <2>6. top \in Nat
    BY <2>1, <2>5
  <2> QED
    BY <2>5, <2>6 DEF S, top
<1> QED
  BY <1>4, <1>10, <1>11, <1>12 DEF new, hi

LEMMA StartCommitKeeps ==
  ASSUME StoreInv, Ready, StartCommit, closing' \in BOOLEAN
  PROVE  StoreInv'
<1>1. /\ stage = "idle" /\ ~failed /\ stage' = "toc"
      /\ plan' = [frames |-> Applied, at |-> TocPlace(Applied), gen |-> mem.gen + 1,
                  cseq |-> Max({mem.cseq, mem.last})]
      /\ UNCHANGED file /\ mem' = mem /\ todo' = todo /\ failed' = failed
  BY DEF StartCommit, Ready
<1>2. FileTyped /\ FileInv /\ MemInv /\ UpToDate /\ mem \in Mem /\ todo = <<>>
  BY <1>1 DEF StoreInv, TypeOK, Running, MemInv
<1>3. FileTyped' /\ FileInv' /\ data' = data /\ Latest' = Latest
  BY <1>1, <1>2, SameFile DEF file
<1>4. MemInv'
  BY <1>1, <1>2, SameMemory DEF MemInv
<1>5. /\ Applied \in Seq(Frame) /\ TocPlace(Applied) \in Nat
      /\ TocPlace(Applied) > Latest /\ TocPlace(Applied) <= Len(data) + 1
      /\ RangesValid(Applied, TocPlace(Applied))
      /\ Max({mem.cseq, mem.last}) \in Nat /\ Max({mem.cseq, mem.last}) >= mem.last
  BY <1>2, PlanFacts
<1>6. mem.gen + 1 \in Nat
  BY <1>2 DEF Mem
<1>7. plan' \in Plan
  BY <1>1, <1>5, <1>6 DEF Plan
<1>8. PlanInv'
  BY <1>1, <1>3, <1>5 DEF PlanInv
<1>9. todo' \in Seq(PutMutation) /\ todo' = <<>>
  BY <1>1, <1>2
<1> QED
  BY <1>1, <1>2, <1>3, <1>4, <1>7, <1>8, <1>9 DEF StoreInv, TypeOK, Stages, CommitStages


-----------------------------------------------------------------------------
(* The five writes of a commit.                                             *)

\* Cell i of e is cell; the others are those of data.
IsPut(e, i, cell) ==
  /\ e \in Seq(Cell) /\ Len(data) <= Len(e) /\ i <= Len(e) /\ e[i] = cell
  /\ \A j \in DOMAIN e : j # i => j \in DOMAIN data /\ e[j] = data[j]
  /\ \A j \in DOMAIN data : j # i => j \in DOMAIN e /\ e[j] = data[j]

LEMMA PutCellFacts ==
  ASSUME data \in Seq(Cell), NEW i \in Nat, i > 0, i <= Len(data) + 1, NEW cell \in Cell,
         NEW e, e = PutCell(i, cell)
  PROVE  IsPut(e, i, cell)
<1>1. CASE i <= Len(data)
  <2>1. e = [data EXCEPT ![i] = cell] /\ i \in 1 .. Len(data)
    BY <1>1 DEF PutCell
  <2> QED
    BY <1>1, <2>1 DEF IsPut
<1>2. CASE ~(i <= Len(data))
  <2>1. e = Append(data, cell) /\ i = Len(data) + 1
    BY <1>2 DEF PutCell
  <2> QED
    BY <1>2, <2>1 DEF IsPut
<1> QED
  BY <1>1, <1>2

\* When nothing in the ring is newer than c, the file may change as it likes.
LEMMA NoneFresh ==
  ASSUME NEW rg, NEW n, NEW s, NEW w, NEW c, NEW lo, NEW hi, Laid(rg, n, s, w, c, lo, hi),
         NEW m \in Mem, m.wpos = w, Known(rg, n, s, m), NEW c2 \in Nat, m.last <= c2,
         NEW lo2, NEW hi2
  PROVE  Laid(rg, n, s, w, c2, lo2, hi2)
<1> DEFINE R == ReadLen(rg, n, s, w)
<1>1. /\ \A i \in 0 .. n - 1 : Behind(n, s, i) < R => rg[i] \in Record
      /\ Ascending(rg, n, s, R, c)
  BY DEF Laid
<1>2. \A i \in 0 .. n - 1 : Behind(n, s, i) < R => rg[i].seq <= m.last
  BY DEF Known
<1>3. m.last \in Nat
  BY DEF Mem
<1>4. ASSUME NEW i \in 0 .. n - 1, Behind(n, s, i) < R
      PROVE  ~Fresh(rg[i], c2)
  <2>1. rg[i].seq \in Nat /\ rg[i].seq <= m.last
    BY <1>1, <1>2, <1>4, RecordHas
  <2> QED
    BY <1>3, <2>1 DEF Fresh
<1>5. Ascending(rg, n, s, R, c2)
  BY <1>1, <1>4 DEF Ascending
<1> QED
  BY <1>1, <1>4, <1>5 DEF Laid

\* The checkpoint moves to the ring's next slot: nothing more is read, or the whole ring is.
LEMMA Checkpoint ==
  ASSUME NEW rg, NEW n, NEW s, NEW w, NEW c \in Nat, NEW lo, NEW hi, Laid(rg, n, s, w, c, lo, hi),
         NEW m \in Mem, m.wpos = w, Known(rg, n, s, m), m.last <= c
  PROVE  Laid(rg, n, w, w, c, lo, hi) /\ Known(rg, n, w, m)
<1>1. /\ n \in Nat \ {0} /\ w \in 0 .. n - 1 /\ rg \in [0 .. n - 1 -> Record \cup {Blank}]
      /\ rg[w] # Blank =>
           \A i, j \in 0 .. n - 1 :
             /\ rg[i] \in Record
             /\ Behind(n, w, i) < Behind(n, w, j) => rg[i].seq < rg[j].seq
  BY DEF Laid
<1>2. m.last \in Nat /\ \A i \in 0 .. n - 1 : rg[w] # Blank => rg[i].seq <= m.last
  BY DEF Known, Mem
<1>3. \A i \in 0 .. n - 1 : Behind(n, w, i) < ReadLen(rg, n, w, w) => rg[w] # Blank
  <2> SUFFICES ASSUME NEW i \in 0 .. n - 1, Behind(n, w, i) < ReadLen(rg, n, w, w), rg[w] = Blank
               PROVE  FALSE
    OBVIOUS
  <2>1. ReadLen(rg, n, w, w) = Behind(n, w, w)
    BY DEF ReadLen
  <2>2. Behind(n, w, w) = 0 /\ Behind(n, w, i) \in Nat
    BY <1>1, BehindTyped
  <2> QED
    BY <2>1, <2>2
<1>4. ASSUME NEW i \in 0 .. n - 1, rg[w] # Blank
      PROVE  ~Fresh(rg[i], c)
  <2>1. rg[i].seq \in Nat /\ rg[i].seq <= m.last
    BY <1>1, <1>2, <1>4, RecordHas
  <2> QED
    BY <1>2, <2>1 DEF Fresh
<1>5. Ascending(rg, n, w, ReadLen(rg, n, w, w), c)
  <2> DEFINE R == ReadLen(rg, n, w, w)
  <2> HIDE DEF R
  <2>1. \A j \in 0 .. n - 1 : Behind(n, w, j) < R => rg[w] # Blank
    BY <1>3 DEF R
  <2>2. Ascending(rg, n, w, R, c)
    BY <1>1, <1>4, <2>1 DEF Ascending
  <2> QED
    BY <2>2 DEF R
<1>6. Laid(rg, n, w, w, c, lo, hi)
  BY <1>1, <1>3, <1>4, <1>5 DEF Laid
<1>7. Known(rg, n, w, m)
  BY <1>2, <1>3 DEF Known
<1> QED
  BY <1>6, <1>7

LEMMA WriteTocKeeps ==
  ASSUME StoreInv, WriteToc
  PROVE  StoreInv'
<1> DEFINE cell == TocCell(plan.frames)
<1>1. /\ stage = "toc" /\ stage' = "footer"
      /\ data' = PutCell(plan.at, cell)
      /\ UNCHANGED <<ring, pageA, pageB>> /\ mem' = mem
      /\ todo' = todo /\ plan' = plan /\ closing' = closing /\ failed' = failed
  BY DEF WriteToc, call
<1>2. /\ FileTyped /\ FileInv /\ MemInv /\ UpToDate /\ PlanInv /\ mem \in Mem /\ plan \in Plan
      /\ todo = <<>>
  BY <1>1 DEF StoreInv, TypeOK, Running, MemInv, CommitStages
<1>3. /\ data \in Seq(Cell) /\ Latest \in 1 .. Len(data) /\ plan.at \in Nat /\ plan.at > Latest
      /\ plan.at <= Len(data) + 1 /\ plan.at > 0
  <2>1. Latest \in 1 .. Len(data) /\ data \in Seq(Cell)
    BY <1>2, FooterTyped DEF FileTyped, FileInv
  <2>2. plan.at \in Nat /\ plan.at > Latest /\ plan.at <= Len(data) + 1
    BY <1>1, <1>2 DEF PlanInv, Plan
  <2> QED
    BY <2>1, <2>2
<1>4. cell \in Cell /\ cell.kind # "footer"
  BY <1>2 DEF TocCell, Cell, Plan
<1> HIDE DEF cell
<1>5. /\ data' \in Seq(Cell) /\ Len(data) <= Len(data') /\ plan.at <= Len(data')
      /\ data'[plan.at] = cell
      /\ \A j \in DOMAIN data' : j # plan.at => j \in DOMAIN data /\ data'[j] = data[j]
      /\ \A j \in DOMAIN data : j # plan.at => j \in DOMAIN data' /\ data'[j] = data[j]
  <2>1. IsPut(data', plan.at, cell)
    BY <1>1, <1>3, <1>4, PutCellFacts
  <2> QED
    BY <2>1 DEF IsPut
<1>6. \A i \in DOMAIN data : i <= Latest => data'[i] = data[i]
  BY <1>3, <1>5
<1>7. ASSUME NEW i \in DOMAIN data', i > Latest
      PROVE  data'[i].kind # "footer"
  <2>1. CASE i = plan.at
    BY <1>4, <1>5, <2>1
  <2>2. CASE i # plan.at
    <3>1. i \in DOMAIN data /\ data'[i] = data[i] /\ i \in Nat
      BY <1>3, <1>5, <2>2
    <3>2. data[i].kind = "footer" => i <= Latest
      BY <1>2, <3>1 DEF FileInv, IsLatest
    <3> QED
      BY <1>3, <1>7, <3>1, <3>2
  <2> QED
    BY <2>1, <2>2
<1>8. /\ FileTyped' /\ FileInv' /\ Latest' = Latest /\ data'[Latest] = data[Latest]
      /\ \A w : LaidAt(w) => LaidAt(w)'
  BY <1>1, <1>2, <1>5, <1>6, <1>7, Growing
<1>9. WalSlots' = WalSlots
  BY <1>1, SameRing
<1>10. LaidAt(mem.wpos)'
  BY <1>1, <1>2, <1>8 DEF LaidAt, MemInv
<1>11. UpToDate'
  <2>1. IsCache(mem.cache, mem.cseq, mem.foff, Len(data'))
    <3>1. mem.cache \in Seq(Record)
      BY <1>2 DEF Mem
    <3>2. Len(data) \in Nat /\ Len(data') \in Nat /\ Len(data) <= Len(data')
      BY <1>3, <1>5
    <3>3. IsCache(mem.cache, mem.cseq, mem.foff, Len(data))
      BY <1>2 DEF UpToDate
    <3> QED
      BY <3>1, <3>2, <3>3, CacheMoves
  <2>2. IsTodo(todo', ring', WalSlots', pageA'.cpos, mem', mem'.cseq, Len(data'))
    BY <1>1, <1>2 DEF IsTodo
  <2> QED
    BY <1>1, <1>2, <1>8, <2>1, <2>2 DEF UpToDate
<1>12. MemInv'
  BY <1>1, <1>2, <1>9, <1>10, <1>11 DEF MemInv
<1>13. PlanInv'
  BY <1>1, <1>2, <1>3, <1>5, <1>8 DEF PlanInv, cell
<1>14. TypeOK'
  BY <1>1, <1>2, <1>8 DEF StoreInv, TypeOK, Stages, CommitStages
<1> QED
  BY <1>1, <1>8, <1>12, <1>13, <1>14 DEF StoreInv

LEMMA RangesGrow ==
  ASSUME NEW fs \in Seq(Frame), NEW i \in Nat, NEW j \in Nat, i <= j, RangesValid(fs, i)
  PROVE  RangesValid(fs, j)
<1>1. \A k \in DOMAIN fs : fs[k].off \in Nat
  <2> TAKE k \in DOMAIN fs
  <2>1. fs[k] \in Frame
    OBVIOUS
  <2> QED
    BY <2>1 DEF Frame
<1> QED
  BY <1>1 DEF RangesValid

\* From the moment a footer is written the file publishes what the commit has planned.
LEMMA WriteFooterKeeps ==
  ASSUME StoreInv, WriteFooter
  PROVE  StoreInv'
<1> DEFINE cell == FooterCell(plan.gen, plan.cseq, plan.frames)
           at == plan.at
           l == plan.at + 1
<1>1. /\ stage = "footer" /\ stage' = "resize"
      /\ data' = PutCell(l, cell)
      /\ UNCHANGED <<ring, pageA, pageB>> /\ mem' = mem
      /\ todo' = todo /\ plan' = plan /\ closing' = closing /\ failed' = failed
  BY DEF WriteFooter, call
<1>2. /\ FileTyped /\ FileInv /\ MemInv /\ UpToDate /\ PlanInv /\ mem \in Mem /\ plan \in Plan
      /\ todo = <<>>
  BY <1>1 DEF StoreInv, TypeOK, Running, MemInv, CommitStages
<1>3. /\ data \in Seq(Cell) /\ Latest \in 1 .. Len(data) /\ at \in Nat /\ at > Latest
      /\ at <= Len(data) /\ data[at] = TocCell(plan.frames)
      /\ l = at + 1 /\ l \in Nat /\ l > 1 /\ l - 1 = at /\ l <= Len(data) + 1 /\ l > 0
  <2>1. Latest \in 1 .. Len(data) /\ data \in Seq(Cell)
    BY <1>2, FooterTyped DEF FileTyped, FileInv
  <2>2. at \in Nat /\ at > Latest /\ at <= Len(data) /\ data[at] = TocCell(plan.frames)
    BY <1>1, <1>2 DEF PlanInv, Plan
  <2> QED
    BY <2>1, <2>2
<1>4. /\ cell \in Cell /\ cell.kind = "footer" /\ cell.gen = plan.gen /\ cell.cseq = plan.cseq
      /\ cell.frames = plan.frames
      /\ plan.gen \in Nat /\ plan.cseq \in Nat /\ plan.frames \in Seq(Frame)
  BY <1>2 DEF FooterCell, Cell, Plan
<1> HIDE DEF cell, at, l
<1>5. /\ data' \in Seq(Cell) /\ Len(data) <= Len(data') /\ l <= Len(data') /\ data'[l] = cell
      /\ \A j \in DOMAIN data' : j # l => j \in DOMAIN data /\ data'[j] = data[j]
      /\ \A j \in DOMAIN data : j # l => j \in DOMAIN data' /\ data'[j] = data[j]
  <2>1. IsPut(data', l, cell)
    BY <1>1, <1>3, <1>4, PutCellFacts
  <2> QED
    BY <2>1 DEF IsPut
<1>6. FooterIn(data', l)
  <2>1. at \in DOMAIN data /\ at # l /\ l \in DOMAIN data'
    BY <1>3, <1>5
  <2>2. data'[l - 1] = TocCell(data'[l].frames)
    BY <1>3, <1>4, <1>5, <2>1
  <2> QED
    BY <1>3, <1>4, <1>5, <2>1, <2>2 DEF FooterIn
<1>7. ASSUME NEW j \in DOMAIN data', data'[j].kind = "footer", j # l
      PROVE  j < l /\ FooterIn(data', j) /\ data'[j].gen < cell.gen
  <2>1. j \in DOMAIN data /\ data'[j] = data[j]
    BY <1>5, <1>7
  <2>2. j <= Latest /\ FooterIn(data, j) /\ (j < Latest => data[j].gen < data[Latest].gen)
    BY <1>2, <1>7, <2>1 DEF FileInv, IsLatest
  <2>3. j \in Nat /\ j < l /\ j > 1 /\ j - 1 \in DOMAIN data /\ j - 1 # l
    <3>1. j \in Nat /\ j > 1
      BY <1>3, <2>1, <2>2 DEF FooterIn
    <3>2. j <= Len(data)
      BY <1>3, <2>1
    <3> QED
      BY <1>3, <2>2, <3>1, <3>2
  <2>4. data'[j - 1] = data[j - 1]
    BY <1>5, <2>3
  <2>5. FooterIn(data', j)
    BY <1>7, <2>1, <2>2, <2>3, <2>4 DEF FooterIn
  <2>6. data[j].gen <= data[Latest].gen /\ data[j].gen \in Nat
    <3>1. data[j].gen \in Nat /\ data[Latest].gen \in Nat
      <4>1. data[j] \in Cell /\ data[j].kind = "footer"
        BY <1>3, <1>7, <2>1
      <4>2. data[j].gen \in Nat
        BY <4>1 DEF Cell
      <4> QED
        BY <1>2, <4>2, FooterTyped DEF FileTyped, FileInv
    <3>2. j = Latest \/ j < Latest
      BY <1>3, <2>2, <2>3
    <3> QED
      BY <2>2, <3>1, <3>2
  <2>7. data[Latest].gen + 1 = plan.gen /\ data[Latest].gen \in Nat
    <3>1. mem.gen = data[Latest].gen /\ mem.gen \in Nat /\ plan.gen = mem.gen + 1
      BY <1>2 DEF UpToDate, PlanInv, Mem
    <3> QED
      BY <3>1
  <2> QED
    BY <1>4, <2>1, <2>3, <2>5, <2>6, <2>7
<1>8. IsLatest(data', l)
  <2>1. RangesValid(data'[l].frames, l)
    <3>1. RangesValid(plan.frames, at)
      BY <1>2 DEF PlanInv, at
    <3>2. RangesValid(plan.frames, l)
      BY <1>3, <1>4, <3>1, RangesGrow
    <3> QED
      BY <1>4, <1>5, <3>2
  <2>2. \A j \in DOMAIN data' : data'[j].kind = "footer" =>
          j <= l /\ FooterIn(data', j) /\ (j < l => data'[j].gen < data'[l].gen)
    <3> SUFFICES ASSUME NEW j \in DOMAIN data', data'[j].kind = "footer"
                 PROVE  j <= l /\ FooterIn(data', j) /\ (j < l => data'[j].gen < data'[l].gen)
      OBVIOUS
    <3>1. CASE j = l
      BY <1>3, <1>6, <3>1
    <3>2. CASE j # l
      <4>1. j < l /\ FooterIn(data', j) /\ data'[j].gen < cell.gen
        BY <1>7, <3>2
      <4>2. j \in Nat
        BY <1>5
      <4> QED
        BY <1>3, <1>5, <4>1, <4>2
    <3> QED
      BY <3>1, <3>2
  <2> QED
    BY <1>6, <2>1, <2>2 DEF IsLatest
<1>9. Latest' = l
  BY <1>5, <1>8, LatestFound, LatestIsOf
<1>10. WalSlots' = WalSlots /\ Slots' = Slots
  BY <1>1, SameRing
<1>11. LaidAt(mem.wpos)'
  <2>1. Laid(ring, WalSlots, pageA.cpos, mem.wpos, data[Latest].cseq, Latest, Len(data))
    BY <1>2 DEF MemInv, LaidAt
  <2>2. mem.last <= plan.cseq
    <3>1. plan.cseq >= mem.last /\ mem.last \in Nat
      BY <1>2 DEF PlanInv, Mem
    <3> QED
      BY <1>4, <3>1
  <2>3. Known(ring, WalSlots, pageA.cpos, mem)
    BY <1>2 DEF MemInv
  <2>4. Laid(ring, WalSlots, pageA.cpos, mem.wpos, plan.cseq, l, Len(data'))
    BY <1>2, <1>4, <2>1, <2>2, <2>3, NoneFresh
  <2> QED
    BY <1>1, <1>4, <1>5, <1>9, <1>10, <2>4 DEF LaidAt
<1>12. FileInv'
  <2>1. PICK w : w = mem.wpos
    OBVIOUS
  <2>2. LaidAt(w)'
    BY <1>1, <1>11, <2>1 DEF LaidAt
  <2>3. w \in Slots'
    <3>1. w \in 0 .. WalSlots - 1
      BY <1>2, <2>1 DEF MemInv, LaidAt, Laid
    <3>2. Slots = 0 .. WalSlots - 1
      BY <1>2, RingFacts
    <3> QED
      BY <1>10, <3>1, <3>2
  <2>4. pageB'.hpgen <= pageA'.hpgen
    BY <1>1, <1>2 DEF FileInv
  <2> QED
    BY <1>8, <1>9, <2>2, <2>3, <2>4 DEF FileInv
<1>13. FileTyped'
  BY <1>1, <1>2, <1>5 DEF FileTyped
<1>14. MemInv'
  BY <1>1, <1>2, <1>10, <1>11 DEF MemInv
<1>15. PlanInv'
  <2>1. mem.hpgen = pageA.hpgen
    BY <1>2 DEF UpToDate
  <2> QED
    BY <1>1, <1>2, <1>5, <1>9, <2>1 DEF PlanInv, cell, l
<1>16. TypeOK'
  BY <1>1, <1>2, <1>13 DEF StoreInv, TypeOK, Stages, CommitStages
<1> QED
  BY <1>1, <1>12, <1>14, <1>15, <1>16 DEF StoreInv


\* What holds of a commit whose footer is written.
LEMMA Published ==
  ASSUME StoreInv, stage \in {"resize", "pageA", "pageB", "finish"}
  PROVE  /\ FileTyped /\ FileInv /\ MemInv /\ PlanInv /\ mem \in Mem /\ plan \in Plan /\ todo = <<>>
         /\ Latest = plan.at + 1 /\ Latest \in 1 .. Len(data) /\ data \in Seq(Cell)
         /\ data[Latest] = FooterCell(plan.gen, plan.cseq, plan.frames)
         /\ data[Latest].cseq = plan.cseq /\ data[Latest].gen = plan.gen
         /\ data[Latest].frames = plan.frames
         /\ plan.cseq \in Nat /\ mem.last \in Nat /\ mem.last <= plan.cseq
         /\ mem.gen \in Nat /\ plan.gen = mem.gen + 1
<1>1. /\ FileTyped /\ FileInv /\ MemInv /\ PlanInv /\ mem \in Mem /\ plan \in Plan /\ todo = <<>>
  BY DEF StoreInv, TypeOK, Running, CommitStages
<1>2. /\ Latest = plan.at + 1 /\ data[Latest] = FooterCell(plan.gen, plan.cseq, plan.frames)
      /\ plan.cseq >= mem.last /\ plan.gen = mem.gen + 1
  BY <1>1 DEF PlanInv
<1>3. plan.cseq \in Nat /\ mem.last \in Nat /\ mem.last <= plan.cseq /\ mem.gen \in Nat
  <2>1. plan.cseq \in Nat /\ mem.last \in Nat /\ mem.gen \in Nat
    BY <1>1 DEF Plan, Mem
  <2> QED
    BY <1>2, <2>1
<1>4. Latest \in 1 .. Len(data) /\ data \in Seq(Cell)
  BY <1>1, FooterTyped DEF FileTyped, FileInv
<1> QED
  BY <1>1, <1>2, <1>3, <1>4 DEF FooterCell

LEMMA ResizeKeeps ==
  ASSUME StoreInv, Resize
  PROVE  StoreInv'
<1> DEFINE l == Latest
<1>1. /\ stage = "resize" /\ stage' = "pageA"
      /\ data' = SubSeq(data, 1, plan.at + 1)
      /\ UNCHANGED <<ring, pageA, pageB>> /\ mem' = mem
      /\ todo' = todo /\ plan' = plan /\ closing' = closing /\ failed' = failed
  BY DEF Resize, call
<1>2. /\ FileTyped /\ FileInv /\ MemInv /\ PlanInv /\ mem \in Mem /\ todo = <<>>
      /\ l = plan.at + 1 /\ l \in 1 .. Len(data) /\ data \in Seq(Cell)
      /\ data[l].cseq = plan.cseq
      /\ plan.cseq \in Nat /\ mem.last \in Nat /\ mem.last <= plan.cseq
  BY <1>1, Published
<1>3. IsLatest(data, l)
  BY <1>2 DEF FileInv
<1>4. LaidAt(mem.wpos) /\ Known(ring, WalSlots, pageA.cpos, mem)
  BY <1>2 DEF MemInv
<1>5. Laid(ring, WalSlots, pageA.cpos, mem.wpos, plan.cseq, l, Len(data'))
  <2>1. Laid(ring, WalSlots, pageA.cpos, mem.wpos, plan.cseq, l, Len(data))
    BY <1>2, <1>4 DEF LaidAt
  <2> HIDE DEF l
  <2> QED
    BY <1>2, <1>4, <2>1, NoneFresh
<1> HIDE DEF l
<1>6. /\ data' \in Seq(Cell) /\ Len(data') = l
      /\ \A i \in 1 .. l : data'[i] = data[i]
  BY <1>1, <1>2
<1>7. IsLatest(data', l) /\ data'[l] = data[l]
  <2>1. \A i \in DOMAIN data' : i > l => data'[i].kind # "footer"
    BY <1>2, <1>6
  <2>2. l <= Len(data')
    BY <1>2, <1>6
  <2> QED
    BY <1>2, <1>3, <1>6, <2>1, <2>2, LatestKept
<1>8. Latest' = l
  BY <1>6, <1>7, LatestFound, LatestIsOf
<1>9. WalSlots' = WalSlots /\ Slots' = Slots
  BY <1>1, SameRing
<1>10. LaidAt(mem.wpos)'
  BY <1>1, <1>2, <1>5, <1>7, <1>8, <1>9 DEF LaidAt
<1>11. FileInv'
  <2>1. PICK w : w = mem.wpos
    OBVIOUS
  <2>2. LaidAt(w)'
    BY <1>1, <1>10, <2>1 DEF LaidAt
  <2>3. w \in 0 .. WalSlots - 1
    BY <1>5, <2>1 DEF Laid
  <2>4. Slots = 0 .. WalSlots - 1
    BY <1>2, RingFacts
  <2>5. w \in Slots'
    BY <1>9, <2>3, <2>4
  <2>6. pageB'.hpgen <= pageA'.hpgen
    BY <1>1, <1>2 DEF FileInv
  <2> QED
    BY <1>7, <1>8, <2>2, <2>5, <2>6 DEF FileInv
<1>12. FileTyped'
  BY <1>1, <1>2, <1>6 DEF FileTyped
<1>13. MemInv'
  BY <1>1, <1>2, <1>4, <1>9, <1>10 DEF MemInv
<1>14. PlanInv'
  BY <1>1, <1>2, <1>7, <1>8 DEF PlanInv, l
<1>15. TypeOK'
  BY <1>1, <1>12 DEF StoreInv, TypeOK, Stages, CommitStages
<1> QED
  BY <1>1, <1>11, <1>13, <1>14, <1>15 DEF StoreInv

LEMMA PageTyped ==
  ASSUME mem \in Mem, plan \in Plan, NEW h \in Nat
  PROVE  NewPage(h) \in Page /\ NewPage(h).hpgen = h /\ NewPage(h).cpos = mem.wpos
<1>1. mem.wpos \in Nat /\ plan.gen \in Nat /\ plan.at + 1 \in Nat /\ plan.cseq \in Nat
  BY DEF Mem, Plan
<1> QED
  BY <1>1 DEF NewPage, Page

LEMMA WritePageAKeeps ==
  ASSUME StoreInv, WritePageA
  PROVE  StoreInv'
<1> DEFINE l == Latest
           w == mem.wpos
<1>1. /\ stage = "pageA" /\ stage' = "pageB"
      /\ pageA' = NewPage(mem.hpgen + 1)
      /\ data' = data /\ ring' = ring /\ pageB' = pageB /\ mem' = mem
      /\ todo' = todo /\ plan' = plan /\ closing' = closing /\ failed' = failed
  BY DEF WritePageA, call
<1>2. /\ FileTyped /\ FileInv /\ MemInv /\ PlanInv /\ mem \in Mem /\ plan \in Plan /\ todo = <<>>
      /\ l = plan.at + 1 /\ l \in 1 .. Len(data) /\ data \in Seq(Cell)
      /\ data[l].cseq = plan.cseq
      /\ plan.cseq \in Nat /\ mem.last \in Nat /\ mem.last <= plan.cseq
  BY <1>1, Published
<1>3. mem.hpgen = pageA.hpgen /\ mem.hpgen \in Nat
  BY <1>1, <1>2 DEF PlanInv, Mem
<1>4. pageA' \in Page /\ pageA'.hpgen = mem.hpgen + 1 /\ pageA'.cpos = w
  <2>1. mem.hpgen + 1 \in Nat
    BY <1>3
  <2> QED
    BY <1>1, <1>2, <2>1, PageTyped
<1>5. LaidAt(mem.wpos) /\ Known(ring, WalSlots, pageA.cpos, mem)
  BY <1>2 DEF MemInv
<1>6. Latest' = l /\ WalSlots' = WalSlots /\ Slots' = Slots
  BY <1>1, SameData, SameRing
<1>7. Laid(ring, WalSlots, w, w, plan.cseq, l, Len(data)) /\ Known(ring, WalSlots, w, mem)
  <2>1. Laid(ring, WalSlots, pageA.cpos, w, plan.cseq, l, Len(data))
    BY <1>2, <1>5 DEF LaidAt
  <2>2. mem.wpos = w
    OBVIOUS
  <2> HIDE DEF l, w
  <2> QED
    BY <1>2, <1>5, <2>1, <2>2, Checkpoint
<1>8. LaidAt(mem.wpos)'
  BY <1>1, <1>2, <1>4, <1>6, <1>7 DEF LaidAt
<1>9. FileInv'
  <2>1. PICK x : x = mem.wpos
    OBVIOUS
  <2>2. LaidAt(x)'
    BY <1>1, <1>8, <2>1 DEF LaidAt
  <2>3. x \in Slots'
    <3>1. x \in 0 .. WalSlots - 1
      BY <1>7, <2>1 DEF Laid
    <3>2. Slots = 0 .. WalSlots - 1
      BY <1>2, RingFacts
    <3> QED
      BY <1>6, <3>1, <3>2
  <2>4. pageB'.hpgen <= pageA'.hpgen
    <3>1. pageB.hpgen \in Nat /\ pageB.hpgen <= pageA.hpgen
      BY <1>2 DEF FileInv, FileTyped, Page
    <3> QED
      BY <1>1, <1>3, <1>4, <3>1
  <2>5. IsLatest(data', Latest')
    BY <1>1, <1>2, <1>6 DEF FileInv
  <2> QED
    BY <2>2, <2>3, <2>4, <2>5 DEF FileInv
<1>10. FileTyped'
  BY <1>1, <1>2, <1>4 DEF FileTyped
<1>11. MemInv'
  BY <1>1, <1>2, <1>4, <1>6, <1>7, <1>8 DEF MemInv
<1>12. NewPage(mem.hpgen + 1)' = pageA'
  BY <1>1 DEF NewPage
<1>13. PlanInv'
  BY <1>1, <1>2, <1>6, <1>12 DEF PlanInv
<1>14. TypeOK'
  BY <1>1, <1>10 DEF StoreInv, TypeOK, Stages, CommitStages
<1> QED
  BY <1>1, <1>9, <1>11, <1>13, <1>14 DEF StoreInv

LEMMA WritePageBKeeps ==
  ASSUME StoreInv, WritePageB
  PROVE  StoreInv'
<1>1. /\ stage = "pageB" /\ stage' = "finish"
      /\ pageB' = NewPage(mem.hpgen)
      /\ data' = data /\ ring' = ring /\ pageA' = pageA /\ mem' = mem
      /\ todo' = todo /\ plan' = plan /\ closing' = closing /\ failed' = failed
  BY DEF WritePageB, call
<1>2. /\ FileTyped /\ FileInv /\ MemInv /\ PlanInv /\ mem \in Mem /\ plan \in Plan /\ todo = <<>>
  BY <1>1, Published
<1>3. mem.hpgen \in Nat /\ pageA = NewPage(mem.hpgen + 1)
  BY <1>1, <1>2 DEF PlanInv, Mem
<1>4. pageB' \in Page /\ pageB'.hpgen = mem.hpgen /\ pageA.hpgen = mem.hpgen + 1
  BY <1>1, <1>2, <1>3, PageTyped
<1>5. Latest' = Latest /\ WalSlots' = WalSlots /\ Slots' = Slots
  BY <1>1, SameData, SameRing
<1>6. \A w : LaidAt(w) => LaidAt(w)'
  BY <1>1, <1>5 DEF LaidAt
<1>7. LaidAt(mem.wpos)'
  BY <1>1, <1>2, <1>5 DEF LaidAt, MemInv
<1>8. pageB'.hpgen <= pageA'.hpgen
  BY <1>1, <1>3, <1>4
<1>9. FileInv'
  BY <1>1, <1>2, <1>5, <1>6, <1>8 DEF FileInv
<1>10. FileTyped'
  BY <1>1, <1>2, <1>4 DEF FileTyped
<1>11. MemInv'
  BY <1>1, <1>2, <1>5, <1>7 DEF MemInv
<1>12. NewPage(mem.hpgen + 1)' = NewPage(mem.hpgen + 1)
  BY <1>1 DEF NewPage
<1>13. PlanInv'
  BY <1>1, <1>2, <1>3, <1>5, <1>12 DEF PlanInv
<1>14. TypeOK'
  BY <1>1, <1>10 DEF StoreInv, TypeOK, Stages, CommitStages
<1> QED
  BY <1>1, <1>9, <1>11, <1>13, <1>14 DEF StoreInv

LEMMA FinishCommitKeeps ==
  ASSUME StoreInv, FinishCommit
  PROVE  StoreInv'
<1> DEFINE w == mem.wpos
<1>1. /\ stage = "finish" /\ stage' \in {"idle", "closed"}
      /\ mem' = Finished /\ UNCHANGED file
      /\ todo' = todo /\ closing' = FALSE /\ failed' = failed
  BY DEF FinishCommit
<1>2. /\ FileTyped /\ FileInv /\ MemInv /\ PlanInv /\ mem \in Mem /\ plan \in Plan /\ todo = <<>>
      /\ Latest = plan.at + 1 /\ Latest \in 1 .. Len(data) /\ data \in Seq(Cell)
      /\ data[Latest].cseq = plan.cseq /\ data[Latest].gen = plan.gen
      /\ plan.cseq \in Nat /\ mem.last \in Nat /\ mem.last <= plan.cseq
  BY <1>1, Published
<1>3. /\ ring' = ring /\ data' = data /\ pageA' = pageA /\ pageB' = pageB
  BY <1>1 DEF file
<1>4. FileTyped' /\ FileInv' /\ Latest' = Latest /\ WalSlots' = WalSlots
  BY <1>1, <1>2, SameFile
<1>5. pageA.hpgen = mem.hpgen + 1 /\ pageA.cpos = w /\ mem.hpgen + 1 \in Nat
  <2>1. pageA = NewPage(mem.hpgen + 1) /\ mem.hpgen \in Nat
    BY <1>1, <1>2 DEF PlanInv, Mem
  <2> QED
    BY <2>1 DEF NewPage
<1>6. /\ mem'.gen = plan.gen /\ mem'.hpgen = mem.hpgen + 1 /\ mem'.cseq = plan.cseq
      /\ mem'.wpos = w /\ mem'.cpos = w /\ mem'.pend = 0 /\ mem'.last = plan.cseq
      /\ mem'.foff = plan.at + 1 /\ mem'.cache = <<>> /\ mem'.local = FALSE
  BY <1>1, <1>2 DEF Finished, Mem
<1>7. mem' \in Mem
  <2>1. plan.gen \in Nat /\ plan.at + 1 \in Nat /\ plan.frames \in Seq(Frame)
        /\ Len(plan.frames) \in Nat /\ w \in Nat
    <3>1. plan.gen \in Nat /\ plan.at + 1 \in Nat /\ plan.frames \in Seq(Frame)
      BY <1>2 DEF Plan
    <3>2. w \in Nat
      BY <1>2 DEF Mem
    <3> QED
      BY <3>1, <3>2
  <2>2. <<>> \in Seq(Record)
    OBVIOUS
  <2> QED
    BY <1>1, <1>2, <1>5, <2>1, <2>2 DEF Finished, Mem
<1>8. Laid(ring, WalSlots, w, w, plan.cseq, Latest, Len(data)) /\ Known(ring, WalSlots, w, mem)
  BY <1>2, <1>5 DEF MemInv, LaidAt
<1> HIDE DEF w
<1>9. LaidAt(w)
  BY <1>2, <1>5, <1>8 DEF LaidAt
<1>10. LaidAt(mem.wpos)'
  BY <1>3, <1>4, <1>6, <1>9 DEF LaidAt
<1>11. Known(ring, WalSlots, w, mem')
  <2>1. WalSlots \in Nat \ {0} /\ w \in 0 .. WalSlots - 1
    BY <1>8 DEF Laid
  <2>2. \A i \in 0 .. WalSlots - 1 : Behind(WalSlots, w, i) \in Nat /\ Behind(WalSlots, w, w) = 0
    BY <2>1, BehindTyped
  <2>3. ASSUME NEW i \in 0 .. WalSlots - 1,
               Behind(WalSlots, w, i) < ReadLen(ring, WalSlots, w, w) \/ ring[w] # Blank
        PROVE  ring[i].seq <= plan.cseq
    <3>1. ring[i].seq <= mem.last
      BY <1>8, <2>3 DEF Known, w
    <3>2. ring[i].seq \in Nat
      <4>1. ring[i] \in Record
        BY <1>8, <2>3 DEF Laid
      <4> QED
        BY <4>1, RecordHas
    <3> QED
      BY <1>2, <3>1, <3>2
  <2> QED
    BY <1>6, <2>1, <2>2, <2>3 DEF Known
<1>12. UpToDate'
  <2>1. IsCache(mem'.cache, mem'.cseq, mem'.foff, Len(data'))
    BY <1>6 DEF IsCache
  <2>2. IsTodo(todo', ring', WalSlots', pageA'.cpos, mem', mem'.cseq, Len(data'))
    BY <1>1, <1>2 DEF IsTodo
  <2> QED
    BY <1>2, <1>3, <1>4, <1>5, <1>6, <2>1, <2>2 DEF UpToDate
<1>13. MemInv'
  BY <1>3, <1>4, <1>5, <1>6, <1>10, <1>11, <1>12 DEF MemInv
<1>14. TypeOK'
  BY <1>1, <1>2, <1>4, <1>7 DEF StoreInv, TypeOK, Stages, CommitStages
<1> QED
  BY <1>1, <1>4, <1>13, <1>14 DEF StoreInv, CommitStages

\* After a failed write the caller looks at the file again: until then the memory may lag.
LEMMA CommitFailsKeeps ==
  ASSUME StoreInv, CommitFails, RefreshAfterFailure
  PROVE  StoreInv'
<1>1. /\ stage \in CommitStages /\ stage' = "idle" /\ UNCHANGED file /\ mem' = mem
      /\ todo' = todo /\ closing' = FALSE /\ failed' = TRUE
  BY DEF CommitFails
<1>2. FileTyped /\ FileInv /\ MemInv /\ PlanInv /\ mem \in Mem /\ todo = <<>>
  BY <1>1 DEF StoreInv, TypeOK, Running, CommitStages
<1>3. FileTyped' /\ FileInv'
  BY <1>1, <1>2, SameFile
<1>4. UpToDate \/ data[Latest].gen > mem.gen
  <2>1. CASE stage \in {"toc", "footer"}
    BY <1>2, <2>1 DEF MemInv
  <2>2. CASE stage \in {"resize", "pageA", "pageB", "finish"}
    <3>1. data[Latest].gen = mem.gen + 1 /\ mem.gen \in Nat
      BY <2>2, Published
    <3> QED
      BY <3>1
  <2> QED
    BY <1>1, <2>1, <2>2 DEF CommitStages
<1>5. MemInv'
  BY <1>1, <1>2, <1>4, SameMemory DEF MemInv
<1>6. TypeOK'
  BY <1>1, <1>2, <1>3 DEF StoreInv, TypeOK, Stages, CommitStages
<1> QED
  BY <1>1, <1>3, <1>5, <1>6 DEF StoreInv, CommitStages


-----------------------------------------------------------------------------
(* The invariant of the specification.                                      *)

\* Create leaves a file that LoadState takes, and a process that has read it.
LEMMA InitStore ==
  ASSUME Init
  PROVE  StoreInv
<1>1. PICK n \in RingSizes : ring = [i \in 0 .. n - 1 |-> Blank]
  BY DEF Init
<1>2. n \in Nat \ {0} /\ ring \in [0 .. n - 1 -> Record \cup {Blank}]
  BY <1>1, StoreAssumption
<1>3. Slots = 0 .. n - 1 /\ WalSlots = n
  BY <1>2, SlotsOfRing
<1>4. /\ data = <<TocCell(<<>>), FooterCell(0, 0, <<>>)>>
      /\ pageA = FirstPage(1) /\ pageB = FirstPage(0)
      /\ stage = "idle" /\ mem = Loaded /\ todo = <<>> /\ closing = FALSE /\ failed = FALSE
  BY DEF Init
<1>5. <<>> \in Seq(Frame) /\ todo \in Seq(PutMutation)
  BY <1>4
<1>6. TocCell(<<>>) \in Cell /\ FooterCell(0, 0, <<>>) \in Cell
  BY <1>5 DEF TocCell, FooterCell, Cell
<1>7. data \in Seq(Cell) /\ Len(data) = 2 /\ DOMAIN data = 1 .. 2
      /\ data[1] = TocCell(<<>>) /\ data[2] = FooterCell(0, 0, <<>>)
  BY <1>4, <1>6
<1>8. pageA \in Page /\ pageB \in Page /\ pageA.cpos = 0 /\ pageB.hpgen <= pageA.hpgen
  BY <1>4 DEF FirstPage, Page
<1>9. FileTyped
  BY <1>2, <1>7, <1>8 DEF FileTyped
<1>10. IsLatest(data, 2)
  <2>1. data[1].kind # "footer" /\ data[2].kind = "footer" /\ data[2].frames = <<>>
    BY <1>7 DEF TocCell, FooterCell
  <2>2. FooterIn(data, 2)
    BY <1>7, <2>1 DEF FooterIn
  <2>3. \A j \in DOMAIN data : data[j].kind = "footer" => j = 2
    <3>1. \A j \in 1 .. 2 : j = 1 \/ j = 2
      OBVIOUS
    <3> QED
      BY <1>7, <2>1, <3>1
  <2>4. RangesValid(data[2].frames, 2)
    BY <2>1 DEF RangesValid
  <2> QED
    BY <2>2, <2>3, <2>4 DEF IsLatest
<1>11. Latest = 2
  BY <1>7, <1>10, LatestFound, LatestIsOf
<1>12. Laid(ring, n, 0, 0, data[Latest].cseq, Latest, Len(data))
  <2>1. 0 \in 0 .. n - 1 /\ \A i \in 0 .. n - 1 : ring[i] = Blank
    BY <1>1, <1>2
  <2>2. ReadLen(ring, n, 0, 0) = 0
    BY <2>1 DEF ReadLen, Behind
  <2>3. \A i \in 0 .. n - 1 : Behind(n, 0, i) \in Nat
    BY <1>2, <2>1, BehindTyped
  <2>4. Ascending(ring, n, 0, 0, data[Latest].cseq)
    BY <2>3 DEF Ascending
  <2> QED
    BY <1>2, <2>1, <2>2, <2>3, <2>4 DEF Laid
<1>13. LaidAt(0) /\ 0 \in Slots
  BY <1>2, <1>3, <1>8, <1>12 DEF LaidAt
<1>14. FileInv
  BY <1>8, <1>10, <1>11, <1>13 DEF FileInv
<1>15. IsReopened(mem, 0)
  BY <1>4, <1>8, <1>9, <1>10, <1>11, <1>13, LoadedFacts
<1>16. UpToDate
  <2>1. IsTodo(todo, ring, WalSlots, pageA.cpos, mem, mem.cseq, Len(data))
    BY <1>4 DEF IsTodo
  <2> QED
    BY <1>15, <2>1 DEF UpToDate, IsReopened
<1>17. mem \in Mem /\ MemInv
  BY <1>13, <1>15, <1>16 DEF MemInv, IsReopened
<1>18. TypeOK
  BY <1>4, <1>5, <1>9, <1>17 DEF TypeOK, Stages, CommitStages
<1> QED
  BY <1>4, <1>14, <1>17, <1>18 DEF StoreInv, CommitStages

LEMMA LengthsTyped == \A lens \in Lengths : lens \in Seq(Nat) /\ lens # <<>>
<1> SUFFICES ASSUME NEW lens \in Lengths
             PROVE  lens \in Seq(Nat) /\ lens # <<>>
  OBVIOUS
<1>1. PICK n \in 1 .. MaxBatch : lens \in [1 .. n -> {0, 1}]
  BY DEF Lengths
<1>2. n \in Nat /\ n > 0
  BY <1>1, StoreAssumption
<1>3. lens \in [1 .. n -> Nat]
  BY <1>1
<1>4. lens \in Seq(Nat) /\ Len(lens) = n
  BY <1>2, <1>3
<1> QED
  BY <1>2, <1>4

LEMMA StutterKeeps ==
  ASSUME StoreInv, UNCHANGED vars
  PROVE  StoreInv'
<1>1. /\ UNCHANGED file /\ stage' = stage /\ mem' = mem /\ todo' = todo /\ plan' = plan
      /\ closing' = closing /\ failed' = failed
  BY DEF vars, call
<1>2. FileTyped' /\ FileInv' /\ Latest' = Latest
  BY <1>1, SameFile DEF StoreInv, TypeOK
<1>3. Running => MemInv'
  BY <1>1, SameMemory DEF StoreInv, MemInv
<1>4. stage \in CommitStages => PlanInv'
  <2>1. data' = data /\ pageA' = pageA
    BY <1>1 DEF file
  <2>2. NewPage(mem.hpgen + 1)' = NewPage(mem.hpgen + 1)
    BY <1>1 DEF NewPage
  <2> QED
    BY <1>1, <1>2, <2>1, <2>2 DEF StoreInv, PlanInv
<1>5. TypeOK'
  BY <1>1, <1>2 DEF StoreInv, TypeOK
<1> QED
  BY <1>1, <1>2, <1>3, <1>4, <1>5 DEF StoreInv, Running

LEMMA NextStore ==
  ASSUME StoreInv, [Next]_vars, RefreshAfterFailure, AppendsWhole
  PROVE  StoreInv'
<1>1. ASSUME NEW len \in {0, 1}, Put(len)
      PROVE  StoreInv'
  <2>1. <<len>> \in Seq(Nat) /\ <<len>> # <<>>
    OBVIOUS
  <2> QED
    BY <1>1, <2>1, PutKeeps DEF Put
<1>2. ASSUME NEW lens \in Lengths, PutBatch(lens)
      PROVE  StoreInv'
  BY <1>2, LengthsTyped, PutKeeps DEF PutBatch
<1>3. ASSUME NEW lens \in Lengths, PutRefused(lens)
      PROVE  StoreInv'
  BY <1>3, LengthsTyped, RefusedKeeps
<1>4. ASSUME NEW id \in 0 .. MaxSequence[WalSlots], Delete(id)
      PROVE  StoreInv'
  <2>1. id \in Nat
    <3>1. WalSlots \in RingSizes
      BY RingFacts DEF StoreInv, TypeOK
    <3>2. MaxSequence[WalSlots] \in Nat
      BY <3>1, StoreAssumption
    <3> QED
      BY <3>2
  <2> DEFINE m == [kind |-> "delete", id |-> id]
  <2>2. m \in Mutation /\ m \notin PutMutation
    BY <2>1 DEF Mutation, PutMutation
  <2>3. /\ Ready /\ AppendRecord(m)
        /\ UNCHANGED <<data, pageA, pageB, stage, call, failed>>
    BY <1>4 DEF Delete
  <2> QED
    BY <2>2, <2>3, MutationKeeps
<1>5. ASSUME NEW id \in Embedded, PutEmbedding(id)
      PROVE  StoreInv'
  <2>1. id \in Nat
    BY StoreAssumption
  <2> DEFINE m == [kind |-> "embedding", id |-> id]
  <2>2. m \in Mutation /\ m \notin PutMutation
    BY <2>1 DEF Mutation, PutMutation
  <2>3. /\ Ready /\ AppendRecord(m)
        /\ UNCHANGED <<data, pageA, pageB, stage, call, failed>>
    BY <1>5 DEF PutEmbedding
  <2> QED
    BY <2>2, <2>3, MutationKeeps
<1>6. CASE Commit
  BY <1>6, StartCommitKeeps DEF Commit
<1>7. CASE CloseCommits
  BY <1>7, StartCommitKeeps DEF CloseCommits
<1>8. CASE AppendNext
  BY <1>8, AppendNextKeeps
<1>9. CASE WriteToc
  BY <1>9, WriteTocKeeps
<1>10. CASE WriteFooter
  BY <1>10, WriteFooterKeeps
<1>11. CASE Resize
  BY <1>11, ResizeKeeps
<1>12. CASE WritePageA
  BY <1>12, WritePageAKeeps
<1>13. CASE WritePageB
  BY <1>13, WritePageBKeeps
<1>14. CASE FinishCommit
  BY <1>14, FinishCommitKeeps
<1>15. CASE CommitFails
  BY <1>15, CommitFailsKeeps
<1>16. CASE CloseClean
  BY <1>16, CloseCleanKeeps
<1>17. CASE Open
  BY <1>17, OpenKeeps
<1>18. CASE Verify
  BY <1>18, VerifyKeeps
<1>19. CASE TryRefreshIfPublishedCommitVisible
  BY <1>19, RefreshKeeps
<1>20. CASE ProcessDies
  BY <1>20, ProcessDiesKeeps
<1>21. CASE UNCHANGED vars
  BY <1>21, StutterKeeps
<1> QED
  BY <1>1, <1>2, <1>3, <1>4, <1>5, <1>6, <1>7, <1>8, <1>9, <1>10, <1>11, <1>12, <1>13, <1>14,
     <1>15, <1>16, <1>17, <1>18, <1>19, <1>20, <1>21 DEF Next

\* In every state the file is one LoadState takes, whatever stage a commit is in, and a
\* process that has seen it whole knows its footer, its generation and where its ring
\* goes on.  The caller of a Commit that threw looks at the file before anything else.
THEOREM StoreInvariant == RefreshAfterFailure /\ AppendsWhole => (Spec => []StoreInv)
<1> SUFFICES ASSUME RefreshAfterFailure, AppendsWhole
             PROVE  Spec => []StoreInv
  OBVIOUS
<1>1. Init => StoreInv
  BY InitStore
<1>2. StoreInv /\ [Next]_vars => StoreInv'
  BY NextStore
<1> QED
  BY <1>1, <1>2, PTL DEF Spec

\* Open never refuses what a dead process, or a failed write, has left of a file, after
\* whatever commits, batches and reopenings: WaxStore::LoadState.
THEOREM StoreAlwaysReopens == RefreshAfterFailure /\ AppendsWhole => (Spec => []AlwaysReopens)
<1> SUFFICES ASSUME RefreshAfterFailure, AppendsWhole
             PROVE  Spec => []AlwaysReopens
  OBVIOUS
<1>1. StoreInv => AlwaysReopens
  BY Reopens DEF StoreInv, TypeOK
<1> QED
  BY <1>1, StoreInvariant, PTL

\* A Close that returns has committed what the process had written: nothing of it is left
\* to be recovered from the ring.  WaxStore::Close.
THEOREM StoreClosePublishes == RefreshAfterFailure /\ AppendsWhole => (Spec => ClosePublishes)
<1> SUFFICES ASSUME RefreshAfterFailure, AppendsWhole
             PROVE  Spec => ClosePublishes
  OBVIOUS
<1> DEFINE Closes == stage' = "closed" /\ stage # "closed" /\ mem.local => Loaded.cache = <<>>
<1>1. ASSUME StoreInv, [Next]_vars, stage' = "closed", stage # "closed", mem.local
      PROVE  Loaded.cache = <<>>
  <2>1. CloseClean \/ FinishCommit
    BY <1>1 DEF Next, vars, Put, PutBatch, PutRefused, StartAppending, AppendNext, Delete,
      PutEmbedding, Ready, Commit, StartCommit, CloseCommits, WriteToc, WriteFooter, Resize,
      WritePageA, WritePageB, CommitFails, Open, Verify, TryRefreshIfPublishedCommitVisible,
      ProcessDies, call
  <2>2. ~CloseClean
    BY <1>1 DEF CloseClean, Ready, StoreInv, MemInv, Running
  <2>3. stage = "finish"
    BY <2>1, <2>2 DEF FinishCommit
  <2>4. /\ FileTyped /\ FileInv /\ MemInv /\ mem \in Mem
        /\ data[Latest].cseq = plan.cseq
        /\ plan.cseq \in Nat /\ mem.last \in Nat /\ mem.last <= plan.cseq
    BY <1>1, <2>3, Published
  <2>5. IsReopened(Loaded, mem.wpos)
    BY <2>4, LoadedFacts DEF MemInv, FileInv
  <2>6. Loaded.cache \in Seq(Record)
    BY <2>5 DEF IsReopened, Mem
  <2> DEFINE cache == Loaded.cache
  <2>7. IsCache(cache, plan.cseq, Latest, Len(data))
    BY <2>4, <2>5 DEF IsReopened
  <2>8. FromRing(cache, ring, WalSlots, pageA.cpos, ReadLen(ring, WalSlots, pageA.cpos, mem.wpos))
    BY <2>5 DEF IsReopened
  <2> HIDE DEF cache
  <2>9. ASSUME cache # <<>>
        PROVE  FALSE
    <3>1. 1 \in DOMAIN cache /\ cache[1] \in Record
      BY <2>6, <2>9 DEF cache
    <3>2. PICK k \in 0 .. WalSlots - 1 :
            Behind(WalSlots, pageA.cpos, k) < ReadLen(ring, WalSlots, pageA.cpos, mem.wpos)
              /\ cache[1] = ring[k]
      BY <2>8, <3>1 DEF FromRing
    <3>3. ring[k].seq <= mem.last
      BY <2>4, <3>2 DEF MemInv, Known
    <3>4. cache[1].seq > plan.cseq /\ cache[1].seq \in Nat
      BY <2>7, <3>1, RecordHas DEF IsCache
    <3> QED
      BY <2>4, <3>2, <3>3, <3>4
  <2> QED
    BY <2>9 DEF cache
<1>2. StoreInv /\ [Next]_vars => [Closes]_vars
  BY <1>1
<1> QED
  BY <1>2, StoreInvariant, PTL DEF Spec, ClosePublishes

-----------------------------------------------------------------------------
(* A running store and its file say the same, what is pending can be        *)
(* committed, and the file implements the durable store.                    *)

-----------------------------------------------------------------------------
(* Picking elements of sequences that have some in common.                  *)

AlikeTo(s, S, t, V, k) ==
  /\ k \in Nat /\ k <= Len(s) /\ k <= Len(t)
  /\ \A i \in 1 .. k : s[i] = t[i] /\ (s[i] \in S <=> t[i] \in V)

\* Sequences that agree up to k, and on what is picked there, have the same picked.
LEMMA SameOnly ==
  ASSUME NEW T, NEW S, NEW V, NEW s \in Seq(T), NEW t \in Seq(T), NEW k,
         AlikeTo(s, S, t, V, k)
  PROVE  OnlyAmong(s, S)[k] = OnlyAmong(t, V)[k]
<1>0. /\ k \in Nat /\ k <= Len(s) /\ k <= Len(t)
      /\ \A i \in 1 .. k : s[i] = t[i] /\ (s[i] \in S <=> t[i] \in V)
  BY DEF AlikeTo
<1> DEFINE f == OnlyAmong(s, S)
           g == OnlyAmong(t, V)
           U == {i \in Nat : i <= k => f[i] = g[i]}
<1>1. /\ f[0] = <<>> /\ g[0] = <<>>
      /\ \A i \in 1 .. Len(s) : f[i] = IF s[i] \in S THEN Append(f[i - 1], s[i]) ELSE f[i - 1]
      /\ \A i \in 1 .. Len(t) : g[i] = IF t[i] \in V THEN Append(g[i - 1], t[i]) ELSE g[i - 1]
  BY OnlyAmongAt
<1> HIDE DEF f, g
<1>2. 0 \in U
  BY <1>1
<1>3. ASSUME NEW i \in Nat, i \in U
      PROVE  i + 1 \in U
  <2> SUFFICES ASSUME i + 1 <= k
               PROVE  f[i + 1] = g[i + 1]
    OBVIOUS
  <2>1. i + 1 \in 1 .. k /\ i + 1 \in 1 .. Len(s) /\ i + 1 \in 1 .. Len(t) /\ (i + 1) - 1 = i
    BY <1>0
  <2>2. f[i] = g[i]
    BY <1>0, <1>3
  <2> DEFINE j == i + 1
  <2>3. /\ f[j] = IF s[j] \in S THEN Append(f[j - 1], s[j]) ELSE f[j - 1]
        /\ g[j] = IF t[j] \in V THEN Append(g[j - 1], t[j]) ELSE g[j - 1]
        /\ s[j] = t[j] /\ (s[j] \in S <=> t[j] \in V) /\ j - 1 = i
    BY <1>0, <1>1, <2>1
  <2> HIDE DEF j
  <2>4. f[j] = g[j]
    BY <2>2, <2>3
  <2> QED
    BY <2>4 DEF j
<1>4. Nat \subseteq U
  <2> HIDE DEF U
  <2> QED
    BY <1>2, <1>3, SetInduction
<1> QED
  BY <1>0, <1>4 DEF f, g

LEMMA OnlyNone ==
  ASSUME NEW T, NEW S, NEW s \in Seq(T), \A i \in DOMAIN s : s[i] \notin S
  PROVE  Only(s, S) = <<>>
<1>1. PICK at : Places(at, Only(s, S), s, S, Len(s))
  BY OnlyElements
<1>2. Only(s, S) \in Seq(T) /\ \A i \in DOMAIN Only(s, S) : Only(s, S)[i] \in S
  BY OnlyElements
<1> DEFINE k == Only(s, S)
<1> HIDE DEF k
<1>3. k \in Seq(T) /\ \A i \in DOMAIN k : i \notin 1 .. Len(k)
  <2>1. k \in Seq(T)
    BY <1>2 DEF k
  <2>2. ASSUME NEW i \in 1 .. Len(k)
        PROVE  FALSE
    <3>1. at[i] \in 1 .. Len(s) /\ s[at[i]] \in S
      BY <1>1 DEF Places, k
    <3> QED
      BY <3>1
  <2> QED
    BY <2>1, <2>2
<1>4. Len(k) = 0
  BY <1>3
<1> QED
  BY <1>3, <1>4 DEF k

\* What is picked of a sequence behind which one more element comes.
OnlyWith(s, S, e, V) ==
  /\ \A k \in 0 .. Len(s) : OnlyAmong(Append(s, e), V)[k] = OnlyAmong(s, S)[k]
  /\ Only(Append(s, e), V) = IF e \in V THEN Append(Only(s, S), e) ELSE Only(s, S)

LEMMA OnlyAppend ==
  ASSUME NEW T, NEW S, NEW V, NEW s \in Seq(T), NEW e \in T,
         \A i \in DOMAIN s : s[i] \in S <=> s[i] \in V
  PROVE  OnlyWith(s, S, e, V)
<1> DEFINE t == Append(s, e)
           l == Len(s)
<1>1. t \in Seq(T) /\ Len(t) = l + 1 /\ t[l + 1] = e /\ l \in Nat /\ \A i \in 1 .. l : t[i] = s[i]
  OBVIOUS
<1> HIDE DEF t
<1>2. ASSUME NEW k \in 0 .. l
      PROVE  OnlyAmong(t, V)[k] = OnlyAmong(s, S)[k]
  <2>1. k \in Nat /\ k <= Len(t) /\ k <= Len(s)
    BY <1>1
  <2>2. \A i \in 1 .. k : s[i] = t[i] /\ (s[i] \in S <=> t[i] \in V)
    BY <1>1
  <2>3. AlikeTo(s, S, t, V, k)
    BY <2>1, <2>2 DEF AlikeTo
  <2>4. t \in Seq(T)
    BY <1>1
  <2>5. OnlyAmong(s, S)[k] = OnlyAmong(t, V)[k]
    BY <2>3, <2>4, SameOnly
  <2> QED
    BY <2>5
<1>3. OnlyAmong(t, V)[l + 1] = IF e \in V THEN Append(OnlyAmong(t, V)[l], e) ELSE OnlyAmong(t, V)[l]
  <2> DEFINE j == l + 1
  <2>1. j \in 1 .. Len(t) /\ t[j] = e /\ j - 1 = l /\ Len(t) \in Nat
    BY <1>1
  <2> HIDE DEF j
  <2>2. OnlyAmong(t, V)[j] = IF t[j] \in V THEN Append(OnlyAmong(t, V)[j - 1], t[j])
                             ELSE OnlyAmong(t, V)[j - 1]
    BY <2>1, OnlyAmongAt
  <2>3. OnlyAmong(t, V)[j] = IF e \in V THEN Append(OnlyAmong(t, V)[l], e)
                             ELSE OnlyAmong(t, V)[l]
    BY <2>1, <2>2
  <2> QED
    BY <2>3 DEF j
<1>4. OnlyAmong(t, V)[l] = Only(s, S)
  BY <1>1, <1>2 DEF Only
<1>5. Only(t, V) = OnlyAmong(t, V)[l + 1]
  BY <1>1 DEF Only
<1>6. Only(t, V) = IF e \in V THEN Append(Only(s, S), e) ELSE Only(s, S)
  BY <1>3, <1>4, <1>5
<1> QED
  BY <1>2, <1>6 DEF t, OnlyWith

-----------------------------------------------------------------------------
(* Ids.  NextPlace is the number of frames when records are applied to fs.  *)

NextPlace(fs, records) == Len(fs) + Len(PutRecords(records))

\* Puts have dense ids, the rest known ones, but for embeddings, which are taken
\* for any frame.
FitsAt(fs, records, i) ==
  LET before == Len(fs) + Len(OnlyAmong(records, PutRecord)[i - 1])
      m == records[i].m
  IN  IF m.kind = "put" THEN m.id = before ELSE m.id < before \/ m.kind = "embedding"

Fits(fs, records) == \A i \in DOMAIN records : FitsAt(fs, records, i)

\* A mutation for a store whose next id is next.
Suits(m, next) == IF m.kind = "put" THEN m.id = next ELSE m.id < next \/ m.kind = "embedding"

LEMMA PutIsPut == \A r \in Record : r \in PutRecord <=> r.m.kind = "put"
BY DEF Record, Mutation, PutMutation, PutRecord

LEMMA NextPlaceTyped ==
  ASSUME NEW fs \in Seq(Frame), NEW records \in Seq(Record)
  PROVE  NextPlace(fs, records) \in Nat
<1>1. PutRecords(records) \in Seq(Record)
  BY OnlyElements DEF PutRecords
<1>2. Len(PutRecords(records)) \in Nat /\ Len(fs) \in Nat
  BY <1>1
<1> QED
  BY <1>2 DEF NextPlace

LEMMA FitsEmpty ==
  ASSUME NEW fs \in Seq(Frame)
  PROVE  Fits(fs, <<>>) /\ NextPlace(fs, <<>>) = Len(fs)
<1>1. <<>> \in Seq(Record) /\ DOMAIN (<<>>) = {}
  OBVIOUS
<1>2. PutRecords(<<>>) = <<>>
  BY <1>1, OnlyNone DEF PutRecords
<1>3. Len(<<>>) = 0 /\ Len(fs) \in Nat
  OBVIOUS
<1> QED
  BY <1>1, <1>2, <1>3 DEF Fits, NextPlace

LEMMA FitsAppend ==
  ASSUME NEW fs \in Seq(Frame), NEW records \in Seq(Record), NEW r \in Record, Fits(fs, records),
         Suits(r.m, NextPlace(fs, records))
  PROVE  /\ Fits(fs, Append(records, r))
         /\ NextPlace(fs, Append(records, r)) =
              IF r.m.kind = "put" THEN r.m.id + 1 ELSE NextPlace(fs, records)
<1> DEFINE t == Append(records, r)
           l == Len(records)
           S == PutRecord
           next == NextPlace(fs, records)
<1>1. t \in Seq(Record) /\ Len(t) = l + 1 /\ t[l + 1] = r /\ l \in Nat /\ \A i \in 1 .. l : t[i] = records[i]
  OBVIOUS
<1> HIDE DEF S
<1>2. /\ \A k \in 0 .. l : OnlyAmong(t, S)[k] = OnlyAmong(records, S)[k]
      /\ Only(t, S) = IF r \in S THEN Append(Only(records, S), r) ELSE Only(records, S)
  <2>1. \A i \in DOMAIN records : records[i] \in S <=> records[i] \in S
    OBVIOUS
  <2>2. OnlyWith(records, S, r, S)
    BY <2>1, OnlyAppend, Zenon
  <2> QED
    BY <2>2 DEF t, OnlyWith
<1>3. next = Len(fs) + Len(OnlyAmong(records, S)[l])
  BY DEF NextPlace, PutRecords, Only, S
<1>4. next \in Nat
  BY NextPlaceTyped
<1>5. PutRecords(records) \in Seq(Record) /\ PutRecords(t) = Only(t, S) /\ PutRecords(records) = Only(records, S)
  BY OnlyElements DEF PutRecords, S
<1> HIDE DEF t, next
<1>6. ASSUME NEW i \in 1 .. l
      PROVE  FitsAt(fs, t, i)
  <2>1. FitsAt(fs, records, i)
    BY DEF Fits
  <2>2. i - 1 \in 0 .. l
    BY <1>1
  <2> QED
    BY <1>1, <1>2, <2>1, <2>2 DEF FitsAt, S
<1>7. FitsAt(fs, t, l + 1)
  <2> DEFINE j == l + 1
  <2>1. j - 1 = l /\ t[j] = r /\ l \in 0 .. l
    BY <1>1
  <2> HIDE DEF j
  <2>2. next = Len(fs) + Len(OnlyAmong(t, S)[j - 1])
    BY <1>2, <1>3, <2>1
  <2>3. FitsAt(fs, t, j)
    BY <2>1, <2>2 DEF FitsAt, Suits, S, next
  <2> QED
    BY <2>3 DEF j
<1>8. Fits(fs, t)
  <2>1. DOMAIN t = 1 .. (l + 1)
    BY <1>1
  <2> QED
    BY <1>1, <1>6, <1>7, <2>1 DEF Fits
<1>9. NextPlace(fs, t) = IF r.m.kind = "put" THEN r.m.id + 1 ELSE next
  <2>1. CASE r.m.kind = "put"
    <3>1. r \in S
      BY <2>1, PutIsPut DEF S
    <3>2. Len(PutRecords(t)) = Len(PutRecords(records)) + 1
      BY <1>2, <1>5, <3>1
    <3>3. r.m.id = next
      BY <2>1 DEF Suits, next
    <3>4. Len(fs) \in Nat /\ Len(PutRecords(records)) \in Nat
      BY <1>5
    <3>5. NextPlace(fs, t) = Len(fs) + Len(PutRecords(t)) /\ next = Len(fs) + Len(PutRecords(records))
      BY DEF NextPlace, next
    <3> QED
      BY <2>1, <3>2, <3>3, <3>4, <3>5
  <2>2. CASE r.m.kind # "put"
    <3>1. r \notin S
      BY <2>2, PutIsPut DEF S
    <3> QED
      BY <1>2, <1>5, <2>2, <3>1 DEF NextPlace, next
  <2> QED
    BY <2>1, <2>2
<1> QED
  BY <1>8, <1>9 DEF t, next

\* What NextId takes the greatest of.
IdsOf(fs, records) == {Len(fs)} \cup {m.id + 1 : m \in Puts(records)}

\* The id that LoadState counts is the place of the next frame.
LEMMA FitsNext ==
  ASSUME NEW fs \in Seq(Frame), NEW records \in Seq(Record), Fits(fs, records)
  PROVE  NextId(fs, records) = NextPlace(fs, records)
<1> DEFINE S == PutRecord
           l == Len(records)
           c(i) == Len(OnlyAmong(records, S)[i])
           place(i) == Len(fs) + c(i)
           next == NextPlace(fs, records)
           ids == IdsOf(fs, records)
<1>1. l \in Nat /\ Len(fs) \in Nat /\ next \in Nat
  BY NextPlaceTyped
<1>2. next = place(l)
  BY DEF NextPlace, PutRecords, Only
<1>3. \A i \in 1 .. l : /\ c(i - 1) \in Nat
                        /\ records[i] \in S => c(i) = c(i - 1) + 1
                        /\ c(0) = 0
  BY CountStep
<1>4. \A i \in 0 .. l : c(i) \in Nat /\ c(i) <= c(l)
  <2> TAKE i \in 0 .. l
  <2>1. l \in 0 .. l /\ i <= l
    BY <1>1
  <2> QED
    BY <2>1, CountGrows
<1>5. \A i \in 1 .. l : records[i] \in S => records[i].m.id + 1 = place(i)
  <2> TAKE i \in 1 .. l
  <2>1. FitsAt(fs, records, i) /\ records[i] \in Record
    BY DEF Fits
  <2>2. HAVE records[i] \in S
  <2>3. records[i].m.kind = "put"
    BY <2>1, <2>2, PutIsPut
  <2>4. records[i].m.id = place(i - 1)
    BY <2>1, <2>3 DEF FitsAt
  <2>5. c(i) = c(i - 1) + 1 /\ c(i - 1) \in Nat
    BY <1>3, <2>2
  <2> HIDE DEF c
  <2> QED
    BY <1>1, <2>4, <2>5
<1>6. \E at : Places(at, OnlyAmong(records, S)[l], records, S, l)
  <2>1. l \in 0 .. l
    BY <1>1
  <2> QED
    BY <2>1, OnlyPlaces, Zenon
<1> HIDE DEF next
<1>7. next \in ids
  <2>1. CASE c(l) = 0
    <3>1. next = Len(fs)
      <4> HIDE DEF c
      <4> QED
        BY <1>1, <1>2, <2>1
    <3> QED
      BY <3>1 DEF IdsOf
  <2>2. CASE c(l) # 0
    <3>1. PICK at : Places(at, OnlyAmong(records, S)[l], records, S, l)
      BY <1>6
    <3> DEFINE k == c(l)
               i == at[k]
    <3>2. k \in 1 .. c(l)
      <4> HIDE DEF c
      <4>1. c(l) \in Nat
        BY <1>1, <1>4
      <4> QED
        BY <2>2, <4>1
    <3>3. i \in 1 .. l /\ records[i] \in S
      BY <3>1, <3>2 DEF Places
    <3>4. \A j \in 1 .. l : records[j] \in S => j <= i
      <4> TAKE j \in 1 .. l
      <4>1. HAVE records[j] \in S
      <4>2. PICK a \in 1 .. c(l) : at[a] = j
        BY <3>1, <4>1 DEF Places
      <4>3. a < k => at[a] < at[k]
        BY <3>1, <3>2, <4>2 DEF Places
      <4>4. a <= k /\ a \in Nat /\ k \in Nat
        BY <3>2, <4>2
      <4> HIDE DEF c, k
      <4> QED
        BY <3>3, <4>2, <4>3, <4>4
    <3>5. \A b \in Nat : i + b <= l => c(i + b) = c(i)
      <4> DEFINE U == {b \in Nat : i + b <= l => c(i + b) = c(i)}
      <4>1. \A j \in 1 .. l : records[j] \notin S => c(j) = c(j - 1)
        BY CountStep
      <4> HIDE DEF c, i
      <4>2. 0 \in U
        BY <3>3
      <4>3. ASSUME NEW b \in Nat, b \in U
            PROVE  b + 1 \in U
        <5> SUFFICES ASSUME i + (b + 1) <= l
                     PROVE  c(i + (b + 1)) = c(i)
          OBVIOUS
        <5> DEFINE j == i + (b + 1)
        <5>1. j \in 1 .. l /\ j - 1 = i + b /\ i + b <= l /\ ~(j <= i)
          BY <1>1, <3>3
        <5>2. records[j] \notin S
          BY <3>4, <5>1
        <5>3. c(j) = c(j - 1)
          BY <4>1, <5>1, <5>2
        <5>4. c(i + b) = c(i)
          BY <4>3, <5>1
        <5> QED
          BY <5>1, <5>3, <5>4
      <4>4. Nat \subseteq U
        <5> HIDE DEF U
        <5> QED
          BY <4>2, <4>3, SetInduction
      <4> QED
        BY <4>4
    <3>6. c(i) = c(l)
      <4> HIDE DEF c, i
      <4> DEFINE b == l - i
      <4>1. b \in Nat /\ i + b = l
        BY <1>1, <3>3
      <4> HIDE DEF b
      <4>2. i + b <= l
        BY <1>1, <4>1
      <4> QED
        BY <3>5, <4>1, <4>2
    <3>7. records[i].m.id + 1 = next
      <4> HIDE DEF c, i
      <4> QED
        BY <1>2, <1>5, <3>3, <3>6
    <3>8. records[i].m \in Puts(records)
      <4>1. records[i] \in ToSet(records)
        BY <3>3 DEF ToSet
      <4> QED
        BY <3>3, <4>1 DEF Puts
    <3> QED
      BY <3>7, <3>8 DEF IdsOf
  <2> QED
    BY <2>1, <2>2
<1>8. \A x \in ids : x \in 0 .. next
  <2> TAKE x \in ids
  <2>0. 0 \in 0 .. l /\ l \in 0 .. l
    BY <1>1
  <2>1. CASE x = Len(fs)
    <3>1. c(l) \in Nat
      BY <1>4, <2>0
    <3> HIDE DEF c
    <3> QED
      BY <1>1, <1>2, <2>1, <3>1
  <2>2. CASE x # Len(fs)
    <3>1. PICK r \in ToSet(records) : r \in S /\ x = r.m.id + 1
      BY <2>2 DEF IdsOf, Puts
    <3>2. PICK i \in 1 .. l : records[i] = r
      BY <3>1 DEF ToSet
    <3>3. x = place(i)
      BY <1>5, <3>1, <3>2
    <3>4. c(i) \in Nat /\ c(i) <= c(l) /\ c(l) \in Nat
      BY <1>4, <2>0
    <3> HIDE DEF c
    <3> QED
      BY <1>1, <1>2, <3>3, <3>4
  <2> QED
    BY <2>1, <2>2
<1> DEFINE top == Max(ids)
<1>9. top \in ids /\ \A y \in ids : top >= y
  <2>1. ids # {} /\ ids \subseteq 0 .. next
    BY <1>7, <1>8
  <2> HIDE DEF ids
  <2> QED
    BY <1>1, <2>1, MaxExists
<1>10. NextId(fs, records) = top
  BY DEF NextId, IdsOf
<1> HIDE DEF top, ids
<1> QED
  BY <1>1, <1>7, <1>8, <1>9, <1>10 DEF next

-----------------------------------------------------------------------------
(* What the scan finds.                                                     *)

LastRead(read, c) ==
  LET last == IF read = <<>> THEN 0 ELSE Last(read).seq
  IN  IF last > c THEN last ELSE c

LEMMA NewerAppend ==
  ASSUME NEW read \in Seq(Record), NEW r \in Record, NEW c \in Nat, r.seq > c
  PROVE  /\ Newer(Append(read, r), c) = Append(Newer(read, c), r)
         /\ LastRead(Append(read, r), c) = r.seq
<1> DEFINE t == Append(read, r)
           S == {x \in ToSet(read) : x.seq > c}
           V == {x \in ToSet(t) : x.seq > c}
<1>1. t \in Seq(Record) /\ Len(t) = Len(read) + 1 /\ t[Len(t)] = r /\ t # <<>>
      /\ \A i \in DOMAIN read : t[i] = read[i] /\ i \in DOMAIN t
  OBVIOUS
<1>2. \A i \in DOMAIN read : read[i] \in S <=> read[i] \in V
  <2> TAKE i \in DOMAIN read
  <2>1. read[i] \in ToSet(read) /\ read[i] \in ToSet(t)
    <3>1. \E j \in DOMAIN t : t[j] = read[i]
      BY <1>1
    <3> HIDE DEF t
    <3> QED
      BY <3>1 DEF ToSet
  <2> HIDE DEF t
  <2> QED
    BY <2>1
<1>3. r \in V
  <2>1. Len(t) \in DOMAIN t
    BY <1>1
  <2> HIDE DEF t
  <2> QED
    BY <1>1, <2>1 DEF ToSet
<1> HIDE DEF S, V
<1>4. OnlyWith(read, S, r, V)
  BY <1>2, OnlyAppend, Zenon
<1>5. Newer(t, c) = Only(t, V) /\ Newer(read, c) = Only(read, S)
  BY DEF Newer, S, V
<1>6. Last(t) = r
  BY <1>1 DEF Last
<1>7. Newer(t, c) = Append(Newer(read, c), r)
  BY <1>3, <1>4, <1>5 DEF OnlyWith
<1> HIDE DEF t
<1>8. LastRead(t, c) = r.seq
  BY <1>1, <1>6 DEF LastRead
<1> QED
  BY <1>7, <1>8 DEF t

LEMMA NewerNone ==
  ASSUME NEW read \in Seq(Record), NEW c \in Nat, \A i \in DOMAIN read : read[i].seq <= c
  PROVE  Newer(read, c) = <<>> /\ LastRead(read, c) = c
<1> DEFINE S == {x \in ToSet(read) : x.seq > c}
<1>1. \A i \in DOMAIN read : read[i] \notin S
  <2> TAKE i \in DOMAIN read
  <2>1. read[i].seq \in Nat /\ read[i].seq <= c
    BY RecordHas
  <2> QED
    BY <2>1
<1> HIDE DEF S
<1>2. Only(read, S) = <<>>
  BY <1>1, OnlyNone
<1>3. LastRead(read, c) = c
  <2>1. CASE read = <<>>
    BY <2>1 DEF LastRead
  <2>2. CASE read # <<>>
    <3>1. Len(read) \in DOMAIN read
      BY <2>2
    <3>2. Last(read).seq <= c /\ Last(read).seq \in Nat
      BY <3>1, RecordHas DEF Last
    <3> QED
      BY <2>2, <3>2 DEF LastRead
  <2> QED
    BY <2>1, <2>2
<1> QED
  BY <1>2, <1>3 DEF Newer, S

-----------------------------------------------------------------------------
(***************************************************************************)
(* The invariant.  A header page whose checkpoint has not moved with the   *)
(* last commit is harmless only where the ring is too long to wrap.        *)
(***************************************************************************)
Short(n) == MaxSequence[n] < n

\* A ring that does not wrap holds record i + 1 in slot i, if any.
Straight(rg, n, s, w, c) ==
  /\ \A i \in 0 .. n - 1 : rg[i] # Blank => rg[i].seq = i + 1 /\ i < MaxSequence[n]
  /\ s <= c /\ c <= w

\* One that may wrap is read from its first pending record on, or nothing in it is pending.
Clean(rg, n, s, w, c) ==
  ReadLen(rg, n, s, w) > 0 =>
    \/ rg[s].seq > c
    \/ w = s /\ \A i \in 0 .. n - 1 : rg[i].seq <= c

Orderly(rg, n, s, w, c) == IF Short(n) THEN Straight(rg, n, s, w, c) ELSE Clean(rg, n, s, w, c)

Matched(rg, n, s, w, c, fs) ==
  /\ Orderly(rg, n, s, w, c)
  /\ Fits(fs, Newer(ReadFrom(rg, n, s, w), c))

\* The process counts what the scan reads, or has seen that nothing there is pending.
Room(m, rg, n, s, c) ==
  \/ m.pend = ReadLen(rg, n, s, m.wpos)
  \/ /\ m.pend = 0 /\ ReadLen(rg, n, s, m.wpos) = n /\ m.wpos = s
     /\ \A i \in 0 .. n - 1 : rg[i].seq <= c

Agrees(m, rg, n, s, c) ==
  /\ m.cache = Newer(ReadFrom(rg, n, s, m.wpos), c)
  /\ m.last = LastRead(ReadFrom(rg, n, s, m.wpos), c)
  /\ Short(n) \/ Room(m, rg, n, s, c)

FileMatches(w) ==
  Matched(ring, WalSlots, pageA.cpos, w, data[Latest].cseq, data[Latest].frames)

Stale == stage \in {"resize", "pageA"} /\ ~Short(WalSlots)

FileMatch ==
  Stale \/ IF Running THEN FileMatches(mem.wpos) ELSE \E w \in Slots : LaidAt(w) /\ FileMatches(w)

\* No commit of another is between what the process knows and the file.
Settled ==
  \/ stage \in {"append", "toc", "footer"}
  \/ stage = "idle" /\ data[Latest].gen = mem.gen

MemMatch ==
  /\ FooterIn(data, mem.foff)
  /\ data[mem.foff].frames = mem.frames
  /\ Fits(mem.frames, mem.cache)
  /\ mem.next_id = NextPlace(mem.frames, mem.cache)
  /\ \A i \in DOMAIN todo : todo[i].id = mem.next_id + i - 1
  /\ stage = "append" => mem.last + Len(todo) <= MaxSequence[WalSlots]
  /\ stage \in CommitStages => plan.cseq = mem.last
  /\ Short(WalSlots) => mem.wpos = mem.last
  /\ Settled => Agrees(mem, ring, WalSlots, pageA.cpos, data[Latest].cseq)

MatchInv == StoreInv /\ FileMatch /\ (Running => MemMatch)

\* Between a published footer and header page A no process dies and no write fails,
\* unless the ring is too long to wrap.
HeaderFollows ==
  \A n \in RingSizes : Short(n) \/ {"resize", "pageA"} \cap (CrashAt[n] \cup FailAt[n]) = {}

-----------------------------------------------------------------------------
(* A record more in the ring.                                               *)

\* The sentinel does not go where the scan starts.
LEMMA ReadsOne ==
  ASSUME NEW rg, NEW n \in Nat \ {0}, NEW s \in 0 .. n - 1, NEW w \in 0 .. n - 1, NEW r,
         NEW full \in BOOLEAN, NEW rg2, rg2 = Appended(rg, n, w, full, r),
         ReadLen(rg, n, s, w) < n, At(n, w, 1) = s => full /\ rg2[s] # Blank
  PROVE  /\ ReadLen(rg2, n, s, At(n, w, 1)) = ReadLen(rg, n, s, w) + 1
         /\ ReadFrom(rg2, n, s, At(n, w, 1)) = Append(ReadFrom(rg, n, s, w), r)
<1> DEFINE R == ReadLen(rg, n, s, w)
           w2 == At(n, w, 1)
<1>1. R \in 0 .. n /\ R < n /\ At(n, s, R) = w /\ R = Behind(n, s, w)
  <2>1. R \in 0 .. n /\ At(n, s, R) = w
    BY ReadLenTyped
  <2> QED
    BY <2>1 DEF ReadLen
<1>2. /\ w2 \in 0 .. n - 1
      /\ w2 = s => R = n - 1
      /\ w2 # s => Behind(n, s, w2) = R + 1
  BY <1>1, NextSlot
<1>3. ReadLen(rg2, n, s, w2) = R + 1
  <2>1. CASE w2 = s
    <3>1. rg2[w2] # Blank
      BY <2>1
    <3> HIDE DEF w2, R
    <3>2. ReadLen(rg2, n, s, w2) = n
      BY <2>1, <3>1 DEF ReadLen
    <3> QED
      BY <1>1, <1>2, <2>1, <3>2
  <2>2. CASE w2 # s
    BY <1>2, <2>2 DEF ReadLen
  <2> QED
    BY <2>1, <2>2
<1>4. ASSUME NEW k \in 0 .. R
      PROVE  rg2[At(n, s, k)] = IF k = R THEN r ELSE rg[At(n, s, k)]
  <2>1. k \in 0 .. n - 1 /\ k \in 0 .. n
    BY <1>1
  <2>2. At(n, s, k) \in 0 .. n - 1 /\ Behind(n, s, At(n, s, k)) = k
    BY <2>1, Wraps, BehindAt
  <2> DEFINE i == At(n, s, k)
  <2>3. rg2[i] = IF i = w THEN r ELSE IF i = w2 /\ ~full THEN Blank ELSE rg[i]
    BY <2>2 DEF Appended
  <2>4. CASE k = R
    BY <1>1, <2>3, <2>4
  <2>5. CASE k # R
    <3>1. i # w
      BY <1>1, <2>2, <2>5
    <3>2. i = w2 => full
      <4>1. CASE w2 = s
        BY <4>1
      <4>2. CASE w2 # s
        <5>1. Behind(n, s, w2) = R + 1 /\ Behind(n, s, i) = k
          BY <1>2, <2>2, <4>2
        <5> HIDE DEF w2, i, R
        <5>2. w2 # i
          BY <1>1, <5>1
        <5> QED
          BY <5>2
      <4> QED
        BY <4>1, <4>2
    <3> QED
      BY <2>3, <2>5, <3>1, <3>2
  <2> QED
    BY <2>4, <2>5
<1> HIDE DEF R, w2
<1>5. ReadFrom(rg, n, s, w) = [i \in 1 .. R |-> rg[At(n, s, i - 1)]]
  BY DEF ReadFrom, R
<1>6. ReadFrom(rg2, n, s, w2) = [i \in 1 .. R + 1 |-> rg2[At(n, s, i - 1)]]
  BY <1>3 DEF ReadFrom
<1> DEFINE read == [i \in 1 .. R |-> rg[At(n, s, i - 1)]]
<1>7. read \in Seq({rg[i] : i \in 0 .. n - 1} \cup {r}) /\ Len(read) = R
  <2>1. \A i \in 1 .. R : i - 1 \in 0 .. n
    BY <1>1
  <2>2. \A i \in 1 .. R : At(n, s, i - 1) \in 0 .. n - 1
    BY <2>1, Wraps
  <2> QED
    BY <1>1, <2>2
<1>8. Append(read, r) = [i \in 1 .. R + 1 |-> IF i = R + 1 THEN r ELSE read[i]]
  <2> DEFINE T == {rg[i] : i \in 0 .. n - 1} \cup {r}
             e == Append(read, r)
  <2>1. read \in Seq(T) /\ r \in T
    BY <1>7
  <2> HIDE DEF read, T
  <2>2. e \in Seq(T) /\ Len(e) = R + 1 /\ \A i \in 1 .. R + 1 : e[i] = IF i = R + 1 THEN r ELSE read[i]
    BY <1>1, <1>7, <2>1
  <2> HIDE DEF e
  <2>3. e = [i \in 1 .. R + 1 |-> e[i]]
    BY <2>2
  <2>4. [i \in 1 .. R + 1 |-> e[i]] = [i \in 1 .. R + 1 |-> IF i = R + 1 THEN r ELSE read[i]]
    BY <2>2
  <2> QED
    BY <2>3, <2>4 DEF e
<1>9. [i \in 1 .. R + 1 |-> rg2[At(n, s, i - 1)]]
        = [i \in 1 .. R + 1 |-> IF i = R + 1 THEN r ELSE read[i]]
  <2>1. ASSUME NEW i \in 1 .. R + 1
        PROVE  rg2[At(n, s, i - 1)] = IF i = R + 1 THEN r ELSE read[i]
    <3>1. i - 1 \in 0 .. R /\ (i - 1 = R <=> i = R + 1)
      BY <1>1
    <3>2. rg2[At(n, s, i - 1)] = IF i - 1 = R THEN r ELSE rg[At(n, s, i - 1)]
      BY <1>4, <3>1
    <3>3. i # R + 1 => i \in 1 .. R
      BY <1>1
    <3> QED
      BY <3>1, <3>2, <3>3
  <2> HIDE DEF read
  <2> QED
    BY <2>1
<1> QED
  BY <1>3, <1>5, <1>6, <1>8, <1>9 DEF w2, R

\* When all the ring has been published, the record is alone.
LEMMA ReadsAnew ==
  ASSUME NEW rg, NEW n \in Nat \ {0}, NEW s \in 0 .. n - 1, NEW r, r # Blank,
         NEW full \in BOOLEAN, full <=> n = 1, NEW rg2, rg2 = Appended(rg, n, s, full, r)
  PROVE  /\ ReadLen(rg2, n, s, At(n, s, 1)) = 1
         /\ ReadFrom(rg2, n, s, At(n, s, 1)) = <<r>>
<1>1. rg2[s] = r
  BY DEF Appended
<1>2. ReadLen(rg2, n, s, At(n, s, 1)) = 1
  <2>1. CASE n = 1
    <3>1. At(n, s, 1) = s
      BY <2>1 DEF At
    <3>2. rg2[At(n, s, 1)] # Blank
      BY <1>1, <3>1
    <3> QED
      BY <2>1, <3>1, <3>2 DEF ReadLen
  <2>2. CASE n # 1
    BY <2>2 DEF ReadLen, At, Behind
  <2> QED
    BY <2>1, <2>2
<1>3. At(n, s, 0) = s
  BY DEF At
<1>4. ReadFrom(rg2, n, s, At(n, s, 1)) = [i \in 1 .. 1 |-> rg2[At(n, s, i - 1)]]
  BY <1>2 DEF ReadFrom
<1>5. \A i \in 1 .. 1 : i - 1 = 0
  OBVIOUS
<1>6. [i \in 1 .. 1 |-> rg2[At(n, s, i - 1)]] = [i \in 1 .. 1 |-> r]
  BY <1>1, <1>3, <1>5
<1>7. [i \in 1 .. 1 |-> r] = <<r>>
  OBVIOUS
<1> QED
  BY <1>2, <1>4, <1>6, <1>7

\* A process that knows m of the ring rg, and agrees with it, appends r.
Joins(rg, n, s, w, c, m, r, rg2, m2) ==
  /\ n \in RingSizes /\ c \in Nat
  /\ \E lo, hi : Laid(rg, n, s, w, c, lo, hi)
  /\ m \in Mem /\ m.wpos = w /\ m.pend < n /\ m.last >= c
  /\ Agrees(m, rg, n, s, c) /\ Orderly(rg, n, s, w, c)
  /\ Short(n) => w = m.last /\ m.last + 1 <= MaxSequence[n]
  /\ r \in Record /\ r.seq = m.last + 1
  /\ rg2 = Appended(rg, n, w, m.pend + 1 = n, r)
  /\ m2.wpos = At(n, w, 1) /\ m2.pend = m.pend + 1
  /\ m2.last = m.last + 1 /\ m2.cache = Append(m.cache, r)

LEMMA AgreesAfterOne ==
  ASSUME NEW rg, NEW n, NEW s, NEW w, NEW c, NEW m, NEW r, NEW rg2, NEW m2,
         Joins(rg, n, s, w, c, m, r, rg2, m2)
  PROVE  /\ Agrees(m2, rg2, n, s, c)
         /\ Orderly(rg2, n, s, At(n, w, 1), c)
         /\ Short(n) => m2.wpos = m2.last
<1> DEFINE R == ReadLen(rg, n, s, w)
           w2 == At(n, w, 1)
           full == m.pend + 1 = n
           read == ReadFrom(rg, n, s, w)
           read2 == ReadFrom(rg2, n, s, w2)
<1>1. /\ n \in RingSizes /\ c \in Nat
      /\ m \in Mem /\ m.wpos = w /\ m.pend < n /\ m.last >= c
      /\ Agrees(m, rg, n, s, c) /\ Orderly(rg, n, s, w, c)
      /\ Short(n) => w = m.last /\ m.last + 1 <= MaxSequence[n]
      /\ r \in Record /\ r.seq = m.last + 1
      /\ rg2 = Appended(rg, n, w, full, r)
      /\ m2.wpos = w2 /\ m2.pend = m.pend + 1
      /\ m2.last = m.last + 1 /\ m2.cache = Append(m.cache, r)
  BY DEF Joins
<1>2. PICK lo, hi : Laid(rg, n, s, w, c, lo, hi)
  BY DEF Joins
<1>3. /\ n \in Nat \ {0} /\ s \in 0 .. n - 1 /\ w \in 0 .. n - 1
      /\ MaxSequence[n] \in Nat
      /\ m.pend \in Nat /\ m.last \in Nat /\ r # Blank
  <2>1. n \in Nat \ {0} /\ s \in 0 .. n - 1 /\ w \in 0 .. n - 1
    BY <1>2 DEF Laid
  <2>2. MaxSequence[n] \in Nat
    BY <1>1, StoreAssumption
  <2>3. m.pend \in Nat /\ m.last \in Nat
    BY <1>1 DEF Mem
  <2>4. r # Blank
    BY <1>1, RecordNotBlank
  <2> QED
    BY <2>1, <2>2, <2>3, <2>4
<1>4. /\ read \in Seq(Record) /\ Len(read) = R
      /\ \A i \in DOMAIN read : \E k \in 0 .. n - 1 : Behind(n, s, k) < R /\ read[i] = rg[k]
  <2>1. IsRead(read, rg, n, s, R, c)
    BY <1>1, <1>2, ReadFacts, Zenon
  <2> QED
    BY <2>1 DEF IsRead
<1>5. /\ m.cache = Newer(read, c)
      /\ m.last = LastRead(read, c)
      /\ Short(n) \/ Room(m, rg, n, s, c)
  BY <1>1 DEF Agrees
<1>6. /\ \A i \in 0 .. n - 1 : Behind(n, s, i) < R => rg[i] \in Record
      /\ rg[w] # Blank => \A i \in 0 .. n - 1 : rg[i] \in Record
  BY <1>2 DEF Laid
<1>7. R \in 0 .. n /\ w2 \in 0 .. n - 1 /\ (R < n => R = Behind(n, s, w))
      /\ (w2 = s => Behind(n, s, w) = n - 1) /\ (w2 # s => Behind(n, s, w2) = Behind(n, s, w) + 1)
  <2>1. R \in 0 .. n
    BY <1>3, ReadLenTyped
  <2>2. R < n => R = Behind(n, s, w)
    BY <2>1 DEF ReadLen
  <2> QED
    BY <1>3, <2>1, <2>2, NextSlot
<1>8. rg2[w] = r /\ \A i \in 0 .. n - 1 : rg2[i] = IF i = w THEN r ELSE IF i = w2 /\ ~full THEN Blank ELSE rg[i]
  BY <1>1, <1>3 DEF Appended
<1> HIDE DEF R, w2, full, read, read2
\* What follows when the scan reads on from where it read before.
<1>9. ASSUME R < n, w2 = s => full /\ rg2[s] # Blank
      PROVE  /\ ReadLen(rg2, n, s, w2) = R + 1
             /\ m2.cache = Newer(read2, c) /\ m2.last = LastRead(read2, c)
  <2>1. full \in BOOLEAN
    BY DEF full
  <2>2. ReadLen(rg2, n, s, w2) = R + 1 /\ read2 = Append(read, r)
    <3>1. ReadLen(rg, n, s, w) < n /\ (At(n, w, 1) = s => full /\ rg2[s] # Blank)
      BY <1>9 DEF R, w2
    <3>2. /\ n \in Nat \ {0} /\ s \in 0 .. n - 1 /\ w \in 0 .. n - 1
          /\ rg2 = Appended(rg, n, w, full, r)
      BY <1>1, <1>3
    <3>3. /\ ReadLen(rg2, n, s, At(n, w, 1)) = ReadLen(rg, n, s, w) + 1
          /\ ReadFrom(rg2, n, s, At(n, w, 1)) = Append(ReadFrom(rg, n, s, w), r)
      BY <2>1, <3>1, <3>2, ReadsOne
    <3> QED
      BY <3>3 DEF R, w2, read, read2
  <2>3. r.seq > c /\ r.seq \in Nat
    BY <1>1, <1>3
  <2>4. Newer(read2, c) = Append(Newer(read, c), r) /\ LastRead(read2, c) = r.seq
    BY <1>1, <1>4, <2>2, <2>3, NewerAppend
  <2> QED
    BY <1>1, <1>5, <2>2, <2>4
<1>10. CASE Short(n)
  <2>1. w = m.last /\ w + 1 <= MaxSequence[n] /\ MaxSequence[n] < n /\ Straight(rg, n, s, w, c)
    BY <1>1, <1>10 DEF Short, Orderly
  <2>2. s <= c /\ c <= w
    BY <2>1 DEF Straight
  <2>3. w2 = w + 1 /\ w2 # s
    BY <1>1, <1>3, <2>1, <2>2 DEF w2, At
  <2>4. R < n
    <3>1. CASE w = s /\ rg[w] # Blank
      <4> DEFINE top == n - 1
      <4>1. top \in 0 .. n - 1 /\ top + 1 = n
        BY <1>3
      <4> HIDE DEF top
      <4>2. rg[top] # Blank
        BY <1>6, <3>1, <4>1, RecordNotBlank
      <4>3. top < MaxSequence[n]
        BY <2>1, <4>1, <4>2 DEF Straight
      <4> QED
        BY <1>3, <2>1, <4>1, <4>3
    <3>2. CASE ~(w = s /\ rg[w] # Blank)
      <4>1. R = Behind(n, s, w)
        BY <3>2 DEF R, ReadLen
      <4> QED
        BY <1>3, <4>1 DEF Behind
    <3> QED
      BY <3>1, <3>2
  <2>5. m2.cache = Newer(read2, c) /\ m2.last = LastRead(read2, c)
    BY <1>9, <2>3, <2>4
  <2>6. Agrees(m2, rg2, n, s, c)
    BY <1>1, <1>10, <2>5 DEF Agrees, read2
  <2>7. \A i \in 0 .. n - 1 : rg2[i] # Blank => rg2[i].seq = i + 1 /\ i < MaxSequence[n]
    <3> SUFFICES ASSUME NEW i \in 0 .. n - 1, rg2[i] # Blank
                 PROVE  rg2[i].seq = i + 1 /\ i < MaxSequence[n]
      OBVIOUS
    <3>1. CASE i = w
      BY <1>1, <1>3, <1>8, <2>1, <3>1
    <3>2. CASE i # w
      <4>1. rg2[i] = rg[i]
        BY <1>8, <3>2
      <4> QED
        BY <2>1, <4>1 DEF Straight
    <3> QED
      BY <3>1, <3>2
  <2>8. Straight(rg2, n, s, w2, c)
    BY <1>1, <1>3, <2>2, <2>3, <2>7 DEF Straight
  <2> QED
    BY <1>1, <1>10, <2>1, <2>3, <2>6, <2>8 DEF Orderly, w2
<1>11. ASSUME ~Short(n), m2.cache = Newer(read2, c), m2.last = LastRead(read2, c),
              m2.pend = ReadLen(rg2, n, s, w2), rg2[s].seq > c
       PROVE  Agrees(m2, rg2, n, s, c) /\ Orderly(rg2, n, s, w2, c)
  <2>1. Room(m2, rg2, n, s, c)
    BY <1>1, <1>11 DEF Room
  <2>2. Agrees(m2, rg2, n, s, c)
    BY <1>1, <1>11, <2>1 DEF Agrees, read2
  <2>3. Clean(rg2, n, s, w2, c)
    BY <1>11 DEF Clean
  <2> QED
    BY <1>11, <2>2, <2>3 DEF Orderly
<1>12. CASE ~Short(n) /\ m.pend = R
  <2>1. R < n /\ R = Behind(n, s, w) /\ (full <=> R + 1 = n)
    BY <1>1, <1>7, <1>12 DEF full
  <2>2. rg2[s].seq > c /\ (w2 = s => full /\ rg2[s] # Blank)
    <3>1. CASE s = w
      <4>1. rg2[s] = r
        BY <1>8, <3>1
      <4>2. w2 = s => full
        BY <1>3, <1>7, <2>1
      <4> QED
        BY <1>1, <1>3, <4>1, <4>2
    <3>2. CASE s # w
      <4>1. R > 0 /\ Behind(n, s, s) = 0
        BY <1>3, <2>1, <3>2 DEF Behind
      <4>2. w2 = s => full
        BY <1>3, <1>7, <2>1
      <4>3. rg2[s] = rg[s]
        BY <1>3, <1>8, <3>2, <4>2
      <4>4. rg[s].seq > c
        BY <1>1, <1>12, <3>2, <4>1 DEF Orderly, Clean, R
      <4>5. rg[s] # Blank
        BY <1>3, <1>6, <4>1, RecordNotBlank
      <4> QED
        BY <4>2, <4>3, <4>4, <4>5
    <3> QED
      BY <3>1, <3>2
  <2>3. /\ ReadLen(rg2, n, s, w2) = R + 1
        /\ m2.cache = Newer(read2, c) /\ m2.last = LastRead(read2, c)
    BY <1>9, <2>1, <2>2
  <2>4. m2.pend = ReadLen(rg2, n, s, w2)
    BY <1>1, <1>12, <2>3
  <2> QED
    BY <1>11, <1>12, <2>2, <2>3, <2>4 DEF w2
<1>13. CASE ~Short(n) /\ m.pend = 0 /\ R = n /\ w = s /\ \A i \in 0 .. n - 1 : rg[i].seq <= c
  <2>1. full <=> n = 1
    BY <1>3, <1>13 DEF full
  <2>2. rg2 = Appended(rg, n, s, full, r) /\ full \in BOOLEAN
    BY <1>1, <1>13 DEF full
  <2>3. ReadLen(rg2, n, s, w2) = 1 /\ read2 = <<r>>
    <3>1. /\ ReadLen(rg2, n, s, At(n, s, 1)) = 1
          /\ ReadFrom(rg2, n, s, At(n, s, 1)) = <<r>>
      BY <1>3, <2>1, <2>2, ReadsAnew
    <3> QED
      BY <1>13, <3>1 DEF w2, read2
  <2>4. \A i \in DOMAIN read : read[i].seq <= c
    BY <1>4, <1>13
  <2>5. m.cache = <<>>
    BY <1>1, <1>4, <1>5, <2>4, NewerNone
  <2>6. <<>> \in Seq(Record) /\ <<r>> = Append(<<>>, r) /\ \A i \in DOMAIN (<<>>) : (<<>>)[i].seq <= c
    OBVIOUS
  <2>7. Newer(<<>>, c) = <<>>
    BY <1>1, <2>6, NewerNone
  <2>8. r.seq > c
    BY <1>1, <1>3
  <2>9. Newer(<<r>>, c) = Append(<<>>, r) /\ LastRead(<<r>>, c) = r.seq
    BY <1>1, <2>6, <2>7, <2>8, NewerAppend
  <2>10. m2.cache = Newer(read2, c) /\ m2.last = LastRead(read2, c)
    BY <1>1, <2>3, <2>5, <2>9
  <2>11. m2.pend = ReadLen(rg2, n, s, w2) /\ rg2[s] = r
    BY <1>1, <1>3, <1>8, <1>13, <2>3
  <2> QED
    BY <1>11, <1>13, <2>8, <2>10, <2>11 DEF w2
<1>14. Short(n) \/ m.pend = R \/ (m.pend = 0 /\ R = n /\ w = s /\ \A i \in 0 .. n - 1 : rg[i].seq <= c)
  BY <1>1, <1>5 DEF Room, R
<1> QED
  BY <1>10, <1>12, <1>13, <1>14 DEF w2

-----------------------------------------------------------------------------
(* A store that has just been read agrees with its file.                    *)

\* In a ring that does not wrap the next slot is numbered like the last record.
LEMMA StraightEnd ==
  ASSUME NEW rg, NEW n \in RingSizes, NEW s, NEW w, NEW c \in Nat, NEW lo, NEW hi,
         Laid(rg, n, s, w, c, lo, hi), Short(n), Straight(rg, n, s, w, c)
  PROVE  LastRead(ReadFrom(rg, n, s, w), c) = w
<1> DEFINE R == ReadLen(rg, n, s, w)
           read == ReadFrom(rg, n, s, w)
<1>1. /\ n \in Nat \ {0} /\ s \in 0 .. n - 1 /\ w \in 0 .. n - 1
      /\ \A i \in 0 .. n - 1 : Behind(n, s, i) < R => rg[i] \in Record
      /\ rg[w] # Blank => \A i \in 0 .. n - 1 : rg[i] \in Record
  BY DEF Laid
<1>2. MaxSequence[n] \in Nat /\ MaxSequence[n] < n
  BY StoreAssumption DEF Short
<1>3. s <= c /\ c <= w
  BY DEF Straight
<1>4. rg[w] = Blank
  <2> SUFFICES ASSUME rg[w] # Blank
               PROVE  FALSE
    OBVIOUS
  <2> DEFINE top == n - 1
  <2>1. top \in 0 .. n - 1 /\ top + 1 = n
    BY <1>1
  <2> HIDE DEF top
  <2>2. rg[top] # Blank
    BY <1>1, <2>1, RecordNotBlank
  <2>3. top < MaxSequence[n]
    BY <2>1, <2>2 DEF Straight
  <2> QED
    BY <1>1, <1>2, <2>1, <2>3
<1>5. R = w - s
  BY <1>1, <1>3, <1>4 DEF ReadLen, Behind
<1>6. IsRead(read, rg, n, s, R, c)
  BY ReadFacts, Zenon
<1>7. read \in Seq(Record) /\ Len(read) = R
  BY <1>6 DEF IsRead
<1>8. read = [i \in 1 .. R |-> rg[At(n, s, i - 1)]]
  BY DEF ReadFrom
<1> HIDE DEF R, read
<1>9. CASE R = 0
  <2>1. read = <<>>
    BY <1>7, <1>9
  <2> QED
    BY <1>1, <1>3, <1>5, <1>9, <2>1 DEF LastRead, read
<1>10. CASE R # 0
  <2>1. R \in 1 .. R /\ R \in Nat /\ read # <<>> /\ w - 1 \in 0 .. n - 1
    BY <1>1, <1>3, <1>5, <1>7, <1>10
  <2>2. At(n, s, R - 1) = w - 1 /\ Behind(n, s, w - 1) < R
    BY <1>1, <1>3, <1>5, <2>1 DEF At, Behind
  <2>3. Last(read) = rg[w - 1]
    BY <1>7, <1>8, <2>1, <2>2 DEF Last
  <2> DEFINE k == w - 1
  <2>4. k \in 0 .. n - 1 /\ k + 1 = w /\ rg[k] \in Record
    BY <1>1, <2>1, <2>2
  <2> HIDE DEF k
  <2>5. rg[k].seq = w
    BY <2>4, RecordNotBlank DEF Straight
  <2>6. Last(read).seq = w
    BY <2>3, <2>5 DEF k
  <2> QED
    BY <1>1, <1>3, <2>1, <2>6 DEF LastRead, read
<1> QED
  BY <1>9, <1>10

\* What is known of the members m after a look at the file, whose next slot is w.
Looked(m, w) ==
  /\ m.foff = Latest /\ m.gen = data[Latest].gen /\ m.frames = data[Latest].frames
  /\ m.wpos = w
  /\ Fits(m.frames, m.cache)
  /\ m.next_id = NextPlace(m.frames, m.cache)
  /\ Short(WalSlots) => m.wpos = m.last
  /\ Agrees(m, ring, WalSlots, pageA.cpos, data[Latest].cseq)

LEMMA LoadedLooked ==
  ASSUME FileTyped, IsLatest(data, Latest), pageB.hpgen <= pageA.hpgen, NEW w, LaidAt(w),
         FileMatches(w)
  PROVE  Looked(Loaded, w)
<1> DEFINE n == WalSlots
           s == pageA.cpos
           c == data[Latest].cseq
           fs == data[Latest].frames
           R == ReadLen(ring, n, s, w)
           read == ReadFrom(ring, n, s, w)
           last == IF read = <<>> THEN 0 ELSE Last(read).seq
           m == Loaded
<1>1. m = LoadedFrom(read, w)
  BY LoadedForm
<1>2. Laid(ring, n, s, w, c, Latest, Len(data))
  BY DEF LaidAt
<1>3. n \in RingSizes
  BY RingFacts
<1>4. c \in Nat /\ fs \in Seq(Frame)
  BY FooterTyped DEF FileTyped
<1>5. Orderly(ring, n, s, w, c) /\ Fits(fs, Newer(read, c))
  BY DEF FileMatches, Matched
<1>6. Newer(read, c) \in Seq(Record)
  BY <1>2, <1>4, NewerFacts, Zenon
<1>7. n \in Nat \ {0} /\ s \in 0 .. n - 1 /\ w \in 0 .. n - 1 /\ R \in 0 .. n
  <2>1. n \in Nat \ {0} /\ s \in 0 .. n - 1 /\ w \in 0 .. n - 1
    BY <1>2 DEF Laid
  <2> QED
    BY <2>1, ReadLenTyped
<1> HIDE DEF n, s, c, fs, R, read, m
<1>8. /\ m.foff = Latest /\ m.gen = data[Latest].gen /\ m.frames = fs /\ m.wpos = w
      /\ m.cache = Newer(read, c) /\ m.next_id = NextId(fs, Newer(read, c))
      /\ m.last = LastRead(read, c)
      /\ m.pend = IF last > c THEN R ELSE 0
  BY <1>1 DEF LoadedFrom, LastRead, c, fs, R, n, s
<1>9. m.next_id = NextPlace(fs, m.cache)
  BY <1>4, <1>5, <1>6, <1>8, FitsNext
<1>10. Short(n) => m.wpos = m.last
  <2>1. Short(n) => LastRead(ReadFrom(ring, n, s, w), c) = w
    BY <1>2, <1>3, <1>4, <1>5, StraightEnd, Zenon DEF Orderly
  <2> QED
    BY <1>8, <2>1 DEF read
<1>11. ASSUME ~Short(n)
       PROVE  Room(m, ring, n, s, c)
  <2>1. CASE last > c
    BY <1>8, <2>1 DEF Room, R
  <2>2. CASE ~(last > c)
    <3>1. Clean(ring, n, s, w, c)
      BY <1>5, <1>11 DEF Orderly
    <3>2. CASE R = 0
      BY <1>8, <2>2, <3>2 DEF Room, R
    <3>3. CASE R # 0
      <4>1. R > 0
        BY <1>7, <3>3
      <4>2. ~(ring[s].seq > c)
        <5>1. Behind(n, s, s) = 0 /\ 0 < R
          BY <1>7, <4>1 DEF Behind
        <5>2. /\ \A k \in 0 .. n - 1 : Behind(n, s, k) < R =>
                   /\ read # <<>>
                   /\ ring[k].seq <= Last(read).seq
              /\ read # <<>> => Last(read) \in Record
          BY <1>2, <1>4, LastIsNewest DEF R, read
        <5>3. read # <<>> /\ ring[s].seq <= Last(read).seq
          BY <1>7, <5>1, <5>2
        <5>4. Last(read).seq \in Nat /\ ring[s].seq \in Nat
          <6>1. ring[s] \in Record
            BY <1>2, <1>7, <5>1 DEF Laid, R
          <6> QED
            BY <5>2, <5>3, <6>1, RecordHas
        <5> QED
          BY <1>4, <2>2, <5>3, <5>4
      <4>3. w = s /\ \A i \in 0 .. n - 1 : ring[i].seq <= c
        BY <3>1, <4>1, <4>2 DEF Clean, R
      <4>4. R = n
        BY <1>7, <3>3, <4>3 DEF R, ReadLen, Behind
      <4> QED
        BY <1>8, <2>2, <4>3, <4>4 DEF Room, R
    <3> QED
      BY <3>2, <3>3
  <2> QED
    BY <2>1, <2>2
<1>12. Agrees(m, ring, n, s, c)
  BY <1>8, <1>11 DEF Agrees, read
<1> QED
  BY <1>5, <1>8, <1>9, <1>10, <1>12 DEF Looked, n, s, c, fs, m

-----------------------------------------------------------------------------
(* Steps.  The store's invariant holds before and after each of them.       *)

Match == FileMatch /\ (Running => MemMatch)

LEMMA StoreFacts ==
  ASSUME StoreInv
  PROVE  /\ FileTyped /\ WalSlots \in RingSizes /\ WalSlots \in Nat \ {0} /\ data \in Seq(Cell)
         /\ IsLatest(data, Latest) /\ Latest \in 1 .. Len(data) /\ Len(data) \in Nat
         /\ data[Latest].cseq \in Nat /\ data[Latest].frames \in Seq(Frame)
         /\ data[Latest].gen \in Nat
         /\ pageB.hpgen <= pageA.hpgen
         /\ Running => mem \in Mem /\ LaidAt(mem.wpos)
<1>1. /\ FileTyped /\ IsLatest(data, Latest) /\ pageB.hpgen <= pageA.hpgen
      /\ Running => mem \in Mem /\ LaidAt(mem.wpos)
  BY DEF StoreInv, TypeOK, FileInv, MemInv, Running
<1>2. data \in Seq(Cell)
  BY <1>1 DEF FileTyped
<1> QED
  BY <1>1, <1>2, RingFacts, FooterTyped

\* The scan finds the same in the same ring, from the same place, behind the same footer.
LEMMA SameScan ==
  ASSUME ring' = ring, pageA' = pageA, Latest' = Latest, data'[Latest] = data[Latest]
  PROVE  /\ WalSlots' = WalSlots
         /\ \A w : FileMatches(w)' <=> FileMatches(w)
<1>1. WalSlots' = WalSlots
  BY SameRing
<1>2. ASSUME NEW w
      PROVE  FileMatches(w)' <=> FileMatches(w)
  BY <1>1 DEF FileMatches
<1> QED
  BY <1>1, <1>2

LEMMA RereadMatches ==
  ASSUME StoreInv, StoreInv', NEW w, LaidAt(w), FileMatches(w), ring' = ring, pageA' = pageA,
         mem' = Loaded, stage' = "idle", todo' = <<>>, Latest' = Latest,
         data'[Latest] = data[Latest]
  PROVE  Match'
<1>1. Looked(Loaded, w)
  BY StoreFacts, LoadedLooked
<1>2. WalSlots' = WalSlots /\ FileMatches(w)'
  BY SameScan
<1>3. Looked(mem', w)
  BY <1>1
<1>4. FooterIn(data', Latest')
  BY DEF StoreInv, FileInv, IsLatest
<1>5. /\ mem'.foff = Latest /\ mem'.gen = data[Latest].gen /\ mem'.frames = data[Latest].frames
      /\ mem'.wpos = w
      /\ Fits(mem'.frames, mem'.cache)
      /\ mem'.next_id = NextPlace(mem'.frames, mem'.cache)
      /\ Short(WalSlots) => mem'.wpos = mem'.last
      /\ Agrees(mem', ring, WalSlots, pageA.cpos, data[Latest].cseq)
  BY <1>3 DEF Looked
<1>6. FileMatch'
  <2>1. mem'.wpos = w
    BY <1>5
  <2>2. Running'
    BY DEF Running
  <2> QED
    BY <1>2, <2>1, <2>2 DEF FileMatch
<1>7. MemMatch'
  <2>1. FooterIn(data', mem'.foff) /\ data'[mem'.foff].frames = mem'.frames
    BY <1>4, <1>5
  <2>2. \A i \in DOMAIN todo' : todo'[i].id = mem'.next_id + i - 1
    OBVIOUS
  <2>3. stage' # "append" /\ stage' \notin CommitStages
    BY DEF CommitStages
  <2>4. Agrees(mem', ring', WalSlots', pageA'.cpos, data'[Latest'].cseq)
    BY <1>2, <1>5
  <2>5. Short(WalSlots') => mem'.wpos = mem'.last
    BY <1>2, <1>5
  <2> QED
    BY <1>5, <2>1, <2>2, <2>3, <2>4, <2>5 DEF MemMatch
<1> QED
  BY <1>6, <1>7 DEF Match

LEMMA IdleFacts ==
  ASSUME StoreInv, Match, stage = "idle"
  PROVE  /\ Running /\ MemMatch /\ FileMatches(mem.wpos) /\ LaidAt(mem.wpos) /\ mem \in Mem
         /\ todo = <<>>
<1>1. Running /\ ~Stale
  BY DEF Running, Stale
<1>2. todo = <<>>
  BY DEF StoreInv, TypeOK
<1> QED
  BY <1>1, <1>2, StoreFacts DEF Match, FileMatch

LEMMA VerifyMatches ==
  ASSUME StoreInv, StoreInv', Match, Verify
  PROVE  Match'
<1>1. /\ stage \in {"idle", "closed"} /\ stage' = "idle" /\ ring' = ring /\ pageA' = pageA
      /\ data' = data /\ mem' = Loaded /\ todo' = todo
  BY DEF Verify, file, call
<1>2. todo = <<>>
  BY <1>1 DEF StoreInv, TypeOK
<1>3. Latest' = Latest
  BY <1>1, SameData
<1>4. PICK w : LaidAt(w) /\ FileMatches(w)
  <2>1. CASE stage = "idle"
    BY <2>1, IdleFacts
  <2>2. CASE stage = "closed"
    <3>1. ~Stale /\ ~Running
      BY <2>2 DEF Stale, Running
    <3> QED
      BY <3>1 DEF Match, FileMatch
  <2> QED
    BY <1>1, <2>1, <2>2
<1> QED
  BY <1>1, <1>2, <1>3, <1>4, RereadMatches

LEMMA OpenMatches ==
  ASSUME StoreInv, StoreInv', Match, Open
  PROVE  Match'
<1>1. /\ stage \in {"down", "closed"} /\ stage' = "idle" /\ ring' = ring /\ pageA' = pageA
      /\ data' = SubSeq(data, 1, RequiredEnd) /\ mem' = Loaded /\ todo' = todo /\ ~failed'
  <2>1. failed' = failed /\ (failed => stage = "idle")
    BY DEF Open, StoreInv, TypeOK
  <2> QED
    BY <2>1 DEF Open, call
<1>2. ~Stale /\ ~Running /\ todo = <<>>
  BY <1>1 DEF Stale, Running, StoreInv, TypeOK
<1>3. PICK w \in Slots : LaidAt(w) /\ FileMatches(w)
  BY <1>2 DEF Match, FileMatch
<1>4. Looked(Loaded, w)
  BY <1>3, StoreFacts, LoadedLooked
<1>5. Latest' = Latest
  <2>1. Running' /\ stage' = "idle" /\ ~failed'
    BY <1>1 DEF Running
  <2>2. mem'.foff = Latest'
    BY <2>1 DEF StoreInv, MemInv, UpToDate
  <2> QED
    BY <1>1, <1>4, <2>2 DEF Looked
<1>6. data'[Latest] = data[Latest]
  <2>1. Latest \in DOMAIN data'
    BY <1>5 DEF StoreInv, FileInv, IsLatest, FooterIn
  <2>2. data \in Seq(Cell) /\ Latest \in 1 .. Len(data) /\ Len(data) \in Nat
    BY StoreFacts
  <2>3. RequiredEnd \in Nat /\ RequiredEnd <= Len(data)
    <3>1. FileTyped /\ FileInv
      BY DEF StoreInv, TypeOK
    <3>2. RequiredEnd \in Latest .. Len(data)
      BY <3>1, RequiredEndFacts
    <3> QED
      BY <2>2, <3>2
  <2> DEFINE e == RequiredEnd
  <2> HIDE DEF e
  <2>4. data' = SubSeq(data, 1, e) /\ e \in Nat /\ e <= Len(data)
    BY <1>1, <2>3 DEF e
  <2> QED
    BY <2>1, <2>2, <2>4
<1> QED
  BY <1>1, <1>2, <1>3, <1>5, <1>6, RereadMatches

LEMMA RefreshMatches ==
  ASSUME StoreInv, StoreInv', Match, TryRefreshIfPublishedCommitVisible
  PROVE  Match'
<1>1. /\ stage = "idle" /\ stage' = "idle" /\ ring' = ring /\ pageA' = pageA /\ data' = data
      /\ todo' = todo /\ plan' = plan
      /\ mem' = Loaded \/ mem' = mem
  BY DEF TryRefreshIfPublishedCommitVisible, file, call
<1>2. FileMatches(mem.wpos) /\ LaidAt(mem.wpos) /\ todo = <<>> /\ MemMatch /\ Running
  BY <1>1, IdleFacts
<1>3. Latest' = Latest
  BY <1>1, SameData
<1>4. CASE mem' = Loaded
  BY <1>1, <1>2, <1>3, <1>4, RereadMatches
<1>5. CASE mem' = mem
  <2>1. WalSlots' = WalSlots /\ FileMatches(mem.wpos)'
    <3>1. WalSlots' = WalSlots /\ \A w : FileMatches(w)' <=> FileMatches(w)
      BY <1>1, <1>3, SameScan
    <3> QED
      BY <1>2, <1>5, <3>1 DEF FileMatches
  <2>2. FileMatch'
    BY <1>1, <2>1 DEF FileMatch, Running
  <2>3. MemMatch'
    BY <1>1, <1>2, <1>3, <1>5, <2>1 DEF MemMatch, Settled
  <2> QED
    BY <2>2, <2>3 DEF Match
<1> QED
  BY <1>1, <1>4, <1>5

\* What is asked of the records to append and of a running commit.
Coming(q, st, pl) ==
  /\ \A i \in DOMAIN q : q[i].id = mem.next_id + i - 1
  /\ st = "append" => mem.last + Len(q) <= MaxSequence[WalSlots]
  /\ st \in CommitStages => pl.cseq = mem.last

\* Steps of a process that leave its members and the ring alone, and the latest footer.
LEMMA StayMatches ==
  ASSUME StoreInv, StoreInv', Match, Running, Running', ~Stale, mem' = mem, ring' = ring,
         pageA' = pageA, Latest' = Latest, data'[Latest] = data[Latest],
         FooterIn(data', mem.foff), data'[mem.foff] = data[mem.foff],
         Coming(todo', stage', plan'), Settled' => Settled
  PROVE  Match'
<1>1. FileMatches(mem.wpos) /\ MemMatch
  BY DEF Match, FileMatch
<1>2. WalSlots' = WalSlots /\ FileMatches(mem.wpos)'
  <2>1. WalSlots' = WalSlots /\ \A w : FileMatches(w)' <=> FileMatches(w)
    BY SameScan
  <2> QED
    BY <1>1, <2>1 DEF FileMatches
<1>3. FileMatch'
  BY <1>2 DEF FileMatch
<1>4. /\ data[mem.foff].frames = mem.frames /\ Fits(mem.frames, mem.cache)
      /\ mem.next_id = NextPlace(mem.frames, mem.cache)
      /\ Short(WalSlots) => mem.wpos = mem.last
      /\ Settled => Agrees(mem, ring, WalSlots, pageA.cpos, data[Latest].cseq)
  BY <1>1 DEF MemMatch
<1>5. /\ \A i \in DOMAIN todo' : todo'[i].id = mem'.next_id + i - 1
      /\ stage' = "append" => mem'.last + Len(todo') <= MaxSequence[WalSlots']
      /\ stage' \in CommitStages => plan'.cseq = mem'.last
  BY <1>2 DEF Coming
<1>6. Settled' => Agrees(mem', ring', WalSlots', pageA'.cpos, data'[Latest'].cseq)
  BY <1>2, <1>4
<1>7. MemMatch'
  BY <1>2, <1>4, <1>5, <1>6 DEF MemMatch
<1> QED
  BY <1>3, <1>7 DEF Match

LEMMA ReadyFacts ==
  ASSUME StoreInv, Match, Ready
  PROVE  /\ Running /\ ~Stale /\ MemMatch /\ FileMatches(mem.wpos) /\ LaidAt(mem.wpos)
         /\ mem \in Mem /\ UpToDate /\ Settled /\ todo = <<>>
<1>1. stage = "idle" /\ ~failed
  BY DEF Ready
<1>2. /\ Running /\ MemMatch /\ FileMatches(mem.wpos) /\ LaidAt(mem.wpos) /\ mem \in Mem
      /\ todo = <<>>
  BY <1>1, IdleFacts
<1>3. UpToDate
  BY <1>1, <1>2 DEF StoreInv, MemInv
<1>4. Settled /\ ~Stale
  BY <1>1, <1>3 DEF Settled, UpToDate, Stale
<1> QED
  BY <1>2, <1>3, <1>4

\* A payload behind the file's end changes nothing that is named.
LEMMA WrittenMatches ==
  ASSUME StoreInv, StoreInv', Match, Ready, NEW lens \in Seq(Nat), WritePayloads(lens),
         stage' \in {"idle", "append"}, Coming(todo', stage', plan')
  PROVE  Match'
<1>1. PayloadsWritten(lens) /\ mem' = mem /\ ring' = ring /\ pageA' = pageA
  BY PayloadsKeep DEF WritePayloads, LeavePayloads
<1>2. Latest' = Latest /\ data'[Latest] = data[Latest] /\ mem.foff = Latest
  BY <1>1 DEF PayloadsWritten, UpToDate
<1>3. FooterIn(data', mem.foff)
  BY <1>2 DEF StoreInv, FileInv, IsLatest
<1>4. Running' /\ Running /\ ~Stale /\ Settled
  BY ReadyFacts DEF Running
<1> QED
  BY <1>1, <1>2, <1>3, <1>4, StayMatches

LEMMA PutMatches ==
  ASSUME StoreInv, StoreInv', Match, Ready, NEW lens \in Seq(Nat), WritePayloads(lens),
         StartAppending(lens)
  PROVE  Match'
<1>1. stage' = "append" /\ todo' = PutsOf(lens)
  BY DEF StartAppending
<1>2. DOMAIN lens = 1 .. Len(lens) /\ Len(lens) \in Nat
  OBVIOUS
<1>3. mem.last + Len(lens) <= MaxSequence[WalSlots]
  BY DEF WritePayloads, LeavePayloads
<1>4. DOMAIN todo' = 1 .. Len(lens) /\ \A i \in 1 .. Len(lens) : todo'[i].id = mem.next_id + i - 1
  BY <1>1, <1>2 DEF PutsOf
<1>5. Len(todo') = Len(lens)
  <2>1. todo' \in Seq(PutMutation)
    BY DEF StoreInv, TypeOK
  <2> QED
    BY <1>2, <1>4, <2>1
<1>6. Coming(todo', stage', plan')
  BY <1>1, <1>3, <1>4, <1>5 DEF Coming, CommitStages
<1> QED
  BY <1>1, <1>6, WrittenMatches

LEMMA RefusedMatches ==
  ASSUME StoreInv, StoreInv', Match, AppendsWhole, NEW lens \in Seq(Nat), PutRefused(lens)
  PROVE  Match'
<1>1. Ready /\ WritePayloads(lens) /\ stage' = "idle" /\ todo' = todo
  BY RefusedWrites
<1>2. todo' = <<>>
  BY <1>1, ReadyFacts
<1>3. Coming(todo', stage', plan')
  BY <1>1, <1>2 DEF Coming, CommitStages
<1> QED
  BY <1>1, <1>3, WrittenMatches

LEMMA StartMatches ==
  ASSUME StoreInv, StoreInv', Match, Ready, StartCommit
  PROVE  Match'
<1>1. /\ stage' = "toc" /\ mem' = mem /\ ring' = ring /\ pageA' = pageA /\ data' = data
      /\ todo' = todo /\ plan'.cseq = Max({mem.cseq, mem.last})
  BY DEF StartCommit, file
<1>2. /\ Running /\ ~Stale /\ MemMatch /\ mem \in Mem /\ UpToDate /\ Settled /\ todo = <<>>
  BY ReadyFacts
<1>3. plan'.cseq = mem.last
  <2>1. mem.cseq \in Nat /\ mem.last \in Nat /\ mem.last >= mem.cseq
    BY <1>2 DEF Mem, UpToDate
  <2> DEFINE S == {mem.cseq, mem.last}
             top == Max(S)
             b == mem.last
  <2>2. b \in Nat /\ S # {} /\ S \subseteq 0 .. b /\ b \in S
    BY <2>1
  <2>3. top \in S /\ \A y \in S : top >= y
    <3> HIDE DEF S, b
    <3> QED
      BY <2>2, MaxExists
  <2>4. plan'.cseq = top
    BY <1>1
  <2> HIDE DEF top
  <2>5. top = mem.last
    BY <2>1, <2>3
  <2> QED
    BY <2>4, <2>5
<1>4. Coming(todo', stage', plan')
  BY <1>1, <1>2, <1>3 DEF Coming
<1>5. Latest' = Latest /\ Running'
  BY <1>1, SameData DEF Running
<1>6. FooterIn(data', mem.foff)
  BY <1>1, <1>2 DEF MemMatch
<1> QED
  BY <1>1, <1>2, <1>4, <1>5, <1>6, StayMatches

\* What a commit writes is behind the footer that the process knows.
LEMMA FootersStay ==
  ASSUME StoreInv, MemMatch, NEW e \in Seq(Cell), NEW k \in Nat, NEW cell, IsPut(e, k, cell),
         mem.foff < k
  PROVE  FooterIn(e, mem.foff) /\ e[mem.foff] = data[mem.foff]
<1> DEFINE i == mem.foff
<1>1. FooterIn(data, i) /\ data \in Seq(Cell)
  BY StoreFacts DEF MemMatch
<1>2. i \in DOMAIN data /\ i > 1 /\ data[i].kind = "footer" /\ data[i - 1] = TocCell(data[i].frames)
  BY <1>1 DEF FooterIn
<1>3. i \in Nat /\ i - 1 \in DOMAIN data /\ i - 1 # k /\ i # k
  BY <1>1, <1>2
<1> HIDE DEF i
<1>4. i \in DOMAIN e /\ e[i] = data[i] /\ e[i - 1] = data[i - 1]
  BY <1>2, <1>3 DEF IsPut
<1> QED
  BY <1>2, <1>4 DEF FooterIn, i

LEMMA WriteTocMatches ==
  ASSUME StoreInv, StoreInv', Match, WriteToc
  PROVE  Match'
<1>1. /\ stage = "toc" /\ stage' = "footer" /\ mem' = mem /\ ring' = ring /\ pageA' = pageA
      /\ data' = PutCell(plan.at, TocCell(plan.frames)) /\ todo' = todo /\ plan' = plan
  BY DEF WriteToc, call
<1>2. Running /\ Running' /\ ~Stale /\ Settled /\ stage \in CommitStages
  <2>1. Running /\ Running' /\ ~Stale /\ stage \in CommitStages
    BY <1>1 DEF Running, Stale, CommitStages
  <2>2. Settled
    BY <1>1, Zenon DEF Settled
  <2> QED
    BY <2>1, <2>2
<1>3. MemMatch /\ PlanInv /\ UpToDate /\ plan \in Plan
  BY <1>1, <1>2 DEF Match, StoreInv, TypeOK, MemInv
<1>4. /\ plan.at > Latest /\ plan.at <= Len(data) + 1 /\ mem.foff = Latest
      /\ plan.at \in Nat /\ plan.frames \in Seq(Frame)
  BY <1>1, <1>3 DEF PlanInv, UpToDate, Plan
<1>5. data \in Seq(Cell) /\ Latest \in Nat
  BY StoreFacts
<1>6. Latest' = Latest
  <2>1. UpToDate'
    BY <1>1, <1>2 DEF StoreInv, MemInv
  <2> QED
    BY <1>1, <1>4, <2>1 DEF UpToDate
<1>7. IsPut(data', plan.at, TocCell(plan.frames))
  <2>1. TocCell(plan.frames) \in Cell
    BY <1>4 DEF TocCell, Cell
  <2> QED
    BY <1>1, <1>4, <1>5, <2>1, PutCellFacts
<1>8. FooterIn(data', mem.foff) /\ data'[mem.foff] = data[mem.foff]
  <2>1. data' \in Seq(Cell)
    BY <1>7 DEF IsPut
  <2> QED
    BY <1>3, <1>4, <1>7, <2>1, FootersStay
<1>9. Coming(todo', stage', plan')
  BY <1>1, <1>2, <1>3 DEF Coming, MemMatch
<1> QED
  BY <1>1, <1>2, <1>4, <1>6, <1>8, <1>9, StayMatches

LEMMA WritePageBMatches ==
  ASSUME StoreInv, StoreInv', Match, WritePageB
  PROVE  Match'
<1>1. /\ stage = "pageB" /\ stage' = "finish" /\ mem' = mem /\ ring' = ring /\ pageA' = pageA
      /\ data' = data /\ todo' = todo /\ plan' = plan
  BY DEF WritePageB, call
<1>2. Running /\ Running' /\ ~Stale /\ ~Settled' /\ stage \in CommitStages
  <2>1. Running /\ Running' /\ ~Stale /\ stage \in CommitStages
    BY <1>1 DEF Running, Stale, CommitStages
  <2>2. ~Settled'
    BY <1>1 DEF Settled
  <2> QED
    BY <2>1, <2>2
<1>3. MemMatch /\ Latest' = Latest
  BY <1>1, <1>2, SameData DEF Match
<1>4. Coming(todo', stage', plan')
  BY <1>1, <1>2, <1>3 DEF Coming, MemMatch
<1> QED
  BY <1>1, <1>2, <1>3, <1>4, StayMatches DEF MemMatch

\* No process dies, and no write fails, where the checkpoint is stale.
LEMMA NotStale ==
  ASSUME StoreInv, HeaderFollows, stage \in CrashAt[WalSlots] \cup FailAt[WalSlots]
  PROVE  ~Stale
<1>1. WalSlots \in RingSizes
  BY StoreFacts
<1> QED
  BY <1>1 DEF HeaderFollows, Stale

LEMMA CommitFailsMatches ==
  ASSUME StoreInv, StoreInv', Match, HeaderFollows, CommitFails
  PROVE  Match'
<1>1. /\ stage \in CommitStages /\ stage \in FailAt[WalSlots] /\ stage' = "idle" /\ mem' = mem
      /\ ring' = ring /\ pageA' = pageA /\ data' = data /\ todo' = todo
  BY DEF CommitFails, file
<1>2. ~Stale
  BY <1>1, NotStale
<1>3. Running /\ Running' /\ stage # "append" /\ stage' # "append" /\ stage' \notin CommitStages
  BY <1>1 DEF Running, CommitStages
<1>4. MemMatch /\ PlanInv /\ mem \in Mem /\ plan \in Plan
  BY <1>1, <1>3 DEF Match, StoreInv, TypeOK
<1>5. Latest' = Latest
  BY <1>1, SameData
<1>6. Settled' => Settled
  <2>1. CASE stage \in {"toc", "footer"}
    <3>1. stage \in {"append", "toc", "footer"}
      BY <2>1
    <3>2. Settled
      BY <3>1, Zenon DEF Settled
    <3> QED
      BY <3>2
  <2>2. CASE stage \notin {"toc", "footer"}
    <3>1. data[Latest].gen = mem.gen + 1 /\ mem.gen \in Nat
      <4>1. data[Latest] = FooterCell(plan.gen, plan.cseq, plan.frames) /\ plan.gen = mem.gen + 1
        BY <1>4, <2>2 DEF PlanInv
      <4> QED
        BY <1>4, <4>1 DEF FooterCell, Mem
    <3>2. data'[Latest'].gen # mem'.gen
      BY <1>1, <1>5, <3>1
    <3> QED
      BY <1>3, <3>2 DEF Settled, CommitStages
  <2> QED
    BY <2>1, <2>2
<1>7. Coming(todo', stage', plan')
  BY <1>1, <1>3, <1>4 DEF Coming, MemMatch
<1> QED
  BY <1>1, <1>2, <1>3, <1>4, <1>5, <1>6, <1>7, StayMatches DEF MemMatch

\* Nothing runs any more, and the file is what it was.
LEMMA StoppedMatches ==
  ASSUME StoreInv, Match, ~Stale, UNCHANGED file, ~Running', stage' \in {"down", "closed"}
  PROVE  Match'
<1>1. /\ Latest' = Latest /\ WalSlots' = WalSlots /\ Slots' = Slots
      /\ \A w : LaidAt(w) => LaidAt(w)'
  BY SameFile
<1>2. ring' = ring /\ pageA' = pageA /\ data' = data
  BY DEF file
<1>3. \A w : FileMatches(w)' <=> FileMatches(w)
  BY <1>1, <1>2, SameScan
<1>4. \E w \in Slots : LaidAt(w) /\ FileMatches(w)
  <2>1. CASE Running
    <3>1. LaidAt(mem.wpos) /\ FileMatches(mem.wpos)
      BY <2>1, StoreFacts DEF Match, FileMatch
    <3>2. mem.wpos \in Slots
      BY <3>1, StoreFacts, RingFacts DEF LaidAt, Laid
    <3> QED
      BY <3>1, <3>2
  <2>2. CASE ~Running
    BY <2>2 DEF Match, FileMatch
  <2> QED
    BY <2>1, <2>2
<1>5. PICK w \in Slots : LaidAt(w) /\ FileMatches(w)
  BY <1>4
<1>6. w \in Slots' /\ LaidAt(w)' /\ FileMatches(w)'
  BY <1>1, <1>3, <1>5
<1>7. FileMatch'
  BY <1>6 DEF FileMatch
<1> QED
  BY <1>7 DEF Match

LEMMA CloseCleanMatches ==
  ASSUME StoreInv, Match, CloseClean
  PROVE  Match'
<1>1. ~Stale /\ UNCHANGED file /\ stage' = "closed"
  BY DEF CloseClean, Ready, Stale
<1>2. ~Running'
  BY <1>1 DEF Running
<1> QED
  BY <1>1, <1>2, StoppedMatches

LEMMA ProcessDiesMatches ==
  ASSUME StoreInv, Match, HeaderFollows, ProcessDies
  PROVE  Match'
<1>1. stage \in CrashAt[WalSlots] /\ UNCHANGED file /\ stage' = "down"
  BY DEF ProcessDies
<1>2. ~Running' /\ ~Stale
  BY <1>1, NotStale DEF Running
<1> QED
  BY <1>1, <1>2, StoppedMatches

\* What the process has written last is as new as anything the scan reads.
LEMMA NoneNewer ==
  ASSUME NEW rg, NEW n, NEW s, NEW w, NEW c0 \in Nat, NEW lo, NEW hi,
         Laid(rg, n, s, w, c0, lo, hi), NEW m \in Mem, m.wpos = w, Known(rg, n, s, m),
         NEW c \in Nat, m.last <= c
  PROVE  Newer(ReadFrom(rg, n, s, w), c) = <<>> /\ LastRead(ReadFrom(rg, n, s, w), c) = c
<1> DEFINE read == ReadFrom(rg, n, s, w)
           R == ReadLen(rg, n, s, w)
<1>1. IsRead(read, rg, n, s, R, c0)
  BY ReadFacts, Zenon
<1>2. /\ read \in Seq(Record)
      /\ \A i \in DOMAIN read : \E k \in 0 .. n - 1 : Behind(n, s, k) < R /\ read[i] = rg[k]
  BY <1>1 DEF IsRead
<1>3. \A k \in 0 .. n - 1 : Behind(n, s, k) < R => rg[k].seq <= m.last
  BY DEF Known
<1> HIDE DEF read, R
<1>4. \A i \in DOMAIN read : read[i].seq <= c
  <2> TAKE i \in DOMAIN read
  <2>1. read[i].seq <= m.last
    BY <1>2, <1>3
  <2>2. read[i].seq \in Nat /\ m.last \in Nat
    BY <1>2, RecordHas DEF Mem
  <2> QED
    BY <2>1, <2>2
<1>5. Newer(read, c) = <<>> /\ LastRead(read, c) = c
  BY <1>2, <1>4, NewerNone
<1> QED
  BY <1>5 DEF read

\* The same of the state, when c is what the process has committed.
LEMMA AllPublished ==
  ASSUME StoreInv, Running, NEW c \in Nat, mem.last <= c
  PROVE  /\ Newer(ReadFrom(ring, WalSlots, pageA.cpos, mem.wpos), c) = <<>>
         /\ LastRead(ReadFrom(ring, WalSlots, pageA.cpos, mem.wpos), c) = c
<1>1. LaidAt(mem.wpos) /\ Known(ring, WalSlots, pageA.cpos, mem) /\ mem \in Mem
  BY DEF StoreInv, TypeOK, MemInv, Running
<1>2. data[Latest].cseq \in Nat
  BY StoreFacts
<1> QED
  BY <1>1, <1>2, NoneNewer DEF LaidAt

\* A running commit has published its footer.
LEMMA PublishedFacts ==
  ASSUME StoreInv, Match, stage \in {"resize", "pageA", "pageB", "finish"}
  PROVE  /\ Running /\ MemMatch /\ PlanInv /\ mem \in Mem /\ plan \in Plan /\ todo = <<>>
         /\ Latest = plan.at + 1 /\ data[Latest] = FooterCell(plan.gen, plan.cseq, plan.frames)
         /\ data[Latest].cseq = plan.cseq /\ data[Latest].frames = plan.frames
         /\ plan.cseq = mem.last /\ mem.last \in Nat
         /\ ~Settled
<1>1. Running /\ stage \in CommitStages /\ ~Settled /\ stage \notin {"toc", "footer"}
  BY DEF Running, CommitStages, Settled
<1>2. MemMatch /\ PlanInv /\ mem \in Mem /\ plan \in Plan /\ todo = <<>>
  <2>1. stage # "append"
    OBVIOUS
  <2> QED
    BY <1>1, <2>1 DEF Match, StoreInv, TypeOK, Running
<1>3. Latest = plan.at + 1 /\ data[Latest] = FooterCell(plan.gen, plan.cseq, plan.frames)
  BY <1>1, <1>2 DEF PlanInv
<1>4. plan.cseq = mem.last /\ mem.last \in Nat
  BY <1>1, <1>2 DEF MemMatch, Mem
<1> QED
  BY <1>1, <1>2, <1>3, <1>4 DEF FooterCell

LEMMA WriteFooterMatches ==
  ASSUME StoreInv, StoreInv', Match, WriteFooter
  PROVE  Match'
<1>1. /\ stage = "footer" /\ stage' = "resize" /\ mem' = mem /\ ring' = ring /\ pageA' = pageA
      /\ data' = PutCell(plan.at + 1, FooterCell(plan.gen, plan.cseq, plan.frames))
      /\ todo' = todo /\ plan' = plan
  BY DEF WriteFooter, call
<1>2. Running /\ Running' /\ ~Stale /\ ~Settled' /\ stage \in CommitStages /\ stage' \in CommitStages
  <2>1. Running /\ Running' /\ ~Stale /\ stage \in CommitStages /\ stage' \in CommitStages
    BY <1>1 DEF Running, Stale, CommitStages
  <2>2. ~Settled'
    BY <1>1 DEF Settled
  <2> QED
    BY <2>1, <2>2
<1>3. MemMatch /\ PlanInv /\ UpToDate /\ plan \in Plan /\ mem \in Mem /\ FileMatches(mem.wpos)
  BY <1>1, <1>2 DEF Match, StoreInv, TypeOK, MemInv, FileMatch
<1>4. /\ plan.at > Latest /\ plan.at <= Len(data) /\ mem.foff = Latest
      /\ plan.at \in Nat /\ plan.cseq \in Nat /\ plan.gen \in Nat /\ plan.frames \in Seq(Frame)
      /\ plan.cseq = mem.last
  BY <1>1, <1>2, <1>3 DEF PlanInv, UpToDate, Plan, MemMatch
<1>5. /\ data \in Seq(Cell) /\ Latest \in Nat /\ Len(data) \in Nat /\ WalSlots' = WalSlots
      /\ WalSlots \in RingSizes /\ data[Latest].cseq \in Nat /\ LaidAt(mem.wpos)
  BY <1>1, <1>2, StoreFacts, SameRing
<1>6. Latest' = plan.at + 1 /\ data'[Latest'] = FooterCell(plan.gen, plan.cseq, plan.frames)
  <2>1. PlanInv' /\ stage' \notin {"toc", "footer"}
    BY <1>1, <1>2 DEF StoreInv
  <2> QED
    BY <1>1, <2>1 DEF PlanInv
<1>7. data'[Latest'].cseq = plan.cseq /\ data'[Latest'].frames = plan.frames
  BY <1>6 DEF FooterCell
<1>8. FooterIn(data', mem.foff) /\ data'[mem.foff] = data[mem.foff]
  <2> DEFINE k == plan.at + 1
             cell == FooterCell(plan.gen, plan.cseq, plan.frames)
  <2>1. cell \in Cell
    BY <1>4 DEF FooterCell, Cell
  <2>2. k \in Nat /\ k > 0 /\ k <= Len(data) + 1 /\ mem.foff < k /\ data' = PutCell(k, cell)
    BY <1>1, <1>4, <1>5
  <2> HIDE DEF k, cell
  <2>3. IsPut(data', k, cell)
    BY <1>5, <2>1, <2>2, PutCellFacts
  <2>4. data' \in Seq(Cell)
    BY <2>3 DEF IsPut
  <2> QED
    BY <1>3, <2>2, <2>3, <2>4, FootersStay
<1>9. FileMatch'
  <2>1. CASE ~Short(WalSlots)
    <3>1. Stale'
      BY <1>1, <1>5, <2>1 DEF Stale
    <3> QED
      BY <3>1 DEF FileMatch
  <2>2. CASE Short(WalSlots)
    <3> DEFINE n == WalSlots
               s == pageA.cpos
               w == mem.wpos
               c == plan.cseq
    <3>1. Straight(ring, n, s, w, data[Latest].cseq)
      BY <1>3, <2>2 DEF FileMatches, Matched, Orderly
    <3>2. w = c
      BY <1>3, <1>4, <2>2 DEF MemMatch
    <3>3. s \in Nat /\ c \in Nat
      BY <1>4, StoreFacts DEF FileTyped, Page
    <3>4. Straight(ring, n, s, w, c)
      BY <1>5, <3>1, <3>2, <3>3 DEF Straight
    <3>5. Newer(ReadFrom(ring, n, s, w), c) = <<>>
      BY <1>2, <1>4, <3>2, AllPublished
    <3>6. Matched(ring, n, s, w, c, plan.frames)
      BY <1>4, <2>2, <3>4, <3>5, FitsEmpty DEF Matched, Orderly
    <3>7. FileMatches(mem.wpos)'
      BY <1>1, <1>5, <1>7, <3>6 DEF FileMatches
    <3> QED
      BY <1>2, <3>7 DEF FileMatch
  <2> QED
    BY <2>1, <2>2
<1>10. MemMatch'
  <2>1. /\ data[mem.foff].frames = mem.frames /\ Fits(mem.frames, mem.cache)
        /\ mem.next_id = NextPlace(mem.frames, mem.cache)
        /\ \A i \in DOMAIN todo : todo[i].id = mem.next_id + i - 1
        /\ Short(WalSlots) => mem.wpos = mem.last
    BY <1>3 DEF MemMatch
  <2> QED
    BY <1>1, <1>2, <1>4, <1>5, <1>8, <2>1 DEF MemMatch
<1> QED
  BY <1>9, <1>10 DEF Match

LEMMA ResizeMatches ==
  ASSUME StoreInv, StoreInv', Match, Resize
  PROVE  Match'
<1>1. /\ stage = "resize" /\ stage' = "pageA" /\ mem' = mem /\ ring' = ring /\ pageA' = pageA
      /\ data' = SubSeq(data, 1, plan.at + 1) /\ todo' = todo /\ plan' = plan
  BY DEF Resize, call
<1>2. /\ Running /\ MemMatch /\ plan \in Plan /\ Latest = plan.at + 1
      /\ data[Latest] = FooterCell(plan.gen, plan.cseq, plan.frames)
      /\ plan.cseq = mem.last
  BY <1>1, PublishedFacts
<1>3. Running' /\ ~Settled' /\ stage' \in CommitStages
  <2>1. Running' /\ stage' \in CommitStages
    BY <1>1 DEF Running, CommitStages
  <2>2. ~Settled'
    BY <1>1 DEF Settled
  <2> QED
    BY <2>1, <2>2
<1>4. Latest' = plan.at + 1 /\ data'[Latest'] = FooterCell(plan.gen, plan.cseq, plan.frames)
  <2>1. PlanInv' /\ stage' \notin {"toc", "footer"}
    BY <1>1, <1>3 DEF StoreInv
  <2> QED
    BY <1>1, <2>1 DEF PlanInv
<1>5. /\ Latest' = Latest /\ data'[Latest] = data[Latest] /\ data \in Seq(Cell)
      /\ Latest \in 1 .. Len(data) /\ Len(data) \in Nat /\ IsLatest(data, Latest)
  BY <1>2, <1>4, StoreFacts
<1>6. WalSlots' = WalSlots /\ \A w : FileMatches(w)' <=> FileMatches(w)
  BY <1>1, <1>5, SameScan
<1>7. FileMatch'
  <2>1. CASE Stale
    <3>1. Stale'
      BY <1>1, <1>6, <2>1 DEF Stale
    <3> QED
      BY <3>1 DEF FileMatch
  <2>2. CASE ~Stale
    <3>1. FileMatches(mem.wpos)
      BY <1>2, <2>2 DEF Match, FileMatch
    <3>2. FileMatches(mem.wpos)'
      BY <1>1, <1>6, <3>1 DEF FileMatches
    <3> QED
      BY <1>3, <3>2 DEF FileMatch
  <2> QED
    BY <2>1, <2>2
<1>8. FooterIn(data', mem.foff) /\ data'[mem.foff] = data[mem.foff]
  <2> DEFINE i == mem.foff
             l == Latest
  <2>1. i \in DOMAIN data /\ i > 1 /\ data[i].kind = "footer" /\ data[i - 1] = TocCell(data[i].frames)
    BY <1>2 DEF MemMatch, FooterIn
  <2>2. i <= l
    BY <1>5, <2>1 DEF IsLatest
  <2>3. \A j \in 1 .. l : j \in DOMAIN data' /\ data'[j] = data[j]
    BY <1>1, <1>2, <1>5
  <2>4. i \in 1 .. l /\ i - 1 \in 1 .. l
    BY <1>5, <2>1, <2>2
  <2> HIDE DEF i, l
  <2>5. i \in DOMAIN data' /\ data'[i] = data[i] /\ data'[i - 1] = data[i - 1]
    BY <2>3, <2>4
  <2>6. FooterIn(data', i)
    BY <2>1, <2>5 DEF FooterIn
  <2> QED
    BY <2>5, <2>6 DEF i
<1>9. MemMatch'
  <2>1. /\ data[mem.foff].frames = mem.frames /\ Fits(mem.frames, mem.cache)
        /\ mem.next_id = NextPlace(mem.frames, mem.cache)
        /\ \A i \in DOMAIN todo : todo[i].id = mem.next_id + i - 1
        /\ Short(WalSlots) => mem.wpos = mem.last
    BY <1>2 DEF MemMatch
  <2> QED
    BY <1>1, <1>2, <1>3, <1>6, <1>8, <2>1 DEF MemMatch
<1> QED
  BY <1>7, <1>9 DEF Match

\* After header page A the scan starts where the ring goes on.
LEMMA Restarted ==
  ASSUME NEW rg, NEW n \in Nat \ {0}, NEW w \in 0 .. n - 1, NEW s, NEW m, m.wpos = w,
         Known(rg, n, s, m)
  PROVE  \/ ReadLen(rg, n, w, w) = 0
         \/ ReadLen(rg, n, w, w) = n /\ \A i \in 0 .. n - 1 : rg[i].seq <= m.last
<1>1. rg[w] # Blank => \A i \in 0 .. n - 1 : rg[i].seq <= m.last
  BY DEF Known
<1>2. CASE rg[w] # Blank
  BY <1>1, <1>2 DEF ReadLen
<1>3. CASE rg[w] = Blank
  <2>1. Behind(n, w, w) = 0
    BY DEF Behind
  <2> QED
    BY <1>3, <2>1 DEF ReadLen
<1> QED
  BY <1>2, <1>3

LEMMA WritePageAMatches ==
  ASSUME StoreInv, StoreInv', Match, WritePageA
  PROVE  Match'
<1> DEFINE n == WalSlots
           w == mem.wpos
           c == mem.last
<1>1. /\ stage = "pageA" /\ stage' = "pageB" /\ mem' = mem /\ ring' = ring
      /\ pageA' = NewPage(mem.hpgen + 1)
      /\ data' = data /\ todo' = todo /\ plan' = plan
  BY DEF WritePageA, call
<1>2. /\ Running /\ MemMatch /\ plan \in Plan /\ mem \in Mem
      /\ data[Latest].cseq = c /\ data[Latest].frames = plan.frames
      /\ plan.cseq = mem.last /\ mem.last \in Nat
  BY <1>1, PublishedFacts
<1>3. Running' /\ ~Settled' /\ stage' \in CommitStages
  <2>1. Running' /\ stage' \in CommitStages
    BY <1>1 DEF Running, CommitStages
  <2>2. ~Settled'
    BY <1>1 DEF Settled
  <2> QED
    BY <2>1, <2>2
<1>4. Latest' = Latest /\ WalSlots' = n /\ pageA'.cpos = w
  <2>1. pageA'.cpos = w
    BY <1>1 DEF NewPage
  <2> QED
    BY <1>1, <2>1, SameData, SameRing
<1>5. /\ LaidAt(w) /\ Known(ring, n, pageA.cpos, mem) /\ n \in Nat \ {0} /\ n \in RingSizes
      /\ w \in 0 .. n - 1
  <2>1. LaidAt(w) /\ Known(ring, n, pageA.cpos, mem)
    BY <1>2 DEF StoreInv, MemInv
  <2> QED
    BY <2>1, StoreFacts DEF LaidAt, Laid
<1>6. Newer(ReadFrom(ring, n, w, w), c) = <<>>
  <2>1. LaidAt(mem.wpos)' /\ Known(ring', WalSlots', pageA'.cpos, mem')
    BY <1>3 DEF StoreInv, MemInv
  <2>2. \E lo, hi : Laid(ring, n, w, w, c, lo, hi)
    <3>1. Laid(ring', WalSlots', pageA'.cpos, mem'.wpos, data'[Latest'].cseq, Latest', Len(data'))
      BY <2>1 DEF LaidAt
    <3>2. Laid(ring, n, w, w, c, Latest, Len(data))
      BY <1>1, <1>2, <1>4, <3>1
    <3> QED
      BY <3>2
  <2>3. PICK lo, hi : Laid(ring, n, w, w, c, lo, hi)
    BY <2>2
  <2>4. Known(ring, n, w, mem)
    BY <1>1, <1>4, <2>1
  <2>5. mem.wpos = w /\ mem.last <= c
    BY <1>2
  <2> QED
    BY <1>2, <2>3, <2>4, <2>5, NoneNewer
<1>7. Orderly(ring, n, w, w, c)
  <2>1. CASE Short(n)
    <3>1. FileMatches(w)
      BY <1>2, <2>1 DEF Match, FileMatch, Stale
    <3>2. Straight(ring, n, pageA.cpos, w, c)
      BY <1>2, <2>1, <3>1 DEF FileMatches, Matched, Orderly
    <3>3. w = c
      BY <1>2, <2>1 DEF MemMatch
    <3>4. Straight(ring, n, w, w, c)
      BY <1>5, <3>2, <3>3 DEF Straight
    <3> QED
      BY <2>1, <3>4 DEF Orderly
  <2>2. CASE ~Short(n)
    <3>1. \/ ReadLen(ring, n, w, w) = 0
          \/ ReadLen(ring, n, w, w) = n /\ \A i \in 0 .. n - 1 : ring[i].seq <= c
      BY <1>5, Restarted
    <3>2. Clean(ring, n, w, w, c)
      BY <3>1 DEF Clean
    <3> QED
      BY <2>2, <3>2 DEF Orderly
  <2> QED
    BY <2>1, <2>2
<1>8. Matched(ring, n, w, w, c, plan.frames)
  <2>1. plan.frames \in Seq(Frame)
    BY <1>2 DEF Plan
  <2> QED
    BY <1>6, <1>7, <2>1, FitsEmpty DEF Matched
<1>9. FileMatch'
  <2>1. FileMatches(mem.wpos)'
    BY <1>1, <1>2, <1>4, <1>8 DEF FileMatches
  <2> QED
    BY <1>3, <2>1 DEF FileMatch
<1>10. MemMatch'
  <2>1. /\ FooterIn(data, mem.foff)
        /\ data[mem.foff].frames = mem.frames /\ Fits(mem.frames, mem.cache)
        /\ mem.next_id = NextPlace(mem.frames, mem.cache)
        /\ \A i \in DOMAIN todo : todo[i].id = mem.next_id + i - 1
        /\ Short(WalSlots) => mem.wpos = mem.last
    BY <1>2 DEF MemMatch
  <2> QED
    BY <1>1, <1>2, <1>3, <1>4, <2>1 DEF MemMatch
<1> QED
  BY <1>9, <1>10 DEF Match

LEMMA FinishCommitMatches ==
  ASSUME StoreInv, StoreInv', Match, FinishCommit
  PROVE  Match'
<1> DEFINE n == WalSlots
           w == mem.wpos
           c == mem.last
<1>1. /\ stage = "finish" /\ stage' \in {"idle", "closed"} /\ mem' = Finished /\ UNCHANGED file
      /\ todo' = todo
  BY DEF FinishCommit
<1>2. ring' = ring /\ pageA' = pageA /\ data' = data
  BY <1>1 DEF file
<1>3. /\ Running /\ MemMatch /\ PlanInv /\ mem \in Mem /\ plan \in Plan /\ todo = <<>>
      /\ Latest = plan.at + 1
      /\ data[Latest].cseq = c /\ data[Latest].frames = plan.frames
      /\ plan.cseq = c /\ c \in Nat
  BY <1>1, PublishedFacts
<1>4. ~Stale /\ FileMatches(w)
  BY <1>1, <1>3 DEF Stale, Match, FileMatch
<1>5. CASE stage' = "closed"
  <2>1. ~Running'
    BY <1>5 DEF Running
  <2> QED
    BY <1>1, <1>4, <1>5, <2>1, StoppedMatches
<1>6. CASE stage' = "idle"
  <2>1. Latest' = Latest /\ data'[Latest] = data[Latest]
    BY <1>2, SameData
  <2>2. WalSlots' = n /\ \A x : FileMatches(x)' <=> FileMatches(x)
    BY <1>2, <2>1, SameScan
  <2>3. pageA.cpos = w
    <3>1. pageA = NewPage(mem.hpgen + 1)
      BY <1>1, <1>3 DEF PlanInv
    <3> QED
      BY <3>1 DEF NewPage
  <2>4. /\ mem'.wpos = w /\ mem'.pend = 0 /\ mem'.last = c /\ mem'.cache = <<>>
        /\ mem'.foff = Latest /\ mem'.frames = plan.frames /\ mem'.next_id = Len(plan.frames)
    BY <1>1, <1>3 DEF Finished, Mem
  <2>5. Running' /\ stage' # "append" /\ stage' \notin CommitStages
    BY <1>6 DEF Running, CommitStages
  <2>6. FileMatch'
    <3>1. FileMatches(mem.wpos)'
      BY <1>2, <1>4, <2>1, <2>2, <2>4 DEF FileMatches
    <3> QED
      BY <2>5, <3>1 DEF FileMatch
  <2>7. Short(n) \/ Room(mem', ring, n, w, c)
    <3>1. Known(ring, n, w, mem) /\ n \in Nat \ {0} /\ w \in 0 .. n - 1
      BY <1>3, <2>3, StoreFacts DEF StoreInv, MemInv, LaidAt, Laid
    <3>2. \/ ReadLen(ring, n, w, w) = 0
          \/ ReadLen(ring, n, w, w) = n /\ \A i \in 0 .. n - 1 : ring[i].seq <= c
      BY <3>1, Restarted
    <3> QED
      BY <2>4, <3>2 DEF Room
  <2>8. Agrees(mem', ring, n, w, c)
    <3>1. /\ Newer(ReadFrom(ring, n, w, w), c) = <<>>
          /\ LastRead(ReadFrom(ring, n, w, w), c) = c
      <4>1. mem.last <= c
        BY <1>3
      <4> HIDE DEF c
      <4>2. /\ Newer(ReadFrom(ring, WalSlots, pageA.cpos, mem.wpos), c) = <<>>
            /\ LastRead(ReadFrom(ring, WalSlots, pageA.cpos, mem.wpos), c) = c
        BY <1>3, <4>1, AllPublished
      <4> QED
        BY <2>3, <4>2
    <3> HIDE DEF c
    <3> QED
      BY <2>4, <2>7, <3>1 DEF Agrees
  <2>9. FooterIn(data', mem'.foff) /\ data'[mem'.foff].frames = mem'.frames
    <3>1. FooterIn(data, Latest)
      BY DEF StoreInv, FileInv, IsLatest
    <3> QED
      BY <1>2, <1>3, <2>1, <2>4, <3>1
  <2>10. Fits(mem'.frames, mem'.cache) /\ mem'.next_id = NextPlace(mem'.frames, mem'.cache)
    <3>1. plan.frames \in Seq(Frame)
      BY <1>3 DEF Plan
    <3> QED
      BY <2>4, <3>1, FitsEmpty
  <2>11. Short(WalSlots') => mem'.wpos = mem'.last
    BY <1>3, <2>2, <2>4 DEF MemMatch
  <2>12. Agrees(mem', ring', WalSlots', pageA'.cpos, data'[Latest'].cseq)
    BY <1>2, <1>3, <2>1, <2>2, <2>3, <2>8
  <2>13. \A i \in DOMAIN todo' : todo'[i].id = mem'.next_id + i - 1
    BY <1>1, <1>3
  <2>14. MemMatch'
    BY <2>5, <2>9, <2>10, <2>11, <2>12, <2>13 DEF MemMatch
  <2> QED
    BY <2>6, <2>14 DEF Match
<1> QED
  BY <1>1, <1>5, <1>6

\* One record more, known to the process and in the ring.
LEMMA AppendedMatches ==
  ASSUME StoreInv, StoreInv', Match, stage \in {"idle", "append"}, ~failed, Settled,
         NEW m \in Mutation, AppendRecord(m), Suits(m, mem.next_id),
         UNCHANGED <<data, pageA>>,
         Short(WalSlots) => mem.last + 1 <= MaxSequence[WalSlots],
         stage' \in {"idle", "append"},
         \A i \in DOMAIN todo' : todo'[i].id = mem'.next_id + i - 1,
         stage' = "append" => mem.last + 1 + Len(todo') <= MaxSequence[WalSlots]
  PROVE  Match'
<1> DEFINE n == WalSlots
           s == pageA.cpos
           w == mem.wpos
           c == mem.cseq
           r == [seq |-> mem.last + 1, m |-> m]
<1>1. /\ Running /\ Running' /\ ~Stale /\ stage' \notin CommitStages
  BY DEF Running, Stale, CommitStages
<1>2. MemMatch /\ UpToDate /\ mem \in Mem /\ LaidAt(w) /\ FileTyped /\ n \in RingSizes
      /\ FileMatches(w)
  BY <1>1, StoreFacts DEF StoreInv, MemInv, Match, FileMatch
<1>3. n \in Nat \ {0} /\ w \in 0 .. n - 1 /\ s \in 0 .. n - 1
  BY <1>2 DEF LaidAt, Laid
<1>4. /\ r \in Record
      /\ ring' = Appended(ring, n, w, mem.pend + 1 = n, r)
      /\ mem' \in Mem
      /\ mem'.wpos = At(n, w, 1)
  BY <1>2, <1>3, AppendMem
<1>5. /\ mem.pend < n
      /\ mem'.pend = mem.pend + 1 /\ mem'.last = mem.last + 1 /\ mem'.cache = Append(mem.cache, r)
      /\ mem'.next_id = IF m.kind = "put" THEN m.id + 1 ELSE mem.next_id
      /\ mem'.foff = mem.foff /\ mem'.frames = mem.frames
  BY <1>2 DEF AppendRecord, Mem
<1>6. WalSlots' = n
  <2>1. ring' \in [0 .. n - 1 -> Record \cup {Blank}]
    <3>1. ring \in [0 .. n - 1 -> Record \cup {Blank}]
      BY <1>2, RingFacts
    <3> QED
      BY <1>3, <1>4, <3>1 DEF Appended
  <2>2. Slots = 0 .. n - 1
    BY <1>2, RingFacts
  <2>3. Slots' = Slots
    BY <2>1, <2>2 DEF Slots
  <2> QED
    BY <2>3 DEF WalSlots
<1>7. Latest' = Latest /\ data' = data /\ pageA' = pageA
  BY SameData
<1>8. /\ mem.foff = Latest /\ c = data[Latest].cseq /\ mem.last >= c /\ c \in Nat
      /\ mem.frames = data[Latest].frames /\ mem.frames \in Seq(Frame) /\ mem.cache \in Seq(Record)
  BY <1>2 DEF UpToDate, MemMatch, Mem
<1>9. /\ Agrees(mem, ring, n, s, c) /\ Orderly(ring, n, s, w, c)
      /\ Short(n) => w = mem.last
  BY <1>2, <1>8 DEF MemMatch, FileMatches, Matched
<1> HIDE DEF r, n, s, c
<1>10. Joins(ring, n, s, w, c, mem, r, ring', mem')
  <2>1. \E lo, hi : Laid(ring, n, s, w, c, lo, hi)
    BY <1>2, <1>8 DEF LaidAt, n, s
  <2>2. Short(n) => w = mem.last /\ mem.last + 1 <= MaxSequence[n]
    BY <1>9 DEF n
  <2>3. r.seq = mem.last + 1
    BY DEF r
  <2> QED
    BY <1>2, <1>4, <1>5, <1>8, <1>9, <2>1, <2>2, <2>3 DEF Joins
<1>11. /\ Agrees(mem', ring', n, s, c)
       /\ Orderly(ring', n, s, At(n, w, 1), c)
       /\ Short(n) => mem'.wpos = mem'.last
  <2> HIDE DEF w
  <2> QED
    BY <1>10, AgreesAfterOne
<1>12. Fits(mem.frames, mem.cache) /\ mem.next_id = NextPlace(mem.frames, mem.cache)
  BY <1>2 DEF MemMatch
<1>13. /\ Fits(mem.frames, mem'.cache)
       /\ mem'.next_id = NextPlace(mem.frames, mem'.cache)
  <2>1. r.m = m
    BY DEF r
  <2>2. Suits(r.m, NextPlace(mem.frames, mem.cache))
    BY <1>12, <2>1
  <2>3. /\ Fits(mem.frames, Append(mem.cache, r))
        /\ NextPlace(mem.frames, Append(mem.cache, r)) =
             IF r.m.kind = "put" THEN r.m.id + 1 ELSE NextPlace(mem.frames, mem.cache)
    BY <1>4, <1>8, <1>12, <2>2, FitsAppend
  <2> QED
    BY <1>5, <1>12, <2>1, <2>3
<1>14. FileMatch'
  <2>1. mem'.cache = Newer(ReadFrom(ring', n, s, mem'.wpos), c)
    BY <1>11 DEF Agrees
  <2>2. Matched(ring', n, s, mem'.wpos, c, mem.frames)
    BY <1>4, <1>11, <1>13, <2>1 DEF Matched
  <2>3. FileMatches(mem.wpos)'
    BY <1>6, <1>7, <1>8, <2>2 DEF FileMatches, s
  <2> QED
    BY <1>1, <2>3 DEF FileMatch
<1>15. MemMatch'
  <2>1. FooterIn(data', mem'.foff) /\ data'[mem'.foff].frames = mem'.frames
    BY <1>2, <1>5, <1>7 DEF MemMatch
  <2>2. Agrees(mem', ring', WalSlots', pageA'.cpos, data'[Latest'].cseq)
    BY <1>6, <1>7, <1>8, <1>11 DEF s
  <2>3. stage' = "append" => mem'.last + Len(todo') <= MaxSequence[WalSlots']
    BY <1>5, <1>6 DEF n
  <2>4. Short(WalSlots') => mem'.wpos = mem'.last
    BY <1>6, <1>11
  <2> QED
    BY <1>1, <1>5, <1>13, <2>1, <2>2, <2>3, <2>4 DEF MemMatch
<1> QED
  BY <1>14, <1>15 DEF Match

LEMMA AppendNextMatches ==
  ASSUME StoreInv, StoreInv', Match, AppendNext
  PROVE  Match'
<1> DEFINE m == Head(todo)
<1>1. /\ stage = "append" /\ AppendRecord(m)
      /\ todo' = Tail(todo)
      /\ stage' = IF Len(todo) = 1 THEN "idle" ELSE "append"
      /\ UNCHANGED <<data, pageA>>
  BY DEF AppendNext
<1>2. Running /\ ~failed /\ todo \in Seq(PutMutation) /\ todo # <<>>
  BY <1>1 DEF StoreInv, TypeOK, Running
<1>3. MemMatch /\ mem \in Mem
  BY <1>2, StoreFacts DEF Match
<1>4. /\ Len(todo) \in Nat /\ Len(todo) > 0 /\ DOMAIN todo = 1 .. Len(todo)
      /\ m = todo[1] /\ m \in PutMutation /\ m \in Mutation
      /\ todo' \in Seq(PutMutation) /\ Len(todo') = Len(todo) - 1
      /\ DOMAIN todo' = 1 .. Len(todo) - 1
      /\ \A i \in DOMAIN todo' : todo'[i] = todo[i + 1]
  BY <1>1, <1>2 DEF Mutation
<1> HIDE DEF m
<1>5. Settled
  <2>1. stage \in {"append", "toc", "footer"}
    BY <1>1
  <2> QED
    BY <2>1, Zenon DEF Settled
<1>6. /\ \A i \in DOMAIN todo : todo[i].id = mem.next_id + i - 1
      /\ mem.last + Len(todo) <= MaxSequence[WalSlots]
  BY <1>1, <1>3 DEF MemMatch
<1>7. m.kind = "put" /\ m.id = mem.next_id /\ mem.next_id \in Nat /\ mem.last \in Nat
  <2>1. 1 \in DOMAIN todo /\ mem.next_id \in Nat /\ mem.last \in Nat
    BY <1>3, <1>4 DEF Mem
  <2>2. m.id = mem.next_id + 1 - 1
    BY <1>4, <1>6, <2>1
  <2>3. m.kind = "put"
    BY <1>4 DEF PutMutation
  <2> QED
    BY <2>1, <2>2, <2>3
<1>8. Suits(m, mem.next_id)
  BY <1>7 DEF Suits
<1>9. mem'.next_id = m.id + 1
  BY <1>1, <1>3, <1>7 DEF AppendRecord, Mem
<1>10. \A i \in DOMAIN todo' : todo'[i].id = mem'.next_id + i - 1
  <2> TAKE i \in DOMAIN todo'
  <2> DEFINE j == i + 1
  <2>1. j \in DOMAIN todo /\ i \in Nat
    BY <1>4
  <2>2. todo'[i] = todo[j]
    BY <1>4
  <2> HIDE DEF j
  <2>3. todo[j].id = mem.next_id + j - 1
    BY <1>6, <2>1
  <2> QED
    BY <1>7, <1>9, <2>1, <2>2, <2>3 DEF j
<1>11. MaxSequence[WalSlots] \in Nat
  <2>1. WalSlots \in RingSizes
    BY StoreFacts
  <2> QED
    BY <2>1, StoreAssumption
<1>12. /\ mem.last + 1 <= MaxSequence[WalSlots]
       /\ mem.last + 1 + Len(todo') <= MaxSequence[WalSlots]
  BY <1>4, <1>6, <1>7, <1>11
<1>13. stage \in {"idle", "append"} /\ stage' \in {"idle", "append"}
  BY <1>1
<1> QED
  BY <1>1, <1>2, <1>4, <1>5, <1>8, <1>10, <1>12, <1>13, AppendedMatches

\* Delete and PutEmbedding.
LEMMA MutationMatches ==
  ASSUME StoreInv, StoreInv', Match, Ready, NEW m \in Mutation, AppendRecord(m),
         m.kind = "delete" => m.id < mem.next_id, m.kind # "put",
         mem.last < MaxSequence[WalSlots],
         UNCHANGED <<data, pageA, pageB, stage, call, failed>>
  PROVE  Match'
<1>1. /\ stage = "idle" /\ ~failed /\ stage' = stage /\ todo' = todo /\ UNCHANGED <<data, pageA>>
  BY DEF Ready, call
<1>2. Settled /\ todo = <<>> /\ mem \in Mem
  BY ReadyFacts
<1>3. Suits(m, mem.next_id)
  BY DEF Suits, Mutation, PutMutation
<1>4. mem.last + 1 <= MaxSequence[WalSlots]
  <2>1. WalSlots \in RingSizes
    BY StoreFacts
  <2>2. MaxSequence[WalSlots] \in Nat /\ mem.last \in Nat
    BY <1>2, <2>1, StoreAssumption DEF Mem
  <2> QED
    BY <2>2
<1>5. \A i \in DOMAIN todo' : todo'[i].id = mem'.next_id + i - 1
  BY <1>1, <1>2
<1>6. stage \in {"idle", "append"} /\ stage' \in {"idle", "append"} /\ stage' # "append"
  BY <1>1
<1> QED
  BY <1>1, <1>2, <1>3, <1>4, <1>5, <1>6, AppendedMatches

LEMMA StutterMatches ==
  ASSUME StoreInv, Match, UNCHANGED vars
  PROVE  Match'
<1>1. /\ UNCHANGED file /\ stage' = stage /\ mem' = mem /\ todo' = todo /\ plan' = plan
      /\ ring' = ring /\ pageA' = pageA /\ data' = data
  BY DEF vars, call, file
<1>2. /\ Latest' = Latest /\ WalSlots' = WalSlots /\ Slots' = Slots
      /\ \A w : LaidAt(w) => LaidAt(w)'
  BY <1>1, SameFile
<1>3. \A w : FileMatches(w)' <=> FileMatches(w)
  BY <1>1, <1>2, SameScan
<1>4. Running' = Running
  BY <1>1 DEF Running
<1>5. CASE Running
  <2>1. MemMatch'
    BY <1>1, <1>2, <1>5 DEF Match, MemMatch, Settled
  <2>2. CASE Stale
    <3>1. Stale'
      BY <1>1, <1>2, <2>2 DEF Stale
    <3> QED
      BY <2>1, <3>1 DEF Match, FileMatch
  <2>3. CASE ~Stale
    <3>1. FileMatches(mem.wpos)
      BY <1>5, <2>3 DEF Match, FileMatch
    <3>2. FileMatches(mem.wpos)'
      BY <1>1, <1>2, <3>1 DEF FileMatches
    <3>3. FileMatch'
      BY <1>4, <1>5, <3>2 DEF FileMatch
    <3> QED
      BY <2>1, <3>3 DEF Match
  <2> QED
    BY <2>2, <2>3
<1>6. CASE ~Running
  <2>1. ~Stale /\ stage' \in {"down", "closed"} /\ ~Running'
    BY <1>1, <1>4, <1>6 DEF Stale, Running
  <2> QED
    BY <1>1, <2>1, StoppedMatches
<1> QED
  BY <1>5, <1>6

-----------------------------------------------------------------------------
(* The invariant of the specification.                                      *)

LEMMA InitMatch ==
  ASSUME Init
  PROVE  Match
<1>1. StoreInv
  BY InitStore
<1>2. /\ FileTyped /\ WalSlots \in RingSizes /\ WalSlots \in Nat \ {0}
      /\ IsLatest(data, Latest) /\ data \in Seq(Cell) /\ data[Latest].frames \in Seq(Frame)
      /\ pageB.hpgen <= pageA.hpgen
      /\ data[Latest].cseq \in Nat
  BY <1>1, StoreFacts
<1>3. /\ stage = "idle" /\ mem = Loaded /\ todo = <<>> /\ pageA.cpos = 0
      /\ data = <<TocCell(<<>>), FooterCell(0, 0, <<>>)>>
  BY DEF Init, FirstPage
<1>4. Running /\ LaidAt(mem.wpos)
  BY <1>1, <1>3 DEF StoreInv, MemInv, Running
<1>5. data[Latest].cseq = 0
  <2>1. Latest \in 1 .. 2 /\ data[Latest].kind = "footer"
    BY <1>2, <1>3 DEF IsLatest, FooterIn
  <2>2. data[1].kind # "footer"
    BY <1>3 DEF TocCell
  <2>3. Latest = 2
    BY <2>1, <2>2
  <2> QED
    BY <1>3, <2>3 DEF FooterCell
<1> DEFINE n == WalSlots
           w == mem.wpos
           read == ReadFrom(ring, n, 0, w)
<1>6. \A i \in 0 .. n - 1 : ring[i] = Blank
  <2>1. PICK k \in RingSizes : ring = [i \in 0 .. k - 1 |-> Blank]
    BY DEF Init
  <2>2. Slots = 0 .. k - 1
    BY <2>1 DEF Slots
  <2>3. Slots = 0 .. n - 1
    BY <1>2, RingFacts
  <2> QED
    BY <2>1, <2>2, <2>3
<1>7. Laid(ring, n, 0, w, 0, Latest, Len(data))
  BY <1>3, <1>4, <1>5 DEF LaidAt
<1>8. n \in Nat \ {0} /\ w \in 0 .. n - 1 /\ 0 \in 0 .. n - 1
  BY <1>7 DEF Laid
<1>9. w = 0
  <2> SUFFICES ASSUME w # 0
               PROVE  FALSE
    OBVIOUS
  <2> HIDE DEF n, w
  <2>1. ReadLen(ring, n, 0, w) = w /\ Behind(n, 0, 0) = 0
    BY <1>8 DEF ReadLen, Behind
  <2>2. ring[0] \in Record
    BY <1>7, <1>8, <2>1 DEF Laid
  <2> QED
    BY <1>6, <1>8, <2>2, RecordNotBlank
<1> HIDE DEF n, w
<1>10. ReadLen(ring, n, 0, w) = 0
  BY <1>6, <1>8, <1>9 DEF ReadLen, Behind
<1>11. Newer(read, 0) = <<>>
  <2>1. IsRead(read, ring, n, 0, ReadLen(ring, n, 0, w), 0)
    BY <1>7, ReadFacts
  <2>2. read \in Seq(Record) /\ Len(read) = 0
    BY <1>10, <2>1 DEF IsRead
  <2> HIDE DEF read
  <2>3. \A i \in DOMAIN read : read[i].seq <= 0
    BY <2>2
  <2>4. 0 \in Nat
    OBVIOUS
  <2> QED
    BY <2>2, <2>3, <2>4, NewerNone, Zenon
<1>12. FileMatches(w)
  <2>1. Straight(ring, n, 0, w, 0) /\ Clean(ring, n, 0, w, 0)
    BY <1>6, <1>9, <1>10 DEF Straight, Clean
  <2>2. Fits(data[Latest].frames, Newer(read, 0))
    BY <1>2, <1>11, FitsEmpty
  <2>3. Matched(ring, n, 0, w, 0, data[Latest].frames)
    BY <2>1, <2>2 DEF Matched, Orderly
  <2> QED
    BY <1>3, <1>5, <2>3 DEF FileMatches, n
<1>13. Looked(mem, w)
  <2>1. LaidAt(w)
    BY <1>4 DEF w
  <2> QED
    BY <1>2, <1>3, <1>12, <2>1, LoadedLooked
<1>14. FileMatch
  BY <1>4, <1>12 DEF FileMatch, w
<1>15. MemMatch
  <2>1. FooterIn(data, Latest)
    BY <1>2 DEF IsLatest
  <2>2. stage # "append" /\ stage \notin CommitStages
    BY <1>3 DEF CommitStages
  <2>3. \A i \in DOMAIN todo : todo[i].id = mem.next_id + i - 1
    BY <1>3
  <2> QED
    BY <1>13, <2>1, <2>2, <2>3 DEF MemMatch, Looked
<1> QED
  BY <1>14, <1>15 DEF Match

LEMMA NextMatch ==
  ASSUME StoreInv, Match, [Next]_vars, RefreshAfterFailure, HeaderFollows, AppendsWhole
  PROVE  StoreInv' /\ Match'
<1>0. StoreInv'
  BY NextStore
<1> SUFFICES Match'
  BY <1>0
<1>1. ASSUME NEW len \in {0, 1}, Put(len)
      PROVE  Match'
  <2>1. <<len>> \in Seq(Nat)
    OBVIOUS
  <2>2. Ready /\ WritePayloads(<<len>>) /\ StartAppending(<<len>>)
    BY <1>1 DEF Put
  <2> QED
    BY <1>0, <2>1, <2>2, PutMatches
<1>2. ASSUME NEW lens \in Lengths, PutBatch(lens)
      PROVE  Match'
  BY <1>0, <1>2, LengthsTyped, PutMatches DEF PutBatch
<1>3. ASSUME NEW lens \in Lengths, PutRefused(lens)
      PROVE  Match'
  BY <1>0, <1>3, LengthsTyped, RefusedMatches
<1>4. ASSUME NEW id \in 0 .. MaxSequence[WalSlots], Delete(id)
      PROVE  Match'
  <2>1. id \in Nat
    <3>1. WalSlots \in RingSizes
      BY StoreFacts
    <3>2. MaxSequence[WalSlots] \in Nat
      BY <3>1, StoreAssumption
    <3> QED
      BY <3>2
  <2> DEFINE m == [kind |-> "delete", id |-> id]
  <2>2. m \in Mutation /\ m.kind # "put" /\ m.id = id
    BY <2>1 DEF Mutation, PutMutation
  <2>3. /\ Ready /\ AppendRecord(m) /\ id < mem.next_id /\ mem.last < MaxSequence[WalSlots]
        /\ UNCHANGED <<data, pageA, pageB, stage, call, failed>>
    BY <1>4 DEF Delete
  <2> HIDE DEF m
  <2> QED
    BY <1>0, <2>2, <2>3, MutationMatches
<1>5. ASSUME NEW id \in Embedded, PutEmbedding(id)
      PROVE  Match'
  <2>1. id \in Nat
    BY StoreAssumption
  <2> DEFINE m == [kind |-> "embedding", id |-> id]
  <2>2. m \in Mutation /\ m.kind # "put" /\ m.kind # "delete"
    BY <2>1 DEF Mutation, PutMutation
  <2>3. /\ Ready /\ AppendRecord(m) /\ mem.last < MaxSequence[WalSlots]
        /\ UNCHANGED <<data, pageA, pageB, stage, call, failed>>
    BY <1>5 DEF PutEmbedding
  <2> HIDE DEF m
  <2> QED
    BY <1>0, <2>2, <2>3, MutationMatches
<1>6. CASE Commit \/ CloseCommits
  <2>1. Ready /\ StartCommit
    BY <1>6 DEF Commit, CloseCommits
  <2> QED
    BY <1>0, <2>1, StartMatches
<1>7. CASE AppendNext
  BY <1>0, <1>7, AppendNextMatches
<1>8. CASE WriteToc
  BY <1>0, <1>8, WriteTocMatches
<1>9. CASE WriteFooter
  BY <1>0, <1>9, WriteFooterMatches
<1>10. CASE Resize
  BY <1>0, <1>10, ResizeMatches
<1>11. CASE WritePageA
  BY <1>0, <1>11, WritePageAMatches
<1>12. CASE WritePageB
  BY <1>0, <1>12, WritePageBMatches
<1>13. CASE FinishCommit
  BY <1>0, <1>13, FinishCommitMatches
<1>14. CASE CommitFails
  BY <1>0, <1>14, CommitFailsMatches
<1>15. CASE CloseClean
  BY <1>15, CloseCleanMatches
<1>16. CASE Open
  BY <1>0, <1>16, OpenMatches
<1>17. CASE Verify
  BY <1>0, <1>17, VerifyMatches
<1>18. CASE TryRefreshIfPublishedCommitVisible
  BY <1>0, <1>18, RefreshMatches
<1>19. CASE ProcessDies
  BY <1>19, ProcessDiesMatches
<1>20. CASE UNCHANGED vars
  BY <1>20, StutterMatches
<1> QED
  BY <1>1, <1>2, <1>3, <1>4, <1>5, <1>6, <1>7, <1>8, <1>9, <1>10, <1>11, <1>12, <1>13, <1>14,
     <1>15, <1>16, <1>17, <1>18, <1>19, <1>20 DEF Next

\* In every state the mutations that the ring holds behind the published frames have dense
\* ids, and a process has in its members just those, until a Commit of its own has written
\* the footer: WaxStore::LoadState, Put, PutBatch, Delete, PutEmbeddingBatch, Commit.
THEOREM StoreMatch == RefreshAfterFailure /\ HeaderFollows /\ AppendsWhole => (Spec => []MatchInv)
<1> SUFFICES ASSUME RefreshAfterFailure, HeaderFollows, AppendsWhole
             PROVE  Spec => []MatchInv
  OBVIOUS
<1>1. Init => MatchInv
  BY InitStore, InitMatch DEF MatchInv, Match
<1>2. MatchInv /\ [Next]_vars => MatchInv'
  <2>1. StoreInv /\ Match /\ [Next]_vars => StoreInv' /\ Match'
    BY NextMatch
  <2> QED
    BY <2>1 DEF MatchInv, Match
<1> QED
  BY <1>1, <1>2, PTL DEF Spec

\* Pending mutations that the ids of the frames do not admit are embeddings put too early.
LEMMA NotPoisoned ==
  ASSUME MatchInv, stage = "idle"
  PROVE  /\ FooterAt(mem.foff)
         /\ Committable \/ \E r \in ToSet(mem.cache) : Premature(r)
<1> DEFINE fs == mem.frames
           q == mem.cache
<1>1. MemMatch /\ mem \in Mem
  BY StoreFacts DEF MatchInv, Running
<1>2. fs \in Seq(Frame) /\ q \in Seq(Record) /\ data[mem.foff].frames = fs /\ Fits(fs, q)
  BY <1>1 DEF Mem, MemMatch
<1>3. FooterAt(mem.foff)
  BY <1>1 DEF MemMatch, FooterIn, FooterAt
<1>4. ASSUME ~Committable
      PROVE  \E r \in ToSet(q) : Premature(r)
  <2> DEFINE before(i) == Len(fs) + Len(OnlyAmong(q, PutRecord)[i - 1])
  <2>1. ~Applicable(fs, q)
    BY <1>2, <1>4 DEF Committable
  <2>2. PICK i \in DOMAIN q :
          ~(IF q[i].m.kind = "put" THEN q[i].m.id = before(i) ELSE q[i].m.id < before(i))
    BY <2>1 DEF Applicable
  <2>3. IF q[i].m.kind = "put" THEN q[i].m.id = before(i)
        ELSE q[i].m.id < before(i) \/ q[i].m.kind = "embedding"
    BY <1>2, <2>2 DEF Fits, FitsAt
  <2>4. Len(fs) \in Nat /\ Len(OnlyAmong(q, PutRecord)[i - 1]) \in Nat /\ q[i].m.id \in Nat
        /\ q[i] \in ToSet(q)
    <3>1. i \in 1 .. Len(q) /\ q[i] \in Record
      BY <1>2, <2>2
    <3>2. Len(OnlyAmong(q, PutRecord)[i - 1]) \in Nat
      BY <1>2, <3>1, CountStep
    <3> QED
      BY <1>2, <3>1, <3>2, RecordHas DEF ToSet
  <2>5. before(i) \in Nat /\ before(i) >= Len(fs)
    <3> DEFINE taken == Len(OnlyAmong(q, PutRecord)[i - 1])
               own == Len(fs)
    <3>1. before(i) = own + taken /\ own \in Nat /\ taken \in Nat
      BY <2>4
    <3> HIDE DEF taken, own, before
    <3>2. before(i) \in Nat /\ before(i) >= own
      BY <3>1
    <3> QED
      BY <3>2 DEF own
  <2> HIDE DEF before
  <2>6. q[i].m.kind # "put" /\ q[i].m.kind = "embedding" /\ ~(q[i].m.id < before(i))
    BY <2>2, <2>3
  <2>7. q[i].m.id >= Len(fs)
    BY <2>4, <2>5, <2>6
  <2>8. Premature(q[i])
    BY <1>2, <2>6, <2>7 DEF Premature
  <2> QED
    BY <2>4, <2>8
<1> QED
  BY <1>3, <1>4

\* A store with pending mutations can commit them, after whatever deaths, failed writes and
\* reopenings: Commit never refuses an id that is not dense or not known, unless an embedding
\* was put for a frame that was not there yet (WaxStore::Commit, PutEmbeddingBatch).
THEOREM StoreNeverPoisoned == RefreshAfterFailure /\ HeaderFollows /\ AppendsWhole => (Spec => []NeverPoisoned)
<1> SUFFICES ASSUME RefreshAfterFailure, HeaderFollows, AppendsWhole
             PROVE  Spec => []NeverPoisoned
  OBVIOUS
<1>1. MatchInv => NeverPoisoned
  BY NotPoisoned DEF NeverPoisoned
<1> QED
  BY <1>1, StoreMatch, PTL

LEMMA ReopensAlike ==
  ASSUME MatchInv, stage = "idle", data[Latest].gen = mem.gen
  PROVE  /\ Loaded.frames = mem.frames
         /\ Loaded.cache = mem.cache
         /\ Loaded.next_id = mem.next_id
         /\ Loaded.wpos = mem.wpos
         /\ Loaded.last = mem.last
<1> DEFINE read == ReadFrom(ring, WalSlots, pageA.cpos, mem.wpos)
           c == data[Latest].cseq
<1>1. /\ Running /\ MemMatch /\ mem \in Mem /\ LaidAt(mem.wpos) /\ MemInv
      /\ FileTyped /\ IsLatest(data, Latest) /\ pageB.hpgen <= pageA.hpgen
  <2>1. Running
    BY DEF Running
  <2> QED
    BY <2>1, StoreFacts DEF MatchInv, StoreInv
<1>2. mem.foff = Latest
  <2>1. mem.gen \in Nat
    BY <1>1 DEF Mem
  <2>2. ~(data[Latest].gen > mem.gen)
    BY <2>1
  <2>3. UpToDate
    BY <1>1, <2>2 DEF MemInv
  <2> QED
    BY <2>3 DEF UpToDate
<1>3. Settled
  BY DEF Settled
<1>4. /\ mem.cache = Newer(read, c) /\ mem.last = LastRead(read, c)
      /\ data[Latest].frames = mem.frames /\ Fits(mem.frames, mem.cache)
      /\ mem.next_id = NextPlace(mem.frames, mem.cache)
  BY <1>1, <1>2, <1>3 DEF MemMatch, Agrees
<1>5. NextId(mem.frames, mem.cache) = mem.next_id
  BY <1>1, <1>4, FitsNext DEF Mem
<1>6. Loaded = LoadedFrom(read, mem.wpos)
  BY <1>1, LoadedForm
<1> HIDE DEF read, c
<1>7. /\ Loaded.frames = data[Latest].frames /\ Loaded.wpos = mem.wpos
      /\ Loaded.cache = Newer(read, c) /\ Loaded.last = LastRead(read, c)
      /\ Loaded.next_id = NextId(data[Latest].frames, Newer(read, c))
  BY <1>6 DEF LoadedFrom, LastRead, c
<1> QED
  BY <1>4, <1>5, <1>7

\* A process that dies now, and a store that is opened again, lose nothing of what the running
\* store answers from: the frames, the pending mutations, the next id, the place and number of
\* the next record (WaxStore::LoadState against Put, Delete, Commit).
THEOREM StoreMemoryMatchesFile ==
  RefreshAfterFailure /\ HeaderFollows /\ AppendsWhole => (Spec => []MemoryMatchesFile)
<1> SUFFICES ASSUME RefreshAfterFailure, HeaderFollows, AppendsWhole
             PROVE  Spec => []MemoryMatchesFile
  OBVIOUS
<1>1. MatchInv => MemoryMatchesFile
  BY ReopensAlike DEF MemoryMatchesFile
<1> QED
  BY <1>1, StoreMatch, PTL

-----------------------------------------------------------------------------
(***************************************************************************)
(* The file implements the durable store.                                  *)
(***************************************************************************)

\* Read and View of the store, for any file d.
ReadIn(d, f) ==
  IF f.len = 0 THEN 0
  ELSE IF f.off \in DOMAIN d /\ d[f.off].kind = "payload" THEN d[f.off].bytes ELSE -1

ViewIn(d, fs) ==
  [i \in DOMAIN fs |-> [bytes |-> ReadIn(d, fs[i]), deleted |-> fs[i].deleted]]

\* Two files have the same cells up to hi.
Alike(d, e, hi) ==
  \A i \in Nat : i <= hi => (i \in DOMAIN d <=> i \in DOMAIN e) /\ (i \in DOMAIN d => d[i] = e[i])

\* The payloads of fs are not behind hi.
Within(fs, hi) == \A i \in DOMAIN fs : fs[i].len > 0 => fs[i].off \in Nat /\ fs[i].off <= hi

LEMMA SameView ==
  ASSUME NEW d, NEW e, NEW hi, Alike(d, e, hi), NEW fs \in Seq(Frame), Within(fs, hi)
  PROVE  ViewIn(e, fs) = ViewIn(d, fs)
<1>1. ASSUME NEW i \in DOMAIN fs
      PROVE  ReadIn(e, fs[i]) = ReadIn(d, fs[i])
  <2>1. fs[i] \in Frame
    OBVIOUS
  <2>2. CASE fs[i].len = 0
    BY <2>2 DEF ReadIn
  <2>3. CASE fs[i].len # 0
    <3>1. fs[i].off \in Nat /\ fs[i].off <= hi
      BY <2>1, <2>3 DEF Within, Frame
    <3> DEFINE k == fs[i].off
    <3>2. (k \in DOMAIN d <=> k \in DOMAIN e) /\ (k \in DOMAIN d => d[k] = e[k])
      BY <3>1 DEF Alike
    <3> QED
      BY <2>3, <3>2 DEF ReadIn
  <2> QED
    BY <2>2, <2>3
<1> QED
  BY <1>1 DEF ViewIn

LEMMA RangesWithin ==
  ASSUME NEW fs \in Seq(Frame), NEW lo \in Nat, NEW hi \in Nat, lo <= hi + 1, RangesValid(fs, lo)
  PROVE  Within(fs, hi)
<1> SUFFICES ASSUME NEW i \in DOMAIN fs, fs[i].len > 0
             PROVE  fs[i].off \in Nat /\ fs[i].off <= hi
  BY DEF Within
<1>1. fs[i] \in Frame
  OBVIOUS
<1>2. fs[i].off < lo /\ fs[i].off \in Nat
  BY <1>1 DEF RangesValid, Frame
<1> QED
  BY <1>2

LEMMA FrameIs ==
  /\ \A x, y \in Frame : x.off = y.off /\ x.len = y.len /\ x.deleted = y.deleted => x = y
  /\ \A x \in Frame : x.off \in Nat /\ x.len \in Nat /\ x.deleted \in BOOLEAN
BY DEF Frame

\* Sequences of frames that agree in every place.
LEMMA SameFrames ==
  ASSUME NEW fs \in Seq(Frame), NEW gs \in Seq(Frame), Len(fs) = Len(gs),
         \A i \in 1 .. Len(fs) :
           fs[i].off = gs[i].off /\ fs[i].len = gs[i].len /\ fs[i].deleted = gs[i].deleted
  PROVE  fs = gs
<1>1. ASSUME NEW i \in 1 .. Len(fs)
      PROVE  fs[i] = gs[i]
  <2>1. fs[i] \in Frame /\ gs[i] \in Frame
    OBVIOUS
  <2> QED
    BY <2>1, FrameIs
<1> QED
  BY <1>1

\* Nothing is applied.
LEMMA ApplyNone ==
  ASSUME NEW fs \in Seq(Frame)
  PROVE  Apply(fs, <<>>) = fs
<1> DEFINE new == Apply(fs, <<>>)
           none == PutRecords(<<>>)
<1>1. <<>> \in Seq(Record) /\ DOMAIN (<<>>) = {}
  OBVIOUS
<1>2. none = <<>>
  BY <1>1, OnlyNone DEF PutRecords
<1>3. Gone(<<>>) = {}
  BY DEF Gone, ToSet
<1>4. IsApplied(new, fs, <<>>, none)
  BY <1>1, ApplyForm
<1> HIDE DEF new, none
<1>5. new \in Seq(Frame) /\ Len(new) = Len(fs) + Len(none) /\ Len(none) = 0 /\ Len(fs) \in Nat
  BY <1>2, <1>4 DEF IsApplied
<1>6. ASSUME NEW i \in 1 .. Len(fs)
      PROVE  new[i].off = fs[i].off /\ new[i].len = fs[i].len /\ new[i].deleted = fs[i].deleted
  <2>1. Base(fs, none, i) = fs[i]
    BY DEF Base
  <2>2. i \in 1 .. Len(new)
    BY <1>5
  <2>3. new[i].off = fs[i].off /\ new[i].len = fs[i].len /\ new[i].deleted = (fs[i].deleted \/ FALSE)
    BY <1>3, <1>4, <2>1, <2>2 DEF IsApplied
  <2>4. new[i] \in Frame /\ fs[i] \in Frame
    BY <1>5, <2>2
  <2>5. new[i].deleted = fs[i].deleted
    <3> DEFINE a == new[i].deleted
               b == fs[i].deleted
    <3>1. b \in BOOLEAN /\ a = (b \/ FALSE)
      BY <2>3, <2>4 DEF Frame
    <3> HIDE DEF a, b
    <3>2. a = b
      BY <3>1
    <3> QED
      BY <3>2 DEF a, b
  <2> QED
    BY <2>3, <2>5
<1>7. Len(new) = Len(fs)
  BY <1>5
<1>8. new = fs
  BY <1>5, <1>6, <1>7, SameFrames
<1> QED
  BY <1>8 DEF new

\* What one record more does to the frames.
Extends(new, old, m) ==
  /\ m.kind = "put" => new = Append(old, NewFrame(m))
  /\ m.kind = "delete" => m.id + 1 \in DOMAIN old /\ new = [old EXCEPT ![m.id + 1].deleted = TRUE]
  /\ m.kind = "embedding" => new = old

\* No record deletes a frame that is still to come.
LEMMA GoneKnown ==
  ASSUME NEW fs \in Seq(Frame), NEW records \in Seq(Record), Fits(fs, records)
  PROVE  \A g \in Gone(records) : g \in Nat /\ g < NextPlace(fs, records)
<1> DEFINE l == Len(records)
           c(i) == Len(OnlyAmong(records, PutRecord)[i])
<1> TAKE g \in Gone(records)
<1>1. PICK r \in ToSet(records) : r.m.kind = "delete" /\ g = r.m.id
  BY DEF Gone
<1>2. PICK i \in 1 .. l : records[i] = r
  BY DEF ToSet
<1>3. r \in Record /\ g \in Nat
  <2>1. r \in Record
    BY <1>2
  <2> QED
    BY <1>1, <2>1, RecordHas
<1>4. FitsAt(fs, records, i)
  BY <1>2 DEF Fits
<1>5. g < Len(fs) + c(i - 1)
  BY <1>1, <1>2, <1>4 DEF FitsAt
<1>6. c(i - 1) \in Nat /\ c(i - 1) <= c(l) /\ c(l) \in Nat
  <2>1. i - 1 \in 0 .. l /\ l \in 0 .. l /\ i - 1 <= l
    OBVIOUS
  <2> QED
    BY <2>1, CountGrows
<1>7. NextPlace(fs, records) = Len(fs) + c(l) /\ Len(fs) \in Nat
  BY DEF NextPlace, PutRecords, Only
<1> HIDE DEF c
<1> QED
  BY <1>3, <1>5, <1>6, <1>7

LEMMA ApplyAppend ==
  ASSUME NEW fs \in Seq(Frame), NEW records \in Seq(Record), NEW r \in Record, Fits(fs, records),
         Suits(r.m, NextPlace(fs, records))
  PROVE  Extends(Apply(fs, Append(records, r)), Apply(fs, records), r.m)
<1> DEFINE t == Append(records, r)
           p == PutRecords(records)
           p2 == PutRecords(t)
           old == Apply(fs, records)
           new == Apply(fs, t)
           n == Len(old)
           k == Len(fs)
           G == Gone(records)
           G2 == Gone(t)
<1>1. t \in Seq(Record) /\ ToSet(t) = ToSet(records) \cup {r}
  <2>1. /\ t \in Seq(Record) /\ Len(t) = Len(records) + 1 /\ t[Len(t)] = r
        /\ \A i \in 1 .. Len(records) : t[i] = records[i]
    OBVIOUS
  <2> HIDE DEF t
  <2>2. DOMAIN t = 1 .. Len(t) /\ DOMAIN records = 1 .. Len(records) /\ Len(records) \in Nat
    BY <2>1
  <2>3. ToSet(t) = {t[i] : i \in 1 .. Len(t)} /\ ToSet(records) = {records[i] : i \in 1 .. Len(records)}
    BY <2>2 DEF ToSet
  <2> QED
    BY <2>1, <2>2, <2>3
<1>2. p2 = IF r.m.kind = "put" THEN Append(p, r) ELSE p
  <2>1. \A i \in DOMAIN records : records[i] \in PutRecord <=> records[i] \in PutRecord
    OBVIOUS
  <2>2. OnlyWith(records, PutRecord, r, PutRecord)
    BY <2>1, OnlyAppend, Zenon
  <2> QED
    BY <2>2, PutIsPut DEF OnlyWith, PutRecords
<1>3. IsApplied(old, fs, records, p) /\ IsApplied(new, fs, t, p2)
  BY <1>1, ApplyForm
<1>4. \A g : g \in G2 <=> g \in G \/ (r.m.kind = "delete" /\ g = r.m.id)
  <2> HIDE DEF t
  <2> QED
    BY <1>1 DEF Gone
<1> HIDE DEF t, p, p2, old, new, G, G2
<1>5. /\ old \in Seq(Frame) /\ n = k + Len(p) /\ k \in Nat /\ Len(p) \in Nat /\ n \in Nat
      /\ new \in Seq(Frame) /\ Len(new) = k + Len(p2) /\ p \in Seq(Record)
  BY <1>3 DEF IsApplied
<1>6. NextPlace(fs, records) = n
  BY <1>5 DEF NextPlace, p
<1>7. \A g \in G : g \in Nat /\ g < n
  BY <1>6, GoneKnown DEF G
\* The frames that there were before.
<1>8. ASSUME NEW i \in 1 .. n
      PROVE  /\ i \in 1 .. Len(new)
             /\ new[i].off = old[i].off /\ new[i].len = old[i].len
             /\ new[i].deleted = (old[i].deleted \/ (r.m.kind = "delete" /\ i - 1 = r.m.id))
  <2>1. Base(fs, p2, i) = Base(fs, p, i)
    <3>1. CASE i <= k
      BY <3>1 DEF Base
    <3>2. CASE ~(i <= k)
      <4>1. i - k \in 1 .. Len(p)
        BY <1>5, <3>2
      <4> DEFINE j == i - k
      <4>2. j \in 1 .. Len(p)
        BY <4>1
      <4> HIDE DEF j
      <4>3. p2[j] = p[j]
        BY <1>2, <1>5, <4>2
      <4> QED
        BY <3>2, <4>3 DEF Base, j
    <3> QED
      BY <3>1, <3>2
  <2>2. i \in 1 .. Len(new)
    <3>1. Len(p2) \in Nat /\ Len(p2) >= Len(p)
      BY <1>2, <1>5
    <3> QED
      BY <1>5, <3>1
  <2> DEFINE b == Base(fs, p, i)
             gone == i - 1 \in G
             now == r.m.kind = "delete" /\ i - 1 = r.m.id
  <2>3. /\ old[i].off = b.off /\ old[i].len = b.len /\ old[i].deleted = (b.deleted \/ gone)
        /\ new[i].off = b.off /\ new[i].len = b.len /\ new[i].deleted = (b.deleted \/ i - 1 \in G2)
    BY <1>3, <2>1, <2>2 DEF IsApplied, G, G2
  <2>4. i - 1 \in G2 <=> gone \/ now
    BY <1>4
  <2> HIDE DEF b, gone, now
  <2>5. new[i].deleted = (old[i].deleted \/ now)
    BY <2>3, <2>4, Zenon
  <2> QED
    BY <2>2, <2>3, <2>5 DEF now
<1>9. CASE r.m.kind = "put"
  <2>1. Len(new) = n + 1 /\ p2[Len(p) + 1] = r
    BY <1>2, <1>5, <1>9
  <2> DEFINE i == n + 1
             f == NewFrame(r.m)
  <2>2. f \in Frame
    <3>1. r \in PutRecord
      BY <1>9, PutIsPut
    <3>2. r.m.off \in Nat /\ r.m.len \in Nat
      BY <3>1, RecordHas
    <3> QED
      BY <3>2 DEF NewFrame, Frame
  <2>3. i \in 1 .. Len(new) /\ ~(i <= k) /\ i - k = Len(p) + 1 /\ i - 1 = n
    BY <1>5, <2>1
  <2> HIDE DEF i
  <2>4. Base(fs, p2, i) = f
    BY <2>1, <2>3 DEF Base
  <2>5. i - 1 \notin G2
    BY <1>4, <1>5, <1>7, <1>9, <2>3
  <2>6. new[i].off = f.off /\ new[i].len = f.len /\ new[i].deleted = (f.deleted \/ i - 1 \in G2)
    BY <1>3, <2>3, <2>4 DEF IsApplied, G2
  <2>7. new[i].deleted = f.deleted
    <3>1. f.deleted = FALSE
      BY DEF NewFrame
    <3> HIDE DEF f
    <3>2. new[i].deleted = FALSE
      BY <2>5, <2>6, <3>1, Zenon
    <3> QED
      BY <3>1, <3>2
  <2> DEFINE gs == Append(old, f)
  <2>8. gs \in Seq(Frame) /\ Len(gs) = n + 1 /\ gs[n + 1] = f /\ \A j \in 1 .. n : gs[j] = old[j]
    <3> HIDE DEF f
    <3>1. old \in Seq(Frame) /\ f \in Frame
      BY <1>5, <2>2
    <3> QED
      BY <3>1
  <2> HIDE DEF gs, f
  <2>9. \A j \in 1 .. n : new[j].deleted = old[j].deleted
    <3> TAKE j \in 1 .. n
    <3>1. new[j].deleted = (old[j].deleted \/ (r.m.kind = "delete" /\ j - 1 = r.m.id))
      BY <1>8
    <3>2. ~(r.m.kind = "delete" /\ j - 1 = r.m.id)
      BY <1>9
    <3>3. old[j].deleted \in BOOLEAN
      BY <1>5, FrameIs
    <3> QED
      BY <3>1, <3>2, <3>3, Zenon
  <2>10. ASSUME NEW j \in 1 .. Len(new)
         PROVE  new[j].off = gs[j].off /\ new[j].len = gs[j].len /\ new[j].deleted = gs[j].deleted
    <3>1. j \in 1 .. n \/ j = i
      BY <1>5, <2>1 DEF i
    <3> QED
      BY <1>8, <2>6, <2>7, <2>8, <2>9, <3>1 DEF i
  <2>11. new = gs
    BY <1>5, <2>1, <2>8, <2>10, SameFrames
  <2> QED
    BY <1>9, <2>11 DEF Extends, gs, f, new, old, t
<1>10. CASE r.m.kind = "delete"
  <2> DEFINE i == r.m.id + 1
             gs == [old EXCEPT ![i].deleted = TRUE]
  <2>1. Len(new) = n
    BY <1>2, <1>5, <1>10
  <2>2. r.m.id \in Nat /\ r.m.id < n
    BY <1>6, <1>10, RecordHas DEF Suits
  <2>3. i \in 1 .. n /\ DOMAIN old = 1 .. n
    BY <1>5, <2>2
  <2>4. /\ gs \in Seq(Frame) /\ Len(gs) = n
        /\ \A j \in 1 .. n : /\ gs[j].off = old[j].off /\ gs[j].len = old[j].len
                             /\ gs[j].deleted = IF j = i THEN TRUE ELSE old[j].deleted
    <3> HIDE DEF i
    <3>1. old[i] \in Frame
      BY <1>5, <2>3
    <3>2. [old[i] EXCEPT !.deleted = TRUE] \in Frame
      BY <3>1 DEF Frame
    <3>3. gs = [old EXCEPT ![i] = [old[i] EXCEPT !.deleted = TRUE]]
      OBVIOUS
    <3>4. gs \in Seq(Frame) /\ Len(gs) = n /\ \A j \in 1 .. n : gs[j] = IF j = i THEN [old[i] EXCEPT !.deleted = TRUE] ELSE old[j]
      <4> HIDE DEF gs
      <4> QED
        BY <1>5, <2>3, <3>2, <3>3
    <3>5. /\ [old[i] EXCEPT !.deleted = TRUE].off = old[i].off
          /\ [old[i] EXCEPT !.deleted = TRUE].len = old[i].len
          /\ [old[i] EXCEPT !.deleted = TRUE].deleted = TRUE
      BY <3>1 DEF Frame
    <3> HIDE DEF gs
    <3> QED
      BY <3>4, <3>5
  <2> HIDE DEF gs
  <2>5. ASSUME NEW j \in 1 .. Len(new)
        PROVE  new[j].off = gs[j].off /\ new[j].len = gs[j].len /\ new[j].deleted = gs[j].deleted
    <3>1. j \in 1 .. n
      BY <2>1
    <3>2. new[j].deleted = (old[j].deleted \/ (r.m.kind = "delete" /\ j - 1 = r.m.id))
      BY <1>8, <3>1
    <3>3. old[j].deleted \in BOOLEAN
      BY <1>5, <3>1, FrameIs
    <3>4. j - 1 = r.m.id <=> j = i
      BY <2>2, <3>1
    <3>5. CASE j = i
      <4>1. gs[j].deleted = TRUE
        BY <2>4, <3>1, <3>5
      <4>2. new[j].deleted = TRUE
        BY <1>10, <3>2, <3>4, <3>5, Zenon
      <4> QED
        BY <1>8, <2>4, <3>1, <4>1, <4>2
    <3>6. CASE j # i
      <4>1. gs[j].deleted = old[j].deleted
        BY <2>4, <3>1, <3>6
      <4>2. new[j].deleted = old[j].deleted
        BY <3>2, <3>3, <3>4, <3>6, Zenon
      <4> QED
        BY <1>8, <2>4, <3>1, <4>1, <4>2
    <3> QED
      BY <3>5, <3>6
  <2>6. new = gs
    BY <1>5, <2>1, <2>4, <2>5, SameFrames
  <2>7. i \in DOMAIN old
    BY <2>3
  <2> QED
    BY <1>10, <2>6, <2>7 DEF Extends, gs, new, old, t
<1>11. CASE r.m.kind = "embedding"
  <2>1. Len(new) = n
    BY <1>2, <1>5, <1>11
  <2>2. ASSUME NEW j \in 1 .. Len(new)
        PROVE  new[j].off = old[j].off /\ new[j].len = old[j].len /\ new[j].deleted = old[j].deleted
    <3>1. j \in 1 .. n
      BY <2>1
    <3>2. new[j].deleted = (old[j].deleted \/ (r.m.kind = "delete" /\ j - 1 = r.m.id))
      BY <1>8, <3>1
    <3>3. old[j].deleted \in BOOLEAN
      BY <1>5, <3>1, FrameIs
    <3>4. ~(r.m.kind = "delete" /\ j - 1 = r.m.id)
      BY <1>11
    <3>5. new[j].deleted = old[j].deleted
      BY <3>2, <3>3, <3>4, Zenon
    <3> QED
      BY <1>8, <3>1, <3>5
  <2>3. new = old
    BY <1>5, <2>1, <2>2, SameFrames
  <2> QED
    BY <1>11, <2>3 DEF Extends, new, old, t
<1>12. r.m.kind \in {"put", "delete", "embedding"}
  BY DEF Record, Mutation, PutMutation
<1> QED
  BY <1>9, <1>10, <1>11, <1>12

LEMMA ViewPut ==
  ASSUME NEW d, NEW old \in Seq(Frame), NEW m
  PROVE  ViewIn(d, Append(old, NewFrame(m)))
           = Append(ViewIn(d, old), [bytes |-> ReadIn(d, m), deleted |-> FALSE])
<1> DEFINE f == NewFrame(m)
           e == [bytes |-> ReadIn(d, m), deleted |-> FALSE]
           shown(x) == [bytes |-> ReadIn(d, x), deleted |-> x.deleted]
           new == Append(old, f)
           v == ViewIn(d, old)
           n == Len(old)
<1>1. shown(f) = e
  BY DEF NewFrame, ReadIn
<1> HIDE DEF f, e
<1>2. n \in Nat /\ DOMAIN old = 1 .. n /\ DOMAIN new = 1 .. n + 1 /\ new[n + 1] = f
      /\ \A i \in 1 .. n : new[i] = old[i]
  OBVIOUS
<1> HIDE DEF new
<1>3. ViewIn(d, new) = [i \in DOMAIN new |-> shown(new[i])] /\ v = [i \in DOMAIN old |-> shown(old[i])]
  BY DEF ViewIn
<1> HIDE DEF shown, v
<1>4. /\ ViewIn(d, new) = [i \in 1 .. n + 1 |-> shown(new[i])]
      /\ v = [i \in 1 .. n |-> shown(old[i])]
  BY <1>2, <1>3
<1> DEFINE T == {shown(old[i]) : i \in 1 .. n} \cup {e}
<1>5. v \in Seq(T) /\ Len(v) = n
  BY <1>2, <1>4
<1> DEFINE u == Append(v, e)
<1>6. u \in Seq(T) /\ Len(u) = n + 1 /\ u[n + 1] = e /\ \A i \in 1 .. n : u[i] = v[i]
  <2>1. e \in T
    OBVIOUS
  <2> HIDE DEF T
  <2> QED
    BY <1>5, <2>1
<1> HIDE DEF u, T
<1>7. \A i \in 1 .. n + 1 : shown(new[i]) = u[i]
  <2> TAKE i \in 1 .. n + 1
  <2>1. i \in 1 .. n \/ i = n + 1
    BY <1>2
  <2> QED
    BY <1>1, <1>2, <1>4, <1>6, <2>1
<1>8. u = [i \in 1 .. n + 1 |-> u[i]]
  BY <1>6
<1>9. ViewIn(d, new) = u
  BY <1>4, <1>7, <1>8
<1> QED
  BY <1>9 DEF new, f, u, v, e

LEMMA ViewDelete ==
  ASSUME NEW d, NEW old \in Seq(Frame), NEW k \in DOMAIN old
  PROVE  /\ k \in DOMAIN ViewIn(d, old)
         /\ ViewIn(d, [old EXCEPT ![k].deleted = TRUE])
              = [ViewIn(d, old) EXCEPT ![k].deleted = TRUE]
<1> DEFINE new == [old EXCEPT ![k].deleted = TRUE]
           v == ViewIn(d, old)
<1>1. DOMAIN new = DOMAIN old /\ DOMAIN v = DOMAIN old
  BY DEF ViewIn
<1>2. ASSUME NEW i \in DOMAIN old
      PROVE  /\ ReadIn(d, new[i]) = ReadIn(d, old[i])
             /\ new[i].deleted = IF i = k THEN TRUE ELSE old[i].deleted
  <2>1. old[i] \in Frame
    OBVIOUS
  <2>2. new[i] = IF i = k THEN [old[i] EXCEPT !.deleted = TRUE] ELSE old[i]
    OBVIOUS
  <2> HIDE DEF new
  <2>3. new[i].off = old[i].off /\ new[i].len = old[i].len
        /\ new[i].deleted = IF i = k THEN TRUE ELSE old[i].deleted
    BY <2>1, <2>2 DEF Frame
  <2> QED
    BY <2>3 DEF ReadIn
<1>3. ViewIn(d, new) = [i \in DOMAIN old |->
                          [bytes |-> ReadIn(d, old[i]),
                           deleted |-> IF i = k THEN TRUE ELSE old[i].deleted]]
  <2> HIDE DEF new
  <2> QED
    BY <1>1, <1>2 DEF ViewIn
<1>4. v = [i \in DOMAIN old |-> [bytes |-> ReadIn(d, old[i]), deleted |-> old[i].deleted]]
  BY DEF ViewIn
<1> HIDE DEF v
<1>5. [v EXCEPT ![k].deleted = TRUE]
        = [i \in DOMAIN old |->
             [bytes |-> ReadIn(d, old[i]), deleted |-> IF i = k THEN TRUE ELSE old[i].deleted]]
  <2> DEFINE e == [v[k] EXCEPT !.deleted = TRUE]
             a == ReadIn(d, old[k])
             b == old[k].deleted
  <2>1. e = [bytes |-> a, deleted |-> TRUE]
    <3>1. v[k] = [bytes |-> a, deleted |-> b]
      BY <1>4
    <3> HIDE DEF a, b
    <3>2. DOMAIN e = {"bytes", "deleted"} /\ e.bytes = a /\ e.deleted = TRUE
      BY <3>1
    <3>3. e = [i \in DOMAIN e |-> e[i]]
      BY <3>1
    <3> HIDE DEF e
    <3> QED
      BY <3>2, <3>3
  <2>2. [v EXCEPT ![k].deleted = TRUE] = [v EXCEPT ![k] = e]
    OBVIOUS
  <2> HIDE DEF e
  <2>3. [v EXCEPT ![k] = e] = [i \in DOMAIN old |-> IF i = k THEN e ELSE v[i]]
    BY <1>1, <1>4
  <2>4. \A i \in DOMAIN old :
          (IF i = k THEN e ELSE v[i])
            = [bytes |-> ReadIn(d, old[i]), deleted |-> IF i = k THEN TRUE ELSE old[i].deleted]
    BY <1>4, <2>1
  <2> QED
    BY <2>2, <2>3, <2>4
<1> QED
  BY <1>1, <1>3, <1>5 DEF v

-----------------------------------------------------------------------------
(* What the file says, and when it goes on saying it.                       *)

\* The mutations that the ring holds behind the latest footer, up to slot w.
Pending(w) == Newer(ReadFrom(ring, WalSlots, pageA.cpos, w), data[Latest].cseq)

Content == View(Apply(Loaded.frames, Loaded.cache))
PublishedView == View(Loaded.frames)

\* The file read up to slot w is the durable store.
Shows(w) ==
  /\ Loaded.frames = data[Latest].frames
  /\ Loaded.cache = Pending(w)
  /\ Loaded.gen = data[Latest].gen
  /\ Loaded.wpos = w
  /\ Loaded.foff = Latest
  /\ Content = ViewIn(data, Apply(data[Latest].frames, Pending(w)))
  /\ PublishedView = ViewIn(data, data[Latest].frames)
  /\ data[Latest].frames \in Seq(Frame)
  /\ Pending(w) \in Seq(Record)
  /\ IsCache(Pending(w), data[Latest].cseq, Latest, Len(data))
  /\ RangesValid(data[Latest].frames, Latest)
  /\ data[Latest].gen \in Nat

ShowsAll == \A w : LaidAt(w) => Shows(w)

LEMMA ReadShows == StoreInv => ShowsAll
<1> SUFFICES ASSUME StoreInv, NEW w, LaidAt(w)
             PROVE  Shows(w)
  BY DEF ShowsAll
<1>1. /\ FileTyped /\ IsLatest(data, Latest) /\ pageB.hpgen <= pageA.hpgen
      /\ data[Latest].frames \in Seq(Frame) /\ data[Latest].gen \in Nat /\ data[Latest].cseq \in Nat
  BY StoreFacts
<1> DEFINE read == ReadFrom(ring, WalSlots, pageA.cpos, w)
           c == data[Latest].cseq
<1>2. Loaded = LoadedFrom(read, w)
  BY <1>1, LoadedForm
<1>3. Newer(read, c) \in Seq(Record) /\ IsCache(Newer(read, c), c, Latest, Len(data))
  <2>1. Laid(ring, WalSlots, pageA.cpos, w, c, Latest, Len(data))
    BY DEF LaidAt
  <2> QED
    BY <1>1, <2>1, NewerFacts, Zenon
<1> HIDE DEF read, c
<1>4. /\ Loaded.frames = data[Latest].frames /\ Loaded.cache = Newer(read, c)
      /\ Loaded.gen = data[Latest].gen /\ Loaded.wpos = w /\ Loaded.foff = Latest
  BY <1>2 DEF LoadedFrom, c
<1>5. \A fs : View(fs) = ViewIn(data, fs)
  BY DEF View, ViewIn, Read, ReadIn
<1>6. Newer(read, c) = Pending(w)
  BY DEF read, c, Pending
<1>7. Content = ViewIn(data, Apply(data[Latest].frames, Pending(w)))
      /\ PublishedView = ViewIn(data, data[Latest].frames)
  BY <1>4, <1>5, <1>6 DEF Content, PublishedView
<1>8. RangesValid(data[Latest].frames, Latest)
  BY <1>1 DEF IsLatest
<1> QED
  BY <1>1, <1>3, <1>4, <1>6, <1>7, <1>8 DEF Shows, c

\* The mapped variables of the durable store.
LEMMA MapInit ==
  ASSUME Content = <<>>, PublishedView = <<>>, Loaded.gen = 0
  PROVE  OnDisk!Init
BY OnceIs DEF OnDisk!Init, Content, PublishedView

LEMMA MapStutter ==
  ASSUME Content' = Content, PublishedView' = PublishedView, Loaded'.gen = Loaded.gen
  PROVE  UNCHANGED OnDisk!durable
<1>1. \A x : Once({x}) = x
  BY OnceIs
<1> QED
  BY <1>1 DEF OnDisk!durable, Content, PublishedView, Once

LEMMA MapPublish ==
  ASSUME Content' = Content, PublishedView' = Content, Loaded'.gen = Loaded.gen + 1
  PROVE  OnDisk!Publish
BY OnceIs DEF OnDisk!Publish, Content, PublishedView, Once

LEMMA MapPut ==
  ASSUME NEW b, Content' = Append(Content, [bytes |-> b, deleted |-> FALSE]),
         PublishedView' = PublishedView, Loaded'.gen = Loaded.gen
  PROVE  OnDisk!Put(b)
BY OnceIs DEF OnDisk!Put, Content, PublishedView, Once

LEMMA MapDelete ==
  ASSUME NEW k, Content' = [Content EXCEPT ![k].deleted = TRUE],
         PublishedView' = PublishedView, Loaded'.gen = Loaded.gen
  PROVE  OnDisk!Delete(k)
BY OnceIs DEF OnDisk!Delete, Content, PublishedView, Once

-----------------------------------------------------------------------------
(***************************************************************************)
(* What the proof needs besides MatchInv: the payloads of the records that *)
(* are still to be appended are in the file, and a running commit is going *)
(* to publish what the process knows.                                      *)
(***************************************************************************)
TodoWritten == \A i \in DOMAIN todo : ReadIn(data, todo[i]) \in Bytes

PlanApplied == stage \in {"toc", "footer"} => plan.frames = Apply(mem.frames, mem.cache)

DurableInv == MatchInv /\ TodoWritten /\ PlanApplied

LEMMA PairsTyped ==
  ASSUME NEW A, NEW B
  PROVE  /\ \A x \in A \X B : x[2] \in B
         /\ \A x \in A, y \in B : <<x, y>> \in A \X B
OBVIOUS

LEMMA FunctionIsSeq ==
  ASSUME NEW T, NEW n \in Nat, NEW f \in [1 .. n -> T]
  PROVE  f \in Seq(T)
OBVIOUS

\* Payloads are numbered by records that there may be.
LEMMA PayloadBytes ==
  ASSUME FileTyped, mem.last \in Nat, NEW lens \in Seq(Nat), NEW b \in Nat,
         mem.last + Len(lens) <= b, data' = data \o PayloadCells(lens)
  PROVE  \A i \in DOMAIN data' :
           i > Len(data) => data'[i].kind = "payload" /\ data'[i].bytes \in 0 .. b
<1> DEFINE numbered == [i \in DOMAIN lens |-> <<lens[i], mem.last + i>>]
           stored == Only(numbered, Stored \X Nat)
           cells == PayloadCells(lens)
           T == Nat \X (0 .. b)
<1> HIDE DEF T
<1>1. numbered \in Seq(T)
  <2>1. DOMAIN lens = 1 .. Len(lens) /\ Len(lens) \in Nat
    OBVIOUS
  <2>2. \A i \in 1 .. Len(lens) : <<lens[i], mem.last + i>> \in T
    <3> TAKE i \in 1 .. Len(lens)
    <3>1. lens[i] \in Nat
      BY <2>1
    <3>2. mem.last + i \in 0 .. b
      BY <2>1
    <3> QED
      BY <3>1, <3>2, PairsTyped, Zenon DEF T
  <2>3. numbered = [i \in 1 .. Len(lens) |-> <<lens[i], mem.last + i>>]
    BY <2>1
  <2> HIDE DEF numbered
  <2>4. numbered \in [1 .. Len(lens) -> T]
    BY <2>2, <2>3
  <2> QED
    BY <2>1, <2>4, FunctionIsSeq, Zenon
<1> HIDE DEF numbered
<1>2. stored \in Seq(T)
  BY <1>1, OnlyElements
<1> DEFINE n == Len(stored)
<1>3. cells = [i \in 1 .. n |-> PayloadCell(stored[i][2])] /\ n \in Nat
  <2>1. cells = [i \in DOMAIN stored |-> PayloadCell(stored[i][2])]
    BY DEF PayloadCells, numbered
  <2> HIDE DEF stored, cells
  <2>2. DOMAIN stored = 1 .. n /\ n \in Nat
    BY <1>2
  <2> QED
    BY <2>1, <2>2
<1> HIDE DEF stored, cells
<1>4. \A i \in 1 .. n : stored[i][2] \in 0 .. b
  <2> TAKE i \in 1 .. n
  <2>1. stored[i] \in T
    BY <1>2
  <2> HIDE DEF n
  <2>2. \A x \in T : x[2] \in 0 .. b
    BY PairsTyped, Zenon DEF T
  <2> QED
    BY <2>1, <2>2
<1> HIDE DEF n
<1>5. \A i \in 1 .. n : /\ cells[i].kind = "payload" /\ cells[i].bytes \in 0 .. b
                        /\ cells[i] \in Cell
  <2> TAKE i \in 1 .. n
  <2>1. stored[i][2] \in 0 .. b /\ stored[i][2] \in Nat
    BY <1>4
  <2>2. cells[i] = PayloadCell(stored[i][2])
    BY <1>3
  <2> QED
    BY <2>1, <2>2 DEF PayloadCell, Cell
<1>6. cells \in Seq(Cell) /\ Len(cells) = n
  BY <1>3, <1>5
<1>7. data \in Seq(Cell)
  BY DEF FileTyped
<1>8. IsJoined(data', data, cells, Cell)
  BY <1>6, <1>7, Joined DEF cells
<1> TAKE i \in DOMAIN data'
<1>9. HAVE i > Len(data)
<1> DEFINE j == i - Len(data)
<1>10. /\ Len(data') = Len(data) + n /\ Len(data) \in Nat /\ i \in 1 .. Len(data')
       /\ data'[i] = IF i <= Len(data) THEN data[i] ELSE cells[j]
  <2>1. Len(data') = Len(data) + n /\ data' \in Seq(Cell) /\ Len(data) \in Nat
    BY <1>6, <1>7, <1>8 DEF IsJoined
  <2>2. i \in 1 .. Len(data')
    BY <2>1
  <2> QED
    BY <1>8, <2>1, <2>2 DEF IsJoined
<1>11. j \in 1 .. n
  BY <1>3, <1>9, <1>10
<1> HIDE DEF j
<1>12. ~(i <= Len(data))
  BY <1>9, <1>10
<1>13. data'[i] = cells[j]
  BY <1>10, <1>12
<1> QED
  BY <1>5, <1>11, <1>13

LEMMA BytesHas ==
  ASSUME StoreInv
  PROVE  /\ MaxSequence[WalSlots] \in Nat
         /\ 0 .. MaxSequence[WalSlots] \subseteq Bytes /\ 0 \in Bytes
<1>1. WalSlots \in RingSizes
  BY StoreFacts
<1>2. MaxSequence[WalSlots] \in Nat
  BY <1>1, StoreAssumption
<1>3. 0 .. MaxSequence[WalSlots] \subseteq Bytes
  BY <1>1 DEF Bytes
<1> QED
  BY <1>2, <1>3

\* Put and PutBatch write their payloads first.
LEMMA PutWrites ==
  ASSUME StoreInv, Ready, NEW lens \in Seq(Nat), WritePayloads(lens), StartAppending(lens)
  PROVE  TodoWritten'
<1> DEFINE c(i) == Len(OnlyAmong(lens, Stored)[i])
           l == Len(lens)
           hi == Len(data)
           b == MaxSequence[WalSlots]
<1>1. /\ todo' = PutsOf(lens) /\ data' = data \o PayloadCells(lens) /\ mem.last + l <= b
  BY DEF WritePayloads, LeavePayloads, StartAppending
<1>2. FileTyped /\ mem \in Mem /\ mem.last \in Nat
  BY StoreFacts DEF Ready, Running, Mem
<1>3. b \in Nat /\ 0 .. b \subseteq Bytes /\ 0 \in Bytes
  BY BytesHas
<1>4. \A k \in DOMAIN data' : k > hi => data'[k].kind = "payload" /\ data'[k].bytes \in 0 .. b
  BY <1>1, <1>2, <1>3, PayloadBytes
<1>5. /\ data' \in Seq(Cell) /\ Len(data') = hi + c(l) /\ hi \in Nat
  BY <1>1, <1>2, PayloadsAppend DEF Only, FileTyped
<1>6. DOMAIN lens = 1 .. l /\ l \in Nat
  OBVIOUS
<1>7. ASSUME NEW i \in 1 .. l
      PROVE  c(i) \in Nat /\ c(i) <= c(l) /\ c(l) \in Nat /\ (lens[i] \in Stored => 0 < c(i))
  <2>1. c(0) = 0 /\ 0 \in 0 .. l /\ l \in 0 .. l /\ i \in 0 .. l /\ 0 < i /\ i <= l /\ 0 <= i
    BY <1>6, CountStep
  <2>2. c(i) \in Nat /\ c(i) <= c(l)
    BY <2>1, CountGrows
  <2>3. lens[i] \in Stored => c(0) < c(i)
    BY <2>1, CountGrows
  <2>4. c(l) \in Nat
    BY <2>1, CountGrows
  <2> QED
    BY <2>1, <2>2, <2>3, <2>4
<1>8. /\ DOMAIN todo' = 1 .. l
      /\ \A i \in 1 .. l : todo'[i].len = lens[i] /\ todo'[i].off = hi + c(i)
  BY <1>1, <1>6 DEF PutsOf
<1> HIDE DEF c, hi, b
<1>9. ASSUME NEW i \in 1 .. l
      PROVE  ReadIn(data', todo'[i]) \in Bytes
  <2>1. lens[i] \in Nat
    BY <1>6
  <2>2. CASE lens[i] = 0
    BY <1>3, <1>8, <2>2 DEF ReadIn
  <2>3. CASE lens[i] # 0
    <3> DEFINE k == todo'[i].off
    <3>1. lens[i] \in Stored
      BY <2>1, <2>3 DEF Stored
    <3>2. k = hi + c(i) /\ c(i) \in Nat /\ c(i) <= c(l) /\ c(l) \in Nat /\ 0 < c(i)
      BY <1>7, <1>8, <3>1
    <3> HIDE DEF k
    <3>3. k \in DOMAIN data' /\ k > hi
      BY <1>5, <3>2
    <3>4. data'[k].kind = "payload" /\ data'[k].bytes \in Bytes
      BY <1>3, <1>4, <3>3
    <3> QED
      BY <1>8, <2>3, <3>3, <3>4 DEF ReadIn, k
  <2> QED
    BY <2>2, <2>3
<1> QED
  BY <1>8, <1>9 DEF TodoWritten

LEMMA NextDurable ==
  ASSUME DurableInv, StoreInv', Match', [Next]_vars
  PROVE  TodoWritten' /\ PlanApplied'
<1>1. StoreInv /\ Match
  BY DEF DurableInv, MatchInv, Match
<1>2. stage' # "append" => TodoWritten'
  BY DEF StoreInv, TypeOK, TodoWritten
<1>3. stage' \notin {"toc", "footer"} => PlanApplied'
  BY DEF PlanApplied
<1>4. ASSUME NEW len \in {0, 1}, Put(len)
      PROVE  TodoWritten' /\ PlanApplied'
  <2>1. <<len>> \in Seq(Nat)
    OBVIOUS
  <2>2. Ready /\ WritePayloads(<<len>>) /\ StartAppending(<<len>>) /\ stage' = "append"
    BY <1>4 DEF Put, StartAppending
  <2> QED
    BY <1>1, <1>3, <2>1, <2>2, PutWrites
<1>5. ASSUME NEW lens \in Lengths, PutBatch(lens)
      PROVE  TodoWritten' /\ PlanApplied'
  <2>1. lens \in Seq(Nat)
    BY LengthsTyped
  <2>2. Ready /\ WritePayloads(lens) /\ StartAppending(lens) /\ stage' = "append"
    BY <1>5 DEF PutBatch, StartAppending
  <2> QED
    BY <1>1, <1>3, <2>1, <2>2, PutWrites
<1>6. CASE AppendNext
  <2>1. /\ stage = "append" /\ stage' \in {"idle", "append"} /\ todo' = Tail(todo) /\ data' = data
    BY <1>6 DEF AppendNext
  <2>2. todo \in Seq(PutMutation) /\ todo # <<>>
    BY <1>1, <2>1 DEF StoreInv, TypeOK
  <2>3. \A i \in DOMAIN todo' : i + 1 \in DOMAIN todo /\ todo'[i] = todo[i + 1]
    BY <2>1, <2>2
  <2>4. TodoWritten'
    BY <2>1, <2>3 DEF DurableInv, TodoWritten
  <2> QED
    BY <1>3, <2>1, <2>4
<1>7. CASE Commit \/ CloseCommits
  <2>1. Ready /\ StartCommit
    BY <1>7 DEF Commit, CloseCommits
  <2>2. stage' = "toc" /\ plan'.frames = Applied /\ mem' = mem
    BY <2>1 DEF StartCommit
  <2>3. MemMatch
    BY <1>1, <2>1, ReadyFacts
  <2>4. PlanApplied'
    BY <2>2, <2>3 DEF PlanApplied, MemMatch, Applied
  <2> QED
    BY <1>2, <2>2, <2>4
<1>8. CASE WriteToc
  <2>1. stage = "toc" /\ stage' = "footer" /\ plan' = plan /\ mem' = mem
    BY <1>8 DEF WriteToc, call
  <2>2. PlanApplied'
    BY <2>1 DEF DurableInv, PlanApplied
  <2> QED
    BY <1>2, <2>1, <2>2
<1>9. CASE UNCHANGED vars
  <2>1. stage' = stage /\ plan' = plan /\ mem' = mem /\ todo' = todo /\ data' = data
    BY <1>9 DEF vars, call, file
  <2> QED
    BY <2>1 DEF DurableInv, PlanApplied, TodoWritten
<1>10. ASSUME stage' \notin {"append", "toc", "footer"}
       PROVE  TodoWritten' /\ PlanApplied'
  BY <1>2, <1>3, <1>10
<1>11. ASSUME NEW lens \in Lengths, PutRefused(lens)
       PROVE  stage' \notin {"append", "toc", "footer"}
  BY <1>11 DEF PutRefused, Ready
<1>12. ASSUME NEW id, Delete(id) \/ PutEmbedding(id)
       PROVE  stage' \notin {"append", "toc", "footer"}
  BY <1>12 DEF Delete, PutEmbedding, Ready
<1>13. ASSUME \/ WriteFooter \/ Resize \/ WritePageA \/ WritePageB \/ FinishCommit \/ CommitFails
              \/ CloseClean \/ Open \/ Verify \/ TryRefreshIfPublishedCommitVisible \/ ProcessDies
       PROVE  stage' \notin {"append", "toc", "footer"}
  BY <1>13 DEF WriteFooter, Resize, WritePageA, WritePageB, FinishCommit, CommitFails,
               CloseClean, Open, Verify, TryRefreshIfPublishedCommitVisible, ProcessDies, Ready
<1> QED
  BY <1>4, <1>5, <1>6, <1>7, <1>8, <1>9, <1>10, <1>11, <1>12, <1>13 DEF Next

-----------------------------------------------------------------------------
(* Steps that the durable store does not see.                               *)

\* What a file publishes and has pending, read from its cells up to hi.
LEMMA CacheWithin ==
  ASSUME NEW fs \in Seq(Frame), NEW records \in Seq(Record), NEW c, NEW lo \in Nat, NEW hi \in Nat,
         lo <= hi, RangesValid(fs, lo), IsCache(records, c, lo, hi)
  PROVE  Within(Apply(fs, records), hi)
<1>1. PutsInOrder(PutRecords(records), lo, hi)
  BY CachePuts
<1> DEFINE new == Apply(fs, records)
<1>2. \A i \in DOMAIN new : new[i].len > 0 => new[i].off \in Nat /\ new[i].off <= hi
  <2> HIDE DEF new
  <2>1. new = Apply(fs, records)
    BY DEF new
  <2> QED
    BY <1>1, <2>1, AppliedValid
<1> HIDE DEF new
<1>3. Within(new, hi)
  BY <1>2 DEF Within
<1> QED
  BY <1>3 DEF new

LEMMA PutAlike ==
  ASSUME NEW e, NEW i \in Nat, NEW cell, IsPut(e, i, cell), NEW hi \in Nat, hi < i
  PROVE  Alike(data, e, hi)
<1> SUFFICES ASSUME NEW j \in Nat, j <= hi
             PROVE  (j \in DOMAIN data <=> j \in DOMAIN e) /\ (j \in DOMAIN data => data[j] = e[j])
  BY DEF Alike
<1>1. j # i
  OBVIOUS
<1> QED
  BY <1>1 DEF IsPut

LEMMA Stays ==
  ASSUME StoreInv, StoreInv', NEW w, NEW v, LaidAt(w), LaidAt(v)',
         data'[Latest'].frames = data[Latest].frames, data'[Latest'].gen = data[Latest].gen,
         Pending(v)' = Pending(w), NEW hi, Alike(data, data', hi),
         Within(Apply(data[Latest].frames, Pending(w)), hi), Within(data[Latest].frames, hi)
  PROVE  UNCHANGED OnDisk!durable
<1> DEFINE fs == data[Latest].frames
           all == Apply(fs, Pending(w))
<1>1. Shows(w)
  BY ReadShows DEF ShowsAll
<1>2. Shows(v)'
  <2>1. ShowsAll'
    BY ReadShows, PTL
  <2> QED
    BY <2>1 DEF ShowsAll
<1>3. /\ Content = ViewIn(data, all) /\ PublishedView = ViewIn(data, fs)
      /\ Loaded.gen = data[Latest].gen /\ fs \in Seq(Frame) /\ Pending(w) \in Seq(Record)
  BY <1>1 DEF Shows
<1>4. /\ Content' = ViewIn(data', all) /\ PublishedView' = ViewIn(data', fs)
      /\ Loaded'.gen = data[Latest].gen
  BY <1>2 DEF Shows
<1>5. all \in Seq(Frame)
  BY <1>3, ApplyFacts
<1>6. ViewIn(data', all) = ViewIn(data, all) /\ ViewIn(data', fs) = ViewIn(data, fs)
  <2> HIDE DEF all, fs
  <2>1. Within(all, hi) /\ Within(fs, hi)
    BY DEF all, fs
  <2> QED
    BY <1>3, <1>5, <2>1, SameView
<1> QED
  BY <1>3, <1>4, <1>6, MapStutter

\* The ring is read as before, and what it names is still in the file.
LEMMA Moved ==
  ASSUME StoreInv, StoreInv', NEW w, LaidAt(w), LaidAt(w)', ring' = ring, pageA' = pageA,
         Latest' = Latest, data'[Latest] = data[Latest],
         NEW hi \in Nat, Latest <= hi, Alike(data, data', hi),
         Within(Apply(data[Latest].frames, Pending(w)), hi)
  PROVE  UNCHANGED OnDisk!durable
<1>1. Pending(w)' = Pending(w)
  BY SameRing DEF Pending
<1>2. Within(data[Latest].frames, hi)
  <2>1. Latest \in Nat /\ RangesValid(data[Latest].frames, Latest) /\ data[Latest].frames \in Seq(Frame)
    BY StoreFacts DEF IsLatest
  <2> DEFINE fs == data[Latest].frames
             l == Latest
  <2> HIDE DEF fs, l
  <2>2. fs \in Seq(Frame) /\ l \in Nat /\ l <= hi + 1 /\ RangesValid(fs, l)
    BY <2>1 DEF fs, l
  <2>3. Within(fs, hi)
    BY <2>2, RangesWithin
  <2> QED
    BY <2>3 DEF fs
<1> QED
  BY <1>1, <1>2, Stays

\* What the ring names is in the file.
LEMMA PendingWithin ==
  ASSUME StoreInv, NEW w, LaidAt(w)
  PROVE  /\ Within(Apply(data[Latest].frames, Pending(w)), Len(data))
         /\ Latest \in Nat /\ Latest <= Len(data) /\ Len(data) \in Nat
<1>1. Shows(w)
  BY ReadShows DEF ShowsAll
<1>2. Latest \in Nat /\ Latest <= Len(data) /\ Len(data) \in Nat
  BY StoreFacts
<1> DEFINE fs == data[Latest].frames
           q == Pending(w)
           c == data[Latest].cseq
           lo == Latest
           hi == Len(data)
<1>3. fs \in Seq(Frame) /\ q \in Seq(Record) /\ IsCache(q, c, lo, hi) /\ RangesValid(fs, lo)
  BY <1>1 DEF Shows
<1>4. lo \in Nat /\ hi \in Nat /\ lo <= hi
  BY <1>2
<1> HIDE DEF fs, q, c, lo, hi
<1>5. Within(Apply(fs, q), hi)
  BY <1>3, <1>4, CacheWithin
<1> QED
  BY <1>2, <1>5 DEF fs, q, hi

LEMMA FileStays ==
  ASSUME StoreInv, StoreInv', ring' = ring, pageA' = pageA, data' = data
  PROVE  UNCHANGED OnDisk!durable
<1>1. PICK w : LaidAt(w)
  BY DEF StoreInv, FileInv
<1>2. Latest' = Latest /\ WalSlots' = WalSlots
  BY SameData, SameRing
<1>3. LaidAt(w)'
  BY <1>1, <1>2 DEF LaidAt
<1>4. Alike(data, data', Len(data))
  BY DEF Alike
<1>5. /\ Within(Apply(data[Latest].frames, Pending(w)), Len(data))
      /\ Latest <= Len(data) /\ Len(data) \in Nat
  BY <1>1, PendingWithin
<1> QED
  BY <1>1, <1>2, <1>3, <1>4, <1>5, Moved

\* Payloads behind the file's end, whether or not their records follow.
LEMMA PayloadsUnseen ==
  ASSUME StoreInv, StoreInv', Ready, NEW lens \in Seq(Nat), WritePayloads(lens)
  PROVE  UNCHANGED OnDisk!durable
<1>1. PayloadsWritten(lens)
  BY PayloadsKeep
<1>2. PICK w : w = mem.wpos
  OBVIOUS
<1>3. /\ LaidAt(w) /\ LaidAt(w)' /\ ring' = ring /\ pageA' = pageA /\ Latest' = Latest
      /\ data'[Latest] = data[Latest]
  BY <1>1, <1>2 DEF PayloadsWritten, LaidAt
<1>4. /\ Within(Apply(data[Latest].frames, Pending(w)), Len(data))
      /\ Latest <= Len(data) /\ Len(data) \in Nat
  BY <1>3, PendingWithin
<1>5. Alike(data, data', Len(data))
  <2>1. data \in Seq(Cell) /\ FileTyped /\ mem.last \in Nat
    BY StoreFacts DEF Ready, Running, Mem
  <2>2. data' = data \o PayloadCells(lens)
    BY DEF WritePayloads, LeavePayloads
  <2>3. /\ data' \in Seq(Cell)
        /\ \A i \in DOMAIN data : i \in DOMAIN data' /\ data'[i] = data[i]
    BY <2>1, <2>2, PayloadsAppend
  <2>4. \A i \in Nat : i <= Len(data) /\ i \in DOMAIN data' => i \in DOMAIN data
    BY <2>1, <2>3
  <2> QED
    BY <2>3, <2>4 DEF Alike
<1> QED
  BY <1>3, <1>4, <1>5, Moved

\* A table of contents is written behind all that frames name.
LEMMA TocUnseen ==
  ASSUME StoreInv, StoreInv', Match, PlanApplied, WriteToc
  PROVE  UNCHANGED OnDisk!durable
<1>1. /\ stage = "toc" /\ stage' = "footer" /\ mem' = mem /\ ring' = ring /\ pageA' = pageA
      /\ data' = PutCell(plan.at, TocCell(plan.frames))
  BY DEF WriteToc
<1>2. Running /\ Running' /\ Settled /\ stage \in CommitStages
  <2>1. Running /\ Running' /\ stage \in CommitStages
    BY <1>1 DEF Running, CommitStages
  <2>2. Settled
    BY <1>1, Zenon DEF Settled
  <2> QED
    BY <2>1, <2>2
<1>3. MemMatch /\ PlanInv /\ UpToDate /\ UpToDate' /\ plan \in Plan /\ LaidAt(mem.wpos)
      /\ LaidAt(mem.wpos)'
  BY <1>1, <1>2 DEF Match, StoreInv, TypeOK, MemInv
<1>4. /\ plan.at > Latest /\ plan.at <= Len(data) + 1 /\ mem.foff = Latest /\ Latest' = Latest
      /\ plan.at \in Nat /\ plan.frames \in Seq(Frame)
  BY <1>1, <1>3 DEF PlanInv, UpToDate, Plan
<1>5. data \in Seq(Cell) /\ Latest \in Nat
  BY StoreFacts
<1>6. IsPut(data', plan.at, TocCell(plan.frames))
  <2>1. TocCell(plan.frames) \in Cell
    BY <1>4 DEF TocCell, Cell
  <2> QED
    BY <1>1, <1>4, <1>5, <2>1, PutCellFacts
<1>7. PICK w : w = mem.wpos
  OBVIOUS
<1>8. LaidAt(w) /\ LaidAt(w)'
  BY <1>1, <1>3, <1>7 DEF LaidAt
<1>9. PICK hi : hi = plan.at - 1
  OBVIOUS
<1>10. hi \in Nat /\ Latest <= hi /\ hi < plan.at
  BY <1>4, <1>5, <1>9
<1>11. plan.frames = Apply(data[Latest].frames, Pending(w))
  <2>1. mem.cache = Pending(w)
    BY <1>2, <1>3, <1>7 DEF MemMatch, Agrees, Pending
  <2> QED
    BY <1>1, <1>3, <1>4, <2>1 DEF PlanApplied, MemMatch
<1>12. Within(plan.frames, hi)
  <2>1. RangesValid(plan.frames, plan.at)
    BY <1>3 DEF PlanInv
  <2> DEFINE fs == plan.frames
             lo == plan.at
  <2> HIDE DEF fs, lo
  <2>2. fs \in Seq(Frame) /\ lo \in Nat /\ lo <= hi + 1 /\ RangesValid(fs, lo)
    BY <1>4, <1>9, <2>1 DEF fs, lo
  <2>3. Within(fs, hi)
    BY <1>10, <2>2, RangesWithin
  <2> QED
    BY <2>3 DEF fs
<1>13. Alike(data, data', hi)
  BY <1>4, <1>6, <1>10, PutAlike
<1>14. data'[Latest] = data[Latest]
  <2>1. Latest \in DOMAIN data /\ Latest # plan.at
    BY <1>4, <1>5, StoreFacts
  <2> QED
    BY <1>6, <2>1 DEF IsPut
<1> QED
  BY <1>1, <1>4, <1>8, <1>10, <1>11, <1>12, <1>13, <1>14, Moved

\* Once a footer is written, no record of the process is pending behind it.
FooterWritten == stage \in {"resize", "pageA", "pageB", "finish"}
NothingPending == Pending(mem.wpos) = <<>>

LEMMA NonePending == StoreInv /\ FooterWritten => NothingPending
<1> SUFFICES ASSUME StoreInv, stage \in {"resize", "pageA", "pageB", "finish"}
             PROVE  Pending(mem.wpos) = <<>>
  BY DEF FooterWritten, NothingPending
<1>1. data[Latest].cseq = plan.cseq /\ plan.cseq \in Nat /\ mem.last <= plan.cseq
  BY Published
<1>2. Running
  BY DEF Running
<1> QED
  BY <1>1, <1>2, AllPublished DEF Pending

LEMMA ResizeUnseen ==
  ASSUME StoreInv, StoreInv', Resize
  PROVE  UNCHANGED OnDisk!durable
<1>1. /\ stage = "resize" /\ stage' = "pageA" /\ mem' = mem /\ ring' = ring /\ pageA' = pageA
      /\ data' = SubSeq(data, 1, plan.at + 1) /\ plan' = plan
  BY DEF Resize, call
<1>2. /\ Latest = plan.at + 1 /\ Latest \in 1 .. Len(data) /\ data \in Seq(Cell) /\ MemInv
  BY <1>1, Published
<1>3. MemInv' /\ PlanInv'
  BY <1>1 DEF StoreInv, Running, CommitStages
<1>4. Latest' = Latest
  BY <1>1, <1>2, <1>3 DEF PlanInv
<1>5. PICK w : w = mem.wpos
  OBVIOUS
<1>6. LaidAt(w) /\ LaidAt(w)'
  BY <1>1, <1>2, <1>3, <1>5 DEF MemInv, LaidAt
<1>7. Pending(w) = <<>>
  BY <1>1, <1>5, NonePending DEF FooterWritten, NothingPending
<1>8. data[Latest].frames \in Seq(Frame) /\ RangesValid(data[Latest].frames, Latest)
  BY StoreFacts DEF IsLatest
<1>9. Within(Apply(data[Latest].frames, Pending(w)), Latest)
  <2> DEFINE fs == data[Latest].frames
             l == Latest
  <2>1. fs \in Seq(Frame) /\ RangesValid(fs, l) /\ l \in Nat /\ l <= l + 1
    BY <1>2, <1>8
  <2>2. Apply(fs, Pending(w)) = fs
    BY <1>7, <2>1, ApplyNone
  <2> HIDE DEF fs, l
  <2>3. Within(fs, l)
    BY <2>1, RangesWithin
  <2> QED
    BY <2>2, <2>3 DEF fs, l
<1>10. PICK l \in Nat : l = Latest
  BY <1>2
<1>11. \A i \in 1 .. l : i \in DOMAIN data /\ i \in DOMAIN data' /\ data'[i] = data[i]
  BY <1>1, <1>2, <1>10
<1>12. data' \in Seq(Cell) /\ l \in 1 .. l
  BY <1>1, <1>2, <1>10
<1>13. Alike(data, data', l)
  <2> SUFFICES ASSUME NEW i \in Nat, i <= l
               PROVE  (i \in DOMAIN data <=> i \in DOMAIN data')
                        /\ (i \in DOMAIN data => data[i] = data'[i])
    BY DEF Alike
  <2>1. CASE i = 0
    BY <1>2, <1>12, <2>1
  <2>2. CASE i # 0
    <3>1. i \in 1 .. l
      BY <2>2
    <3> QED
      BY <1>11, <3>1
  <2> QED
    BY <2>1, <2>2
<1>14. data'[Latest] = data[Latest]
  BY <1>10, <1>11, <1>12
<1>15. l <= l /\ Latest <= l
  BY <1>10
<1> QED
  BY <1>1, <1>4, <1>6, <1>9, <1>10, <1>13, <1>14, <1>15, Moved

LEMMA PageAUnseen ==
  ASSUME StoreInv, StoreInv', WritePageA
  PROVE  UNCHANGED OnDisk!durable
<1>1. /\ stage = "pageA" /\ stage' = "pageB" /\ mem' = mem /\ ring' = ring /\ data' = data
      /\ plan' = plan
  BY DEF WritePageA, call
<1>2. MemInv /\ MemInv' /\ Latest' = Latest
  BY <1>1, SameData DEF StoreInv, Running, CommitStages
<1>3. PICK w : w = mem.wpos
  OBVIOUS
<1>4. LaidAt(w) /\ LaidAt(w)'
  BY <1>1, <1>2, <1>3 DEF MemInv, LaidAt
<1>5. Pending(w) = <<>> /\ Pending(w)' = <<>>
  <2>1. Pending(mem.wpos) = <<>>
    BY <1>1, NonePending DEF FooterWritten, NothingPending
  <2>2. Pending(mem.wpos)' = <<>>
    <3>1. FooterWritten'
      BY <1>1 DEF FooterWritten
    <3>2. NothingPending'
      BY <3>1, NonePending, PTL
    <3> QED
      BY <3>2 DEF NothingPending
  <2>3. Pending(w)' = Pending(mem.wpos)'
    BY <1>1, <1>3 DEF Pending
  <2> QED
    BY <1>3, <2>1, <2>2, <2>3
<1>6. PICK hi : hi = Len(data)
  OBVIOUS
<1>7. Within(Apply(data[Latest].frames, Pending(w)), hi) /\ Latest \in Nat /\ Latest <= hi /\ hi \in Nat
  BY <1>4, <1>6, PendingWithin
<1>8. Within(data[Latest].frames, hi)
  <2>1. Apply(data[Latest].frames, Pending(w)) = data[Latest].frames
    BY <1>5, StoreFacts, ApplyNone
  <2> QED
    BY <1>7, <2>1
<1>9. Alike(data, data', hi)
  BY <1>1 DEF Alike
<1> QED
  BY <1>1, <1>2, <1>4, <1>5, <1>7, <1>8, <1>9, Stays

\* Open cuts off what neither the footer nor a pending record names.
LEMMA OpenUnseen ==
  ASSUME StoreInv, StoreInv', Open
  PROVE  UNCHANGED OnDisk!durable
<1>1. /\ stage' = "idle" /\ ring' = ring /\ pageA' = pageA
      /\ data' = SubSeq(data, 1, RequiredEnd) /\ mem' = Loaded /\ ~failed'
  <2>1. failed' = failed /\ (failed => stage = "idle")
    BY DEF Open, StoreInv, TypeOK
  <2> QED
    BY <2>1 DEF Open
<1>2. PICK w : LaidAt(w)
  BY DEF StoreInv, FileInv
<1>3. Shows(w)
  BY <1>2, ReadShows DEF ShowsAll
<1>4. MemInv' /\ UpToDate'
  BY <1>1 DEF StoreInv, MemInv, Running
<1>5. Latest' = Latest /\ LaidAt(w)'
  <2>1. mem'.wpos = w /\ mem'.foff = Latest
    BY <1>1, <1>3 DEF Shows
  <2> QED
    BY <1>4, <2>1 DEF MemInv, UpToDate, LaidAt
<1>6. PICK e : e = RequiredEnd
  OBVIOUS
<1>7. /\ data \in Seq(Cell) /\ Len(data) \in Nat /\ Latest \in 1 .. Len(data)
      /\ e \in Nat /\ Latest <= e /\ e <= Len(data) /\ e > 0
      /\ IsCache(Loaded.cache, data[Latest].cseq, Latest, e)
  <2>1. FileTyped /\ FileInv
    BY DEF StoreInv, TypeOK
  <2>2. e \in Latest .. Len(data) /\ IsCache(Loaded.cache, data[Latest].cseq, Latest, e)
    BY <1>6, <2>1, RequiredEndFacts
  <2>3. data \in Seq(Cell) /\ Len(data) \in Nat /\ Latest \in 1 .. Len(data)
    BY StoreFacts
  <2> QED
    BY <2>2, <2>3
<1>8. data' = SubSeq(data, 1, e)
  BY <1>1, <1>6
<1>9. /\ data' \in Seq(Cell) /\ Len(data') = e
      /\ \A i \in 1 .. e : i \in DOMAIN data /\ i \in DOMAIN data' /\ data'[i] = data[i]
  BY <1>7, <1>8
<1>10. Alike(data, data', e)
  <2> SUFFICES ASSUME NEW i \in Nat, i <= e
               PROVE  (i \in DOMAIN data <=> i \in DOMAIN data')
                        /\ (i \in DOMAIN data => data[i] = data'[i])
    BY DEF Alike
  <2>1. CASE i = 0
    BY <1>7, <1>9, <2>1
  <2>2. CASE i # 0
    <3>1. i \in 1 .. e
      BY <2>2
    <3> QED
      BY <1>9, <3>1
  <2> QED
    BY <2>1, <2>2
<1>11. data'[Latest] = data[Latest]
  <2>1. Latest \in 1 .. e
    BY <1>7
  <2> QED
    BY <1>9, <2>1
<1>12. Within(Apply(data[Latest].frames, Pending(w)), e)
  <2> DEFINE fs == data[Latest].frames
             q == Pending(w)
             c == data[Latest].cseq
             lo == Latest
  <2>1. fs \in Seq(Frame) /\ q \in Seq(Record) /\ RangesValid(fs, lo) /\ IsCache(q, c, lo, e)
        /\ lo \in Nat /\ lo <= e
    BY <1>3, <1>7 DEF Shows
  <2> HIDE DEF fs, q, c, lo
  <2>2. Within(Apply(fs, q), e)
    BY <1>7, <2>1, CacheWithin
  <2> QED
    BY <2>2 DEF fs, q
<1> QED
  BY <1>1, <1>2, <1>5, <1>7, <1>10, <1>11, <1>12, Moved

-----------------------------------------------------------------------------
(* Steps that the durable store takes.                                      *)

\* What a process knows is what its file shows.
SettledView ==
  /\ Content = ViewIn(data, Apply(mem.frames, mem.cache))
  /\ PublishedView = ViewIn(data, mem.frames)
  /\ Loaded.gen = mem.gen
  /\ mem.frames = data[Latest].frames
  /\ mem.cache = Pending(mem.wpos)

LEMMA SettledShows == MatchInv /\ Settled => SettledView
<1> SUFFICES ASSUME MatchInv, Settled
             PROVE  SettledView
  OBVIOUS
<1>1. StoreInv /\ Running
  BY DEF MatchInv, Running, Settled
<1>2. MemMatch /\ mem \in Mem /\ MemInv /\ LaidAt(mem.wpos)
  BY <1>1, StoreFacts DEF MatchInv, StoreInv
<1>3. UpToDate
  <2>1. CASE stage \in {"append", "toc", "footer"}
    BY <1>2, <2>1 DEF MemInv
  <2>2. CASE stage = "idle" /\ data[Latest].gen = mem.gen
    <3>1. mem.gen \in Nat
      BY <1>2 DEF Mem
    <3>2. ~(data[Latest].gen > mem.gen)
      BY <2>2, <3>1
    <3> QED
      BY <1>2, <2>2, <3>2 DEF MemInv
  <2> QED
    BY <2>1, <2>2 DEF Settled
<1>4. mem.foff = Latest /\ mem.gen = data[Latest].gen
  BY <1>3 DEF UpToDate
<1>5. mem.frames = data[Latest].frames /\ mem.cache = Pending(mem.wpos)
  BY <1>2, <1>4 DEF MemMatch, Agrees, Pending
<1>6. PICK w : w = mem.wpos
  OBVIOUS
<1>7. Shows(w)
  <2>1. LaidAt(w)
    BY <1>2, <1>6
  <2> QED
    BY <1>1, <2>1, ReadShows DEF ShowsAll
<1>8. Content = ViewIn(data, Apply(data[Latest].frames, Pending(w)))
      /\ PublishedView = ViewIn(data, data[Latest].frames) /\ Loaded.gen = data[Latest].gen
  BY <1>7 DEF Shows
<1> QED
  BY <1>4, <1>5, <1>6, <1>8 DEF SettledView

\* A footer publishes all that has been acknowledged.
LEMMA FooterPublishes ==
  ASSUME MatchInv, StoreInv', PlanApplied, WriteFooter
  PROVE  OnDisk!Publish
<1>1. /\ stage = "footer" /\ stage' = "resize" /\ mem' = mem /\ ring' = ring /\ pageA' = pageA
      /\ data' = PutCell(plan.at + 1, FooterCell(plan.gen, plan.cseq, plan.frames))
      /\ plan' = plan
  BY DEF WriteFooter, call
<1>2. Running /\ Running' /\ stage \in CommitStages /\ stage' \in CommitStages /\ Settled
  <2>1. Running /\ Running' /\ stage \in CommitStages /\ stage' \in CommitStages
    BY <1>1 DEF Running, CommitStages
  <2>2. Settled
    BY <1>1, Zenon DEF Settled
  <2> QED
    BY <2>1, <2>2
<1>3. StoreInv /\ PlanInv /\ PlanInv' /\ MemInv /\ MemInv' /\ plan \in Plan /\ UpToDate
  BY <1>1, <1>2 DEF MatchInv, StoreInv, TypeOK, MemInv
<1>4. SettledView
  BY <1>2, SettledShows
<1>5. Content = ViewIn(data, plan.frames) /\ Loaded.gen = mem.gen
  BY <1>1, <1>4 DEF SettledView, PlanApplied
<1>6. /\ Latest' = plan.at + 1 /\ data'[Latest'] = FooterCell(plan.gen, plan.cseq, plan.frames)
      /\ plan.gen = mem.gen + 1
  BY <1>1, <1>3 DEF PlanInv
<1>7. data'[Latest'].frames = plan.frames /\ data'[Latest'].gen = mem.gen + 1
  BY <1>6 DEF FooterCell
<1>8. PICK w : w = mem.wpos
  OBVIOUS
<1>9. Shows(w)'
  <2>1. ShowsAll'
    BY <1>3, ReadShows, PTL
  <2>2. LaidAt(w)'
    BY <1>1, <1>3, <1>8 DEF MemInv, LaidAt
  <2> QED
    BY <2>1, <2>2 DEF ShowsAll
<1>10. Pending(w)' = <<>>
  <2>1. Pending(mem.wpos)' = <<>>
    <3>1. FooterWritten'
      BY <1>1 DEF FooterWritten
    <3>2. NothingPending'
      BY <1>3, <3>1, NonePending, PTL
    <3> QED
      BY <3>2 DEF NothingPending
  <2> QED
    BY <1>1, <1>8, <2>1 DEF Pending
<1>11. plan.frames \in Seq(Frame) /\ plan.at \in Nat
  BY <1>3 DEF Plan
<1>12. /\ Content' = ViewIn(data', plan.frames) /\ PublishedView' = ViewIn(data', plan.frames)
       /\ Loaded'.gen = mem.gen + 1
  <2>1. /\ Content' = ViewIn(data', Apply(data'[Latest'].frames, Pending(w)'))
        /\ PublishedView' = ViewIn(data', data'[Latest'].frames)
        /\ Loaded'.gen = data'[Latest'].gen
    BY <1>9 DEF Shows
  <2>2. Apply(plan.frames, <<>>) = plan.frames
    BY <1>11, ApplyNone
  <2> QED
    BY <1>7, <1>10, <2>1, <2>2
<1>13. ViewIn(data', plan.frames) = ViewIn(data, plan.frames)
  <2> DEFINE fs == plan.frames
             at == plan.at
             k == plan.at + 1
             cell == FooterCell(plan.gen, plan.cseq, plan.frames)
  <2>1. cell \in Cell
    BY <1>3 DEF FooterCell, Cell, Plan
  <2>2. /\ data \in Seq(Cell) /\ k \in Nat /\ k > 0 /\ k <= Len(data) + 1 /\ at \in Nat /\ at < k
        /\ data' = PutCell(k, cell) /\ RangesValid(fs, at) /\ fs \in Seq(Frame) /\ at <= at + 1
    <3>1. plan.at <= Len(data) /\ RangesValid(plan.frames, plan.at)
      BY <1>1, <1>3 DEF PlanInv
    <3>2. data \in Seq(Cell) /\ Len(data) \in Nat
      BY <1>3, StoreFacts
    <3> QED
      BY <1>1, <1>11, <3>1, <3>2
  <2> HIDE DEF fs, at, k, cell
  <2>3. IsPut(data', k, cell)
    BY <2>1, <2>2, PutCellFacts
  <2>4. Alike(data, data', at)
    BY <2>2, <2>3, PutAlike
  <2>5. Within(fs, at)
    BY <2>2, RangesWithin
  <2>6. ViewIn(data', fs) = ViewIn(data, fs)
    BY <2>2, <2>4, <2>5, SameView
  <2> QED
    BY <2>6 DEF fs
<1>14. /\ Content' = Content /\ PublishedView' = Content /\ Loaded'.gen = Loaded.gen + 1
  BY <1>5, <1>12, <1>13
<1> QED
  BY <1>14, MapPublish

\* What the file shows when the process has appended m.
Shown(m) ==
  /\ m.kind = "put" => Content' = Append(Content, [bytes |-> ReadIn(data, m), deleted |-> FALSE])
  /\ m.kind = "delete" =>
       /\ m.id + 1 \in DOMAIN Content
       /\ Content' = [Content EXCEPT ![m.id + 1].deleted = TRUE]
  /\ m.kind = "embedding" => Content' = Content
  /\ PublishedView' = PublishedView
  /\ Loaded'.gen = Loaded.gen

LEMMA AppendShows ==
  ASSUME MatchInv, MatchInv', Settled, Settled', NEW m \in Mutation, AppendRecord(m),
         Suits(m, mem.next_id), data' = data
  PROVE  Shown(m)
<1> DEFINE r == [seq |-> mem.last + 1, m |-> m]
           fs == mem.frames
           q == mem.cache
           old == Apply(fs, q)
           new == Apply(fs, Append(q, r))
<1>1. StoreInv /\ Running /\ MemMatch /\ mem \in Mem
  <2>1. StoreInv /\ Running /\ MemMatch
    BY DEF MatchInv, Running, Settled
  <2> QED
    BY <2>1, StoreFacts
<1>2. SettledView
  BY SettledShows
<1>3. SettledView'
  BY SettledShows, PTL
<1>4. mem'.frames = fs /\ mem'.cache = Append(q, r) /\ mem'.gen = mem.gen
  BY <1>1 DEF AppendRecord, Mem
<1>5. /\ Content = ViewIn(data, old) /\ PublishedView = ViewIn(data, fs) /\ Loaded.gen = mem.gen
      /\ Content' = ViewIn(data, new) /\ PublishedView' = ViewIn(data, fs)
      /\ Loaded'.gen = mem.gen
  BY <1>2, <1>3, <1>4 DEF SettledView
<1>6. r \in Record /\ r.m = m /\ fs \in Seq(Frame) /\ q \in Seq(Record)
  BY <1>1 DEF Record, Mem
<1>7. Fits(fs, q) /\ Suits(r.m, NextPlace(fs, q))
  BY <1>1, <1>6 DEF MemMatch
<1> HIDE DEF r, fs, q
<1>8. Extends(new, old, m) /\ old \in Seq(Frame)
  <2>1. Extends(Apply(fs, Append(q, r)), Apply(fs, q), r.m)
    BY <1>6, <1>7, ApplyAppend
  <2> QED
    BY <1>6, <2>1, ApplyFacts
<1> HIDE DEF new, old
<1>9. CASE m.kind = "put"
  <2>1. new = Append(old, NewFrame(m))
    BY <1>8, <1>9 DEF Extends
  <2>2. ViewIn(data, new) = Append(ViewIn(data, old), [bytes |-> ReadIn(data, m), deleted |-> FALSE])
    BY <1>8, <2>1, ViewPut
  <2> QED
    BY <1>5, <1>9, <2>2 DEF Shown
<1>10. CASE m.kind = "delete"
  <2> DEFINE k == m.id + 1
  <2>1. k \in DOMAIN old /\ new = [old EXCEPT ![k].deleted = TRUE]
    BY <1>8, <1>10 DEF Extends
  <2> HIDE DEF k
  <2>2. /\ k \in DOMAIN ViewIn(data, old)
        /\ ViewIn(data, new) = [ViewIn(data, old) EXCEPT ![k].deleted = TRUE]
    BY <1>8, <2>1, ViewDelete
  <2>3. k \in DOMAIN Content /\ Content' = [Content EXCEPT ![k].deleted = TRUE]
    BY <1>5, <2>2
  <2> QED
    BY <1>5, <1>10, <2>3 DEF Shown, k
<1>11. CASE m.kind = "embedding"
  <2>1. new = old
    BY <1>8, <1>11 DEF Extends
  <2> QED
    BY <1>5, <1>11, <2>1 DEF Shown
<1>12. m.kind \in {"put", "delete", "embedding"}
  BY DEF Mutation, PutMutation
<1> QED
  BY <1>9, <1>10, <1>11, <1>12

\* A step of the durable store.
DurableStep == [OnDisk!Next]_(OnDisk!durable)

LEMMA ShownSteps ==
  ASSUME NEW m \in Mutation, Shown(m), m.kind = "put" => ReadIn(data, m) \in Bytes
  PROVE  DurableStep
<1>1. CASE m.kind = "put"
  <2> DEFINE b == ReadIn(data, m)
  <2>1. /\ Content' = Append(Content, [bytes |-> b, deleted |-> FALSE])
        /\ PublishedView' = PublishedView /\ Loaded'.gen = Loaded.gen
    BY <1>1 DEF Shown
  <2>2. b \in Bytes
    BY <1>1
  <2>3. PICK x \in Bytes : x = b
    BY <2>2
  <2> HIDE DEF b
  <2>4. OnDisk!Put(x)
    BY <2>1, <2>3, MapPut
  <2> QED
    BY <2>4 DEF DurableStep, OnDisk!Next
<1>2. CASE m.kind = "delete"
  <2> DEFINE k == m.id + 1
  <2>1. /\ k \in DOMAIN Content /\ Content' = [Content EXCEPT ![k].deleted = TRUE]
        /\ PublishedView' = PublishedView /\ Loaded'.gen = Loaded.gen
    BY <1>2 DEF Shown
  <2> HIDE DEF k
  <2>2. OnDisk!Delete(k)
    BY <2>1, MapDelete
  <2>3. Once({View(fs) : fs \in {Apply(l.frames, l.cache) : l \in {Loaded}}}) = Content
    BY OnceIs DEF Content
  <2>4. OnDisk!Next
    BY <2>1, <2>2, <2>3 DEF OnDisk!Next
  <2> QED
    BY <2>4 DEF DurableStep
<1>3. CASE m.kind = "embedding"
  <2>1. Content' = Content /\ PublishedView' = PublishedView /\ Loaded'.gen = Loaded.gen
    BY <1>3 DEF Shown
  <2>2. UNCHANGED OnDisk!durable
    BY <2>1, MapStutter
  <2> QED
    BY <2>2 DEF DurableStep
<1>4. m.kind \in {"put", "delete", "embedding"}
  BY DEF Mutation, PutMutation
<1> QED
  BY <1>1, <1>2, <1>3, <1>4

\* A process that has nothing else to do, and no Commit behind it that threw, is settled.
LEMMA IdleSettled == StoreInv /\ stage = "idle" /\ ~failed => Settled
<1> SUFFICES ASSUME StoreInv, stage = "idle", ~failed
             PROVE  Settled
  OBVIOUS
<1>1. UpToDate
  BY DEF StoreInv, MemInv, Running
<1>2. data[Latest].gen = mem.gen
  BY <1>1 DEF UpToDate
<1> QED
  BY <1>2 DEF Settled

LEMMA AppendNextSteps ==
  ASSUME DurableInv, MatchInv', AppendNext
  PROVE  DurableStep
<1> DEFINE m == Head(todo)
<1>1. /\ stage = "append" /\ AppendRecord(m) /\ stage' \in {"idle", "append"} /\ data' = data
      /\ failed' = failed
  BY DEF AppendNext
<1>2. MatchInv /\ StoreInv /\ TodoWritten /\ Running
  BY <1>1 DEF DurableInv, MatchInv, Running
<1>3. todo \in Seq(PutMutation) /\ todo # <<>> /\ ~failed
  BY <1>1, <1>2 DEF StoreInv, TypeOK
<1>4. 1 \in DOMAIN todo /\ m = todo[1] /\ m \in PutMutation /\ m \in Mutation
  BY <1>3 DEF Mutation
<1>5. MemMatch /\ mem \in Mem
  BY <1>2, StoreFacts DEF MatchInv
<1> HIDE DEF m
<1>6. Settled
  BY <1>1, Zenon DEF Settled
<1>7. Settled'
  <2>1. CASE stage' = "append"
    BY <2>1, Zenon DEF Settled
  <2>2. CASE stage' = "idle"
    <3>1. StoreInv' /\ (stage = "idle")' /\ (~failed)'
      BY <1>1, <1>3, <2>2 DEF MatchInv
    <3> QED
      BY <3>1, IdleSettled, PTL
  <2> QED
    BY <1>1, <2>1, <2>2
<1>8. Suits(m, mem.next_id)
  <2>1. m.id = mem.next_id + 1 - 1
    BY <1>4, <1>5 DEF MemMatch
  <2>2. mem.next_id \in Nat /\ m.kind = "put"
    BY <1>4, <1>5 DEF Mem, PutMutation
  <2> QED
    BY <2>1, <2>2 DEF Suits
<1>9. ReadIn(data, m) \in Bytes
  BY <1>2, <1>4 DEF TodoWritten
<1>10. Shown(m)
  BY <1>1, <1>2, <1>4, <1>6, <1>7, <1>8, AppendShows
<1> QED
  BY <1>4, <1>9, <1>10, ShownSteps

\* Delete and PutEmbedding.
LEMMA MutationSteps ==
  ASSUME MatchInv, MatchInv', Ready, NEW m \in Mutation, AppendRecord(m), m.kind # "put",
         m.kind = "delete" => m.id < mem.next_id,
         UNCHANGED <<data, pageA, pageB, stage, call, failed>>
  PROVE  DurableStep
<1>1. StoreInv /\ StoreInv' /\ Match
  BY DEF MatchInv, Match
<1>2. Settled /\ stage = "idle" /\ ~failed
  BY <1>1, ReadyFacts DEF Ready
<1>3. Settled'
  <2>1. (stage = "idle")' /\ (~failed)'
    BY <1>2
  <2> QED
    BY <1>1, <2>1, IdleSettled, PTL
<1>4. Suits(m, mem.next_id)
  BY DEF Suits, Mutation, PutMutation
<1>5. Shown(m)
  BY <1>2, <1>3, <1>4, AppendShows
<1> QED
  BY <1>5, ShownSteps

-----------------------------------------------------------------------------
(* The refinement.                                                          *)

\* Create leaves a file without frames.
LEMMA InitDurable ==
  ASSUME Init
  PROVE  DurableInv /\ OnDisk!Init
<1>1. StoreInv /\ Match
  BY InitStore, InitMatch
<1>2. /\ data = <<TocCell(<<>>), FooterCell(0, 0, <<>>)>> /\ stage = "idle" /\ mem = Loaded
      /\ todo = <<>> /\ ~failed
  BY DEF Init
<1>3. DurableInv
  BY <1>1, <1>2 DEF DurableInv, MatchInv, Match, TodoWritten, PlanApplied
<1>4. SettledView
  BY <1>1, <1>2, <1>3, SettledShows, IdleSettled DEF DurableInv
<1>5. data[Latest].frames = <<>> /\ data[Latest].gen = 0
  <2>1. Latest \in 1 .. 2 /\ data[Latest].kind = "footer"
    <3>1. IsLatest(data, Latest) /\ Latest \in 1 .. Len(data)
      BY <1>1, StoreFacts
    <3> QED
      BY <1>2, <3>1 DEF IsLatest, FooterIn
  <2>2. data[1].kind # "footer"
    BY <1>2 DEF TocCell
  <2>3. Latest = 2
    BY <2>1, <2>2
  <2> QED
    BY <1>2, <2>3 DEF FooterCell
<1>6. mem.cache = <<>>
  <2>1. PICK w : LaidAt(w)
    BY <1>1 DEF StoreInv, FileInv
  <2>2. IsReopened(mem, w)
    BY <1>1, <1>2, <2>1, StoreFacts, LoadedFacts
  <2> DEFINE q == mem.cache
             n == WalSlots
  <2>3. q \in Seq(Record)
    BY <2>2 DEF IsReopened, Mem
  <2>4. \A i \in DOMAIN q : \E k \in 0 .. n - 1 : q[i] = ring[k]
    BY <2>2 DEF IsReopened, FromRing
  <2>5. \A k \in 0 .. n - 1 : ring[k] = Blank
    <3>1. PICK l \in RingSizes : ring = [i \in 0 .. l - 1 |-> Blank]
      BY DEF Init
    <3>2. Slots = 0 .. l - 1 /\ Slots = 0 .. n - 1
      BY <1>1, <3>1, StoreFacts, RingFacts DEF Slots
    <3> QED
      BY <3>1, <3>2
  <2> HIDE DEF q, n
  <2>6. \A i \in DOMAIN q : FALSE
    <3> TAKE i \in DOMAIN q
    <3>1. q[i] \in Record
      BY <2>3
    <3> QED
      BY <2>4, <2>5, <3>1, RecordNotBlank
  <2>7. q = <<>>
    <3>1. DOMAIN q = 1 .. Len(q) /\ Len(q) \in Nat
      BY <2>3
    <3>2. \A i \in 1 .. Len(q) : FALSE
      BY <2>6, <3>1
    <3>3. Len(q) = 0
      BY <3>1, <3>2
    <3> QED
      BY <2>3, <3>3
  <2> QED
    BY <2>7 DEF q
<1>7. \A d : ViewIn(d, <<>>) = <<>>
  BY DEF ViewIn
<1>8. <<>> \in Seq(Frame)
  OBVIOUS
<1>9. Content = <<>> /\ PublishedView = <<>> /\ Loaded.gen = 0
  <2>1. mem.frames = <<>> /\ Apply(<<>>, <<>>) = <<>>
    BY <1>4, <1>5, <1>8, ApplyNone DEF SettledView
  <2>2. mem.gen = 0
    <3>1. UpToDate
      BY <1>1, <1>2 DEF StoreInv, MemInv, Running
    <3> QED
      BY <1>5, <3>1 DEF UpToDate
  <2> QED
    BY <1>4, <1>6, <1>7, <2>1, <2>2 DEF SettledView
<1> QED
  BY <1>3, <1>9, MapInit

\* Every write of the process, and every death, is a step of the durable store or none.
LEMMA NextSteps ==
  ASSUME DurableInv, [Next]_vars, RefreshAfterFailure, HeaderFollows, AppendsWhole
  PROVE  DurableInv' /\ DurableStep
<1>1. StoreInv /\ Match /\ MatchInv /\ PlanApplied
  BY DEF DurableInv, MatchInv, Match
<1>2. StoreInv' /\ Match' /\ MatchInv'
  <2>1. StoreInv' /\ Match'
    BY <1>1, NextMatch
  <2> QED
    BY <2>1 DEF MatchInv, Match
<1>3. DurableInv'
  BY <1>2, NextDurable DEF DurableInv
<1> SUFFICES DurableStep
  BY <1>3
<1>4. UNCHANGED OnDisk!durable => DurableStep
  BY DEF DurableStep
<1>5. ASSUME NEW len \in {0, 1}, Put(len)
      PROVE  DurableStep
  <2>1. <<len>> \in Seq(Nat)
    OBVIOUS
  <2>2. Ready /\ WritePayloads(<<len>>)
    BY <1>5 DEF Put
  <2> QED
    BY <1>1, <1>2, <1>4, <2>1, <2>2, PayloadsUnseen
<1>6. ASSUME NEW lens \in Lengths, PutBatch(lens) \/ PutRefused(lens)
      PROVE  DurableStep
  <2>1. lens \in Seq(Nat)
    BY LengthsTyped
  <2>2. Ready /\ WritePayloads(lens)
    BY <1>1, <1>6, RefusedWrites DEF PutBatch
  <2> QED
    BY <1>1, <1>2, <1>4, <2>1, <2>2, PayloadsUnseen
<1>7. ASSUME NEW id \in 0 .. MaxSequence[WalSlots], Delete(id)
      PROVE  DurableStep
  <2>1. id \in Nat
    <3>1. MaxSequence[WalSlots] \in Nat
      BY <1>1, BytesHas
    <3> QED
      BY <3>1
  <2> DEFINE m == [kind |-> "delete", id |-> id]
  <2>2. m \in Mutation /\ m.kind # "put" /\ m.id = id
    BY <2>1 DEF Mutation, PutMutation
  <2>3. /\ Ready /\ AppendRecord(m) /\ id < mem.next_id
        /\ UNCHANGED <<data, pageA, pageB, stage, call, failed>>
    BY <1>7 DEF Delete
  <2> HIDE DEF m
  <2> QED
    BY <1>1, <1>2, <2>2, <2>3, MutationSteps
<1>8. ASSUME NEW id \in Embedded, PutEmbedding(id)
      PROVE  DurableStep
  <2>1. id \in Nat
    BY StoreAssumption
  <2> DEFINE m == [kind |-> "embedding", id |-> id]
  <2>2. m \in Mutation /\ m.kind # "put" /\ m.kind # "delete"
    BY <2>1 DEF Mutation, PutMutation
  <2>3. /\ Ready /\ AppendRecord(m)
        /\ UNCHANGED <<data, pageA, pageB, stage, call, failed>>
    BY <1>8 DEF PutEmbedding
  <2> HIDE DEF m
  <2> QED
    BY <1>1, <1>2, <2>2, <2>3, MutationSteps
<1>9. CASE AppendNext
  BY <1>2, <1>9, AppendNextSteps
<1>10. CASE WriteToc
  BY <1>1, <1>2, <1>4, <1>10, TocUnseen
<1>11. CASE WriteFooter
  <2>1. OnDisk!Publish
    BY <1>1, <1>2, <1>11, FooterPublishes
  <2> QED
    BY <2>1 DEF DurableStep, OnDisk!Next
<1>12. CASE Resize
  BY <1>1, <1>2, <1>4, <1>12, ResizeUnseen
<1>13. CASE WritePageA
  BY <1>1, <1>2, <1>4, <1>13, PageAUnseen
<1>14. CASE Open
  BY <1>1, <1>2, <1>4, <1>14, OpenUnseen
<1>15. ASSUME \/ Commit \/ CloseCommits \/ WritePageB \/ FinishCommit \/ CommitFails \/ CloseClean
              \/ Verify \/ TryRefreshIfPublishedCommitVisible \/ ProcessDies \/ UNCHANGED vars
       PROVE  DurableStep
  <2>1. ring' = ring /\ pageA' = pageA /\ data' = data
    BY <1>15 DEF Commit, CloseCommits, StartCommit, WritePageB, FinishCommit, CommitFails,
                 CloseClean, Verify, TryRefreshIfPublishedCommitVisible, ProcessDies, vars, file
  <2> QED
    BY <1>1, <1>2, <1>4, <2>1, FileStays
<1> QED
  BY <1>5, <1>6, <1>7, <1>8, <1>9, <1>10, <1>11, <1>12, <1>13, <1>14, <1>15 DEF Next

\* The file, read the way LoadState would at every step, is a durable store: acknowledged
\* mutations are never lost, changed or applied twice, a commit publishes all of them or
\* none, and generations never go back, across whatever deaths, failed writes and
\* reopenings (WaxStore::LoadState against Put, PutBatch, Delete, Commit, Close, Open).
THEOREM StoreDurable == RefreshAfterFailure /\ HeaderFollows /\ AppendsWhole => (Spec => Durable)
<1> SUFFICES ASSUME RefreshAfterFailure, HeaderFollows, AppendsWhole
             PROVE  Spec => Durable
  OBVIOUS
<1>1. Init => DurableInv /\ OnDisk!Init
  BY InitDurable
<1>2. DurableInv /\ [Next]_vars => DurableInv' /\ [OnDisk!Next]_(OnDisk!durable)
  BY NextSteps DEF DurableStep
<1> QED
  BY <1>1, <1>2, PTL DEF Spec, Durable, OnDisk!Spec
=============================================================================
