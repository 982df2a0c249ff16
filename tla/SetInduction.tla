----------------------------- MODULE SetInduction -----------------------------
(***************************************************************************)
(* Induction over the natural numbers as a fact about a set, which needs   *)
(* no operator parameter.                                                  *)
(***************************************************************************)
EXTENDS Integers, WellFoundedInduction, TLAPS

\* A set that holds 0, and n + 1 with each n, holds every natural number.
LEMMA SetInduction ==
  ASSUME NEW S, 0 \in S, \A n \in Nat : n \in S => n + 1 \in S
  PROVE  Nat \subseteq S
<1> DEFINE T == Nat \ S
           Less == {ss \in Nat \X Nat : ss[1] < ss[2]}
<1> SUFFICES ASSUME T # {}
             PROVE  FALSE
  OBVIOUS
<1>1. IsWellFoundedOn(Less, Nat)
  BY NatLessThanWellFounded DEF OpToRel
<1>2. PICK x \in T : \A y \in T : ~ (<<y, x>> \in Less)
  <2> HIDE DEF Less
  <2> QED
    BY <1>1, WFMin
<1>3. x \in Nat /\ x # 0
  OBVIOUS
<1>4. x - 1 \in Nat /\ x - 1 < x
  BY <1>3
<1>5. x - 1 \in S
  <2>1. <<x - 1, x>> \in Less
    BY <1>3, <1>4
  <2> QED
    BY <1>2, <1>4, <2>1
<1> QED
  BY <1>3, <1>4, <1>5

\* A set of natural numbers that holds any holds a least one.
LEMMA LeastExists ==
  ASSUME NEW S \in SUBSET Nat, S # {}
  PROVE  \E x \in S : \A y \in S : x <= y
<1> DEFINE Less == {ss \in Nat \X Nat : ss[1] < ss[2]}
<1>1. IsWellFoundedOn(Less, Nat)
  BY NatLessThanWellFounded DEF OpToRel
<1>2. PICK x \in S : \A y \in S : ~ (<<y, x>> \in Less)
  <2> HIDE DEF Less
  <2> QED
    BY <1>1, WFMin
<1>3. \A y \in S : x <= y
  <2> TAKE y \in S
  <2>1. ~ (<<y, x>> \in Less)
    BY <1>2
  <2> QED
    BY <2>1
<1> QED
  BY <1>3

\* Induction as far as n.
LEMMA InductionUpTo ==
  ASSUME NEW n \in Nat, NEW S, 0 \in S, \A i \in 1 .. n : i - 1 \in S => i \in S
  PROVE  0 .. n \subseteq S
<1> DEFINE U == {i \in Nat : i <= n => i \in S}
<1>1. 0 \in U
  OBVIOUS
<1>2. ASSUME NEW i \in Nat, i \in U
      PROVE  i + 1 \in U
  <2> SUFFICES ASSUME i + 1 <= n
               PROVE  i + 1 \in S
    OBVIOUS
  <2>1. i \in S /\ i + 1 \in 1 .. n /\ (i + 1) - 1 = i
    BY <1>2
  <2> QED
    BY <2>1
<1>3. Nat \subseteq U
  <2> HIDE DEF U
  <2> QED
    BY <1>1, <1>2, SetInduction
<1> QED
  BY <1>3

\* Two recursions that take the same steps from the same start are the same.
InStep(f, h, n) ==
  /\ f[0] = h[0]
  /\ \A i \in 1 .. n : f[i - 1] = h[i - 1] => f[i] = h[i]

Agree(f, h, n) == \A i \in 0 .. n : f[i] = h[i]

LEMMA SameSteps ==
  ASSUME NEW n \in Nat, NEW f, NEW h, InStep(f, h, n)
  PROVE  Agree(f, h, n)
<1> DEFINE S == {i \in 0 .. n : f[i] = h[i]}
<1>1. 0 \in S
  BY DEF InStep
<1>2. \A i \in 1 .. n : i - 1 \in S => i \in S
  BY DEF InStep
<1>3. 0 .. n \subseteq S
  <2> HIDE DEF S
  <2> QED
    BY <1>1, <1>2, InductionUpTo
<1> QED
  BY <1>3 DEF Agree

\* A recursion whose steps stay in a set has a value there: step[<<i, x>>] is what
\* follows x in the i-th place.
Steps(n, D) == [(1 .. n) \X D -> D]

Iterates(f, a, step, n) ==
  f[0] = a /\ \A i \in 1 .. n : f[i] = step[<<i, f[i - 1]>>]

LEMMA RecursionExists ==
  ASSUME NEW n \in Nat, NEW D, NEW a \in D, NEW step \in Steps(n, D)
  PROVE  \E f : f \in [0 .. n -> D] /\ Iterates(f, a, step, n)
<1> DEFINE S == {k \in 0 .. n : \E f \in [0 .. k -> D] :
                  f[0] = a /\ \A i \in 1 .. k : f[i] = step[<<i, f[i - 1]>>]}
<1>1. 0 \in S
  <2> DEFINE f == [i \in 0 .. 0 |-> a]
  <2>1. f \in [0 .. 0 -> D] /\ f[0] = a /\ \A i \in 1 .. 0 : f[i] = step[<<i, f[i - 1]>>]
    OBVIOUS
  <2>2. 0 \in 0 .. n
    OBVIOUS
  <2> HIDE DEF f
  <2> QED
    BY <2>1, <2>2
<1>2. ASSUME NEW k \in 1 .. n, k - 1 \in S
      PROVE  k \in S
  <2>1. PICK f \in [0 .. k - 1 -> D] :
          f[0] = a /\ \A i \in 1 .. k - 1 : f[i] = step[<<i, f[i - 1]>>]
    BY <1>2
  <2> DEFINE x == step[<<k, f[k - 1]>>]
             h == [i \in 0 .. k |-> IF i = k THEN x ELSE f[i]]
  <2>2. x \in D
    <3>1. f[k - 1] \in D
      OBVIOUS
    <3>2. <<k, f[k - 1]>> \in (1 .. n) \X D
      BY <3>1
    <3> QED
      BY <3>2 DEF Steps
  <2> HIDE DEF x
  <2>3. h \in [0 .. k -> D]
    BY <2>2
  <2>4. h[0] = a /\ h[k] = x /\ \A i \in 0 .. k - 1 : h[i] = f[i]
    BY <2>1
  <2> HIDE DEF h
  <2>5. ASSUME NEW i \in 1 .. k
        PROVE  h[i] = step[<<i, h[i - 1]>>]
    <3>1. CASE i = k
      BY <2>4, <3>1 DEF x
    <3>2. CASE i # k
      <4>1. i \in 1 .. k - 1 /\ i \in 0 .. k - 1 /\ i - 1 \in 0 .. k - 1
        BY <3>2
      <4> QED
        BY <2>1, <2>4, <4>1
    <3> QED
      BY <3>1, <3>2
  <2> QED
    BY <2>3, <2>4, <2>5
<1>3. 0 .. n \subseteq S
  <2> HIDE DEF S
  <2> QED
    BY <1>1, <1>2, InductionUpTo
<1>4. n \in S
  <2>1. n \in 0 .. n
    OBVIOUS
  <2> HIDE DEF S
  <2> QED
    BY <1>3, <2>1
<1> QED
  BY <1>4 DEF Iterates
==============================================================================
