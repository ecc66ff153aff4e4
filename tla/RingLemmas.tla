----------------------------- MODULE RingLemmas -----------------------------
(***************************************************************************)
(* Facts the proofs of the project share: induction and recursion over the *)
(* naturals, least elements, intervals, and the arithmetic of positions    *)
(* in a ring.                                                              *)
(*                                                                         *)
(* Induction is stated with a set, and recursion with a function, so that  *)
(* they can be cited by first-order provers.                               *)
(***************************************************************************)
EXTENDS Integers, Sequences, FiniteSetsExt, TLAPS, WellFoundedInduction,
        NaturalsInduction, FiniteSetTheorems

-----------------------------------------------------------------------------
(* Induction and recursion *)

\* A non-empty set of naturals has a least element.
LEMMA LeastNat ==
    ASSUME NEW S \in SUBSET Nat, S # {}
    PROVE  \E m \in S : \A x \in S : m <= x
<1>1. PICK m \in S : \A y \in S : ~(<<y, m>> \in OpToRel(<, Nat))
  BY NatLessThanWellFounded, WFMin
<1>2. ASSUME NEW y \in S PROVE m <= y
  <2>1. m \in Nat /\ y \in Nat
    OBVIOUS
  <2>2. ~(y < m)
    BY <1>1, <2>1 DEF OpToRel
  <2> QED
    BY <2>1, <2>2
<1> QED
  BY <1>2

\* A non-empty set of naturals has a least element, which is its Min.
LEMMA MinOfNats ==
    ASSUME NEW S \in SUBSET Nat, S # {}
    PROVE  Min(S) \in S /\ \A x \in S : Min(S) <= x
  BY LeastNat DEF Min

\* A set that holds 0 and the successor of each of its naturals holds all of them.
LEMMA Induction ==
    ASSUME NEW S, 0 \in S, \A n \in Nat : n \in S => n + 1 \in S
    PROVE  \A n \in Nat : n \in S
<1> DEFINE C == {n \in Nat : n \notin S}
<1> SUFFICES ASSUME C # {} PROVE FALSE
  OBVIOUS
<1>1. PICK m \in C : \A x \in C : m <= x
  BY LeastNat, Zenon
<1>2. m \in Nat /\ m # 0
  BY <1>1
<1>3. m - 1 \in Nat /\ m - 1 < m /\ (m - 1) + 1 = m
  BY <1>2
<1>4. m - 1 \in S
  BY <1>1, <1>2, <1>3
<1> QED
  BY <1>1, <1>3, <1>4

\* A non-empty finite set of naturals has a greatest element.
LEMMA GreatestNat ==
    ASSUME NEW S \in SUBSET Nat, IsFiniteSet(S), S # {}
    PROVE  \E m \in S : \A x \in S : x <= m
<1>1. PICK N \in Nat : ExistsSurjection(1 .. N, S)
  BY FS_NatSurjection
<1>2. PICK f \in Surjection(1 .. N, S) : TRUE
  BY <1>1 DEF ExistsSurjection
<1>3. f \in [1 .. N -> S] /\ \A x \in S : \E n \in 1 .. N : f[n] = x
  BY <1>2 DEF Surjection
<1> DEFINE K == {k \in Nat : 1 <= k /\ k <= N => \E m \in 1 .. k : \A n \in 1 .. k : f[n] <= f[m]}
<1>4. 0 \in K
  OBVIOUS
<1>5. ASSUME NEW k \in Nat, k \in K PROVE k + 1 \in K
  <2> SUFFICES ASSUME k + 1 <= N
               PROVE  \E m \in 1 .. k + 1 : \A n \in 1 .. k + 1 : f[n] <= f[m]
    OBVIOUS
  <2>0. \A n \in 1 .. N : f[n] \in Nat
    BY <1>3
  <2>1. \A n \in 1 .. k + 1 : f[n] \in Nat
    <3>1. \A n \in 1 .. k + 1 : n \in 1 .. N
      OBVIOUS
    <3> QED
      BY <2>0, <3>1
  <2>2. CASE k = 0
    <3>1. 1 \in 1 .. k + 1 /\ \A n \in 1 .. k + 1 : f[n] <= f[1]
      BY <2>1, <2>2
    <3> QED
      BY <3>1
  <2>3. CASE k # 0
    <3>1. PICK m \in 1 .. k : \A n \in 1 .. k : f[n] <= f[m]
      BY <1>5, <2>3
    <3>2. \A n \in 1 .. k + 1 : n \in 1 .. k \/ n = k + 1
      OBVIOUS
    <3>3. m \in 1 .. k + 1 /\ k + 1 \in 1 .. k + 1
      OBVIOUS
    <3>4. CASE f[k + 1] <= f[m]
      <4>1. \A n \in 1 .. k + 1 : f[n] <= f[m]
        BY <3>1, <3>2, <3>4
      <4> QED
        BY <3>3, <4>1
    <3>5. CASE f[m] <= f[k + 1]
      <4>1. \A n \in 1 .. k + 1 : f[n] <= f[k + 1]
        BY <2>1, <3>1, <3>2, <3>3, <3>5
      <4> QED
        BY <3>3, <4>1
    <3>6. f[m] \in Nat /\ f[k + 1] \in Nat
      BY <2>1, <3>3
    <3>7. f[k + 1] <= f[m] \/ f[m] <= f[k + 1]
      BY <3>6
    <3> QED
      BY <3>4, <3>5, <3>7, Zenon
  <2> QED
    BY <2>2, <2>3
<1> HIDE DEF K
<1>6. N \in K
  BY <1>4, <1>5, Induction
<1>7. N >= 1
  <2>1. PICK n \in 1 .. N : TRUE
    BY <1>3
  <2> QED
    BY <2>1
<1>8. PICK m \in 1 .. N : \A n \in 1 .. N : f[n] <= f[m]
  BY <1>6, <1>7 DEF K
<1> QED
  BY <1>3, <1>8

\* f starts at v0 and is continued up to N by step.
Recurs(f, N, V, v0, step) ==
    /\ f \in [0 .. N -> V]
    /\ f[0] = v0
    /\ \A n \in 1 .. N : f[n] = step[n][f[n - 1]]

\* Recursion over an initial segment of the naturals defines a function.
LEMMA Recursion ==
    ASSUME NEW N \in Nat, NEW V, NEW v0 \in V, NEW step \in [1 .. N -> [V -> V]]
    PROVE  \E f : Recurs(f, N, V, v0, step)
<1> DEFINE Run(f, k) == /\ f \in [0 .. k -> V]
                        /\ f[0] = v0
                        /\ \A n \in 1 .. k : f[n] = step[n][f[n - 1]]
           R == {k \in Nat : k <= N => \E f : Run(f, k)}
<1>1. 0 \in R
  <2>1. Run([n \in 0 .. 0 |-> v0], 0)
    OBVIOUS
  <2> QED
    BY <2>1, Zenon
<1>2. ASSUME NEW k \in Nat, k \in R PROVE k + 1 \in R
  <2>0. k + 1 \in Nat
    OBVIOUS
  <2> SUFFICES ASSUME k + 1 <= N PROVE \E f : Run(f, k + 1)
    BY <2>0, Zenon
  <2>1. k <= N /\ k + 1 \in 1 .. N
    OBVIOUS
  <2>2. PICK f : Run(f, k)
    BY <1>2, <2>1, Zenon
  <2> DEFINE h == [n \in 0 .. k + 1 |-> IF n = k + 1 THEN step[n][f[k]] ELSE f[n]]
  <2>3. f[k] \in V /\ k + 1 \in Nat
    BY <2>2
  <2>4. h \in [0 .. k + 1 -> V]
    BY <2>1, <2>2, <2>3
  <2>5. h[0] = v0
    BY <2>2
  <2>6. ASSUME NEW n \in 1 .. k + 1 PROVE h[n] = step[n][h[n - 1]]
    <3>1. CASE n = k + 1
      BY <3>1
    <3>2. CASE n # k + 1
      <4>1. n \in 1 .. k /\ n - 1 \in 0 .. k /\ n - 1 # k + 1
        BY <3>2
      <4> QED
        BY <2>2, <3>2, <4>1
    <3> QED
      BY <3>1, <3>2
  <2> HIDE DEF h
  <2>7. Run(h, k + 1)
    BY <2>4, <2>5, <2>6
  <2> QED
    BY <2>7, Zenon
<1> HIDE DEF R
<1>3. N \in R
  BY <1>1, <1>2, Induction, Zenon
<1>4. PICK f : Run(f, N)
  <2>1. N <= N
    OBVIOUS
  <2> QED
    BY <1>3, <2>1, Zenon DEF R
<1> QED
  BY <1>4 DEF Recurs

-----------------------------------------------------------------------------
(* Arithmetic of ring positions *)

\* Division with remainder.
LEMMA DivMod ==
    ASSUME NEW p \in Nat, NEW n \in Nat \ {0}
    PROVE  /\ p = (n * (p \div n)) + (p % n)
           /\ p % n \in 0 .. n - 1
           /\ p \div n \in Nat
  BY SMTT(10)

\* Multiples of n are at least n apart.
LEMMA MultipleGap ==
    ASSUME NEW a \in Nat, NEW b \in Nat, NEW n \in Nat \ {0}, a < b
    PROVE  n * b >= n * a + n
<1>1. PICK k \in Nat : b = a + 1 + k
  OBVIOUS
<1>2. n * b = n * a + n + n * k
  BY <1>1
<1>3. n * k \in Nat
  OBVIOUS
<1> QED
  BY <1>2, <1>3

\* Two positions less than one lap apart never share a buffer item.
LEMMA ModDistinct ==
    ASSUME NEW p \in Nat, NEW q \in Nat, NEW n \in Nat \ {0}, p < q, q < p + n
    PROVE  p % n # q % n
<1> SUFFICES ASSUME p % n = q % n PROVE FALSE
  OBVIOUS
<1> DEFINE a == p \div n
           b == q \div n
<1>1. p = (n * (p \div n)) + (p % n) /\ p % n \in 0 .. n - 1 /\ p \div n \in Nat
  BY DivMod, Zenon
<1>2. q = (n * (q \div n)) + (q % n) /\ q % n \in 0 .. n - 1 /\ q \div n \in Nat
  BY DivMod, Zenon
<1>3. /\ a \in Nat /\ b \in Nat /\ p % n \in Nat
      /\ p = n * a + (p % n) /\ q = n * b + (p % n)
  BY <1>1, <1>2
<1> HIDE DEF a, b
<1>4. n * a \in Nat /\ n * b \in Nat
  BY <1>3
<1>5. CASE a < b
  BY <1>3, <1>4, <1>5, MultipleGap
<1>6. CASE b < a
  BY <1>3, <1>4, <1>6, MultipleGap
<1>7. CASE a = b
  BY <1>3, <1>7
<1> QED
  BY <1>3, <1>5, <1>6, <1>7

\* A position and the one a lap earlier share their buffer item.
LEMMA ModLap ==
    ASSUME NEW p \in Nat, NEW n \in Nat \ {0}, p >= n
    PROVE  (p - n) % n = p % n
<1> DEFINE a == (p - n) \div n
           b == p \div n
           r == (p - n) % n
           s == p % n
<1>1. p - n \in Nat
  OBVIOUS
<1>2. p = (n * (p \div n)) + (p % n) /\ p % n \in 0 .. n - 1 /\ p \div n \in Nat
  BY DivMod, Zenon
<1>3. /\ (p - n) = (n * ((p - n) \div n)) + ((p - n) % n)
      /\ (p - n) % n \in 0 .. n - 1
      /\ (p - n) \div n \in Nat
  BY <1>1, DivMod, Zenon
<1>4. /\ a \in Nat /\ b \in Nat /\ p - n = n * a + r /\ p = n * b + s
      /\ r \in 0 .. n - 1 /\ s \in 0 .. n - 1
  BY <1>2, <1>3, Zenon
<1> HIDE DEF a, b, r, s
<1>5. n * a \in Nat /\ n * b \in Nat /\ n * (a + 1) = n * a + n
  BY <1>4
<1>6. CASE a + 1 < b
  BY <1>4, <1>5, <1>6, MultipleGap
<1>7. CASE b < a + 1
  BY <1>4, <1>5, <1>7, MultipleGap
<1>8. CASE a + 1 = b
  BY <1>4, <1>5, <1>8
<1> QED
  BY <1>4, <1>6, <1>7, <1>8 DEF r, s

\* A position at or after a head less than a lap behind is itself less than a lap behind.
LEMMA LapGap ==
    ASSUME NEW p \in Int, NEW h \in Int, NEW t \in Int, NEW n \in Int,
           p >= h, t + 1 - h < n
    PROVE  t + 1 < p + n
  OBVIOUS

\* An integer interval grows by its new upper end.
LEMMA IntervalGrows ==
    ASSUME NEW a \in Int, NEW b \in Int, a <= b + 1
    PROVE  a .. (b + 1) = (a .. b) \cup {b + 1}
  OBVIOUS
=============================================================================
