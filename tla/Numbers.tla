------------------------------ MODULE Numbers ------------------------------
(***************************************************************************)
(* Facts about natural numbers that the proofs of several components use.  *)
(***************************************************************************)
EXTENDS Integers, WellFoundedInduction, TLAPS

\* Every set of natural numbers that is not empty has a least member.
LEMMA LeastMember ==
  ASSUME NEW S \in SUBSET Nat, S # {}
  PROVE  \E m \in S : \A k \in S : m <= k
<1> DEFINE less == {p \in Nat \X Nat : p[1] < p[2]}
<1>1. less = OpToRel(<, Nat)
  BY DEF OpToRel
<1>2. IsWellFoundedOn(less, Nat)
  BY <1>1, NatLessThanWellFounded
<1> HIDE DEF less
<1>3. \E m \in S : \A k \in S : ~ (<<k, m>> \in less)
  BY <1>2, WFMin
<1>4. PICK m \in S : \A k \in S : ~ (<<k, m>> \in less)
  BY <1>3
<1>5. ASSUME NEW k \in S
      PROVE  m <= k
  <2>1. k \in Nat /\ m \in Nat /\ ~ (<<k, m>> \in less)
    BY <1>4
  <2>2. ~ (k < m)
    BY <2>1 DEF less
  <2> QED BY <2>1, <2>2
<1> QED BY <1>5

\* Every bounded set of natural numbers that is not empty has a greatest member.
LEMMA GreatestMember ==
  ASSUME NEW n \in Nat, NEW S \in SUBSET (0 .. n), S # {}
  PROVE  \E m \in S : \A k \in S : k <= m
<1> DEFINE T == {n - k : k \in S}
<1>1. T \in SUBSET Nat
  BY \A k \in S : k \in 0 .. n
<1> PICK s \in S : TRUE
  OBVIOUS
<1>0. n - s \in T
  OBVIOUS
<1>2. PICK t \in T : \A k \in T : t <= k
  BY <1>1, <1>0, LeastMember
<1>3. PICK m \in S : t = n - m
  BY <1>2
<1>4. ASSUME NEW k \in S
      PROVE  k <= m
  <2>1. n - m <= n - k
    BY <1>2, <1>3
  <2>2. k \in 0 .. n /\ m \in 0 .. n
    OBVIOUS
  <2> QED BY <2>1, <2>2
<1> QED BY <1>4

\* Induction for a set of numbers.
LEMMA SetInduction ==
  ASSUME NEW S, 0 \in S, \A n \in Nat : n \in S => n + 1 \in S
  PROVE  Nat \subseteq S
<1> DEFINE T == Nat \ S
<1> SUFFICES ASSUME T # {}
             PROVE  FALSE
  OBVIOUS
<1>1. PICK m \in T : \A k \in T : m <= k
  BY LeastMember
<1>2. m \in Nat /\ m # 0
  OBVIOUS
<1>3. m - 1 \in Nat /\ m - 1 \notin T
  BY <1>1, <1>2
<1>4. m - 1 + 1 \in S
  BY <1>3
<1> QED BY <1>2, <1>4

\* What is true of 0 and passes from one number to the next is true up to n.
LEMMA BoundedInduction ==
  ASSUME NEW n \in Nat, NEW S, 0 \in S, \A i \in 1 .. n : i - 1 \in S => i \in S
  PROVE  0 .. n \subseteq S
<1> DEFINE R == {k \in Nat : k <= n => k \in S}
<1>1. 0 \in R
  OBVIOUS
<1>2. ASSUME NEW k \in Nat, k \in R
      PROVE  k + 1 \in R
  <2> SUFFICES ASSUME k + 1 <= n
               PROVE  k + 1 \in S
    OBVIOUS
  <2>1. k \in S /\ k + 1 \in 1 .. n /\ (k + 1) - 1 = k
    BY <1>2
  <2> QED BY <2>1
<1> HIDE DEF R
<1>3. Nat \subseteq R
  BY <1>1, <1>2, SetInduction
<1> QED BY <1>3 DEF R

-----------------------------------------------------------------------------
(* Functions that accumulate values along 1 .. n. *)

\* f starts with v0 and F takes it from one value to the next.
Accumulates(f, V, v0, n, F) ==
  f \in [0 .. n -> V] /\ f[0] = v0 /\ \A i \in 1 .. n : f[i] = F[<<i, f[i - 1]>>]

\* There is one for every initial value and every step.
LEMMA AccumulationExists ==
  ASSUME NEW V, NEW v0 \in V, NEW n \in Nat, NEW F \in [(1 .. n) \X V -> V]
  PROVE  \E f : Accumulates(f, V, v0, n, F)
<1> DEFINE upto(k) == \E f \in [0 .. k -> V] : f[0] = v0 /\ \A i \in 1 .. k : f[i] = F[<<i, f[i - 1]>>]
           S == {k \in Nat : k <= n => upto(k)}
<1>1. 0 \in S
  <2> DEFINE f == [i \in 0 .. 0 |-> v0]
  <2>1. f \in [0 .. 0 -> V] /\ f[0] = v0 /\ \A i \in 1 .. 0 : f[i] = F[<<i, f[i - 1]>>]
    OBVIOUS
  <2>2. upto(0)
    BY <2>1
  <2> QED BY <2>2
<1>2. ASSUME NEW k \in Nat, k \in S, k + 1 <= n
      PROVE  upto(k + 1)
  <2>1. PICK f \in [0 .. k -> V] : f[0] = v0 /\ \A i \in 1 .. k : f[i] = F[<<i, f[i - 1]>>]
    BY <1>2
  <2> DEFINE g == [i \in 0 .. k + 1 |-> IF i = k + 1 THEN F[<<k + 1, f[k]>>] ELSE f[i]]
  <2>2. F[<<k + 1, f[k]>>] \in V
    <3>1. <<k + 1, f[k]>> \in (1 .. n) \X V
      BY <1>2, <2>1
    <3> QED BY <3>1
  <2>3. g \in [0 .. k + 1 -> V] /\ g[0] = v0
    BY <2>1, <2>2
  <2>4. ASSUME NEW i \in 1 .. k + 1
        PROVE  g[i] = F[<<i, g[i - 1]>>]
    <3>1. CASE i = k + 1
      <4>1. i - 1 = k /\ i - 1 \in 0 .. k + 1 /\ i - 1 # k + 1 /\ i \in 0 .. k + 1
        BY <3>1
      <4> QED BY <3>1, <4>1
    <3>2. CASE i # k + 1
      <4>1. i \in 1 .. k /\ i \in 0 .. k + 1 /\ i - 1 \in 0 .. k + 1 /\ i - 1 # k + 1
        BY <3>2
      <4> QED BY <2>1, <3>2, <4>1
    <3> QED BY <3>1, <3>2
  <2> HIDE DEF g
  <2> QED BY <2>3, <2>4
<1>3. \A k \in Nat : k \in S => k + 1 \in S
  <2> HIDE DEF upto
  <2> QED BY <1>2
<1> HIDE DEF S
<1>4. n \in S
  BY <1>1, <1>3, SetInduction
<1> QED BY <1>4 DEF S, Accumulates

\* Two functions that start with the same value and take the same steps agree.
LEMMA AccumulationUnique ==
  ASSUME NEW n \in Nat, NEW f, NEW g, f[0] = g[0],
         \A i \in 1 .. n : f[i - 1] = g[i - 1] => f[i] = g[i]
  PROVE  \A i \in 0 .. n : f[i] = g[i]
<1> DEFINE S == {k \in Nat : k <= n => f[k] = g[k]}
<1>1. 0 \in S
  OBVIOUS
<1>2. ASSUME NEW k \in Nat, k \in S
      PROVE  k + 1 \in S
  <2> SUFFICES ASSUME k + 1 <= n
               PROVE  f[k + 1] = g[k + 1]
    OBVIOUS
  <2>1. f[k] = g[k] /\ k + 1 \in 1 .. n /\ (k + 1) - 1 = k
    BY <1>2
  <2> QED BY <2>1
<1> HIDE DEF S
<1>3. Nat \subseteq S
  BY <1>1, <1>2, SetInduction
<1> QED BY <1>3 DEF S
=============================================================================
