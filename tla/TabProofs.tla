----------------------------- MODULE TabProofs -----------------------------
(***************************************************************************)
(* Theorems about Tab: whatever is stored, removed, rehashed and traversed *)
(* every key is found where it is, and the table implements a partial      *)
(* function.  No string is interned again while the table has its dead     *)
(* key: with that, the rechaining of lj_tab_newkey() loses keys.           *)
(***************************************************************************)
EXTENDS Tab, Numbers, FiniteSetTheorems, SequenceTheorems

LEMMA IntKeysAreNat == IntKeys \subseteq Nat
BY TabAssumption

(***************************************************************************)
(* Powers of two.                                                          *)
(***************************************************************************)

\* The powers up to 2^n.
IsPowers(n, p) == p = [i \in 0 .. n |-> IF i = 0 THEN 1 ELSE 2 * p[i - 1]]

LEMMA PowersExist ==
  ASSUME NEW n \in Nat
  PROVE  \E p \in [0 .. n -> Nat] : IsPowers(n, p)
<1> DEFINE F == [x \in (1 .. n) \X Nat |-> 2 * x[2]]
<1>1. F \in [(1 .. n) \X Nat -> Nat] /\ \A i \in 1 .. n, x \in Nat : F[<<i, x>>] = 2 * x
  OBVIOUS
<1> HIDE DEF F
<1>2. PICK p : Accumulates(p, Nat, 1, n, F)
  BY <1>1, AccumulationExists
<1>3. p \in [0 .. n -> Nat] /\ p[0] = 1
  BY <1>2 DEF Accumulates
<1>4. ASSUME NEW i \in 1 .. n
      PROVE  p[i] = 2 * p[i - 1]
  <2>1. i - 1 \in 0 .. n
    OBVIOUS
  <2>2. p[i - 1] \in Nat
    BY <1>3, <2>1
  <2> QED BY <1>1, <1>2, <2>2 DEF Accumulates
<1>5. \A i \in 0 .. n : p[i] = IF i = 0 THEN 1 ELSE 2 * p[i - 1]
  BY <1>3, <1>4
<1>6. IsPowers(n, p)
  BY <1>3, <1>5 DEF IsPowers
<1> QED BY <1>3, <1>6

LEMMA Pow2Powers ==
  ASSUME NEW n \in Nat, NEW p, IsPowers(n, p)
  PROVE  Pow2(n) = p[n]
<1> DEFINE q == CHOOSE r : IsPowers(n, r)
<1>1. IsPowers(n, q)
  BY Zenon
<1>2. Pow2(n) = q[n]
  BY DEF Pow2, IsPowers
<1> HIDE DEF q
<1>3. \A i \in 0 .. n : p[i] = (IF i = 0 THEN 1 ELSE 2 * p[i - 1]) /\ q[i] = (IF i = 0 THEN 1 ELSE 2 * q[i - 1])
  BY <1>1, Zenon DEF IsPowers
<1>4. p[0] = q[0] /\ \A i \in 1 .. n : p[i - 1] = q[i - 1] => p[i] = q[i]
  BY <1>3
<1>5. \A i \in 0 .. n : p[i] = q[i]
  BY <1>4, AccumulationUnique
<1> QED BY <1>2, <1>5

\* What a power of two is.
LEMMA Pow2Step ==
  /\ Pow2(0) = 1
  /\ \A n \in Nat : Pow2(n) \in Nat \ {0} /\ Pow2(n + 1) = 2 * Pow2(n)
<1>1. Pow2(0) = 1
  <2>1. PICK p \in [0 .. 0 -> Nat] : IsPowers(0, p)
    BY PowersExist
  <2>2. p[0] = 1
    BY <2>1 DEF IsPowers
  <2> QED BY <2>1, <2>2, Pow2Powers
<1>2. ASSUME NEW n \in Nat
      PROVE  Pow2(n) \in Nat /\ Pow2(n + 1) = 2 * Pow2(n)
  <2>0. n + 1 \in Nat
    OBVIOUS
  <2>1. PICK p \in [0 .. n + 1 -> Nat] : IsPowers(n + 1, p)
    BY <2>0, PowersExist
  <2>2. \A i \in 0 .. n + 1 : p[i] = IF i = 0 THEN 1 ELSE 2 * p[i - 1]
    BY <2>1, Zenon DEF IsPowers
  <2> DEFINE q == [i \in 0 .. n |-> p[i]]
  <2>3. IsPowers(n, q)
    <3>1. \A i \in 0 .. n : q[i] = IF i = 0 THEN 1 ELSE 2 * q[i - 1]
      BY <2>2
    <3> QED BY <3>1 DEF IsPowers
  <2>4. Pow2(n) = p[n]
    BY <2>3, Pow2Powers
  <2>5. Pow2(n + 1) = p[n + 1] /\ p[n + 1] = 2 * p[n]
    BY <2>1, <2>2, Pow2Powers
  <2> QED BY <2>1, <2>4, <2>5
<1> DEFINE S == {n \in Nat : Pow2(n) # 0}
<1>3. 0 \in S
  BY <1>1
<1>4. \A n \in Nat : n \in S => n + 1 \in S
  BY <1>2
<1> HIDE DEF S
<1>5. Nat \subseteq S
  BY <1>3, <1>4, SetInduction
<1> QED BY <1>1, <1>2, <1>5 DEF S

LEMMA Pow2Grows ==
  ASSUME NEW m \in Nat, NEW n \in Nat, m <= n
  PROVE  Pow2(m) <= Pow2(n)
<1> DEFINE S == {i \in Nat : Pow2(m) <= Pow2(m + i)}
<1>1. 0 \in S
  BY Pow2Step
<1>2. ASSUME NEW i \in Nat, i \in S
      PROVE  i + 1 \in S
  <2>1. m + i \in Nat /\ m + (i + 1) = (m + i) + 1
    OBVIOUS
  <2>2. Pow2(m + (i + 1)) = 2 * Pow2(m + i) /\ Pow2(m + i) \in Nat /\ Pow2(m) \in Nat
    BY <2>1, Pow2Step
  <2> QED BY <1>2, <2>2
<1> HIDE DEF S
<1>3. Nat \subseteq S
  BY <1>1, <1>2, SetInduction
<1>4. n - m \in Nat /\ m + (n - m) = n
  OBVIOUS
<1>5. n - m \in S
  BY <1>3, <1>4
<1>6. Pow2(m) <= Pow2(m + (n - m))
  BY <1>5 DEF S
<1> QED BY <1>4, <1>6

\* Every number has a highest bit.
LEMMA BitsOf ==
  ASSUME NEW n \in Nat \ {0}
  PROVE  Bits(n) \in Nat /\ Pow2(Bits(n)) <= n /\ n < Pow2(Bits(n) + 1)
<1> DEFINE T == {b \in 0 .. n : n < Pow2(b + 1)}
           U == {i \in Nat : i < Pow2(i)}
<1>1. Nat \subseteq U
  <2>1. 0 \in U
    BY Pow2Step
  <2>2. ASSUME NEW i \in Nat, i \in U
        PROVE  i + 1 \in U
    <3>1. Pow2(i + 1) = 2 * Pow2(i) /\ Pow2(i) \in Nat /\ i < Pow2(i)
      BY <2>2, Pow2Step
    <3> QED BY <3>1
  <2> HIDE DEF U
  <2> QED BY <2>1, <2>2, SetInduction
<1>2. n \in T
  <2>1. n < Pow2(n) /\ Pow2(n + 1) = 2 * Pow2(n) /\ Pow2(n) \in Nat
    BY <1>1, Pow2Step
  <2> QED BY <2>1
<1>3. PICK b \in T : \A c \in T : b <= c
  <2>1. T \in SUBSET Nat /\ T # {}
    BY <1>2
  <2> HIDE DEF T
  <2> QED BY <2>1, LeastMember
<1>4. b \in 0 .. n /\ b \in Nat /\ n < Pow2(b + 1)
  BY <1>3
<1>5. Pow2(b) <= n
  <2>1. CASE b = 0
    BY <2>1, Pow2Step
  <2>2. CASE b # 0
    <3>1. b - 1 \in 0 .. n /\ ~ (b <= b - 1) /\ (b - 1) + 1 = b
      BY <1>4, <2>2
    <3>2. ~ (n < Pow2(b))
      BY <1>3, <3>1
    <3> QED BY <1>4, <3>2, Pow2Step
  <2> QED BY <2>1, <2>2
<1> HIDE DEF T
<1>6. \E c \in 0 .. n : Pow2(c) <= n /\ n < Pow2(c + 1)
  BY <1>4, <1>5
<1>7. Bits(n) \in 0 .. n /\ Pow2(Bits(n)) <= n /\ n < Pow2(Bits(n) + 1)
  BY <1>6, Zenon DEF Bits
<1> QED BY <1>7

\* The hash part that hsize2hbits() chooses has room for s keys.
LEMMA EnoughBits ==
  ASSUME NEW s \in Nat
  PROVE  /\ hsize2hbits(s) \in Nat
         /\ s <= Pow2(hsize2hbits(s))
         /\ hsize2hbits(s) = 0 => s = 0
<1>1. CASE s <= 1
  <2>1. s = 0 \/ s = 1
    BY <1>1
  <2>2. Pow2(0) = 1 /\ Pow2(1) \in Nat \ {0}
    BY Pow2Step
  <2> QED BY <1>1, <2>1, <2>2 DEF hsize2hbits
<1>2. CASE ~ (s <= 1)
  <2>1. s - 1 \in Nat \ {0} /\ hsize2hbits(s) = 1 + Bits(s - 1)
    BY <1>2 DEF hsize2hbits
  <2>2. Bits(s - 1) \in Nat /\ s - 1 < Pow2(Bits(s - 1) + 1)
    BY <2>1, BitsOf
  <2>3. Pow2(Bits(s - 1) + 1) \in Nat /\ 1 + Bits(s - 1) = Bits(s - 1) + 1
    BY <2>2, Pow2Step
  <2>4. s <= Pow2(Bits(s - 1) + 1)
    BY <2>2, <2>3
  <2> QED BY <2>1, <2>2, <2>3, <2>4
<1> QED BY <1>1, <1>2

\* Integers are in a bin that is large enough.
LEMMA BinOf ==
  ASSUME NEW k \in Nat
  PROVE  Bin(k) \in Nat /\ k <= Pow2(Bin(k) + 1)
<1>1. CASE k > 2
  <2>1. k - 1 \in Nat \ {0} /\ Bin(k) = Bits(k - 1)
    BY <1>1 DEF Bin
  <2>2. Bits(k - 1) \in Nat /\ k - 1 < Pow2(Bits(k - 1) + 1)
    BY <2>1, BitsOf
  <2>3. Pow2(Bits(k - 1) + 1) \in Nat
    BY <2>2, Pow2Step
  <2> QED BY <2>1, <2>2, <2>3
<1>2. CASE ~ (k > 2)
  <2>1. Bin(k) = 0 /\ Pow2(0) = 1 /\ Pow2(0 + 1) = 2 * Pow2(0)
    BY <1>2, Pow2Step DEF Bin
  <2> QED BY <1>2, <2>1
<1> QED BY <1>1, <1>2

(***************************************************************************)
(* Well-formed tables.                                                     *)
(***************************************************************************)
Values == TabVals \cup {TabNil}
TabNode == [key : TabKeys \cup {TabNil}, val : Values, next : Nat \cup {None}]

\* An array part of a slots and a hash part of h nodes.
Sized(t, a, h) ==
  t \in [arr : [0 .. a - 1 -> Values], node : [0 .. h - 1 -> TabNode], free : 0 .. h, nested : BOOLEAN]

\* Nodes that have or had a key since the hash part was allocated.
Used(t) == {i \in Nodes(t) : t.node[i].key # TabNil}

\* Keys are in one place; chains join used nodes, and never merge.
Keyed(t) ==
  /\ \A i \in DOMAIN t.arr : t.arr[i] # TabNil => i \in IntKeys
  /\ \A i \in Nodes(t) : i \notin Used(t) => t.node[i].val = TabNil /\ t.node[i].next = None /\ i < t.free
  /\ \A i \in Used(t) : ~ inarray(t, t.node[i].key) /\ t.node[i].next \in Used(t) \cup {None}
  /\ \A i, j \in Used(t) : t.node[i].key = t.node[j].key => i = j
  /\ \A i, j \in Used(t) : t.node[i].next = t.node[j].next /\ t.node[i].next # None => i = j

\* The chain from m on meets i: i is in every set that has m and is closed under next.
NextClosed(t, S) == \A i \in S : t.node[i].next # None => t.node[i].next \in S
Meets(t, m, i) == \A S \in SUBSET Used(t) : m \in S /\ NextClosed(t, S) => i \in S

\* The main position of every key has a key of that main position, and its chain
\* meets the node of the key.
Chained(t) ==
  \A i \in Used(t) :
    LET m == hashkey(t, t.node[i].key)
    IN m \in Used(t) /\ hashkey(t, t.node[m].key) = m /\ Meets(t, m, i)

\* Ranks fall along the chains, and so no chain has a cycle.
Ranked(t, r) ==
  \A i \in Used(t) : /\ r[i] \in Nat /\ r[i] < Cardinality(Used(t))
                     /\ t.node[i].next # None => r[t.node[i].next] < r[i]

HashType == hash \in [StrKeys -> Nat]

LEMMA SizedTable ==
  ASSUME NEW t, NEW a \in Nat, NEW h \in Nat, Sized(t, a, h)
  PROVE  /\ DOMAIN t.arr = 0 .. a - 1 /\ Cardinality(DOMAIN t.arr) = a
         /\ Nodes(t) = 0 .. h - 1 /\ HashSize(t) = h /\ (t.node = <<>> <=> h = 0)
         /\ t.arr \in [0 .. a - 1 -> Values]
         /\ t.node \in [0 .. h - 1 -> TabNode] /\ \A i \in Nodes(t) : t.node[i] \in TabNode
         /\ t.free \in 0 .. h /\ t.nested \in BOOLEAN
         /\ t = [arr |-> t.arr, node |-> t.node, free |-> t.free, nested |-> t.nested]
<1>1. /\ t.arr \in [0 .. a - 1 -> Values] /\ t.node \in [0 .. h - 1 -> TabNode]
      /\ t.free \in 0 .. h /\ t.nested \in BOOLEAN
      /\ t = [arr |-> t.arr, node |-> t.node, free |-> t.free, nested |-> t.nested]
  BY DEF Sized
<1>2. Cardinality(0 .. a - 1) = a /\ Cardinality(0 .. h - 1) = h
  <2>1. \A x, y \in Int : Cardinality(x .. y) = IF x > y THEN 0 ELSE y - x + 1
    BY FS_Interval
  <2>2. 0 \in Int /\ a - 1 \in Int /\ h - 1 \in Int
    OBVIOUS
  <2> QED BY <2>1, <2>2
<1>3. t.node = <<>> <=> h = 0
  BY <1>1
<1> QED BY <1>1, <1>2, <1>3 DEF Nodes, HashSize

\* The used nodes are finitely many.
LEMMA UsedNodes ==
  ASSUME NEW t, NEW a \in Nat, NEW h \in Nat, Sized(t, a, h)
  PROVE  /\ Used(t) \subseteq Nodes(t) /\ IsFiniteSet(Used(t))
         /\ Cardinality(Used(t)) \in 0 .. h
         /\ Cardinality(Used(t)) = h => Used(t) = Nodes(t)
<1>1. Nodes(t) = 0 .. h - 1 /\ Used(t) \subseteq Nodes(t)
  BY SizedTable DEF Used
<1>2. IsFiniteSet(Nodes(t)) /\ Cardinality(Nodes(t)) = h
  BY <1>1, FS_Interval
<1>3. IsFiniteSet(Used(t)) /\ Cardinality(Used(t)) <= h
  BY <1>1, <1>2, FS_Subset
<1>4. Cardinality(Used(t)) \in Nat
  BY <1>3, FS_CardinalityType
<1>5. Cardinality(Used(t)) = h => Used(t) = Nodes(t)
  BY <1>1, <1>2, FS_Subset
<1> QED BY <1>1, <1>3, <1>4, <1>5

\* Main positions are nodes.
LEMMA MainPosition ==
  ASSUME HashType, NEW t, NEW a \in Nat, NEW h \in Nat, Sized(t, a, h), h # 0, NEW k \in TabKeys
  PROVE  hashkey(t, k) \in Nodes(t)
<1>1. HashSize(t) = h /\ Nodes(t) = 0 .. h - 1
  BY SizedTable
<1> DEFINE x == IF k \in StrKeys THEN hash[k] ELSE IntHash[k]
<1>2. x \in Nat
  BY TabAssumption DEF HashType, TabKeys
<1>3. hashkey(t, k) = x % h
  BY <1>1 DEF hashkey
<1> HIDE DEF x
<1>4. x % h \in 0 .. h - 1
  BY <1>2
<1> QED BY <1>1, <1>3, <1>4

(***************************************************************************)
(* Lookup.                                                                 *)
(***************************************************************************)

\* Chains end at None.
LEMMA NextNode ==
  ASSUME NEW t, NEW a \in Nat, NEW h \in Nat, Sized(t, a, h), Keyed(t), NEW i \in Nodes(t)
  PROVE  t.node[i].next \in Used(t) \cup {None} /\ t.node[i].next \in Nodes(t) \cup {None}
BY UsedNodes DEF Keyed

\* A chain that meets i beyond m goes on at the next node.
LEMMA MeetsNext ==
  ASSUME NEW t, Keyed(t), NEW m \in Used(t), NEW i \in Used(t), Meets(t, m, i), m # i
  PROVE  t.node[m].next \in Used(t) /\ Meets(t, t.node[m].next, i)
<1> DEFINE x == t.node[m].next
<1>1. x \in Used(t) \cup {None}
  BY DEF Keyed
<1>2. x # None
  <2> SUFFICES ASSUME x = None
               PROVE  FALSE
    OBVIOUS
  <2>1. {m} \in SUBSET Used(t) /\ NextClosed(t, {m})
    BY DEF NextClosed
  <2> QED BY <2>1 DEF Meets
<1>3. ASSUME NEW S \in SUBSET Used(t), x \in S, NextClosed(t, S)
      PROVE  i \in S
  <2>1. S \cup {m} \in SUBSET Used(t) /\ NextClosed(t, S \cup {m})
    BY <1>3 DEF NextClosed
  <2>2. i \in S \cup {m}
    BY <2>1 DEF Meets
  <2> QED BY <2>2
<1> QED BY <1>1, <1>2, <1>3 DEF Meets

IsSeek(t, k, s) ==
  s = [fuel \in 0 .. HashSize(t) |->
        [m \in Nodes(t) \cup {None} |->
           IF m = None \/ fuel = 0 THEN None
           ELSE IF t.node[m].key = k THEN m ELSE s[fuel - 1][t.node[m].next]]]

LEMMA SeekExists ==
  ASSUME NEW t, NEW a \in Nat, NEW h \in Nat, Sized(t, a, h), Keyed(t), NEW k
  PROVE  \E s : IsSeek(t, k, s)
<1> DEFINE M == Nodes(t) \cup {None}
           V == [M -> M]
           start == [m \in M |-> None]
           step(g) == [m \in M |-> IF m = None THEN None ELSE IF t.node[m].key = k THEN m ELSE g[t.node[m].next]]
           F == [x \in (1 .. h) \X V |-> step(x[2])]
<1>1. \A m \in M : m # None => t.node[m].next \in M
  BY NextNode
<1>2. start \in V /\ \A g \in V : step(g) \in V
  BY <1>1
<1> HIDE DEF start, step, V
<1>3. F \in [(1 .. h) \X V -> V] /\ \A i \in 1 .. h, g \in V : F[<<i, g>>] = step(g)
  BY <1>2
<1> HIDE DEF F
<1>4. PICK s : Accumulates(s, V, start, h, F)
  BY <1>2, <1>3, AccumulationExists
<1>5. \A i \in 1 .. h : i - 1 \in 0 .. h
  OBVIOUS
<1>6. s \in [0 .. h -> V] /\ s[0] = start /\ \A i \in 1 .. h : s[i] = step(s[i - 1])
  BY <1>3, <1>4, <1>5 DEF Accumulates
<1> DEFINE row(i) == [m \in M |-> IF m = None \/ i = 0 THEN None
                                 ELSE IF t.node[m].key = k THEN m ELSE s[i - 1][t.node[m].next]]
<1>7. ASSUME NEW i \in 0 .. h
      PROVE  s[i] = row(i)
  <2>1. CASE i = 0
    BY <1>6, <2>1 DEF start
  <2>2. CASE i # 0
    <3>1. i \in 1 .. h
      BY <2>2
    <3> QED BY <1>6, <2>2, <3>1 DEF step
  <2> QED BY <2>1, <2>2
<1>8. s = [i \in 0 .. h |-> row(i)]
  <2> HIDE DEF row
  <2> QED BY <1>6, <1>7
<1>9. HashSize(t) = h
  BY SizedTable
<1> QED BY <1>8, <1>9 DEF IsSeek

\* Lookup finds the node of the key, or there is none.
LEMMA SeekFinds ==
  ASSUME HashType, NEW t, NEW a \in Nat, NEW h \in Nat, Sized(t, a, h), Keyed(t), Chained(t),
         NEW r, Ranked(t, r), NEW k \in TabKeys
  PROVE  /\ Seek(t, k) \in Used(t) \cup {None}
         /\ Seek(t, k) # None => t.node[Seek(t, k)].key = k
         /\ Seek(t, k) = None => \A i \in Used(t) : t.node[i].key # k
<1>1. /\ Nodes(t) = 0 .. h - 1 /\ HashSize(t) = h /\ (t.node = <<>> <=> h = 0)
      /\ Used(t) \subseteq Nodes(t) /\ Cardinality(Used(t)) \in 0 .. h
  BY SizedTable, UsedNodes
<1>2. CASE h = 0
  <2>1. Seek(t, k) = None /\ Used(t) = {}
    BY <1>1, <1>2 DEF Seek
  <2> QED BY <2>1
<1>3. CASE h # 0
  <2> DEFINE s == CHOOSE x : IsSeek(t, k, x)
             M == Nodes(t) \cup {None}
             k0 == hashkey(t, k)
  <2>1. IsSeek(t, k, s)
    BY SeekExists, Zenon
  <2>2. Seek(t, k) = s[h][k0]
    <3>1. t.node # <<>>
      BY <1>1, <1>3
    <3>2. Seek(t, k) = s[HashSize(t)][k0]
      BY <3>1, Zenon DEF Seek, IsSeek
    <3> QED BY <1>1, <3>2
  <2>3. k0 \in Nodes(t)
    BY <1>3, MainPosition
  <2> HIDE DEF s, k0
  <2>4. \A f \in 0 .. h, m \in M :
          s[f][m] = IF m = None \/ f = 0 THEN None
                    ELSE IF t.node[m].key = k THEN m ELSE s[f - 1][t.node[m].next]
    <3>1. \A f \in 0 .. HashSize(t) :
            s[f] = [m \in M |-> IF m = None \/ f = 0 THEN None
                                ELSE IF t.node[m].key = k THEN m ELSE s[f - 1][t.node[m].next]]
      BY <2>1, Zenon DEF IsSeek
    <3> SUFFICES ASSUME NEW f \in 0 .. h, NEW m \in M
                 PROVE  s[f][m] = IF m = None \/ f = 0 THEN None
                                  ELSE IF t.node[m].key = k THEN m ELSE s[f - 1][t.node[m].next]
      OBVIOUS
    <3> HIDE DEF M
    <3>2. f \in 0 .. HashSize(t)
      BY <1>1
    <3>3. s[f] = [x \in M |-> IF x = None \/ f = 0 THEN None
                              ELSE IF t.node[x].key = k THEN x ELSE s[f - 1][t.node[x].next]]
      BY <3>1, <3>2, Zenon
    <3> QED BY <3>3
  <2>5. \A m \in M : m # None => t.node[m].next \in M
    BY NextNode
  <2> DEFINE P == {f \in 0 .. h : \A m \in M : s[f][m] \in M /\ (s[f][m] # None => t.node[s[f][m]].key = k)}
             Q == {f \in 0 .. h : \A m \in Used(t), i \in Used(t) :
                                    t.node[i].key = k /\ r[m] < f /\ Meets(t, m, i) => s[f][m] = i}
  <2>6. 0 .. h \subseteq P
    <3>1. 0 \in P
      BY <2>4
    <3>2. ASSUME NEW f \in 1 .. h, f - 1 \in P
          PROVE  f \in P
      BY <2>4, <2>5, <3>2
    <3> HIDE DEF P
    <3> QED BY <3>1, <3>2, BoundedInduction
  <2>7. 0 .. h \subseteq Q
    <3>1. 0 \in Q
      BY DEF Ranked
    <3>2. ASSUME NEW f \in 1 .. h, f - 1 \in Q
          PROVE  f \in Q
      <4> SUFFICES ASSUME NEW m \in Used(t), NEW i \in Used(t),
                          t.node[i].key = k, r[m] < f, Meets(t, m, i)
                   PROVE  s[f][m] = i
        OBVIOUS
      <4>0. m \in M /\ m # None /\ f \in 0 .. h /\ f # 0
        BY <1>1 DEF None
      <4>1. CASE m = i
        BY <2>4, <4>0, <4>1
      <4>2. CASE m # i
        <5>1. t.node[m].next \in Used(t) /\ Meets(t, t.node[m].next, i)
          BY <4>2, MeetsNext
        <5>2. t.node[m].key # k
          BY <4>2 DEF Keyed
        <5>3. t.node[m].next # None
          BY <1>1, <5>1 DEF None
        <5>4. r[t.node[m].next] < f - 1
          BY <5>1, <5>3 DEF Ranked
        <5>5. s[f - 1][t.node[m].next] = i
          BY <3>2, <5>1, <5>4
        <5> QED BY <2>4, <4>0, <5>2, <5>5
      <4> QED BY <4>1, <4>2
    <3> HIDE DEF Q
    <3> QED BY <3>1, <3>2, BoundedInduction
  <2>8. h \in 0 .. h /\ k0 \in M
    BY <2>3
  <2>9. s[h][k0] \in M /\ (s[h][k0] # None => t.node[s[h][k0]].key = k)
    <3>1. h \in P
      BY <2>6, <2>8
    <3> QED BY <2>8, <3>1
  <2>10. s[h][k0] \in Used(t) \cup {None}
    BY <2>9, TabAssumption DEF Used
  <2>11. ASSUME s[h][k0] = None, NEW i \in Used(t), t.node[i].key = k
         PROVE  FALSE
    <3>1. k0 \in Used(t) /\ Meets(t, k0, i)
      BY <2>11 DEF Chained, k0
    <3>2. r[k0] < h
      BY <1>1, <3>1 DEF Ranked
    <3>3. h \in Q
      BY <2>7, <2>8
    <3>4. s[h][k0] = i
      BY <2>11, <3>1, <3>2, <3>3
    <3> QED BY <1>1, <2>11, <3>4 DEF None
  <2> QED BY <2>2, <2>9, <2>10, <2>11
<1> QED BY <1>2, <1>3

IsChains(t, c) ==
  c = [fuel \in 0 .. HashSize(t) |->
        [m \in Nodes(t) |-> IF t.node[m].next = None \/ fuel = 0 THEN <<m>>
                            ELSE <<m>> \o c[fuel - 1][t.node[m].next]]]

LEMMA ChainsExist ==
  ASSUME NEW t, NEW a \in Nat, NEW h \in Nat, Sized(t, a, h), Keyed(t)
  PROVE  \E c : IsChains(t, c)
<1> DEFINE M == Nodes(t)
           V == [M -> Seq(M)]
           start == [m \in M |-> <<m>>]
           step(g) == [m \in M |-> IF t.node[m].next = None THEN <<m>> ELSE <<m>> \o g[t.node[m].next]]
           F == [x \in (1 .. h) \X V |-> step(x[2])]
<1>1. \A m \in M : t.node[m].next # None => t.node[m].next \in M
  BY NextNode
<1>2. start \in V /\ \A g \in V : step(g) \in V
  BY <1>1
<1> HIDE DEF start, step, V
<1>3. F \in [(1 .. h) \X V -> V] /\ \A i \in 1 .. h, g \in V : F[<<i, g>>] = step(g)
  BY <1>2
<1> HIDE DEF F
<1>4. PICK c : Accumulates(c, V, start, h, F)
  BY <1>2, <1>3, AccumulationExists
<1>5. \A i \in 1 .. h : i - 1 \in 0 .. h
  OBVIOUS
<1>6. c \in [0 .. h -> V] /\ c[0] = start /\ \A i \in 1 .. h : c[i] = step(c[i - 1])
  BY <1>3, <1>4, <1>5 DEF Accumulates
<1> DEFINE row(i) == [m \in M |-> IF t.node[m].next = None \/ i = 0 THEN <<m>>
                                 ELSE <<m>> \o c[i - 1][t.node[m].next]]
<1>7. ASSUME NEW i \in 0 .. h
      PROVE  c[i] = row(i)
  <2>1. CASE i = 0
    BY <1>6, <2>1 DEF start
  <2>2. CASE i # 0
    <3>1. i \in 1 .. h
      BY <2>2
    <3> QED BY <1>6, <2>2, <3>1 DEF step
  <2> QED BY <2>1, <2>2
<1>8. c = [i \in 0 .. h |-> row(i)]
  <2> HIDE DEF row
  <2> QED BY <1>6, <1>7
<1>9. HashSize(t) = h
  BY SizedTable
<1> QED BY <1>8, <1>9 DEF IsChains

\* A chain has no more nodes than its rank allows, and has the node before every
\* one that it meets.
LEMMA ChainNodes ==
  ASSUME NEW t, NEW a \in Nat, NEW h \in Nat, Sized(t, a, h), Keyed(t),
         NEW r, Ranked(t, r), NEW n \in Nodes(t)
  PROVE  /\ TabChain(t, n) \in Seq(Nodes(t))
         /\ Len(TabChain(t, n)) <= HashSize(t)
         /\ \A i \in Used(t) : n \in Used(t) /\ n # i /\ Meets(t, n, i) =>
              \E j \in 1 .. Len(TabChain(t, n)) : t.node[TabChain(t, n)[j]].next = i
<1>1. /\ Nodes(t) = 0 .. h - 1 /\ HashSize(t) = h
      /\ Used(t) \subseteq Nodes(t) /\ Cardinality(Used(t)) \in 0 .. h
  BY SizedTable, UsedNodes
<1> DEFINE c == CHOOSE x : IsChains(t, x)
           M == Nodes(t)
<1>2. IsChains(t, c)
  BY ChainsExist, Zenon
<1>3. TabChain(t, n) = c[h][n]
  <2>1. TabChain(t, n) = c[HashSize(t)][n]
    BY Zenon DEF TabChain, IsChains
  <2> QED BY <1>1, <2>1
<1> HIDE DEF c
<1>4. \A f \in 0 .. h, m \in M :
        /\ t.node[m].next = None \/ f = 0 => c[f][m] = <<m>>
        /\ t.node[m].next # None /\ f # 0 => c[f][m] = <<m>> \o c[f - 1][t.node[m].next]
  <2>1. \A f \in 0 .. HashSize(t) :
          c[f] = [m \in M |-> IF t.node[m].next = None \/ f = 0 THEN <<m>>
                              ELSE <<m>> \o c[f - 1][t.node[m].next]]
    BY <1>2, Zenon DEF IsChains
  <2>2. \A f \in 0 .. h :
          c[f] = [m \in M |-> IF t.node[m].next = None \/ f = 0 THEN <<m>>
                              ELSE <<m>> \o c[f - 1][t.node[m].next]]
    BY <1>1, <2>1
  <2> QED BY <2>2, Zenon
<1>5. \A m \in M : t.node[m].next # None => t.node[m].next \in Used(t)
  BY NextNode
<1> DEFINE before(f, m, i) == \E j \in 1 .. Len(c[f][m]) : t.node[c[f][m][j]].next = i
           P == {f \in 0 .. h : \A m \in M : c[f][m] \in Seq(M) /\ (m \in Used(t) => Len(c[f][m]) <= r[m] + 1)}
           Q == {f \in 0 .. h : \A m \in Used(t), i \in Used(t) :
                                  r[m] < f /\ m # i /\ Meets(t, m, i) => before(f, m, i)}
<1>6. 0 .. h \subseteq P
  <2>1. 0 \in P
    <3>1. \A m \in Used(t) : r[m] \in Nat
      BY DEF Ranked
    <3>0. 0 \in 0 .. h
      OBVIOUS
    <3>2. \A m \in M : c[0][m] = <<m>>
      BY <1>4, <3>0, Zenon
    <3>3. \A m \in M : <<m>> \in Seq(M) /\ Len(<<m>>) = 1
      OBVIOUS
    <3>4. \A m \in M : c[0][m] \in Seq(M) /\ Len(c[0][m]) = 1
      BY <3>2, <3>3, Zenon
    <3>5. \A m \in M : m \in Used(t) => 1 <= r[m] + 1
      BY <3>1
    <3>6. \A m \in M : c[0][m] \in Seq(M) /\ (m \in Used(t) => Len(c[0][m]) <= r[m] + 1)
      BY <3>4, <3>5, Zenon
    <3> QED BY <3>0, <3>6, Zenon
  <2>2. ASSUME NEW f \in 1 .. h, f - 1 \in P
        PROVE  f \in P
    <3> SUFFICES ASSUME NEW m \in M
                 PROVE  c[f][m] \in Seq(M) /\ (m \in Used(t) => Len(c[f][m]) <= r[m] + 1)
      OBVIOUS
    <3>0. f \in 0 .. h /\ f # 0
      OBVIOUS
    <3>1. CASE t.node[m].next = None
      <4>1. c[f][m] = <<m>>
        BY <1>4, <3>0, <3>1, Zenon
      <4>2. m \in Used(t) => r[m] \in Nat
        BY DEF Ranked
      <4> QED BY <4>1, <4>2
    <3>2. CASE t.node[m].next # None
      <4> DEFINE x == t.node[m].next
      <4>1. x \in Used(t) /\ x \in M
        BY <1>1, <1>5, <3>2
      <4>2. c[f][m] = <<m>> \o c[f - 1][x]
        BY <1>4, <3>0, <3>2, Zenon
      <4>3. c[f - 1][x] \in Seq(M) /\ Len(c[f - 1][x]) <= r[x] + 1
        BY <2>2, <4>1
      <4>4. m \in Used(t) => r[x] \in Nat /\ r[m] \in Nat /\ r[x] < r[m]
        BY <3>2, <4>1 DEF Ranked
      <4> HIDE DEF x
      <4>5. c[f][m] \in Seq(M) /\ Len(c[f][m]) = 1 + Len(c[f - 1][x]) /\ Len(c[f - 1][x]) \in Nat
        BY <4>2, <4>3
      <4> QED BY <4>3, <4>4, <4>5
    <3> QED BY <3>1, <3>2
  <2> HIDE DEF P
  <2> QED BY <2>1, <2>2, BoundedInduction
<1>7. 0 .. h \subseteq Q
  <2>1. 0 \in Q
    BY DEF Ranked
  <2>2. ASSUME NEW f \in 1 .. h, f - 1 \in Q
        PROVE  f \in Q
    <3> SUFFICES ASSUME NEW m \in Used(t), NEW i \in Used(t), r[m] < f, m # i, Meets(t, m, i)
                 PROVE  before(f, m, i)
      OBVIOUS
    <3> DEFINE x == t.node[m].next
               q == c[f - 1][x]
    <3>1. x \in Used(t) /\ Meets(t, x, i) /\ x \in M /\ m \in M
      BY <1>1, MeetsNext
    <3>2. x # None
      BY <1>1, <3>1 DEF None
    <3>0. f \in 0 .. h /\ f # 0
      OBVIOUS
    <3>3. c[f][m] = <<m>> \o q
      BY <1>4, <3>0, <3>1, <3>2, Zenon
    <3>4. q \in Seq(M)
      <4>1. f - 1 \in P
        BY <1>6
      <4> QED BY <3>1, <4>1
    <3> HIDE DEF q
    <3>5. Len(c[f][m]) = 1 + Len(q) /\ c[f][m][1] = m /\ \A j \in 1 .. Len(q) : c[f][m][j + 1] = q[j]
      BY <3>3, <3>4
    <3>6. Len(q) \in Nat
      BY <3>4
    <3>7. CASE x = i
      <4>1. 1 \in 1 .. Len(c[f][m])
        BY <3>5, <3>6
      <4> QED BY <3>5, <3>7, <4>1
    <3>8. CASE x # i
      <4>1. r[x] < f - 1
        BY <3>1, <3>2 DEF Ranked
      <4>2. before(f - 1, x, i)
        BY <2>2, <3>1, <3>8, <4>1
      <4>3. PICK j \in 1 .. Len(q) : t.node[q[j]].next = i
        BY <4>2 DEF q
      <4>4. j + 1 \in 1 .. Len(c[f][m])
        BY <3>5, <3>6
      <4> QED BY <3>5, <4>3, <4>4
    <3> QED BY <3>7, <3>8
  <2> HIDE DEF Q
  <2> QED BY <2>1, <2>2, BoundedInduction
<1>8. h \in 0 .. h
  BY <1>1
<1>9. c[h][n] \in Seq(M) /\ (n \in Used(t) => Len(c[h][n]) <= r[n] + 1)
  BY <1>6, <1>8
<1>10. Len(c[h][n]) <= h
  <2>1. CASE n \in Used(t)
    <3>1. r[n] \in Nat /\ r[n] < h
      BY <1>1, <2>1 DEF Ranked
    <3>2. Len(c[h][n]) \in Nat
      BY <1>9
    <3> QED BY <1>9, <2>1, <3>1, <3>2
  <2>2. CASE n \notin Used(t)
    <3>1. t.node[n].next = None
      BY <2>2 DEF Keyed
    <3>2. c[h][n] = <<n>>
      BY <1>4, <1>8, <3>1, Zenon
    <3>3. 1 <= h
      BY <1>1
    <3> QED BY <3>2, <3>3
  <2> QED BY <2>1, <2>2
<1>11. \A i \in Used(t) : n \in Used(t) /\ n # i /\ Meets(t, n, i) => before(h, n, i)
  <2>1. h \in Q
    BY <1>7, <1>8
  <2>2. n \in Used(t) => r[n] < h
    BY <1>1 DEF Ranked
  <2> QED BY <2>1, <2>2
<1> QED BY <1>1, <1>3, <1>9, <1>10, <1>11

(***************************************************************************)
(* New keys.                                                               *)
(***************************************************************************)
IsRechain(node, n, moved, r) ==
  LET Belongs(nd, m) == nd[m].key \in StrKeys /\ nd[m].val # TabNil
                          /\ hash[nd[m].key] % Cardinality(DOMAIN node) = n
  IN r = [j \in 0 .. Cardinality(DOMAIN node) |->
            IF j = 0 THEN <<node, moved>>
            ELSE LET p == r[j - 1]
                     nd == p[1]
                     at == p[2]
                     m == nd[at].next
                 IN IF m = None THEN p
                    ELSE IF Belongs(nd, m)
                         THEN <<[nd EXCEPT ![at].next = nd[m].next, ![m].next = nd[n].next,
                                           ![n].next = m], at>>
                         ELSE <<nd, m>>]

\* While no string is interned again, no key is behind a node that is not in its
\* main position and belongs there: nothing has to be chained again.
LEMMA NothingRechained ==
  ASSUME HashType, NEW h \in Nat, NEW node \in [0 .. h - 1 -> TabNode], NEW n, NEW moved \in 0 .. h - 1,
         \A i \in 0 .. h - 1 : /\ node[i].next \in (0 .. h - 1) \cup {None}
                               /\ node[i].key \in StrKeys => hash[node[i].key] % h # n
  PROVE  Rechain(node, moved, n) = node
<1> DEFINE chosen == CHOOSE x : IsRechain(node, n, moved, x)
           M == 0 .. h - 1
           V == {node} \X M
           go(p) == IF node[p[2]].next = None THEN p ELSE <<node, node[p[2]].next>>
           F == [x \in (1 .. h) \X V |-> go(x[2])]
<1>1. DOMAIN node = M /\ Cardinality(DOMAIN node) = h
  <2>1. \A x, y \in Int : Cardinality(x .. y) = IF x > y THEN 0 ELSE y - x + 1
    BY FS_Interval
  <2>2. 0 \in Int /\ h - 1 \in Int
    OBVIOUS
  <2>3. Cardinality(0 .. h - 1) = h
    BY <2>1, <2>2
  <2> QED BY <2>3
<1>2. \A p \in V : go(p) \in V
  OBVIOUS
<1>3. <<node, moved>> \in V
  OBVIOUS
<1> HIDE DEF go, V
<1>4. F \in [(1 .. h) \X V -> V] /\ \A i \in 1 .. h, p \in V : F[<<i, p>>] = go(p)
  BY <1>2
<1> HIDE DEF F
<1>5. PICK g : Accumulates(g, V, <<node, moved>>, h, F)
  BY <1>3, <1>4, AccumulationExists
<1>6. \A i \in 1 .. h : i - 1 \in 0 .. h
  OBVIOUS
<1>7. g \in [0 .. h -> V] /\ g[0] = <<node, moved>> /\ \A i \in 1 .. h : g[i] = go(g[i - 1])
  BY <1>4, <1>5, <1>6 DEF Accumulates
<1> DEFINE hs == Cardinality(DOMAIN node)
           Belongs(nd, m) == nd[m].key \in StrKeys /\ nd[m].val # TabNil /\ hash[nd[m].key] % hs = n
           next(p) == IF p[1][p[2]].next = None THEN p
                      ELSE IF Belongs(p[1], p[1][p[2]].next)
                           THEN <<[p[1] EXCEPT ![p[2]].next = p[1][p[1][p[2]].next].next,
                                               ![p[1][p[2]].next].next = p[1][n].next,
                                               ![n].next = p[1][p[2]].next], p[2]>>
                           ELSE <<p[1], p[1][p[2]].next>>
<1>8. ASSUME NEW p \in V
      PROVE  next(p) = go(p) /\ p[1] = node
  <2>1. p[1] = node /\ p[2] \in M
    BY DEF V
  <2>2. node[p[2]].next # None => ~ Belongs(node, node[p[2]].next)
    BY <1>1, <2>1
  <2> QED BY <2>1, <2>2 DEF go
<1> DEFINE isRec(x) == x = [j \in 0 .. hs |-> IF j = 0 THEN <<node, moved>> ELSE next(x[j - 1])]
<1>9. \A x : IsRechain(node, n, moved, x) <=> isRec(x)
  BY DEF IsRechain
<1> HIDE DEF next, Belongs
<1>10. isRec(g)
  <2>1. \A j \in 0 .. h : g[j] = IF j = 0 THEN <<node, moved>> ELSE next(g[j - 1])
    <3>1. \A i \in 1 .. h : g[i] = next(g[i - 1])
      BY <1>6, <1>7, <1>8
    <3>2. \A j \in 0 .. h : j # 0 => j \in 1 .. h
      OBVIOUS
    <3> QED BY <1>7, <3>1, <3>2, Zenon
  <2>2. g = [j \in 0 .. h |-> g[j]] /\ hs = h
    BY <1>1, <1>7
  <2> HIDE DEF hs
  <2> QED BY <2>1, <2>2, Zenon
<1>11. isRec(chosen)
  <2> HIDE DEF isRec
  <2>1. IsRechain(node, n, moved, chosen)
    BY <1>9, <1>10, Zenon
  <2> QED BY <1>9, <2>1, Zenon
<1>12. PICK r : isRec(r) /\ Rechain(node, moved, n) = r[h][1]
  <2>1. Rechain(node, moved, n) = chosen[Cardinality(DOMAIN node)][1]
    BY Zenon DEF Rechain, IsRechain
  <2> HIDE DEF chosen, isRec
  <2> QED BY <1>1, <1>11, <2>1
<1>13. r[0] = <<node, moved>> /\ \A j \in 1 .. h : r[j] = next(r[j - 1])
  <2>1. 0 \in 0 .. h /\ \A j \in 1 .. h : j \in 0 .. h /\ j # 0
    OBVIOUS
  <2>2. hs = h
    BY <1>1
  <2> HIDE DEF hs
  <2> QED BY <1>12, <2>1, <2>2, Zenon
<1>14. ASSUME NEW i \in 1 .. h, g[i - 1] = r[i - 1]
       PROVE  g[i] = r[i]
  BY <1>6, <1>7, <1>8, <1>13, <1>14
<1> DEFINE S == {i \in 0 .. h : g[i] = r[i]}
<1>15. \A i \in 0 .. h : g[i] = r[i]
  <2>1. 0 \in S
    <3>1. 0 \in 0 .. h
      OBVIOUS
    <3>2. g[0] = r[0]
      BY <1>7, <1>13, Zenon
    <3> QED BY <3>1, <3>2
  <2>2. \A i \in 1 .. h : i - 1 \in S => i \in S
    BY <1>14
  <2> HIDE DEF S
  <2>3. 0 .. h \subseteq S
    BY <2>1, <2>2, BoundedInduction
  <2> QED BY <2>3 DEF S
<1>16. r[h] \in V
  BY <1>7, <1>15
<1> QED BY <1>8, <1>12, <1>16

\* A table of a slots and h nodes with nothing wrong.
Whole(t, a, h) ==
  Sized(t, a, h) /\ Keyed(t) /\ Chained(t) /\ \E r : Ranked(t, r)

\* u has the keys of t that are not dead, and k.
Gains(t, u, k, v) ==
  /\ u.arr = t.arr /\ u.nested = t.nested
  /\ \E i \in Nodes(t) : Used(u) \subseteq Used(t) \cup {i}
  /\ \E i \in Used(u) : u.node[i].key = k /\ u.node[i].val = v
  /\ \A i \in Used(u) : u.node[i].key # k =>
        \E j \in Used(t) : u.node[i].key = t.node[j].key /\ u.node[i].val = t.node[j].val
  /\ \A j \in Used(t) : t.node[j].val # TabNil =>
        \E i \in Used(u) : u.node[i].key = t.node[j].key /\ u.node[i].val = t.node[j].val

\* k is missing in the hash part of t, where v would be stored for it.
Missing(t, k, v) ==
  k \in TabKeys /\ v \in Values /\ ~ inarray(t, k) /\ \A i \in Used(t) : t.node[i].key # k

\* Main positions depend on the size of the hash part alone.
LEMMA SameMain ==
  ASSUME NEW t, NEW u, NEW a \in Nat, NEW b \in Nat, NEW h \in Nat, Sized(t, a, h), Sized(u, b, h)
  PROVE  \A k : hashkey(u, k) = hashkey(t, k)
<1>1. HashSize(t) = h /\ HashSize(u) = h
  BY SizedTable
<1> QED BY <1>1 DEF hashkey

\* Records with other fields.
LEMMA Resized ==
  ASSUME NEW a \in Nat, NEW h \in Nat, NEW t,
         t = [arr |-> t.arr, node |-> t.node, free |-> t.free, nested |-> t.nested],
         t.arr \in [0 .. a - 1 -> Values], t.node \in [0 .. h - 1 -> TabNode],
         t.free \in 0 .. h, t.nested \in BOOLEAN
  PROVE  Sized(t, a, h)
BY DEF Sized

\* The main position has no key, or a dead one: the new key takes its place.
LEMMA Overwritten ==
  ASSUME HashType, NEW t, NEW a \in Nat, NEW h \in Nat \ {0}, Whole(t, a, h),
         NEW k, NEW v, Missing(t, k, v),
         NEW u, NEW n, n = hashkey(t, k), t.node[n].val = TabNil,
         u = [t EXCEPT !.node[n] = [key |-> k, val |-> v, next |-> t.node[n].next]]
  PROVE  Whole(u, a, h) /\ Gains(t, u, k, v)
<1>1. /\ Sized(t, a, h) /\ Keyed(t) /\ Chained(t)
      /\ k \in TabKeys /\ v \in Values /\ ~ inarray(t, k) /\ \A i \in Used(t) : t.node[i].key # k
  BY DEF Whole, Missing
<1> PICK r : Ranked(t, r)
  BY DEF Whole
<1>2. n \in Nodes(t) /\ n \in 0 .. h - 1
  BY <1>1, MainPosition, SizedTable
<1>3. /\ Nodes(t) = 0 .. h - 1 /\ t.node \in [0 .. h - 1 -> TabNode]
      /\ t = [arr |-> t.arr, node |-> t.node, free |-> t.free, nested |-> t.nested]
      /\ t.arr \in [0 .. a - 1 -> Values] /\ t.free \in 0 .. h /\ t.nested \in BOOLEAN
  BY <1>1, SizedTable
<1> DEFINE x == [key |-> k, val |-> v, next |-> t.node[n].next]
<1>4. x \in TabNode
  <2>1. t.node[n].next \in Nat \cup {None}
    BY <1>2, <1>3 DEF TabNode
  <2> QED BY <1>1, <2>1 DEF TabNode
<1> DEFINE w == [t.node EXCEPT ![n] = x]
<1>5. u = [arr |-> t.arr, node |-> w, free |-> t.free, nested |-> t.nested]
  <2> HIDE DEF x
  <2> QED BY <1>2, <1>3 DEF x
<1>6. Sized(u, a, h) /\ u.arr = t.arr /\ u.node = w /\ u.free = t.free /\ u.nested = t.nested
  <2>1. w \in [0 .. h - 1 -> TabNode]
    BY <1>2, <1>3, <1>4
  <2> HIDE DEF w
  <2>2. h \in Nat /\ t.arr \in [0 .. a - 1 -> Values] /\ t.free \in 0 .. h /\ t.nested \in BOOLEAN
    BY <1>3
  <2>3. u.arr = t.arr /\ u.node = w /\ u.free = t.free /\ u.nested = t.nested
    BY <1>5
  <2>5. u = [arr |-> u.arr, node |-> u.node, free |-> u.free, nested |-> u.nested]
    BY <1>5, <2>3
  <2>4. Sized(u, a, h)
    BY <2>1, <2>2, <2>3, <2>5, Resized
  <2> QED BY <2>3, <2>4
<1>7. /\ u.arr = t.arr /\ u.nested = t.nested /\ u.free = t.free /\ Nodes(u) = Nodes(t)
      /\ \A i \in Nodes(t) : i # n => u.node[i] = t.node[i]
      /\ u.node[n].key = k /\ u.node[n].val = v /\ u.node[n].next = t.node[n].next
  BY <1>2, <1>3, <1>6 DEF Nodes
<1> HIDE DEF x, w
<1>8. k # TabNil /\ Used(u) = Used(t) \cup {n} /\ Used(t) \subseteq Nodes(t)
  BY <1>1, <1>2, <1>7, TabAssumption DEF Used
<1>9. \A i \in Nodes(t) : u.node[i].next = t.node[i].next
  BY <1>7
<1>10. \A i \in Used(t) : i # n => u.node[i] = t.node[i]
  BY <1>7, <1>8
<1>11. n \notin Used(t) => t.node[n].next = None
  BY <1>1, <1>2 DEF Keyed
<1>12. Keyed(u)
  <2>1. \A i \in Nodes(u) : i \notin Used(u) => u.node[i].val = TabNil /\ u.node[i].next = None /\ i < u.free
    BY <1>1, <1>7, <1>8 DEF Keyed
  <2>2. \A i \in Used(u) : ~ inarray(u, u.node[i].key)
    BY <1>1, <1>7, <1>8, <1>10 DEF Keyed, inarray
  <2>6. \A i \in Used(u) : u.node[i].next \in Used(u) \cup {None}
    <3>1. \A i \in Used(t) : u.node[i].next \in Used(u) \cup {None}
      BY <1>1, <1>8, <1>9 DEF Keyed
    <3>2. n \notin Used(t) => u.node[n].next = None
      BY <1>2, <1>9, <1>11
    <3> QED BY <1>8, <3>1, <3>2
  <2>3. \A i, j \in Used(u) : u.node[i].key = u.node[j].key => i = j
    BY <1>1, <1>7, <1>8, <1>10 DEF Keyed
  <2>4. \A i, j \in Used(u) : u.node[i].next = u.node[j].next /\ u.node[i].next # None => i = j
    BY <1>1, <1>2, <1>8, <1>9, <1>11 DEF Keyed
  <2>5. \A i \in DOMAIN u.arr : u.arr[i] # TabNil => i \in IntKeys
    BY <1>1, <1>7 DEF Keyed
  <2> QED BY <2>1, <2>2, <2>3, <2>4, <2>5, <2>6 DEF Keyed
<1>13. \A i, m : Meets(t, m, i) /\ m \in Used(t) => Meets(u, m, i)
  <2> SUFFICES ASSUME NEW i, NEW m \in Used(t), Meets(t, m, i),
                      NEW S \in SUBSET Used(u), m \in S, NextClosed(u, S)
               PROVE  i \in S
    BY DEF Meets
  <2>1. NextClosed(t, S \cap Used(t))
    BY <1>1, <1>8, <1>9 DEF NextClosed, Keyed
  <2> QED BY <2>1 DEF Meets
<1>14. Chained(u)
  <2> SUFFICES ASSUME NEW i \in Used(u)
               PROVE  LET m == hashkey(u, u.node[i].key)
                      IN m \in Used(u) /\ hashkey(u, u.node[m].key) = m /\ Meets(u, m, i)
    BY DEF Chained
  <2>0. \A y : hashkey(u, y) = hashkey(t, y)
    BY <1>1, <1>6, SameMain
  <2>1. CASE i = n
    BY <1>7, <1>8, <2>0, <2>1 DEF Meets
  <2>2. CASE i # n
    <3> DEFINE m == hashkey(t, t.node[i].key)
    <3>1. i \in Used(t) /\ u.node[i] = t.node[i]
      BY <1>8, <1>10, <2>2
    <3>2. m \in Used(t) /\ hashkey(t, t.node[m].key) = m /\ Meets(t, m, i)
      BY <1>1, <3>1 DEF Chained
    <3>3. hashkey(t, u.node[m].key) = m
      BY <1>7, <1>10, <3>2
    <3> QED BY <1>8, <1>13, <2>0, <3>1, <3>2, <3>3
  <2> QED BY <2>1, <2>2
<1>15. \E q : Ranked(u, q)
  <2> DEFINE q == [i \in Used(u) |-> IF i \in Used(t) THEN r[i] ELSE 0]
  <2>1. IsFiniteSet(Used(u)) /\ Cardinality(Used(t)) \in Nat /\ Cardinality(Used(u)) \in Nat /\ IsFiniteSet(Used(t))
    <3>1. IsFiniteSet(Used(u)) /\ IsFiniteSet(Used(t))
      BY <1>1, <1>6, UsedNodes
    <3> QED BY <3>1, FS_CardinalityType
  <2>2. Cardinality(Used(t)) <= Cardinality(Used(u))
    BY <1>8, <2>1, FS_Subset
  <2>3. Cardinality(Used(u)) # 0
    BY <1>8, <2>1, FS_EmptySet
  <2>4. Ranked(u, q)
    BY <1>1, <1>2, <1>8, <1>9, <1>11, <2>1, <2>2, <2>3 DEF Ranked, Keyed
  <2> QED BY <2>4
<1>16. Gains(t, u, k, v)
  <2>1. \A j \in Used(t) : t.node[j].val # TabNil => j # n
    OBVIOUS
  <2> QED BY <1>2, <1>7, <1>8, <1>10, <2>1 DEF Gains
<1> QED BY <1>6, <1>12, <1>14, <1>15, <1>16 DEF Whole

\* f is the free node that lj_tab_newkey() takes.
IsFree(t, f) == f \in Nodes(t) \ Used(t) /\ \A i \in Nodes(t) \ Used(t) : i <= f

\* What all nodes of u have if they are those of t, and one more is used.
LEMMA OneMore ==
  ASSUME NEW t, NEW a \in Nat, NEW h \in Nat, Sized(t, a, h), NEW u, Sized(u, a, h),
         NEW f, Used(u) = Used(t) \cup {f}, f \notin Used(t)
  PROVE  /\ Cardinality(Used(t)) \in Nat
         /\ Cardinality(Used(u)) = Cardinality(Used(t)) + 1
<1>1. IsFiniteSet(Used(t))
  BY UsedNodes
<1> QED BY <1>1, FS_AddElement, FS_CardinalityType

LinkedTo(t, k, v, n, f) ==
  [t EXCEPT !.free = f,
            !.node = [@ EXCEPT ![f] = [key |-> k, val |-> v, next |-> t.node[n].next], ![n].next = f]]

\* The main position has a key that belongs there: the new key is linked behind it.
LEMMA Linked ==
  ASSUME HashType, NEW t, NEW a \in Nat, NEW h \in Nat \ {0}, Whole(t, a, h),
         NEW k, NEW v, Missing(t, k, v),
         NEW n, n = hashkey(t, k), t.node[n].val # TabNil, hashkey(t, t.node[n].key) = n,
         NEW f, IsFree(t, f),
         NEW u, u = LinkedTo(t, k, v, n, f)
  PROVE  Whole(u, a, h) /\ Gains(t, u, k, v)
<1>1. /\ Sized(t, a, h) /\ Keyed(t) /\ Chained(t)
      /\ k \in TabKeys /\ v \in Values /\ ~ inarray(t, k) /\ \A i \in Used(t) : t.node[i].key # k
      /\ f \in Nodes(t) /\ f \notin Used(t) /\ \A i \in Nodes(t) \ Used(t) : i <= f
  BY DEF Whole, Missing, IsFree
<1> PICK r : Ranked(t, r)
  BY DEF Whole
<1>2. n \in Nodes(t) /\ n \in 0 .. h - 1 /\ f \in 0 .. h - 1 /\ f \in 0 .. h /\ n \in Used(t) /\ n # f
  <2>1. n \in Nodes(t) /\ n \in 0 .. h - 1
    BY <1>1, MainPosition, SizedTable
  <2>2. n \in Used(t)
    BY <1>1, <2>1 DEF Keyed
  <2>3. Nodes(t) = 0 .. h - 1
    BY <1>1, SizedTable
  <2> QED BY <1>1, <2>1, <2>2, <2>3
<1>3. /\ Nodes(t) = 0 .. h - 1 /\ t.node \in [0 .. h - 1 -> TabNode]
      /\ t = [arr |-> t.arr, node |-> t.node, free |-> t.free, nested |-> t.nested]
      /\ t.arr \in [0 .. a - 1 -> Values] /\ t.free \in 0 .. h /\ t.nested \in BOOLEAN
  BY <1>1, SizedTable
<1> DEFINE x == [key |-> k, val |-> v, next |-> t.node[n].next]
           y == [key |-> t.node[n].key, val |-> t.node[n].val, next |-> f]
           nodes == [i \in 0 .. h - 1 |-> IF i = f THEN x ELSE IF i = n THEN y ELSE t.node[i]]
<1>4. x \in TabNode /\ y \in TabNode
  BY <1>1, <1>2, <1>3 DEF TabNode
<1>5. PICK w : w = nodes /\ u = [arr |-> t.arr, node |-> w, free |-> f, nested |-> t.nested]
  <2>1. [t.node EXCEPT ![f] = x, ![n].next = f] = nodes
    <3>1. t.node[n] = [key |-> t.node[n].key, val |-> t.node[n].val, next |-> t.node[n].next]
      BY <1>2, <1>3 DEF TabNode
    <3>2. [t.node[n] EXCEPT !.next = f] = y
      BY <3>1
    <3> HIDE DEF x, y
    <3> QED BY <1>2, <1>3, <3>2
  <2> HIDE DEF nodes
  <2> QED BY <1>2, <1>3, <2>1 DEF LinkedTo
<1>6. Sized(u, a, h) /\ u.arr = t.arr /\ u.node = w /\ u.free = f /\ u.nested = t.nested
  <2> HIDE DEF x, y
  <2>1. w \in [0 .. h - 1 -> TabNode]
    BY <1>3, <1>4, <1>5
  <2> HIDE DEF nodes
  <2>2. h \in Nat /\ t.arr \in [0 .. a - 1 -> Values] /\ f \in 0 .. h /\ t.nested \in BOOLEAN
    BY <1>2, <1>3
  <2>3. u.arr = t.arr /\ u.node = w /\ u.free = f /\ u.nested = t.nested
    BY <1>5
  <2>4. u = [arr |-> u.arr, node |-> u.node, free |-> u.free, nested |-> u.nested]
    BY <1>5, <2>3
  <2>5. Sized(u, a, h)
    BY <2>1, <2>2, <2>3, <2>4, Resized
  <2> QED BY <2>3, <2>5
<1>7. /\ Nodes(u) = Nodes(t)
      /\ \A i \in Nodes(t) : i # n /\ i # f => u.node[i] = t.node[i]
      /\ u.node[n].key = t.node[n].key /\ u.node[n].val = t.node[n].val /\ u.node[n].next = f
      /\ u.node[f].key = k /\ u.node[f].val = v /\ u.node[f].next = t.node[n].next
  BY <1>2, <1>3, <1>5, <1>6 DEF Nodes
<1> HIDE DEF x, y, nodes
<1>8. Used(u) = Used(t) \cup {f} /\ Used(t) \subseteq Nodes(t)
  <2>1. k # TabNil
    BY <1>1, TabAssumption
  <2>2. \A i \in Nodes(t) : u.node[i].key # TabNil <=> i \in Used(t) \/ i = f
    BY <1>1, <1>2, <1>7, <2>1 DEF Used
  <2> QED BY <1>1, <1>7, <2>2 DEF Used
<1>9. \A i \in Used(t) : i # f /\ u.node[i].key = t.node[i].key /\ u.node[i].val = t.node[i].val
                         /\ (i # n => u.node[i].next = t.node[i].next)
  BY <1>1, <1>7, <1>8
<1>10. \A i \in Used(t) : t.node[i].next \in Used(t) \cup {None} /\ t.node[i].next # f
  <2>1. f # None
    BY <1>2 DEF None
  <2> QED BY <1>1, <2>1 DEF Keyed
<1>11. Keyed(u)
  <2>1. \A i \in Nodes(u) : i \notin Used(u) => u.node[i].val = TabNil /\ u.node[i].next = None /\ i < u.free
    <3> SUFFICES ASSUME NEW i \in Nodes(t), i \notin Used(u)
                 PROVE  u.node[i].val = TabNil /\ u.node[i].next = None /\ i < f
      BY <1>6, <1>7
    <3>1. i \notin Used(t) /\ i # f /\ i # n
      BY <1>2, <1>8
    <3>2. i <= f /\ i \in 0 .. h - 1
      BY <1>1, <1>3, <3>1
    <3> QED BY <1>1, <1>2, <1>7, <3>1, <3>2 DEF Keyed
  <2>2. \A i \in Used(u) : ~ inarray(u, u.node[i].key)
    BY <1>1, <1>6, <1>7, <1>8, <1>9 DEF Keyed, inarray
  <2>3. \A i \in Used(u) : u.node[i].next \in Used(u) \cup {None}
    BY <1>2, <1>7, <1>8, <1>9, <1>10
  <2>4. \A i, j \in Used(u) : u.node[i].key = u.node[j].key => i = j
    BY <1>1, <1>7, <1>8, <1>9 DEF Keyed
  <2>5. \A i, j \in Used(u) : u.node[i].next = u.node[j].next /\ u.node[i].next # None => i = j
    BY <1>1, <1>2, <1>7, <1>8, <1>9, <1>10 DEF Keyed
  <2>6. \A i \in DOMAIN u.arr : u.arr[i] # TabNil => i \in IntKeys
    BY <1>1, <1>6 DEF Keyed
  <2> QED BY <2>1, <2>2, <2>3, <2>4, <2>5, <2>6 DEF Keyed
<1>12. \A i, m : Meets(t, m, i) /\ m \in Used(t) => Meets(u, m, i)
  <2> SUFFICES ASSUME NEW i, NEW m \in Used(t), Meets(t, m, i),
                      NEW S \in SUBSET Used(u), m \in S, NextClosed(u, S)
               PROVE  i \in S
    BY DEF Meets
  <2>1. ASSUME NEW j \in S \ {f}, t.node[j].next # None
        PROVE  t.node[j].next \in S \ {f}
    <3>1. j \in Used(t) /\ t.node[j].next # f
      BY <1>8, <1>10, <2>1
    <3>2. CASE j # n
      BY <1>9, <2>1, <3>1, <3>2 DEF NextClosed
    <3>3. CASE j = n
      <4>1. f \in S
        BY <1>2, <1>7, <2>1, <3>3 DEF NextClosed, None
      <4> QED BY <1>7, <2>1, <3>1, <3>3, <4>1 DEF NextClosed
    <3> QED BY <3>2, <3>3
  <2>2. S \ {f} \in SUBSET Used(t) /\ m \in S \ {f} /\ NextClosed(t, S \ {f})
    BY <1>1, <1>8, <2>1 DEF NextClosed
  <2> QED BY <2>2 DEF Meets
<1>13. Chained(u)
  <2> SUFFICES ASSUME NEW i \in Used(u)
               PROVE  LET m == hashkey(u, u.node[i].key)
                      IN m \in Used(u) /\ hashkey(u, u.node[m].key) = m /\ Meets(u, m, i)
    BY DEF Chained
  <2>0. \A z : hashkey(u, z) = hashkey(t, z)
    BY <1>1, <1>6, SameMain
  <2>1. CASE i = f
    <3>1. hashkey(u, u.node[i].key) = n /\ n \in Used(u) /\ hashkey(u, u.node[n].key) = n
      BY <1>2, <1>7, <1>8, <2>0, <2>1
    <3>2. Meets(u, n, f)
      BY <1>2, <1>7 DEF Meets, NextClosed, None
    <3> QED BY <2>1, <3>1, <3>2
  <2>2. CASE i # f
    <3> DEFINE m == hashkey(t, t.node[i].key)
    <3>1. i \in Used(t) /\ u.node[i].key = t.node[i].key
      BY <1>8, <1>9, <2>2
    <3>2. m \in Used(t) /\ hashkey(t, t.node[m].key) = m /\ Meets(t, m, i)
      BY <1>1, <3>1 DEF Chained
    <3>3. hashkey(t, u.node[m].key) = m
      BY <1>9, <3>2
    <3> QED BY <1>8, <1>12, <2>0, <3>1, <3>2, <3>3
  <2> QED BY <2>1, <2>2
<1>14. \E q : Ranked(u, q)
  <2> DEFINE q == [i \in Used(u) |-> IF i = f THEN r[n] ELSE IF r[i] >= r[n] THEN r[i] + 1 ELSE r[i]]
  <2>1. Cardinality(Used(t)) \in Nat /\ Cardinality(Used(u)) = Cardinality(Used(t)) + 1
    BY <1>1, <1>6, <1>8, OneMore
  <2>2. \A i \in Used(t) : /\ r[i] \in Nat /\ r[i] < Cardinality(Used(t))
                           /\ t.node[i].next # None => r[t.node[i].next] < r[i] /\ r[t.node[i].next] \in Nat
    BY <1>10 DEF Ranked
  <2>3. q[f] = r[n] /\ \A i \in Used(t) : q[i] = IF r[i] >= r[n] THEN r[i] + 1 ELSE r[i]
    BY <1>8, <1>9
  <2> HIDE DEF q
  <2>4. ASSUME NEW i \in Used(u)
        PROVE  /\ q[i] \in Nat /\ q[i] < Cardinality(Used(u))
               /\ u.node[i].next # None => q[u.node[i].next] < q[i]
    <3>1. CASE i = f
      <4> DEFINE z == t.node[n].next
      <4>1. q[i] = r[n] /\ u.node[i].next = z /\ r[n] \in Nat /\ r[n] < Cardinality(Used(t))
        BY <1>2, <1>7, <2>2, <2>3, <3>1
      <4>2. ASSUME z # None
            PROVE  q[z] < q[i]
        <5>1. z \in Used(t) /\ r[z] \in Nat /\ r[z] < r[n]
          BY <1>2, <1>10, <2>2, <4>2
        <5>2. q[z] = r[z]
          BY <2>3, <4>1, <5>1
        <5> QED BY <4>1, <5>1, <5>2
      <4> QED BY <2>1, <4>1, <4>2
    <3>2. CASE i = n
      BY <1>2, <1>7, <2>1, <2>2, <2>3, <3>2
    <3>3. CASE i # f /\ i # n
      <4>1. i \in Used(t) /\ u.node[i].next = t.node[i].next
        BY <1>8, <1>9, <3>3
      <4>2. q[i] \in Nat /\ q[i] < Cardinality(Used(u)) /\ r[n] \in Nat
        <5>1. r[n] \in Nat /\ r[i] \in Nat /\ r[i] < Cardinality(Used(t))
          BY <1>2, <2>2, <4>1
        <5>2. q[i] = IF r[i] >= r[n] THEN r[i] + 1 ELSE r[i]
          BY <2>3, <4>1
        <5> QED BY <2>1, <5>1, <5>2
      <4>3. ASSUME t.node[i].next # None
            PROVE  q[t.node[i].next] < q[i]
        <5> DEFINE z == t.node[i].next
        <5>1. z \in Used(t) /\ r[z] \in Nat /\ r[z] < r[i] /\ r[i] \in Nat
          BY <1>10, <2>2, <4>1, <4>3
        <5>2. q[z] = (IF r[z] >= r[n] THEN r[z] + 1 ELSE r[z]) /\ q[i] = (IF r[i] >= r[n] THEN r[i] + 1 ELSE r[i])
          BY <2>3, <4>1, <5>1
        <5> HIDE DEF z
        <5> QED BY <4>2, <5>1, <5>2 DEF z
      <4> QED BY <4>1, <4>2, <4>3
    <3> QED BY <3>1, <3>2, <3>3
  <2> QED BY <2>4 DEF Ranked
<1>15. Gains(t, u, k, v)
  BY <1>1, <1>6, <1>7, <1>8, <1>9 DEF Gains
<1> QED BY <1>6, <1>11, <1>13, <1>14, <1>15 DEF Whole

\* The node at n moves to f, behind pred, and leaves n to the new key.
Relinked(t, n, f, pred) ==
  [t.node EXCEPT ![pred].next = f, ![f] = t.node[n],
                 ![n] = [key |-> t.node[n].key, val |-> TabNil, next |-> None]]
MovedTo(t, k, v, n, f, nodes) ==
  [t EXCEPT !.free = f, !.node = [nodes EXCEPT ![n] = [key |-> k, val |-> v, next |-> @.next]]]

\* pred is before n, in the chain of the key that n has.
IsBefore(t, n, pred) == pred \in Used(t) /\ t.node[pred].next = n

\* The nodes without the one that moved.
HasMoved(t, n, f, pred, w) ==
  /\ w[f] = t.node[n]
  /\ w[n] = [key |-> t.node[n].key, val |-> TabNil, next |-> None]
  /\ w[pred].key = t.node[pred].key /\ w[pred].val = t.node[pred].val /\ w[pred].next = f
  /\ \A i \in Nodes(t) : i \notin {n, f, pred} => w[i] = t.node[i]

\* Nothing has to be chained again.
LEMMA RelinkedNodes ==
  ASSUME HashType, NEW t, NEW a \in Nat, NEW h \in Nat \ {0}, Whole(t, a, h),
         NEW n \in Used(t), hashkey(t, t.node[n].key) # n,
         NEW f, IsFree(t, f), NEW pred, IsBefore(t, n, pred)
  PROVE  /\ Rechain(Relinked(t, n, f, pred), f, n) = Relinked(t, n, f, pred)
         /\ Relinked(t, n, f, pred) \in [0 .. h - 1 -> TabNode]
         /\ \A i \in Used(t) : hashkey(t, t.node[i].key) # n
         /\ pred \in Used(t) /\ pred # n /\ pred # f /\ f # n
         /\ HasMoved(t, n, f, pred, Relinked(t, n, f, pred))
<1>1. /\ Sized(t, a, h) /\ Keyed(t) /\ Chained(t)
      /\ f \in Nodes(t) /\ f \notin Used(t) /\ pred \in Used(t) /\ t.node[pred].next = n
  BY DEF Whole, IsFree, IsBefore
<1> PICK r : Ranked(t, r)
  BY DEF Whole
<1>2. /\ Nodes(t) = 0 .. h - 1 /\ t.node \in [0 .. h - 1 -> TabNode] /\ HashSize(t) = h
      /\ Used(t) \subseteq Nodes(t)
  BY <1>1, SizedTable, UsedNodes
<1>3. \A i \in Used(t) : hashkey(t, t.node[i].key) # n
  BY <1>1 DEF Chained
<1>4. n # None /\ f # n /\ pred # f /\ n \in 0 .. h - 1 /\ f \in 0 .. h - 1 /\ pred \in 0 .. h - 1
  BY <1>1, <1>2 DEF None
<1>5. pred # n
  BY <1>1, <1>4 DEF Ranked
<1> DEFINE w == Relinked(t, n, f, pred)
           z == [key |-> t.node[n].key, val |-> TabNil, next |-> None]
           p == [key |-> t.node[pred].key, val |-> t.node[pred].val, next |-> f]
<1>6. z \in TabNode /\ p \in TabNode /\ t.node[n] \in TabNode
  BY <1>2, <1>4 DEF TabNode, Values
<1>7. [t.node[pred] EXCEPT !.next = f] = p
  <2>1. t.node[pred] = [key |-> t.node[pred].key, val |-> t.node[pred].val, next |-> t.node[pred].next]
    BY <1>2, <1>4 DEF TabNode
  <2> QED BY <2>1
<1>8. w = [i \in 0 .. h - 1 |-> IF i = n THEN z ELSE IF i = f THEN t.node[n] ELSE IF i = pred THEN p ELSE t.node[i]]
  <2>1. w = [t.node EXCEPT ![pred].next = f, ![f] = t.node[n], ![n] = z]
    BY Zenon DEF Relinked
  <2> HIDE DEF z, p, w
  <2> QED BY <1>2, <1>4, <1>5, <1>7, <2>1
<1>9. /\ w \in [0 .. h - 1 -> TabNode]
      /\ w[f] = t.node[n] /\ w[n] = z /\ w[pred] = p
      /\ \A i \in Nodes(t) : i \notin {n, f, pred} => w[i] = t.node[i]
  <2> HIDE DEF z, p, w
  <2> QED BY <1>2, <1>4, <1>5, <1>6, <1>8
<1>10. w[pred].key = t.node[pred].key /\ w[pred].val = t.node[pred].val /\ w[pred].next = f
  <2> HIDE DEF w
  <2>1. w[pred] = p
    BY <1>9
  <2> QED BY <2>1
<1> HIDE DEF w
<1>11. ASSUME NEW i \in 0 .. h - 1
       PROVE  /\ w[i].next \in (0 .. h - 1) \cup {None}
              /\ w[i].key \in StrKeys => hash[w[i].key] % h # n
  <2>0. \A key \in StrKeys : hashkey(t, key) = hash[key] % h
    BY <1>2 DEF hashkey
  <2>1. \A j \in 0 .. h - 1 : t.node[j].next \in (0 .. h - 1) \cup {None}
    BY <1>1, <1>2, NextNode
  <2>2. \A j \in 0 .. h - 1 : t.node[j].key \in StrKeys => hash[t.node[j].key] % h # n
    <3>1. \A j \in 0 .. h - 1 : t.node[j].key \in StrKeys => j \in Used(t)
      BY <1>2, TabAssumption DEF Used, TabKeys
    <3> QED BY <1>3, <2>0, <3>1
  <2>3. CASE i = n
    <3>1. w[i].key = t.node[n].key /\ w[i].next = None
      BY <1>9, <2>3
    <3> QED BY <1>4, <2>2, <3>1
  <2>4. CASE i = f
    BY <1>4, <1>9, <2>1, <2>2, <2>4
  <2>5. CASE i = pred
    BY <1>4, <1>10, <2>2, <2>5
  <2>6. CASE i \notin {n, f, pred}
    BY <1>2, <1>9, <2>1, <2>2, <2>6
  <2> QED BY <2>3, <2>4, <2>5, <2>6
<1>12. Rechain(w, f, n) = w
  <2>1. w \in [0 .. h - 1 -> TabNode] /\ f \in 0 .. h - 1
    BY <1>4, <1>9
  <2>2. \A i \in 0 .. h - 1 : /\ w[i].next \in (0 .. h - 1) \cup {None}
                              /\ w[i].key \in StrKeys => hash[w[i].key] % h # n
    BY <1>11
  <2> QED BY <2>1, <2>2, NothingRechained
<1>13. HasMoved(t, n, f, pred, w)
  BY <1>9, <1>10 DEF HasMoved
<1> QED BY <1>1, <1>3, <1>4, <1>5, <1>9, <1>12, <1>13 DEF w

\* The main position has a key that belongs elsewhere: that one moves away.
LEMMA Moved ==
  ASSUME HashType, NEW t, NEW a \in Nat, NEW h \in Nat \ {0}, Whole(t, a, h),
         NEW k, NEW v, Missing(t, k, v),
         NEW n, n = hashkey(t, k), t.node[n].val # TabNil, hashkey(t, t.node[n].key) # n,
         NEW f, IsFree(t, f), NEW pred, IsBefore(t, n, pred),
         NEW u, u = MovedTo(t, k, v, n, f, Rechain(Relinked(t, n, f, pred), f, n))
  PROVE  Whole(u, a, h) /\ Gains(t, u, k, v)
<1>1. /\ Sized(t, a, h) /\ Keyed(t) /\ Chained(t)
      /\ k \in TabKeys /\ v \in Values /\ ~ inarray(t, k) /\ \A i \in Used(t) : t.node[i].key # k
      /\ f \in Nodes(t) /\ f \notin Used(t) /\ \A i \in Nodes(t) \ Used(t) : i <= f
      /\ t.node[pred].next = n
  BY DEF Whole, Missing, IsFree, IsBefore
<1> PICK r : Ranked(t, r)
  BY DEF Whole
<1>2. n \in Nodes(t) /\ n \in 0 .. h - 1 /\ f \in 0 .. h - 1 /\ f \in 0 .. h /\ n \in Used(t) /\ n # None /\ f # None
  <2>1. n \in Nodes(t) /\ n \in 0 .. h - 1
    BY <1>1, MainPosition, SizedTable
  <2>2. n \in Used(t)
    BY <1>1, <2>1 DEF Keyed
  <2>3. Nodes(t) = 0 .. h - 1
    BY <1>1, SizedTable
  <2> QED BY <1>1, <2>1, <2>2, <2>3 DEF None
<1>3. /\ Nodes(t) = 0 .. h - 1 /\ t.node \in [0 .. h - 1 -> TabNode]
      /\ t = [arr |-> t.arr, node |-> t.node, free |-> t.free, nested |-> t.nested]
      /\ t.arr \in [0 .. a - 1 -> Values] /\ t.free \in 0 .. h /\ t.nested \in BOOLEAN
  BY <1>1, SizedTable
<1> DEFINE rel == Relinked(t, n, f, pred)
<1>4. /\ Rechain(rel, f, n) = rel /\ rel \in [0 .. h - 1 -> TabNode]
      /\ \A i \in Used(t) : hashkey(t, t.node[i].key) # n
      /\ pred \in Used(t) /\ pred # n /\ pred # f /\ f # n
      /\ rel[f] = t.node[n]
      /\ rel[n] = [key |-> t.node[n].key, val |-> TabNil, next |-> None]
      /\ rel[pred].key = t.node[pred].key /\ rel[pred].val = t.node[pred].val /\ rel[pred].next = f
      /\ \A i \in Nodes(t) : i \notin {n, f, pred} => rel[i] = t.node[i]
  <2>1. /\ Rechain(rel, f, n) = rel /\ rel \in [0 .. h - 1 -> TabNode]
        /\ \A i \in Used(t) : hashkey(t, t.node[i].key) # n
        /\ pred \in Used(t) /\ pred # n /\ pred # f /\ f # n
        /\ HasMoved(t, n, f, pred, rel)
    <3>1. /\ HashType /\ a \in Nat /\ h \in Nat \ {0} /\ Whole(t, a, h) /\ n \in Used(t)
          /\ hashkey(t, t.node[n].key) # n /\ IsFree(t, f) /\ IsBefore(t, n, pred)
      BY <1>2
    <3> QED BY ONLY <3>1, RelinkedNodes DEF rel
  <2> HIDE DEF rel
  <2> QED BY <2>1 DEF HasMoved
<1> HIDE DEF rel
<1> DEFINE x == [key |-> k, val |-> v, next |-> None]
           nodes == [rel EXCEPT ![n] = x]
<1>5. x \in TabNode
  BY <1>1 DEF TabNode
<1>6. PICK w : w = nodes /\ u = [arr |-> t.arr, node |-> w, free |-> f, nested |-> t.nested]
  <2>1. u = MovedTo(t, k, v, n, f, rel)
    BY <1>4 DEF rel
  <2>2. rel[n].next = None
    BY <1>4
  <2>3. [key |-> k, val |-> v, next |-> rel[n].next] = x
    BY <2>2
  <2>4. u = [t EXCEPT !.free = f, !.node = [rel EXCEPT ![n] = [key |-> k, val |-> v, next |-> rel[n].next]]]
    BY <2>1 DEF MovedTo
  <2>5. u = [t EXCEPT !.free = f, !.node = nodes]
    <3> HIDE DEF x
    <3> QED BY <2>3, <2>4
  <2> HIDE DEF nodes
  <2> QED BY <1>3, <2>5
<1>7. Sized(u, a, h) /\ u.arr = t.arr /\ u.node = w /\ u.free = f /\ u.nested = t.nested
  <2> HIDE DEF x
  <2>1. w \in [0 .. h - 1 -> TabNode]
    BY <1>2, <1>4, <1>5, <1>6
  <2> HIDE DEF nodes
  <2>2. h \in Nat /\ t.arr \in [0 .. a - 1 -> Values] /\ f \in 0 .. h /\ t.nested \in BOOLEAN
    BY <1>2, <1>3
  <2>3. u.arr = t.arr /\ u.node = w /\ u.free = f /\ u.nested = t.nested
    BY <1>6
  <2>4. u = [arr |-> u.arr, node |-> u.node, free |-> u.free, nested |-> u.nested]
    BY <1>6, <2>3
  <2>5. Sized(u, a, h)
    BY <2>1, <2>2, <2>3, <2>4, Resized
  <2> QED BY <2>3, <2>5
<1>8. /\ Nodes(u) = Nodes(t)
      /\ \A i \in Nodes(t) : i # n => u.node[i] = rel[i]
      /\ u.node[n].key = k /\ u.node[n].val = v /\ u.node[n].next = None
  BY <1>2, <1>3, <1>4, <1>6, <1>7 DEF Nodes
<1> HIDE DEF x, nodes
<1>9. u.node[f] = t.node[n] /\ u.node[pred].next = f
  BY <1>1, <1>3, <1>4, <1>8, UsedNodes
<1>10. \A i \in Nodes(t) : i # n /\ i # f =>
         /\ u.node[i].key = t.node[i].key /\ u.node[i].val = t.node[i].val
         /\ i # pred => u.node[i].next = t.node[i].next
  BY <1>4, <1>8
<1>11. Used(u) = Used(t) \cup {f} /\ Used(t) \subseteq Nodes(t)
  <2>1. k # TabNil
    BY <1>1, TabAssumption
  <2>2. \A i \in Nodes(t) : u.node[i].key # TabNil <=> i \in Used(t) \/ i = f
    BY <1>1, <1>2, <1>8, <1>9, <1>10, <2>1 DEF Used
  <2> QED BY <1>1, <1>8, <2>2 DEF Used
<1>12. \A i \in Used(t) : t.node[i].next \in Used(t) \cup {None} /\ t.node[i].next # f
                          /\ (t.node[i].next = n => i = pred)
  BY <1>1, <1>2, <1>4 DEF Keyed
<1>13. \A i \in Used(t) : i # n /\ i # f /\ i # pred => u.node[i].next = t.node[i].next /\ u.node[i].next # n
  BY <1>10, <1>11, <1>12
<1>14. Keyed(u)
  <2>1. \A i \in Nodes(u) : i \notin Used(u) => u.node[i].val = TabNil /\ u.node[i].next = None /\ i < u.free
    <3> SUFFICES ASSUME NEW i \in Nodes(t), i \notin Used(u)
                 PROVE  u.node[i].val = TabNil /\ u.node[i].next = None /\ i < f
      BY <1>7, <1>8
    <3>1. i \notin Used(t) /\ i # f /\ i # n /\ i # pred
      BY <1>2, <1>4, <1>11
    <3>2. i <= f /\ i \in 0 .. h - 1
      BY <1>1, <1>3, <3>1
    <3> QED BY <1>1, <1>2, <1>10, <3>1, <3>2 DEF Keyed
  <2>2. \A i \in Used(u) : ~ inarray(u, u.node[i].key)
    <3>1. \A i \in Used(t) : ~ inarray(u, t.node[i].key)
      BY <1>1, <1>7 DEF Keyed, inarray
    <3>2. ~ inarray(u, k)
      BY <1>1, <1>7 DEF inarray
    <3>3. \A i \in Used(t) : i = n \/ u.node[i].key = t.node[i].key
      BY <1>1, <1>10, <1>11
    <3> SUFFICES ASSUME NEW i \in Used(u)
                 PROVE  ~ inarray(u, u.node[i].key)
      OBVIOUS
    <3>4. CASE i = n
      BY <1>8, <3>2, <3>4
    <3>5. CASE i = f
      BY <1>2, <1>9, <3>1, <3>5
    <3>6. CASE i # n /\ i # f
      <4>1. i \in Used(t)
        BY <1>11, <3>6
      <4>2. u.node[i].key = t.node[i].key
        BY <3>3, <3>6, <4>1
      <4> QED BY <3>1, <4>1, <4>2
    <3> QED BY <3>4, <3>5, <3>6
  <2>3. \A i \in Used(u) : u.node[i].next \in Used(u) \cup {None}
    BY <1>2, <1>8, <1>9, <1>11, <1>12, <1>13
  <2>4. \A i, j \in Used(u) : u.node[i].key = u.node[j].key => i = j
    <3>1. \A i, j \in Used(t) : t.node[i].key = t.node[j].key => i = j
      BY <1>1 DEF Keyed
    <3>2. \A i \in Used(t) : i # n => u.node[i].key = t.node[i].key /\ u.node[i].key # k
      BY <1>1, <1>10, <1>11
    <3> QED BY <1>1, <1>2, <1>8, <1>9, <1>11, <3>1, <3>2
  <2>5. \A i, j \in Used(u) : u.node[i].next = u.node[j].next /\ u.node[i].next # None => i = j
    <3>1. \A i, j \in Used(t) : t.node[i].next = t.node[j].next /\ t.node[i].next # None => i = j
      BY <1>1 DEF Keyed
    <3> QED BY <1>2, <1>4, <1>8, <1>9, <1>11, <1>12, <1>13, <3>1
  <2>6. \A i \in DOMAIN u.arr : u.arr[i] # TabNil => i \in IntKeys
    BY <1>1, <1>7 DEF Keyed
  <2> QED BY <2>1, <2>2, <2>3, <2>4, <2>5, <2>6 DEF Keyed
<1>15. ASSUME NEW m \in Used(t), m # n, NEW i \in Used(t), Meets(t, m, i),
              NEW S \in SUBSET Used(u), m \in S, NextClosed(u, S)
       PROVE  i \in (S \ {n, f}) \cup (IF f \in S THEN {n} ELSE {})
  <2> DEFINE T == (S \ {n, f}) \cup (IF f \in S THEN {n} ELSE {})
  <2>1. ASSUME NEW j \in T, t.node[j].next # None
        PROVE  t.node[j].next \in T
    <3> DEFINE z == t.node[j].next
    <3>0. j \in Used(t) /\ z \in Used(t) /\ z # f
      BY <1>2, <1>11, <1>12, <2>1
    <3>1. CASE j = n
      <4>1. f \in S
        BY <3>1
      <4>2. u.node[f].next = z
        BY <1>9, <3>1
      <4>3. z \in S
        BY <1>15, <2>1, <4>1, <4>2 DEF NextClosed
      <4>4. z # n
        BY <2>1, <3>0, <3>1 DEF Ranked
      <4> QED BY <3>0, <4>3, <4>4
    <3>2. CASE j # n /\ z = n
      <4>1. j = pred /\ j \in S
        BY <1>12, <3>0, <3>2
      <4>2. f \in S
        BY <1>2, <1>9, <1>15, <4>1 DEF NextClosed
      <4> QED BY <3>2, <4>2
    <3>3. CASE j # n /\ z # n
      <4>1. j # pred /\ j # f /\ j \in S
        BY <1>1, <3>0, <3>3
      <4>2. u.node[j].next = z
        BY <1>13, <3>0, <3>3, <4>1
      <4>3. z \in S
        BY <1>15, <2>1, <4>1, <4>2 DEF NextClosed
      <4> QED BY <3>0, <3>3, <4>3
    <3> QED BY <3>1, <3>2, <3>3
  <2>2. T \in SUBSET Used(t) /\ m \in T
    BY <1>1, <1>2, <1>11, <1>15
  <2>3. NextClosed(t, T)
    BY <2>1 DEF NextClosed
  <2> HIDE DEF T
  <2>4. i \in T
    BY <1>15, <2>2, <2>3 DEF Meets
  <2> QED BY <2>4 DEF T
<1>16. \A m \in Used(t), i \in Used(t) :
         m # n /\ Meets(t, m, i) => (i # n => Meets(u, m, i)) /\ (i = n => Meets(u, m, f))
  BY <1>15 DEF Meets
<1>17. Chained(u)
  <2> SUFFICES ASSUME NEW i \in Used(u)
               PROVE  LET m == hashkey(u, u.node[i].key)
                      IN m \in Used(u) /\ hashkey(u, u.node[m].key) = m /\ Meets(u, m, i)
    BY DEF Chained
  <2>0. \A z : hashkey(u, z) = hashkey(t, z)
    BY <1>1, <1>7, SameMain
  <2>1. CASE i = n
    BY <1>2, <1>8, <1>11, <2>0, <2>1 DEF Meets
  <2>2. ASSUME NEW j \in Used(t), u.node[i].key = t.node[j].key, j = n => i = f, j # n => i = j
        PROVE  LET m == hashkey(u, u.node[i].key)
               IN m \in Used(u) /\ hashkey(u, u.node[m].key) = m /\ Meets(u, m, i)
    <3> DEFINE m == hashkey(t, t.node[j].key)
    <3>1. m \in Used(t) /\ hashkey(t, t.node[m].key) = m /\ Meets(t, m, j) /\ m # n
      BY <1>1, <1>4 DEF Chained
    <3>2. m # f
      BY <1>1, <3>1
    <3>3. u.node[m].key = t.node[m].key
      BY <1>10, <1>11, <3>1, <3>2
    <3>4. Meets(u, m, i)
      BY <1>16, <2>2, <3>1
    <3> QED BY <1>11, <2>0, <2>2, <3>1, <3>3, <3>4
  <2>3. CASE i = f
    BY <1>2, <1>9, <2>2, <2>3
  <2>4. CASE i # n /\ i # f
    <3>1. i \in Used(t) /\ u.node[i].key = t.node[i].key
      BY <1>10, <1>11, <2>4
    <3> QED BY <2>2, <2>4, <3>1
  <2> QED BY <2>1, <2>3, <2>4
<1>18. \E q : Ranked(u, q)
  <2> DEFINE q == [i \in Used(u) |-> IF i = f THEN r[n] ELSE IF i = n THEN 0 ELSE r[i]]
  <2>1. Cardinality(Used(t)) \in Nat /\ Cardinality(Used(u)) = Cardinality(Used(t)) + 1
    BY <1>1, <1>7, <1>11, OneMore
  <2>2. \A i \in Used(t) : /\ r[i] \in Nat /\ r[i] < Cardinality(Used(t))
                           /\ t.node[i].next # None => r[t.node[i].next] < r[i]
    BY DEF Ranked
  <2>3. q[f] = r[n] /\ q[n] = 0 /\ \A i \in Used(t) : i # n => q[i] = r[i]
    BY <1>1, <1>2, <1>4, <1>11
  <2> HIDE DEF q
  <2>4. ASSUME NEW i \in Used(u)
        PROVE  /\ q[i] \in Nat /\ q[i] < Cardinality(Used(u))
               /\ u.node[i].next # None => q[u.node[i].next] < q[i]
    <3>1. CASE i = f
      <4> DEFINE z == t.node[n].next
      <4>1. q[i] = r[n] /\ u.node[i].next = z /\ r[n] \in Nat /\ r[n] < Cardinality(Used(t))
        BY <1>2, <1>9, <2>2, <2>3, <3>1
      <4>2. ASSUME z # None
            PROVE  q[z] < q[i]
        <5>1. z \in Used(t) /\ r[z] < r[n] /\ z # n
          BY <1>2, <1>12, <2>2, <4>1, <4>2
        <5> QED BY <2>3, <4>1, <5>1
      <4> QED BY <2>1, <4>1, <4>2
    <3>2. CASE i = n
      BY <1>8, <2>1, <2>3, <3>2
    <3>3. CASE i = pred
      <4>1. q[i] = r[i] /\ q[f] = r[n] /\ r[n] < r[i] /\ r[i] \in Nat /\ r[i] < Cardinality(Used(t))
        BY <1>1, <1>2, <1>4, <2>2, <2>3, <3>3
      <4> QED BY <1>9, <2>1, <3>3, <4>1
    <3>4. CASE i # f /\ i # n /\ i # pred
      <4>1. i \in Used(t) /\ u.node[i].next = t.node[i].next /\ u.node[i].next # n
        BY <1>11, <1>13, <3>4
      <4>2. q[i] = r[i] /\ r[i] \in Nat /\ r[i] < Cardinality(Used(t))
        BY <2>2, <2>3, <3>4, <4>1
      <4>3. u.node[i].next # None => q[u.node[i].next] < q[i]
        BY <1>12, <2>2, <2>3, <4>1, <4>2
      <4> QED BY <2>1, <4>2, <4>3
    <3> QED BY <3>1, <3>2, <3>3, <3>4
  <2> QED BY <2>4 DEF Ranked
<1>19. Gains(t, u, k, v)
  <2>1. \E i \in Nodes(t) : Used(u) \subseteq Used(t) \cup {i}
    BY <1>1, <1>11
  <2>2. \E i \in Used(u) : u.node[i].key = k /\ u.node[i].val = v
    BY <1>2, <1>8, <1>11
  <2>3. \A i \in Used(u) : u.node[i].key # k =>
          \E j \in Used(t) : u.node[i].key = t.node[j].key /\ u.node[i].val = t.node[j].val
    BY <1>2, <1>8, <1>9, <1>10, <1>11
  <2>4. \A j \in Used(t) : \E i \in Used(u) : u.node[i].key = t.node[j].key /\ u.node[i].val = t.node[j].val
    BY <1>1, <1>2, <1>8, <1>9, <1>10, <1>11
  <2> QED BY <1>7, <2>1, <2>2, <2>3, <2>4 DEF Gains
<1> QED BY <1>7, <1>14, <1>17, <1>18, <1>19 DEF Whole

\* The free node is the last one that is not used.
LEMMA FreeNodeFound ==
  ASSUME NEW t, NEW a \in Nat, NEW h \in Nat, Whole(t, a, h)
  PROVE  FreeNodes(t) = Nodes(t) \ Used(t) /\ (FreeNodes(t) # {} => IsFree(t, FreeNode(t)))
<1>1. Sized(t, a, h) /\ Keyed(t)
  BY DEF Whole
<1>2. Nodes(t) = 0 .. h - 1
  BY <1>1, SizedTable
<1>3. FreeNodes(t) = Nodes(t) \ Used(t)
  BY <1>1 DEF FreeNodes, Used, Keyed
<1>4. ASSUME FreeNodes(t) # {}
      PROVE  IsFree(t, FreeNode(t))
  <2> DEFINE S == FreeNodes(t)
  <2>1. S \in SUBSET (0 .. h) /\ S # {}
    BY <1>2, <1>3, <1>4
  <2> HIDE DEF S
  <2>2. \E i \in S : \A j \in S : j <= i
    BY <2>1, GreatestMember
  <2>3. FreeNode(t) \in S /\ \A j \in S : j <= FreeNode(t)
    BY <2>2, Zenon DEF FreeNode, S
  <2> QED BY <1>3, <2>3 DEF IsFree, S
<1> QED BY <1>3, <1>4

\* A new key finds its place if there is room.
LEMMA NewKeyPlaced ==
  ASSUME HashType, NEW t, NEW a \in Nat, NEW h \in Nat, Whole(t, a, h),
         NEW k, NEW v, Missing(t, k, v), Room(t, k)
  PROVE  Whole(NewKey(t, k, v), a, h) /\ Gains(t, NewKey(t, k, v), k, v)
<1>1. Sized(t, a, h) /\ Keyed(t) /\ Chained(t) /\ k \in TabKeys
  BY DEF Whole, Missing
<1> PICK r : Ranked(t, r)
  BY DEF Whole
<1>2. h \in Nat \ {0}
  BY <1>1, SizedTable DEF Room
<1> DEFINE n == hashkey(t, k)
           old == t.node[n]
           f == FreeNode(t)
           home == hashkey(t, old.key)
           chain == TabChain(t, home)
           pred == chain[CHOOSE j \in 1 .. Len(chain) : t.node[chain[j]].next = n]
           u == NewKey(t, k, v)
<1>3. n \in Nodes(t)
  BY <1>1, <1>2, MainPosition
<1>4. CASE old.val = TabNil
  <2>1. u = [t EXCEPT !.node[n] = [key |-> k, val |-> v, next |-> old.next]]
    BY <1>4 DEF NewKey
  <2> HIDE DEF u, n
  <2> QED BY <1>2, <1>4, <2>1, Overwritten DEF n, u
<1>5. CASE old.val # TabNil
  <2>1. IsFree(t, f)
    BY <1>5, FreeNodeFound DEF Room
  <2>2. n \in Used(t)
    BY <1>1, <1>3, <1>5 DEF Keyed
  <2>3. CASE home = n
    <3>1. u = LinkedTo(t, k, v, n, f)
      BY <1>5, <2>3 DEF NewKey, LinkedTo
    <3> HIDE DEF u, n, f
    <3> QED BY <1>2, <1>5, <2>1, <2>3, <3>1, Linked DEF n, u
  <2>4. CASE home # n
    <3>1. home \in Used(t) /\ Meets(t, home, n) /\ home \in Nodes(t)
      BY <1>1, <2>2, UsedNodes DEF Chained
    <3>2. /\ chain \in Seq(Nodes(t))
          /\ \E j \in 1 .. Len(chain) : t.node[chain[j]].next = n
      BY <1>1, <2>2, <2>4, <3>1, ChainNodes
    <3>3. IsBefore(t, n, pred)
      <4> HIDE DEF chain, n
      <4> DEFINE j == CHOOSE j \in 1 .. Len(chain) : t.node[chain[j]].next = n
      <4>1. j \in 1 .. Len(chain) /\ t.node[chain[j]].next = n
        BY <3>2, Zenon
      <4>2. pred = chain[j]
        OBVIOUS
      <4> HIDE DEF j, pred
      <4>3. pred \in Nodes(t) /\ t.node[pred].next = n
        BY <3>2, <4>1, <4>2
      <4>4. n # None
        BY <1>1, <1>3, SizedTable DEF None
      <4> QED BY <1>1, <4>3, <4>4 DEF Keyed, IsBefore
    <3>4. u = MovedTo(t, k, v, n, f, Rechain(Relinked(t, n, f, pred), f, n))
      BY <1>5, <2>4, Zenon DEF NewKey, MovedTo, Relinked
    <3> HIDE DEF u, n, f, pred
    <3> QED BY <1>2, <1>5, <2>1, <2>4, <3>3, <3>4, Moved DEF n, u
  <2> QED BY <2>3, <2>4
<1> QED BY <1>4, <1>5

(***************************************************************************)
(* Stores.                                                                 *)
(***************************************************************************)

\* What a lookup finds: the slot of the array part, or the node of the key.
LEMMA Lookup ==
  ASSUME HashType, NEW t, NEW a \in Nat, NEW h \in Nat, Whole(t, a, h), NEW x
  PROVE  /\ lj_tab_get(t, x) \in Values
         /\ inarray(t, x) => lj_tab_get(t, x) = t.arr[x]
         /\ ~ inarray(t, x) /\ x \notin TabKeys => lj_tab_get(t, x) = TabNil
         /\ ~ inarray(t, x) => \A i \in Used(t) : t.node[i].key = x => lj_tab_get(t, x) = t.node[i].val
         /\ ~ inarray(t, x) /\ lj_tab_get(t, x) # TabNil => \E i \in Used(t) : t.node[i].key = x
         /\ lj_tab_get(t, x) # TabNil => x \in TabKeys
<1>1. Sized(t, a, h) /\ Keyed(t) /\ Chained(t)
  BY DEF Whole
<1> PICK r : Ranked(t, r)
  BY DEF Whole
<1>2. /\ DOMAIN t.arr = 0 .. a - 1 /\ t.arr \in [0 .. a - 1 -> Values]
      /\ \A i \in Nodes(t) : t.node[i] \in TabNode
      /\ Used(t) \subseteq Nodes(t) /\ Nodes(t) = 0 .. h - 1
  BY <1>1, SizedTable, UsedNodes
<1>3. \A i \in Used(t) : t.node[i].key \in TabKeys /\ t.node[i].val \in Values
  BY <1>2 DEF Used, TabNode
<1>4. None \notin Used(t)
  BY <1>2 DEF None
<1>5. CASE inarray(t, x)
  <2>1. lj_tab_get(t, x) = t.arr[x] /\ t.arr[x] \in Values
    BY <1>2, <1>5 DEF lj_tab_get, inarray
  <2>2. t.arr[x] # TabNil => x \in TabKeys
    BY <1>1, <1>5 DEF Keyed, inarray, TabKeys
  <2> QED BY <1>5, <2>1, <2>2
<1>6. CASE ~ inarray(t, x) /\ x \notin TabKeys
  <2>1. lj_tab_get(t, x) = TabNil
    BY <1>6 DEF lj_tab_get
  <2> QED BY <1>3, <1>6, <2>1 DEF Values
<1>7. CASE ~ inarray(t, x) /\ x \in TabKeys
  <2> DEFINE n == Seek(t, x)
  <2>1. /\ n \in Used(t) \cup {None} /\ (n # None => t.node[n].key = x)
        /\ (n = None => \A i \in Used(t) : t.node[i].key # x)
    BY <1>1, <1>7, SeekFinds
  <2>2. lj_tab_get(t, x) = IF n = None THEN TabNil ELSE t.node[n].val
    BY <1>7 DEF lj_tab_get
  <2> HIDE DEF n
  <2>3. \A i \in Used(t) : t.node[i].key = x => i = n
    BY <1>1, <2>1 DEF Keyed
  <2>4. CASE n = None
    BY <1>7, <2>1, <2>2, <2>4 DEF Values
  <2>5. CASE n # None
    <3>1. n \in Used(t) /\ t.node[n].key = x
      BY <2>1, <2>5
    <3>2. lj_tab_get(t, x) = t.node[n].val
      BY <2>2, <2>5
    <3> QED BY <1>3, <1>7, <2>3, <3>1, <3>2
  <2> QED BY <2>4, <2>5
<1> QED BY <1>5, <1>6, <1>7

\* The lookups of u find what those of t find, and v for k.
Puts(t, u, k, v) == \A x : lj_tab_get(u, x) = IF x = k THEN v ELSE lj_tab_get(t, x)

\* Nodes have the same keys in the same places.
SameKeys(t, u) ==
  /\ DOMAIN u.arr = DOMAIN t.arr /\ Nodes(u) = Nodes(t)
  /\ \A i \in Nodes(t) : u.node[i].key = t.node[i].key /\ u.node[i].next = t.node[i].next

\* Keys and chains decide whether a table is whole, not the values of live keys.
LEMMA SameKeysWhole ==
  ASSUME NEW t, NEW a \in Nat, NEW h \in Nat, Whole(t, a, h),
         NEW u, Sized(u, a, h), SameKeys(t, u), u.free = t.free,
         \A i \in DOMAIN t.arr : u.arr[i] # TabNil => i \in IntKeys,
         \A i \in Nodes(t) \ Used(t) : u.node[i].val = TabNil
  PROVE  Whole(u, a, h) /\ Used(u) = Used(t)
<1>1. Sized(t, a, h) /\ Keyed(t) /\ Chained(t)
  BY DEF Whole
<1> PICK r : Ranked(t, r)
  BY DEF Whole
<1>2. Used(u) = Used(t)
  BY DEF Used, SameKeys
<1>3. Used(t) \subseteq Nodes(t)
  BY DEF Used
<1>4. Keyed(u)
  BY <1>1, <1>2, <1>3 DEF Keyed, SameKeys, inarray
<1>5. Ranked(u, r)
  BY <1>2, <1>3 DEF Ranked, SameKeys
<1>6. \A S \in SUBSET Used(t) : NextClosed(u, S) => NextClosed(t, S)
  BY <1>3 DEF NextClosed, SameKeys
<1>7. \A m, i : Meets(t, m, i) => Meets(u, m, i)
  BY <1>2, <1>6 DEF Meets
<1>8. \A x : hashkey(u, x) = hashkey(t, x)
  BY <1>1, SameMain
<1>9. Chained(u)
  <2> SUFFICES ASSUME NEW i \in Used(t)
               PROVE  LET m == hashkey(u, u.node[i].key)
                      IN m \in Used(u) /\ hashkey(u, u.node[m].key) = m /\ Meets(u, m, i)
    BY <1>2 DEF Chained
  <2> DEFINE m == hashkey(t, t.node[i].key)
  <2>1. m \in Used(t) /\ hashkey(t, t.node[m].key) = m /\ Meets(t, m, i)
    BY <1>1 DEF Chained
  <2>2. u.node[i].key = t.node[i].key /\ u.node[m].key = t.node[m].key
    BY <1>3, <2>1 DEF SameKeys
  <2> QED BY <1>2, <1>7, <1>8, <2>1, <2>2
<1> QED BY <1>2, <1>4, <1>5, <1>9 DEF Whole

\* A store puts the value where the lookups of its key find it.
LEMMA Stored ==
  ASSUME HashType, NEW t, NEW a \in Nat, NEW h \in Nat, Whole(t, a, h),
         NEW k \in TabKeys, NEW v \in Values,
         inarray(t, k) \/ Seek(t, k) # None \/ Room(t, k)
  PROVE  /\ Whole(Store(t, k, v), a, h) /\ Store(t, k, v).nested = t.nested
         /\ Puts(t, Store(t, k, v), k, v)
         /\ inarray(t, k) \/ Seek(t, k) # None => SameKeys(t, Store(t, k, v))
         /\ inarray(t, k) => Used(Store(t, k, v)) = Used(t)
         /\ \A i \in Used(Store(t, k, v)) :
              \/ Store(t, k, v).node[i].key = k
              \/ \E j \in Used(t) : Store(t, k, v).node[i].key = t.node[j].key
<1>1. Sized(t, a, h) /\ Keyed(t) /\ Chained(t)
  BY DEF Whole
<1> PICK r : Ranked(t, r)
  BY DEF Whole
<1>2. /\ DOMAIN t.arr = 0 .. a - 1 /\ t.arr \in [0 .. a - 1 -> Values]
      /\ Nodes(t) = 0 .. h - 1 /\ t.node \in [0 .. h - 1 -> TabNode]
      /\ t = [arr |-> t.arr, node |-> t.node, free |-> t.free, nested |-> t.nested]
      /\ t.free \in 0 .. h /\ t.nested \in BOOLEAN
      /\ Used(t) \subseteq Nodes(t)
  BY <1>1, SizedTable, UsedNodes
<1> DEFINE u == Store(t, k, v)
<1>3. CASE inarray(t, k)
  <2> DEFINE w == [t.arr EXCEPT ![k] = v]
  <2>1. u = [arr |-> w, node |-> t.node, free |-> t.free, nested |-> t.nested]
    <3>1. u = [t EXCEPT !.arr[k] = v]
      BY <1>3 DEF Store
    <3> HIDE DEF u
    <3> QED BY <1>2, <3>1
  <2>2. w \in [0 .. a - 1 -> Values] /\ w[k] = v /\ \A i \in 0 .. a - 1 : i # k => w[i] = t.arr[i]
    BY <1>2, <1>3 DEF inarray
  <2> HIDE DEF u, w
  <2>3. u.arr = w /\ u.node = t.node /\ u.free = t.free /\ u.nested = t.nested
    BY <2>1
  <2>4. Sized(u, a, h)
    <3>1. u = [arr |-> u.arr, node |-> u.node, free |-> u.free, nested |-> u.nested]
      BY <2>1, <2>3
    <3> QED BY <1>2, <2>2, <2>3, <3>1, Resized
  <2>5. SameKeys(t, u)
    BY <1>2, <2>2, <2>3 DEF SameKeys, Nodes
  <2>6. \A i \in DOMAIN t.arr : u.arr[i] # TabNil => i \in IntKeys
    <3>1. k \in IntKeys
      BY <1>2, <1>3, TabAssumption DEF inarray, TabKeys
    <3> QED BY <1>1, <1>2, <2>2, <2>3, <3>1 DEF Keyed
  <2>7. Whole(u, a, h) /\ Used(u) = Used(t)
    <3>1. \A i \in Nodes(t) \ Used(t) : u.node[i].val = TabNil
      BY <1>1, <2>3 DEF Keyed
    <3> QED BY <2>3, <2>4, <2>5, <2>6, <3>1, SameKeysWhole
  <2>8. ASSUME NEW x
        PROVE  lj_tab_get(u, x) = IF x = k THEN v ELSE lj_tab_get(t, x)
    <3>1. inarray(u, x) <=> inarray(t, x)
      BY <2>5 DEF SameKeys, inarray
    <3>2. CASE inarray(t, x)
      BY <1>2, <1>3, <2>2, <2>3, <2>7, <3>1, <3>2, Lookup DEF inarray
    <3>3. CASE ~ inarray(t, x)
      <4>1. x # k
        BY <1>3, <3>3
      <4>2. HashSize(u) = HashSize(t) /\ hashkey(u, x) = hashkey(t, x)
        BY <1>1, <2>4, SizedTable, SameMain
      <4>3. Seek(u, x) = Seek(t, x)
        <5>1. u.node = t.node /\ Nodes(u) = Nodes(t)
          BY <2>3 DEF Nodes
        <5>2. \A s : IsSeek(u, x, s) <=> IsSeek(t, x, s)
          BY <4>2, <5>1 DEF IsSeek
        <5> DEFINE found(y) == CHOOSE s : IsSeek(y, x, s)
        <5>3. found(u) = found(t)
          BY <5>2
        <5>4. Seek(u, x) = IF u.node = <<>> THEN None ELSE found(u)[HashSize(u)][hashkey(u, x)]
          BY Zenon DEF Seek, IsSeek
        <5>5. Seek(t, x) = IF t.node = <<>> THEN None ELSE found(t)[HashSize(t)][hashkey(t, x)]
          BY Zenon DEF Seek, IsSeek
        <5> HIDE DEF found
        <5> QED BY <4>2, <5>1, <5>3, <5>4, <5>5
      <4> QED BY <2>3, <3>1, <3>3, <4>1, <4>3 DEF lj_tab_get
    <3> QED BY <3>2, <3>3
  <2>9. Puts(t, u, k, v)
    BY <2>8, Zenon DEF Puts
  <2> QED BY <2>3, <2>5, <2>7, <2>9 DEF u
<1>4. CASE ~ inarray(t, k) /\ Seek(t, k) # None
  <2> DEFINE n == Seek(t, k)
             w == [t.node EXCEPT ![n].val = v]
  <2>0. n \in Used(t) /\ t.node[n].key = k /\ n \in 0 .. h - 1
    BY <1>1, <1>2, <1>4, SeekFinds
  <2>1. u = [arr |-> t.arr, node |-> w, free |-> t.free, nested |-> t.nested]
    <3>1. u = [t EXCEPT !.node[n].val = v]
      BY <1>4 DEF Store
    <3> HIDE DEF u, n
    <3> QED BY <1>2, <3>1
  <2> HIDE DEF n
  <2>2. /\ w \in [0 .. h - 1 -> TabNode] /\ w[n].val = v /\ w[n].key = k /\ w[n].next = t.node[n].next
        /\ \A i \in 0 .. h - 1 : i # n => w[i] = t.node[i]
    <3> DEFINE z == [key |-> k, val |-> v, next |-> t.node[n].next]
    <3>1. t.node[n] \in TabNode
      BY <1>2, <2>0
    <3>2. [t.node[n] EXCEPT !.val = v] = z
      <4>1. t.node[n] = [key |-> t.node[n].key, val |-> t.node[n].val, next |-> t.node[n].next]
        BY <3>1 DEF TabNode
      <4> QED BY <2>0, <4>1
    <3>3. z \in TabNode
      BY <2>0, <3>1 DEF TabNode
    <3>4. w = [t.node EXCEPT ![n] = z]
      <4> HIDE DEF z
      <4> QED BY <1>2, <2>0, <3>2
    <3>5. w \in [0 .. h - 1 -> TabNode] /\ w[n] = z /\ \A i \in 0 .. h - 1 : i # n => w[i] = t.node[i]
      <4> HIDE DEF w, z
      <4> QED BY <1>2, <2>0, <3>3, <3>4
    <3> HIDE DEF w
    <3> QED BY <3>5
  <2> HIDE DEF u, w
  <2>3. u.arr = t.arr /\ u.node = w /\ u.free = t.free /\ u.nested = t.nested
    BY <2>1
  <2>4. Sized(u, a, h)
    <3>1. u = [arr |-> u.arr, node |-> u.node, free |-> u.free, nested |-> u.nested]
      BY <2>1, <2>3
    <3> QED BY <1>2, <2>2, <2>3, <3>1, Resized
  <2>5. SameKeys(t, u)
    BY <1>2, <2>0, <2>2, <2>3 DEF SameKeys, Nodes
  <2>7. Whole(u, a, h) /\ Used(u) = Used(t)
    <3>1. \A i \in Nodes(t) \ Used(t) : u.node[i].val = TabNil
      BY <1>1, <1>2, <2>0, <2>2, <2>3 DEF Keyed
    <3>2. \A i \in DOMAIN t.arr : u.arr[i] # TabNil => i \in IntKeys
      BY <1>1, <2>3 DEF Keyed
    <3> QED BY <2>3, <2>4, <2>5, <3>1, <3>2, SameKeysWhole
  <2>8. ASSUME NEW x
        PROVE  lj_tab_get(u, x) = IF x = k THEN v ELSE lj_tab_get(t, x)
    <3>1. inarray(u, x) <=> inarray(t, x)
      BY <2>5 DEF SameKeys, inarray
    <3>2. CASE inarray(t, x)
      BY <1>4, <2>3, <2>7, <3>1, <3>2, Lookup
    <3>3. CASE ~ inarray(t, x) /\ x = k
      BY <2>0, <2>2, <2>3, <2>7, <3>1, <3>3, Lookup
    <3>4. CASE ~ inarray(t, x) /\ x # k
      <4>1. \A i \in Used(t) : u.node[i].key = t.node[i].key
        BY <1>2, <2>5 DEF SameKeys
      <4>2. \A i \in Used(t) : t.node[i].key = x => u.node[i].val = t.node[i].val
        BY <1>2, <2>0, <2>2, <2>3, <3>4
      <4>3. CASE \E i \in Used(t) : t.node[i].key = x
        <5> PICK i \in Used(t) : t.node[i].key = x
          BY <4>3
        <5>1. lj_tab_get(t, x) = t.node[i].val
          BY <3>4, Lookup
        <5>2. lj_tab_get(u, x) = u.node[i].val
          BY <2>7, <3>1, <3>4, <4>1, Lookup
        <5> QED BY <3>4, <4>2, <5>1, <5>2
      <4>4. CASE ~ \E i \in Used(t) : t.node[i].key = x
        <5>1. lj_tab_get(t, x) = TabNil
          BY <3>4, <4>4, Lookup
        <5>2. lj_tab_get(u, x) = TabNil
          BY <2>7, <3>1, <3>4, <4>1, <4>4, Lookup
        <5> QED BY <3>4, <5>1, <5>2
      <4> QED BY <4>3, <4>4
    <3> QED BY <3>2, <3>3, <3>4
  <2>9. Puts(t, u, k, v)
    BY <2>8, Zenon DEF Puts
  <2>10. \A i \in Used(u) : u.node[i].key = t.node[i].key /\ i \in Used(t)
    BY <1>2, <2>5, <2>7 DEF SameKeys
  <2> QED BY <1>4, <2>3, <2>5, <2>7, <2>9, <2>10 DEF u
<1>5. CASE ~ inarray(t, k) /\ Seek(t, k) = None
  <2>1. Room(t, k) /\ u = NewKey(t, k, v)
    BY <1>5 DEF Store
  <2>2. Missing(t, k, v)
    BY <1>1, <1>5, SeekFinds DEF Missing
  <2>3. Whole(u, a, h) /\ Gains(t, u, k, v)
    BY <2>1, <2>2, NewKeyPlaced
  <2> HIDE DEF u
  <2>4. u.arr = t.arr /\ u.nested = t.nested
    BY <2>3 DEF Gains
  <2>5. \A i \in Used(u) : u.node[i].key = k \/ \E j \in Used(t) : u.node[i].key = t.node[j].key
    BY <2>3 DEF Gains
  <2>8. ASSUME NEW x
        PROVE  lj_tab_get(u, x) = IF x = k THEN v ELSE lj_tab_get(t, x)
    <3>1. inarray(u, x) <=> inarray(t, x)
      BY <2>4 DEF inarray
    <3>2. CASE inarray(t, x)
      BY <1>5, <2>3, <2>4, <3>1, <3>2, Lookup
    <3>3. CASE ~ inarray(t, x) /\ x = k
      <4> PICK i \in Used(u) : u.node[i].key = k /\ u.node[i].val = v
        BY <2>3 DEF Gains
      <4> QED BY <2>3, <3>1, <3>3, Lookup
    <3>4. CASE ~ inarray(t, x) /\ x # k /\ lj_tab_get(t, x) # TabNil
      <4>1. PICK j \in Used(t) : t.node[j].key = x
        BY <3>4, Lookup
      <4>2. lj_tab_get(t, x) = t.node[j].val
        BY <3>4, <4>1, Lookup
      <4>3. PICK i \in Used(u) : u.node[i].key = x /\ u.node[i].val = t.node[j].val
        BY <2>3, <3>4, <4>1, <4>2 DEF Gains
      <4>4. lj_tab_get(u, x) = u.node[i].val
        BY <2>3, <3>1, <3>4, <4>3, Lookup
      <4> QED BY <3>4, <4>2, <4>3, <4>4
    <3>5. CASE ~ inarray(t, x) /\ x # k /\ lj_tab_get(t, x) = TabNil
      <4> SUFFICES ASSUME lj_tab_get(u, x) # TabNil
                   PROVE  FALSE
        BY <3>5
      <4>1. PICK i \in Used(u) : u.node[i].key = x
        BY <2>3, <3>1, <3>5, Lookup
      <4>2. lj_tab_get(u, x) = u.node[i].val
        BY <2>3, <3>1, <3>5, <4>1, Lookup
      <4>3. PICK j \in Used(t) : x = t.node[j].key /\ u.node[i].val = t.node[j].val
        BY <2>3, <3>5, <4>1 DEF Gains
      <4>4. lj_tab_get(t, x) = t.node[j].val
        BY <3>5, <4>3, Lookup
      <4> QED BY <3>5, <4>2, <4>3, <4>4
    <3> QED BY <3>2, <3>3, <3>4, <3>5
  <2>9. Puts(t, u, k, v)
    BY <2>8, Zenon DEF Puts
  <2> QED BY <1>5, <2>3, <2>4, <2>5, <2>9 DEF u
<1> QED BY <1>3, <1>4, <1>5

(***************************************************************************)
(* Resizing.                                                               *)
(***************************************************************************)
HashNodes(hbits) == IF hbits = 0 THEN 0 ELSE Pow2(hbits)

\* Before the pairs are inserted there are no keys in the hash part.
LEMMA KeptWhole ==
  ASSUME HashType, NEW t, NEW a \in Nat, NEW h \in Nat, Whole(t, a, h),
         NEW asize \in Nat, NEW hbits \in Nat, NEW u, u = Kept(t, asize, hbits)
  PROVE  /\ Whole(u, asize, HashNodes(hbits)) /\ Used(u) = {} /\ u.nested = t.nested
         /\ \A x : lj_tab_get(u, x) = IF inarray(t, x) /\ inarray(u, x) THEN t.arr[x] ELSE TabNil
<1> DEFINE H == HashNodes(hbits)
           w == [i \in 0 .. asize - 1 |-> IF i \in DOMAIN t.arr THEN t.arr[i] ELSE TabNil]
<1>1. H \in Nat /\ (hbits = 0 => H = 0) /\ (hbits # 0 => H = Pow2(hbits))
  BY Pow2Step DEF HashNodes
<1> HIDE DEF H
<1>2. Sized(t, a, h) /\ Keyed(t)
  BY DEF Whole
<1>3. DOMAIN t.arr = 0 .. a - 1 /\ t.arr \in [0 .. a - 1 -> Values] /\ t.nested \in BOOLEAN
  BY <1>2, SizedTable
<1>4. /\ EmptyNodes(hbits) \in [0 .. H - 1 -> TabNode]
      /\ \A i \in 0 .. H - 1 : EmptyNodes(hbits)[i] = [key |-> TabNil, val |-> TabNil, next |-> None]
      /\ DOMAIN EmptyNodes(hbits) = 0 .. H - 1
  <2>1. [key |-> TabNil, val |-> TabNil, next |-> None] \in TabNode
    BY DEF TabNode, Values
  <2>2. CASE hbits = 0
    <3>1. EmptyNodes(hbits) = <<>> /\ H = 0
      BY <1>1, <2>2 DEF EmptyNodes
    <3> QED BY <3>1
  <2>3. CASE hbits # 0
    <3>1. EmptyNodes(hbits) = [i \in 0 .. H - 1 |-> [key |-> TabNil, val |-> TabNil, next |-> None]]
      BY <1>1, <2>3 DEF EmptyNodes
    <3> QED BY <2>1, <3>1
  <2> QED BY <2>2, <2>3
<1>5. u = [arr |-> w, node |-> EmptyNodes(hbits), free |-> H, nested |-> t.nested]
  <2>1. newtab(asize, hbits) = [arr |-> [i \in 0 .. asize - 1 |-> TabNil], node |-> EmptyNodes(hbits),
                                free |-> H, nested |-> FALSE]
    BY <1>1 DEF newtab
  <2>2. u = [newtab(asize, hbits) EXCEPT !.arr = w, !.nested = t.nested]
    BY <2>1 DEF Kept
  <2> DEFINE e == EmptyNodes(hbits)
             s == [i \in 0 .. asize - 1 |-> TabNil]
             b == t.nested
  <2>3. u = [[arr |-> s, node |-> e, free |-> H, nested |-> FALSE] EXCEPT !.arr = w, !.nested = b]
    BY <2>1, <2>2
  <2> HIDE DEF w, e, s, b
  <2>4. u = [arr |-> w, node |-> e, free |-> H, nested |-> b]
    BY <2>3
  <2> QED BY <2>4 DEF e, b
<1>6. w \in [0 .. asize - 1 -> Values]
  BY <1>3 DEF Values
<1>7. \A i \in 0 .. asize - 1 : w[i] = IF i \in 0 .. a - 1 THEN t.arr[i] ELSE TabNil
  BY <1>3
<1> HIDE DEF w
<1>8. u.arr = w /\ u.node = EmptyNodes(hbits) /\ u.free = H /\ u.nested = t.nested
  BY <1>5
<1>9. Sized(u, asize, H)
  <2>1. u = [arr |-> u.arr, node |-> u.node, free |-> u.free, nested |-> u.nested]
    BY <1>5, <1>8
  <2> QED BY <1>1, <1>3, <1>4, <1>6, <1>8, <2>1, Resized
<1>10. /\ Nodes(u) = 0 .. H - 1 /\ DOMAIN u.arr = 0 .. asize - 1
       /\ \A i \in Nodes(u) : u.node[i].key = TabNil /\ u.node[i].val = TabNil /\ u.node[i].next = None
  BY <1>4, <1>6, <1>8 DEF Nodes
<1>11. Used(u) = {}
  BY <1>10 DEF Used
<1>12. Keyed(u)
  <2>1. \A i \in DOMAIN u.arr : u.arr[i] # TabNil => i \in IntKeys
    BY <1>2, <1>3, <1>7, <1>8, <1>10 DEF Keyed
  <2>2. \A i \in Nodes(u) : i < u.free
    BY <1>1, <1>8, <1>10
  <2> QED BY <1>10, <1>11, <2>1, <2>2 DEF Keyed
<1>13. Chained(u) /\ Ranked(u, <<>>)
  BY <1>11 DEF Chained, Ranked
<1>14. Whole(u, asize, H)
  BY <1>9, <1>12, <1>13 DEF Whole
<1>15. ASSUME NEW x
       PROVE  lj_tab_get(u, x) = IF inarray(t, x) /\ inarray(u, x) THEN t.arr[x] ELSE TabNil
  <2>1. CASE inarray(u, x)
    <3>1. lj_tab_get(u, x) = w[x] /\ x \in 0 .. asize - 1
      BY <1>1, <1>8, <1>10, <1>14, <2>1, Lookup DEF inarray
    <3> QED BY <1>3, <1>7, <2>1, <3>1 DEF inarray
  <2>2. CASE ~ inarray(u, x)
    BY <1>1, <1>11, <1>14, <2>2, Lookup
  <2> QED BY <2>1, <2>2
<1> QED BY <1>8, <1>11, <1>14, <1>15 DEF H

\* The pairs to insert are all that the new array part does not take over.
Completes(t, asize, ps) ==
  \A x : lj_tab_get(t, x) # TabNil =>
    (inarray(t, x) /\ x \in 0 .. asize - 1) \/ \E i \in 1 .. Len(ps) : ps[i][1] = x

LEMMA PairsOf ==
  ASSUME HashType, NEW t, NEW a \in Nat, NEW h \in Nat, Whole(t, a, h), NEW asize \in Nat
  PROVE  /\ Len(Pairs(t, asize)) \in Nat
         /\ \A i \in 1 .. Len(Pairs(t, asize)) : lj_tab_get(t, Pairs(t, asize)[i][1]) = Pairs(t, asize)[i][2]
         /\ Completes(t, asize, Pairs(t, asize))
<1>1. Sized(t, a, h) /\ Keyed(t)
  BY DEF Whole
<1>2. /\ DOMAIN t.arr = 0 .. a - 1 /\ Cardinality(DOMAIN t.arr) = a
      /\ Nodes(t) = 0 .. h - 1 /\ HashSize(t) = h /\ t.node \in [0 .. h - 1 -> TabNode]
      /\ t.arr \in [0 .. a - 1 -> Values] /\ Used(t) \subseteq Nodes(t)
  BY <1>1, SizedTable, UsedNodes
<1> DEFINE d == IF asize < a THEN a - asize ELSE 0
           lost == [i \in 1 .. d |-> <<asize + i - 1, t.arr[asize + i - 1]>>]
           hashed == [i \in 1 .. h |-> <<t.node[i - 1].key, t.node[i - 1].val>>]
           P == (Nat \cup TabKeys \cup {TabNil}) \X Values
           ps == Pairs(t, asize)
<1>3. ps = lost \o hashed
  BY <1>2 DEF Pairs
<1>4. d \in Nat /\ \A i \in 1 .. d : asize + i - 1 \in 0 .. a - 1 /\ asize + i - 1 \in Nat
  OBVIOUS
<1>5. lost \in [1 .. d -> P]
  BY <1>2, <1>4
<1>6. hashed \in [1 .. h -> P]
  <2>1. ASSUME NEW i \in 1 .. h
        PROVE  <<t.node[i - 1].key, t.node[i - 1].val>> \in P
    <3>1. t.node[i - 1] \in TabNode
      BY <1>2
    <3> QED BY <3>1 DEF TabNode
  <2> HIDE DEF P
  <2> QED BY <2>1
<1>7. /\ \A i \in 1 .. d : lost[i][1] = asize + i - 1 /\ lost[i][2] = t.arr[asize + i - 1]
      /\ \A i \in 1 .. h : hashed[i][1] = t.node[i - 1].key /\ hashed[i][2] = t.node[i - 1].val
  OBVIOUS
<1> HIDE DEF lost, hashed, P, ps, d
<1>8. lost \in Seq(P) /\ hashed \in Seq(P) /\ Len(lost) = d /\ Len(hashed) = h
  <2>1. lost \in Seq(P) /\ hashed \in Seq(P)
    BY <1>4, <1>5, <1>6, SeqDef
  <2>2. Len(lost) = d /\ Len(hashed) = h
    BY <1>4, <1>5, <1>6, <2>1
  <2> QED BY <2>1, <2>2
<1>9. /\ Len(ps) = d + h
      /\ \A i \in 1 .. d + h : ps[i] = IF i <= d THEN lost[i] ELSE hashed[i - d]
  BY <1>3, <1>8, ConcatProperties
<1>10. ASSUME NEW i \in 1 .. d + h
       PROVE  lj_tab_get(t, ps[i][1]) = ps[i][2]
  <2>1. CASE i <= d
    <3>1. i \in 1 .. d /\ ps[i] = lost[i] /\ asize + i - 1 \in 0 .. a - 1
      BY <1>4, <1>9, <2>1
    <3>2. inarray(t, asize + i - 1)
      BY <1>2, <3>1 DEF inarray
    <3>3. lj_tab_get(t, asize + i - 1) = t.arr[asize + i - 1]
      BY <3>2, Lookup
    <3> QED BY <1>7, <3>1, <3>3
  <2>2. CASE ~ (i <= d)
    <3>1. i - d \in 1 .. h /\ ps[i] = hashed[i - d]
      BY <1>4, <1>9, <2>2
    <3> DEFINE n == i - d - 1
    <3>2. n \in 0 .. h - 1 /\ ps[i][1] = t.node[n].key /\ ps[i][2] = t.node[n].val
      BY <1>4, <1>7, <3>1
    <3> HIDE DEF n
    <3>3. CASE n \in Used(t)
      <4>1. ~ inarray(t, t.node[n].key)
        BY <1>1, <3>3 DEF Keyed
      <4> QED BY <3>2, <3>3, <4>1, Lookup
    <3>4. CASE n \notin Used(t)
      <4>1. t.node[n].key = TabNil /\ t.node[n].val = TabNil
        BY <1>1, <1>2, <3>2, <3>4 DEF Used, Keyed
      <4>2. lj_tab_get(t, TabNil) = TabNil
        BY Lookup, TabAssumption
      <4> QED BY <3>2, <4>1, <4>2
    <3> QED BY <3>3, <3>4
  <2> QED BY <2>1, <2>2
<1>11. ASSUME NEW x, lj_tab_get(t, x) # TabNil, ~ (inarray(t, x) /\ x \in 0 .. asize - 1)
       PROVE  \E i \in 1 .. d + h : ps[i][1] = x
  <2>1. CASE inarray(t, x)
    <3> DEFINE i == x - asize + 1
    <3>1. x \in 0 .. a - 1 /\ x \notin 0 .. asize - 1
      BY <1>2, <1>11, <2>1 DEF inarray
    <3>2. i \in 1 .. d /\ asize + i - 1 = x
      BY <3>1 DEF d
    <3>3. i \in 1 .. d + h /\ i <= d /\ lost[i][1] = x
      BY <1>4, <1>7, <3>2
    <3> HIDE DEF i
    <3> QED BY <1>9, <3>3
  <2>2. CASE ~ inarray(t, x)
    <3>1. PICK n \in Used(t) : t.node[n].key = x
      BY <1>11, <2>2, Lookup
    <3> DEFINE i == d + n + 1
    <3>2. n \in 0 .. h - 1
      BY <1>2
    <3>3. i \in 1 .. d + h /\ ~ (i <= d) /\ i - d \in 1 .. h /\ i - d - 1 = n
      BY <1>4, <3>2
    <3> HIDE DEF i
    <3> QED BY <1>7, <1>9, <3>1, <3>3
  <2> QED BY <2>1, <2>2
<1>12. Completes(t, asize, ps)
  BY <1>9, <1>11 DEF Completes
<1> QED BY <1>4, <1>9, <1>10, <1>12 DEF ps

\* The keys that stay in the hash part or move there.
Outside(t, asize) == {x \in TabKeys : lj_tab_get(t, x) # TabNil /\ x \notin 0 .. asize - 1}

\* A table on its way from t to a size of asize slots and H nodes.
Refilling(t, asize, H, y) ==
  /\ Whole(y, asize, H) /\ y.nested = t.nested
  /\ \A x : lj_tab_get(y, x) \in {lj_tab_get(t, x), TabNil}
  /\ \A x : inarray(t, x) /\ x \in 0 .. asize - 1 => lj_tab_get(y, x) = lj_tab_get(t, x)
  /\ \A i \in Used(y) : y.node[i].key \in Outside(t, asize)

\* There is room for every key that belongs outside of the array part.
LEMMA RoomOutside ==
  ASSUME HashType, NEW y, NEW a \in Nat, NEW H \in Nat, Whole(y, a, H),
         NEW Out, IsFiniteSet(Out), Cardinality(Out) <= H, \A i \in Used(y) : y.node[i].key \in Out,
         NEW k \in TabKeys, k \in Out \/ inarray(y, k)
  PROVE  inarray(y, k) \/ Seek(y, k) # None \/ Room(y, k)
<1> SUFFICES ASSUME k \in Out, Seek(y, k) = None, FreeNodes(y) = {} \/ y.node = <<>>
             PROVE  FALSE
  BY DEF Room
<1>1. Sized(y, a, H) /\ Keyed(y) /\ Chained(y)
  BY DEF Whole
<1> PICK r : Ranked(y, r)
  BY DEF Whole
<1>2. \A i \in Used(y) : y.node[i].key # k
  BY <1>1, SeekFinds
<1>3. Cardinality(Out) \in Nat /\ IsFiniteSet(Out \ {k}) /\ Cardinality(Out \ {k}) = Cardinality(Out) - 1
  BY FS_CardinalityType, FS_RemoveElement
<1>4. Cardinality(Out \ {k}) \in Nat
  BY <1>3, FS_CardinalityType
<1>5. H # 0
  BY <1>3, <1>4
<1>6. Nodes(y) = 0 .. H - 1 /\ Used(y) = Nodes(y)
  <2>1. Nodes(y) = 0 .. H - 1 /\ y.node # <<>>
    BY <1>1, <1>5, SizedTable
  <2>2. Used(y) \subseteq Nodes(y) /\ FreeNodes(y) = Nodes(y) \ Used(y)
    BY FreeNodeFound DEF Used
  <2> QED BY <2>1, <2>2
<1>7. IsFiniteSet(0 .. H - 1) /\ Cardinality(0 .. H - 1) = H
  BY <1>1, SizedTable, FS_Interval DEF HashSize
<1> DEFINE key == [i \in 0 .. H - 1 |-> y.node[i].key]
<1>8. key \in [0 .. H - 1 -> Out \ {k}]
  BY <1>2, <1>6
<1>9. Cardinality(Out \ {k}) < Cardinality(0 .. H - 1)
  BY <1>3, <1>7
<1>10. PICK i, j \in 0 .. H - 1 : i # j /\ key[i] = key[j]
  <2> HIDE DEF key
  <2> QED BY <1>3, <1>7, <1>8, <1>9, FS_PigeonHole
<1> QED BY <1>1, <1>6, <1>10 DEF Keyed

\* Inserting the next pair.
LEMMA RefillStep ==
  ASSUME HashType, NEW t, NEW a \in Nat, NEW h \in Nat, Whole(t, a, h),
         NEW asize \in Nat, NEW H \in Nat, IsFiniteSet(Outside(t, asize)), Cardinality(Outside(t, asize)) <= H,
         NEW y, Refilling(t, asize, H, y), NEW k, lj_tab_get(t, k) # TabNil
  PROVE  /\ Refilling(t, asize, H, Store(y, k, lj_tab_get(t, k)))
         /\ Puts(y, Store(y, k, lj_tab_get(t, k)), k, lj_tab_get(t, k))
<1> DEFINE v == lj_tab_get(t, k)
           u == Store(y, k, v)
           Out == Outside(t, asize)
<1>1. k \in TabKeys /\ v \in Values
  BY Lookup
<1>2. Whole(y, asize, H) /\ y.nested = t.nested /\ \A i \in Used(y) : y.node[i].key \in Out
  BY DEF Refilling
<1>3. Sized(y, asize, H)
  BY <1>2 DEF Whole
<1>4. DOMAIN y.arr = 0 .. asize - 1
  BY <1>3, SizedTable
<1>5. k \in Out \/ inarray(y, k)
  BY <1>1, <1>4 DEF Outside, inarray
<1>6. inarray(y, k) \/ Seek(y, k) # None \/ Room(y, k)
  <2> HIDE DEF Out
  <2>1. IsFiniteSet(Out) /\ Cardinality(Out) <= H
    BY DEF Out
  <2> QED BY <1>1, <1>2, <1>5, <2>1, RoomOutside
<1> HIDE DEF v, Out
<1>7. /\ Whole(u, asize, H) /\ u.nested = y.nested /\ Puts(y, u, k, v)
      /\ inarray(y, k) => Used(u) = Used(y) /\ SameKeys(y, u)
      /\ \A i \in Used(u) : u.node[i].key = k \/ \E j \in Used(y) : u.node[i].key = y.node[j].key
  BY <1>1, <1>2, <1>6, Stored
<1> HIDE DEF u
<1>8. \A x : lj_tab_get(u, x) \in {lj_tab_get(t, x), TabNil}
  BY <1>7 DEF Puts, v, Refilling
<1>9. \A x : inarray(t, x) /\ x \in 0 .. asize - 1 => lj_tab_get(u, x) = lj_tab_get(t, x)
  BY <1>7 DEF Puts, v, Refilling
<1>10. \A i \in Used(u) : u.node[i].key \in Out
  <2>1. CASE inarray(y, k)
    BY <1>2, <1>7, <2>1 DEF SameKeys, Used
  <2>2. CASE ~ inarray(y, k)
    BY <1>2, <1>5, <1>7, <2>2
  <2> QED BY <2>1, <2>2
<1>11. Refilling(t, asize, H, u)
  BY <1>2, <1>7, <1>8, <1>9, <1>10 DEF Refilling, Out
<1> QED BY <1>7, <1>11 DEF u, v

IsFill(t, asize, hbits, x) ==
  LET ps == Pairs(t, asize)
  IN x = [j \in 0 .. Len(ps) |->
            IF j = 0 THEN Kept(t, asize, hbits)
            ELSE IF ps[j][2] = TabNil THEN x[j - 1]
            ELSE Store(x[j - 1], ps[j][1], ps[j][2])]

\* A resize with enough nodes keeps all that the table has.
LEMMA TableResized ==
  ASSUME HashType, NEW t, NEW a \in Nat, NEW h \in Nat, Whole(t, a, h),
         NEW asize \in Nat, NEW hbits \in Nat,
         IsFiniteSet(Outside(t, asize)), Cardinality(Outside(t, asize)) <= HashNodes(hbits)
  PROVE  /\ Refilling(t, asize, HashNodes(hbits), lj_tab_resize(t, asize, hbits))
         /\ \A x : lj_tab_get(lj_tab_resize(t, asize, hbits), x) = lj_tab_get(t, x)
<1> DEFINE ps == Pairs(t, asize)
           n == Len(ps)
           H == HashNodes(hbits)
           start == Kept(t, asize, hbits)
           T == [arr : [0 .. asize - 1 -> Values], node : [0 .. H - 1 -> TabNode], free : 0 .. H, nested : BOOLEAN]
           V == {y \in T : Refilling(t, asize, H, y)}
           step(j, y) == IF ps[j][2] = TabNil THEN y ELSE Store(y, ps[j][1], ps[j][2])
           F == [z \in (1 .. n) \X V |-> step(z[1], z[2])]
<1>1. /\ n \in Nat
      /\ \A i \in 1 .. n : lj_tab_get(t, ps[i][1]) = ps[i][2]
      /\ \A x : lj_tab_get(t, x) # TabNil =>
              (inarray(t, x) /\ x \in 0 .. asize - 1) \/ \E i \in 1 .. n : ps[i][1] = x
  <2> HIDE DEF H, F, V, T, start
  <2>1. n \in Nat
    BY PairsOf
  <2>2. \A i \in 1 .. n : lj_tab_get(t, ps[i][1]) = ps[i][2]
    BY PairsOf
  <2>3. ASSUME NEW x, lj_tab_get(t, x) # TabNil
        PROVE  (inarray(t, x) /\ x \in 0 .. asize - 1) \/ \E i \in 1 .. n : ps[i][1] = x
    <3>1. Completes(t, asize, ps)
      BY PairsOf
    <3> HIDE DEF ps
    <3> QED BY <2>3, <3>1 DEF Completes
  <2> QED BY <2>1, <2>2, <2>3
<1>2. H \in Nat
  BY Pow2Step DEF HashNodes
<1>3. \A y : Refilling(t, asize, H, y) => y \in V
  BY DEF Refilling, Whole, Sized
<1>4. start \in V
  <2>1. /\ Whole(start, asize, H) /\ Used(start) = {} /\ start.nested = t.nested
        /\ \A x : lj_tab_get(start, x) = IF inarray(t, x) /\ inarray(start, x) THEN t.arr[x] ELSE TabNil
    BY KeptWhole
  <2>2. \A x : inarray(start, x) <=> x \in 0 .. asize - 1
    BY <1>2, <2>1, SizedTable DEF Whole, inarray
  <2>3. \A x : inarray(t, x) => lj_tab_get(t, x) = t.arr[x]
    BY Lookup
  <2> HIDE DEF start, H
  <2>4. Refilling(t, asize, H, start)
    BY <2>1, <2>2, <2>3 DEF Refilling
  <2> QED BY <1>3, <2>4
<1> HIDE DEF start
<1>5. ASSUME NEW j \in 1 .. n, NEW y \in V
      PROVE  /\ step(j, y) \in V
             /\ \A x : lj_tab_get(step(j, y), x) = IF x = ps[j][1] THEN lj_tab_get(t, x) ELSE lj_tab_get(y, x)
  <2>0. Refilling(t, asize, H, y)
    OBVIOUS
  <2> HIDE DEF V, H, ps, n
  <2>1. CASE ps[j][2] = TabNil
    <3>1. \A x : x = ps[j][1] => lj_tab_get(y, x) = lj_tab_get(t, x)
      BY <1>1, <2>0, <2>1 DEF Refilling
    <3> QED BY <2>1, <3>1
  <2>2. CASE ps[j][2] # TabNil
    <3> DEFINE k == ps[j][1]
               u == Store(y, k, lj_tab_get(t, k))
    <3>1. lj_tab_get(t, k) = ps[j][2] /\ lj_tab_get(t, k) # TabNil
      BY <1>1, <2>2
    <3>2. step(j, y) = u
      BY <2>2, <3>1
    <3> HIDE DEF k
    <3>3. Refilling(t, asize, H, u) /\ Puts(y, u, k, lj_tab_get(t, k))
      <4>1. IsFiniteSet(Outside(t, asize)) /\ Cardinality(Outside(t, asize)) <= H
        BY DEF H
      <4> QED BY <1>2, <2>0, <3>1, <4>1, RefillStep
    <3> HIDE DEF u, step
    <3>4. \A x : lj_tab_get(u, x) = IF x = k THEN lj_tab_get(t, x) ELSE lj_tab_get(y, x)
      BY <3>3 DEF Puts
    <3> QED BY <1>3, <3>2, <3>3, <3>4 DEF k
  <2> QED BY <2>1, <2>2
<1> HIDE DEF step, V
<1>6. F \in [(1 .. n) \X V -> V] /\ \A j \in 1 .. n, y \in V : F[<<j, y>>] = step(j, y)
  <2> HIDE DEF n
  <2> QED BY <1>5
<1> HIDE DEF F
<1>7. PICK g : Accumulates(g, V, start, n, F)
  <2> HIDE DEF n
  <2> QED BY <1>1, <1>4, <1>6, AccumulationExists
<1>8. \A i \in 1 .. n : i - 1 \in 0 .. n
  BY <1>1
<1>9. g \in [0 .. n -> V] /\ g[0] = start /\ \A j \in 1 .. n : g[j] = step(j, g[j - 1])
  BY <1>6, <1>7, <1>8 DEF Accumulates
<1> DEFINE q == CHOOSE x : IsFill(t, asize, hbits, x)
<1>10. IsFill(t, asize, hbits, g)
  <2>1. \A j \in 0 .. n : g[j] = IF j = 0 THEN start ELSE step(j, g[j - 1])
    <3>1. \A j \in 0 .. n : j # 0 => j \in 1 .. n
      BY <1>1
    <3> QED BY <1>9, <3>1
  <2>2. g = [j \in 0 .. n |-> IF j = 0 THEN start ELSE step(j, g[j - 1])]
    <3> HIDE DEF n
    <3> QED BY <1>9, <2>1
  <2> QED BY <2>2, Zenon DEF IsFill, step, start
<1>11. IsFill(t, asize, hbits, q)
  BY <1>10, Zenon
<1>12. lj_tab_resize(t, asize, hbits) = q[n]
  BY Zenon DEF lj_tab_resize, IsFill
<1> HIDE DEF q, ps
<1>13. \A j \in 0 .. n : q[j] = IF j = 0 THEN start ELSE step(j, q[j - 1])
  <2>1. q = [j \in 0 .. n |-> IF j = 0 THEN start ELSE step(j, q[j - 1])]
    BY <1>11, Zenon DEF IsFill, step, start, ps
  <2> QED BY <2>1, Zenon
<1>14. \A j \in 0 .. n : g[j] = q[j]
  <2> HIDE DEF n
  <2>1. \A j \in 1 .. n : j \in 0 .. n /\ j # 0
    OBVIOUS
  <2>2. \A j \in 1 .. n : q[j] = step(j, q[j - 1])
    BY <1>13, <2>1
  <2>3. g[0] = q[0]
    BY <1>1, <1>9, <1>13
  <2>4. \A j \in 1 .. n : g[j - 1] = q[j - 1] => g[j] = q[j]
    BY <1>9, <2>2
  <2>5. n \in Nat
    BY <1>1
  <2> HIDE DEF step
  <2> QED BY <2>3, <2>4, <2>5, AccumulationUnique
<1>15. n \in 0 .. n
  BY <1>1
<1>16. lj_tab_resize(t, asize, hbits) = g[n] /\ g[n] \in V
  BY <1>9, <1>12, <1>14, <1>15
<1>17. Refilling(t, asize, H, g[n])
  BY <1>16 DEF V
<1> DEFINE S == {j \in 0 .. n : \A i \in 1 .. j : lj_tab_get(g[j], ps[i][1]) = lj_tab_get(t, ps[i][1])}
<1>18. 0 .. n \subseteq S
  <2> HIDE DEF n
  <2>1. 0 \in S
    BY <1>1
  <2>2. ASSUME NEW j \in 1 .. n, j - 1 \in S
        PROVE  j \in S
    <3>0. j \in 0 .. n /\ j - 1 \in 0 .. n /\ \A i \in 1 .. j : i = j \/ i \in 1 .. j - 1
      BY <1>1
    <3>1. \A x : lj_tab_get(g[j], x) = IF x = ps[j][1] THEN lj_tab_get(t, x) ELSE lj_tab_get(g[j - 1], x)
      BY <1>5, <1>9, <3>0
    <3> QED BY <2>2, <3>0, <3>1
  <2> HIDE DEF S
  <2> QED BY <1>1, <2>1, <2>2, BoundedInduction
<1>19. ASSUME NEW x
       PROVE  lj_tab_get(g[n], x) = lj_tab_get(t, x)
  <2>1. CASE lj_tab_get(t, x) = TabNil
    BY <1>17, <2>1 DEF Refilling
  <2>2. CASE inarray(t, x) /\ x \in 0 .. asize - 1
    BY <1>17, <2>2 DEF Refilling
  <2>3. CASE \E i \in 1 .. n : ps[i][1] = x
    <3> HIDE DEF n
    <3> QED BY <1>15, <1>18, <2>3
  <2> QED BY <1>1, <2>1, <2>2, <2>3
<1> HIDE DEF H, n
<1> QED BY <1>16, <1>17, <1>19 DEF H

\* The live keys are as many as the slots and nodes that hold them.
LiveSlots(t) == {i \in DOMAIN t.arr : t.arr[i] # TabNil}
LiveNodes(t) == {i \in Nodes(t) : t.node[i].val # TabNil}
NodeKeys(t) == {t.node[i].key : i \in LiveNodes(t)}

LEMMA LiveCount ==
  ASSUME HashType, NEW t, NEW a \in Nat, NEW h \in Nat, Whole(t, a, h)
  PROVE  /\ LiveKeys(t) = LiveSlots(t) \cup NodeKeys(t) /\ LiveSlots(t) \subseteq IntKeys
         /\ IsFiniteSet(LiveKeys(t)) /\ Cardinality(LiveKeys(t)) \in Nat
         /\ Cardinality(LiveSlots(t)) \in Nat /\ Cardinality(LiveNodes(t)) \in Nat
         /\ Cardinality(LiveKeys(t)) <= Cardinality(LiveSlots(t)) + Cardinality(LiveNodes(t))
         /\ Cardinality(NodeKeys(t)) <= Cardinality(LiveNodes(t)) /\ IsFiniteSet(NodeKeys(t))
         /\ Cardinality(LiveNodes(t)) <= h
<1>1. Sized(t, a, h) /\ Keyed(t)
  BY DEF Whole
<1>2. DOMAIN t.arr = 0 .. a - 1 /\ Nodes(t) = 0 .. h - 1 /\ Cardinality(Nodes(t)) = h
  BY <1>1, SizedTable DEF HashSize
<1>3. LiveNodes(t) \subseteq Used(t) /\ LiveNodes(t) \subseteq Nodes(t)
  BY <1>1 DEF LiveNodes, Keyed
<1>4. /\ IsFiniteSet(LiveSlots(t)) /\ IsFiniteSet(LiveNodes(t)) /\ Cardinality(LiveNodes(t)) <= h
  <2>1. IsFiniteSet(DOMAIN t.arr) /\ IsFiniteSet(Nodes(t))
    <3>1. IsFiniteSet(0 .. a - 1) /\ IsFiniteSet(0 .. h - 1)
      BY FS_Interval
    <3> QED BY <1>2, <3>1
  <2>2. LiveSlots(t) \in SUBSET DOMAIN t.arr /\ LiveNodes(t) \in SUBSET Nodes(t)
    BY <1>3 DEF LiveSlots
  <2> QED BY <1>2, <2>1, <2>2, FS_Subset
<1>5. IsFiniteSet(NodeKeys(t)) /\ Cardinality(NodeKeys(t)) <= Cardinality(LiveNodes(t))
  <2> DEFINE f == [i \in LiveNodes(t) |-> t.node[i].key]
  <2>1. f \in Surjection(LiveNodes(t), NodeKeys(t))
    BY DEF NodeKeys, Surjection
  <2> HIDE DEF f
  <2> QED BY <1>4, <2>1, FS_Surjection
<1>6. LiveKeys(t) = LiveSlots(t) \cup NodeKeys(t)
  <2>1. ASSUME NEW x \in LiveKeys(t)
        PROVE  x \in LiveSlots(t) \cup NodeKeys(t)
    <3>1. lj_tab_get(t, x) # TabNil
      BY DEF LiveKeys
    <3>2. CASE inarray(t, x)
      BY <3>1, <3>2, Lookup DEF LiveSlots, inarray
    <3>3. CASE ~ inarray(t, x)
      <4>1. PICK i \in Used(t) : t.node[i].key = x
        BY <3>1, <3>3, Lookup
      <4>2. t.node[i].val # TabNil
        BY <3>1, <3>3, <4>1, Lookup
      <4> QED BY <4>1, <4>2 DEF NodeKeys, LiveNodes, Used
    <3> QED BY <3>2, <3>3
  <2>2. ASSUME NEW x \in LiveSlots(t)
        PROVE  x \in LiveKeys(t)
    <3>1. inarray(t, x) /\ t.arr[x] # TabNil
      BY DEF LiveSlots, inarray
    <3>2. lj_tab_get(t, x) # TabNil /\ x \in TabKeys
      BY <3>1, Lookup
    <3> QED BY <3>2 DEF LiveKeys
  <2>3. ASSUME NEW x \in NodeKeys(t)
        PROVE  x \in LiveKeys(t)
    <3>1. PICK i \in LiveNodes(t) : x = t.node[i].key
      BY DEF NodeKeys
    <3>2. i \in Used(t) /\ ~ inarray(t, x)
      BY <1>1, <1>3, <3>1 DEF Keyed
    <3>3. lj_tab_get(t, x) = t.node[i].val
      BY <3>1, <3>2, Lookup
    <3>4. lj_tab_get(t, x) # TabNil /\ x \in TabKeys
      BY <3>1, <3>3, Lookup DEF LiveNodes
    <3> QED BY <3>4 DEF LiveKeys
  <2> QED BY <2>1, <2>2, <2>3
<1>7. /\ IsFiniteSet(LiveKeys(t))
      /\ Cardinality(LiveKeys(t)) = Cardinality(LiveSlots(t)) + Cardinality(NodeKeys(t))
                                      - Cardinality(LiveSlots(t) \cap NodeKeys(t))
  BY <1>4, <1>5, <1>6, FS_Union
<1>8. /\ Cardinality(LiveSlots(t)) \in Nat /\ Cardinality(NodeKeys(t)) \in Nat /\ Cardinality(LiveKeys(t)) \in Nat
      /\ Cardinality(LiveNodes(t)) \in Nat /\ Cardinality(LiveSlots(t) \cap NodeKeys(t)) \in Nat
  <2>1. IsFiniteSet(LiveSlots(t) \cap NodeKeys(t))
    BY <1>4, FS_Intersection
  <2> QED BY <1>4, <1>5, <1>7, <2>1, FS_CardinalityType
<1>9. LiveSlots(t) \subseteq IntKeys
  BY <1>1 DEF LiveSlots, Keyed
<1> QED BY <1>4, <1>5, <1>6, <1>7, <1>8, <1>9

\* What remains of a finite set without some of its members.
LEMMA Without ==
  ASSUME NEW All, IsFiniteSet(All), NEW Low \in SUBSET All, NEW Rest \in SUBSET (All \ Low)
  PROVE  /\ IsFiniteSet(Rest) /\ Cardinality(Rest) \in Nat
         /\ Cardinality(Low) \in Nat /\ Cardinality(All) \in Nat
         /\ Cardinality(Rest) <= Cardinality(All) - Cardinality(Low)
<1>1. IsFiniteSet(All \ Low) /\ Cardinality(All \ Low) = Cardinality(All) - Cardinality(All \cap Low)
  BY FS_Difference
<1>2. All \cap Low = Low
  OBVIOUS
<1>3. IsFiniteSet(Rest) /\ Cardinality(Rest) <= Cardinality(All \ Low)
  BY <1>1, FS_Subset
<1>4. IsFiniteSet(Low)
  BY FS_Subset
<1>5. Cardinality(Rest) \in Nat /\ Cardinality(Low) \in Nat /\ Cardinality(All) \in Nat
  BY <1>3, <1>4, FS_CardinalityType
<1> QED BY <1>1, <1>2, <1>3, <1>5

\* A rehash has room for all keys and for the new one.
HashSizes == {0} \cup {Pow2(b) : b \in Nat \ {0}}

Rehash(t, asize, H, u) ==
  /\ asize \in Nat /\ H \in HashSizes
  /\ Refilling(t, asize, H, u)
  /\ \A x : lj_tab_get(u, x) = lj_tab_get(t, x)

LEMMA Rehashed ==
  ASSUME HashType, NEW t, NEW a \in Nat, NEW h \in Nat, Whole(t, a, h),
         NEW ek, lj_tab_get(t, ek) = TabNil
  PROVE  \E asize, H \in Nat :
           /\ Rehash(t, asize, H, rehashtab(t, ek))
           /\ ek \in TabKeys => \/ inarray(rehashtab(t, ek), ek)
                                \/ Seek(rehashtab(t, ek), ek) # None
                                \/ Room(rehashtab(t, ek), ek)
<1> DEFINE u == rehashtab(t, ek)
           live == {i \in Nodes(t) : t.node[i].val # TabNil}
           ints == {i \in DOMAIN t.arr : t.arr[i] # TabNil}
                     \cup ({t.node[i].key : i \in live} \cap IntKeys) \cup ({ek} \cap IntKeys)
           UpTo(b) == Cardinality({k \in ints : Bin(k) <= b})
           dense == {b \in 0 .. LJ_MAX_ABITS - 1 : 2 * UpTo(b) > Pow2(b) /\ \E k \in ints : Bin(k) = b}
           best == CHOOSE b \in dense : \A c \in dense : c <= b
           na == IF dense = {} THEN 0 ELSE UpTo(best)
           total == 1 + Cardinality({i \in DOMAIN t.arr : t.arr[i] # TabNil}) + Cardinality(live) - na
           asize == IF dense = {} THEN 0 ELSE Pow2(best + 1) + 1
           hbits == hsize2hbits(total)
           Low == IF dense = {} THEN {} ELSE {k \in ints : Bin(k) <= best}
           All == LiveKeys(t) \cup {ek}
           Rest == Outside(t, asize) \cup ({ek} \ 0 .. asize - 1)
           H == HashNodes(hbits)
<1>1. u = lj_tab_resize(t, asize, hbits)
  BY Zenon DEF rehashtab
<1>2. live = LiveNodes(t) /\ ints = LiveSlots(t) \cup (NodeKeys(t) \cap IntKeys) \cup ({ek} \cap IntKeys)
  BY DEF LiveNodes, LiveSlots, NodeKeys
<1>3. total = 1 + Cardinality(LiveSlots(t)) + Cardinality(LiveNodes(t)) - na
  BY <1>2 DEF LiveSlots
<1>4. ints \subseteq All /\ ints \subseteq Nat
  <2> HIDE DEF ints
  <2> QED BY <1>2, LiveCount, IntKeysAreNat
<1>5. na = Cardinality(Low)
  <2> HIDE DEF dense, best, ints
  <2> QED BY FS_EmptySet
<1>6. dense # {} => best \in dense /\ best \in Nat
  <2> SUFFICES ASSUME dense # {}
               PROVE  best \in dense /\ best \in Nat
    OBVIOUS
  <2>1. dense \in SUBSET (0 .. LJ_MAX_ABITS) /\ LJ_MAX_ABITS \in Nat
    <3> HIDE DEF ints
    <3> QED BY TabAssumption
  <2> HIDE DEF dense
  <2>2. \E b \in dense : \A c \in dense : c <= b
    BY <2>1, GreatestMember
  <2>3. best \in dense
    BY <2>2, Zenon
  <2> HIDE DEF best
  <2> QED BY <2>1, <2>3
<1> HIDE DEF live, ints, dense, best, na, total
<1>7. asize \in Nat /\ Low \subseteq 0 .. asize - 1
  <2>1. CASE dense = {}
    BY <2>1
  <2>2. CASE dense # {}
    <3> DEFINE p == Pow2(best + 1)
    <3>1. best \in Nat /\ best + 1 \in Nat /\ p \in Nat /\ asize = p + 1
      BY <1>6, <2>2, Pow2Step
    <3>2. ASSUME NEW k \in ints, Bin(k) <= best
          PROVE  k \in 0 .. p
      <4>1. k \in Nat /\ Bin(k) \in Nat /\ k <= Pow2(Bin(k) + 1)
        BY <1>4, BinOf
      <4>2. Bin(k) + 1 \in Nat /\ Bin(k) + 1 <= best + 1
        BY <3>1, <3>2, <4>1
      <4>3. Pow2(Bin(k) + 1) <= p /\ Pow2(Bin(k) + 1) \in Nat
        BY <3>1, <4>2, Pow2Grows, Pow2Step
      <4> QED BY <3>1, <4>1, <4>3
    <3> HIDE DEF p
    <3>3. asize - 1 = p
      BY <3>1
    <3> QED BY <2>2, <3>1, <3>2, <3>3
  <2> QED BY <2>1, <2>2
<1> HIDE DEF asize
<1>8. Low \in SUBSET All /\ Rest \in SUBSET (All \ Low)
  BY <1>4, <1>7 DEF Outside, LiveKeys
<1> HIDE DEF Low
<1>9. IsFiniteSet(All) /\ Cardinality(All) \in Nat /\ Cardinality(All) <= 1 + Cardinality(LiveKeys(t))
  <2>1. IsFiniteSet(LiveKeys(t)) /\ Cardinality(LiveKeys(t)) \in Nat
    BY LiveCount
  <2>2. IsFiniteSet(All) /\ Cardinality(All) = IF ek \in LiveKeys(t) THEN Cardinality(LiveKeys(t)) ELSE Cardinality(LiveKeys(t)) + 1
    BY <2>1, FS_AddElement
  <2> QED BY <2>1, <2>2
<1> HIDE DEF All, Rest
<1>10. /\ IsFiniteSet(Rest) /\ Cardinality(Rest) \in Nat /\ Cardinality(Low) \in Nat
       /\ Cardinality(Rest) <= Cardinality(All) - Cardinality(Low)
  BY <1>8, <1>9, Without
<1>11. total \in Nat /\ Cardinality(Rest) <= total
  <2>1. /\ Cardinality(LiveSlots(t)) \in Nat /\ Cardinality(LiveNodes(t)) \in Nat /\ Cardinality(LiveKeys(t)) \in Nat
        /\ Cardinality(LiveKeys(t)) <= Cardinality(LiveSlots(t)) + Cardinality(LiveNodes(t))
    BY LiveCount
  <2> QED BY <1>3, <1>5, <1>9, <1>10, <2>1
<1>12. hbits \in Nat /\ H \in Nat /\ total <= H /\ H \in HashSizes
  <2>1. hbits \in Nat /\ total <= Pow2(hbits) /\ (hbits = 0 => total = 0)
    BY <1>11, EnoughBits
  <2> HIDE DEF hbits
  <2>2. Pow2(hbits) \in Nat
    BY <2>1, Pow2Step
  <2> QED BY <1>11, <2>1, <2>2 DEF HashNodes, HashSizes
<1> HIDE DEF hbits
<1>13. /\ IsFiniteSet(Outside(t, asize)) /\ Cardinality(Outside(t, asize)) <= H
       /\ Cardinality(Outside(t, asize)) \in Nat /\ Cardinality(Rest) <= H
  <2>1. Outside(t, asize) \in SUBSET Rest
    BY DEF Rest
  <2>2. IsFiniteSet(Outside(t, asize)) /\ Cardinality(Outside(t, asize)) <= Cardinality(Rest)
    BY <1>10, <2>1, FS_Subset
  <2>3. Cardinality(Outside(t, asize)) \in Nat
    BY <2>2, FS_CardinalityType
  <2> HIDE DEF H
  <2> QED BY <1>10, <1>11, <1>12, <2>2, <2>3
<1>14. Refilling(t, asize, H, u) /\ \A x : lj_tab_get(u, x) = lj_tab_get(t, x)
  <2> HIDE DEF u
  <2> QED BY <1>1, <1>7, <1>12, <1>13, TableResized
<1> HIDE DEF u, H
<1>15. ASSUME ek \in TabKeys
       PROVE  inarray(u, ek) \/ Seek(u, ek) # None \/ Room(u, ek)
  <2>1. Whole(u, asize, H) /\ \A i \in Used(u) : u.node[i].key \in Rest
    BY <1>14 DEF Refilling, Rest
  <2>2. DOMAIN u.arr = 0 .. asize - 1
    BY <1>7, <1>12, <2>1, SizedTable DEF Whole
  <2>3. ek \in Rest \/ inarray(u, ek)
    BY <2>2 DEF Rest, inarray
  <2> QED BY <1>7, <1>10, <1>12, <1>13, <1>15, <2>1, <2>3, RoomOutside
<1>16. Rehash(t, asize, H, u)
  BY <1>7, <1>12, <1>14 DEF Rehash
<1>17. asize \in Nat /\ H \in Nat /\ Rehash(t, asize, H, u)
       /\ (ek \in TabKeys => inarray(u, ek) \/ Seek(u, ek) # None \/ Room(u, ek))
  BY <1>7, <1>12, <1>15, <1>16
<1> QED BY <1>17, Zenon DEF u

(***************************************************************************)
(* Operations.                                                             *)
(***************************************************************************)

\* A table between two operations.
Consistent(t) == ~ t.nested /\ \E a \in Nat, h \in HashSizes : Whole(t, a, h)

LEMMA HashSizesAreNat == HashSizes \subseteq Nat
BY Pow2Step DEF HashSizes

\* lj_tab_set(), with a rehash if there is no room.
LEMMA SetKey ==
  ASSUME HashType, NEW t, Consistent(t), NEW k \in TabKeys, NEW v \in Values
  PROVE  /\ Consistent(lj_tab_set(t, k, v)) /\ Puts(t, lj_tab_set(t, k, v), k, v)
         /\ lj_tab_get(t, k) # TabNil => SameKeys(t, lj_tab_set(t, k, v))
<1> PICK a \in Nat, h \in HashSizes : Whole(t, a, h)
  BY DEF Consistent
<1>0. h \in Nat /\ t.nested = FALSE
  BY HashSizesAreNat, SizedTable DEF Consistent, Whole
<1> PICK r : Ranked(t, r)
  BY DEF Whole
<1> DEFINE u == lj_tab_set(t, k, v)
           fits(y) == inarray(y, k) \/ Seek(y, k) # None \/ Room(y, k)
<1>1. lj_tab_get(t, k) # TabNil => inarray(t, k) \/ Seek(t, k) # None
  <2> SUFFICES ASSUME ~ inarray(t, k), Seek(t, k) = None
               PROVE  lj_tab_get(t, k) = TabNil
    OBVIOUS
  <2>1. \A i \in Used(t) : t.node[i].key # k
    BY <1>0, SeekFinds DEF Whole
  <2>2. lj_tab_get(t, k) # TabNil => \E i \in Used(t) : t.node[i].key = k
    BY <1>0, Lookup
  <2> QED BY <2>1, <2>2
<1>2. CASE fits(t)
  <2>1. u = Store(t, k, v)
    BY <1>2 DEF lj_tab_set
  <2> DEFINE s == Store(t, k, v)
  <2>2. /\ Whole(s, a, h) /\ s.nested = t.nested /\ Puts(t, s, k, v)
        /\ inarray(t, k) \/ Seek(t, k) # None => SameKeys(t, s)
    BY <1>0, <1>2, Stored
  <2> HIDE DEF s, u, fits
  <2>3. Consistent(s)
    BY <1>0, <2>2 DEF Consistent
  <2> QED BY <1>1, <2>1, <2>2, <2>3 DEF u, s
<1>3. CASE ~ fits(t)
  <2> DEFINE w == rehashtab(t, k)
             s == Store(w, k, v)
  <2>1. u = s
    BY <1>3 DEF lj_tab_set
  <2>2. lj_tab_get(t, k) = TabNil
    BY <1>1, <1>3
  <2>3. PICK asize, H \in Nat : Rehash(t, asize, H, w) /\ fits(w)
    BY <1>0, <2>2, Rehashed
  <2> HIDE DEF w
  <2>4. Whole(w, asize, H) /\ w.nested = t.nested /\ H \in HashSizes /\ \A x : lj_tab_get(w, x) = lj_tab_get(t, x)
    BY <2>3 DEF Rehash, Refilling
  <2>5. Whole(s, asize, H) /\ s.nested = w.nested /\ Puts(w, s, k, v)
    BY <2>3, <2>4, Stored
  <2> HIDE DEF s, u
  <2>6. Consistent(s)
    BY <1>0, <2>4, <2>5 DEF Consistent
  <2>7. Puts(t, s, k, v)
    BY <2>4, <2>5 DEF Puts
  <2> QED BY <2>1, <2>2, <2>6, <2>7 DEF u
<1> QED BY <1>2, <1>3

\* lj_tab_rehash().
LEMMA RehashAll ==
  ASSUME HashType, NEW t, Consistent(t)
  PROVE  Consistent(rehashtab(t, TabNil)) /\ \A x : lj_tab_get(rehashtab(t, TabNil), x) = lj_tab_get(t, x)
<1> PICK a \in Nat, h \in HashSizes : Whole(t, a, h)
  BY DEF Consistent
<1>0. h \in Nat /\ ~ t.nested
  BY HashSizesAreNat DEF Consistent
<1> DEFINE u == rehashtab(t, TabNil)
<1>1. lj_tab_get(t, TabNil) = TabNil
  BY <1>0, Lookup, TabAssumption
<1>2. PICK asize, H \in Nat : Rehash(t, asize, H, u)
  BY <1>0, <1>1, Rehashed
<1> HIDE DEF u
<1> QED BY <1>0, <1>2 DEF Rehash, Refilling, Consistent, u

\* lj_tab_reasize(): the array part grows, the hash part keeps its size.
LEMMA Reasized ==
  ASSUME HashType, NEW t, NEW a \in Nat, NEW h \in HashSizes, Whole(t, a, h), NEW n \in Nat, a <= n + 1
  PROVE  /\ Whole(lj_tab_reasize(t, n), n + 1, h) /\ lj_tab_reasize(t, n).nested = t.nested
         /\ \A x : lj_tab_get(lj_tab_reasize(t, n), x) = lj_tab_get(t, x)
<1>0. h \in Nat
  BY HashSizesAreNat
<1>1. HashSize(t) = h /\ DOMAIN t.arr = 0 .. a - 1
  BY <1>0, SizedTable DEF Whole
<1> DEFINE hbits == IF h = 0 THEN 0 ELSE Bits(h)
           Out == Outside(t, n + 1)
<1>2. hbits \in Nat /\ HashNodes(hbits) = h
  <2>1. CASE h = 0
    BY <2>1 DEF HashNodes
  <2>2. CASE h # 0
    <3> DEFINE c == Bits(h)
    <3>1. PICK b \in Nat \ {0} : h = Pow2(b)
      BY <2>2 DEF HashSizes
    <3>2. c \in Nat /\ Pow2(c) <= h /\ h < Pow2(c + 1)
      BY <1>0, <2>2, BitsOf
    <3>3. Pow2(c) \in Nat /\ Pow2(c + 1) = 2 * Pow2(c) /\ Pow2(b + 1) = 2 * h /\ c + 1 \in Nat /\ b + 1 \in Nat
      BY <3>1, <3>2, Pow2Step
    <3>4. ~ (c + 1 <= b)
      <4>1. c + 1 <= b => Pow2(c + 1) <= Pow2(b)
        BY <3>1, <3>3, Pow2Grows
      <4> QED BY <1>0, <3>1, <3>2, <3>3, <4>1
    <3>5. ~ (b + 1 <= c)
      <4>1. b + 1 <= c => Pow2(b + 1) <= Pow2(c)
        BY <3>1, <3>2, <3>3, Pow2Grows
      <4> QED BY <1>0, <2>2, <3>1, <3>2, <3>3, <4>1
    <3>6. c = b
      <4> HIDE DEF c
      <4> QED BY <3>1, <3>2, <3>4, <3>5
    <3> QED BY <2>2, <3>1, <3>6 DEF HashNodes
  <2> QED BY <2>1, <2>2
<1>3. IsFiniteSet(Out) /\ Cardinality(Out) <= h
  <2>1. Out \in SUBSET NodeKeys(t)
    <3>1. Out \subseteq LiveKeys(t)
      BY DEF Outside, LiveKeys
    <3>2. LiveSlots(t) \subseteq 0 .. n
      BY <1>1 DEF LiveSlots
    <3>3. \A x \in Out : x \notin 0 .. n
      BY DEF Outside
    <3> QED BY <1>0, <3>1, <3>2, <3>3, LiveCount
  <2>2. IsFiniteSet(NodeKeys(t)) /\ Cardinality(NodeKeys(t)) <= Cardinality(LiveNodes(t)) /\ Cardinality(LiveNodes(t)) <= h
        /\ Cardinality(LiveNodes(t)) \in Nat
    BY <1>0, LiveCount
  <2>3. IsFiniteSet(Out) /\ Cardinality(Out) <= Cardinality(NodeKeys(t))
    BY <2>1, <2>2, FS_Subset
  <2>4. Cardinality(Out) \in Nat /\ Cardinality(NodeKeys(t)) \in Nat
    BY <2>2, <2>3, FS_CardinalityType
  <2> HIDE DEF Out
  <2> QED BY <1>0, <2>2, <2>3, <2>4
<1> DEFINE u == lj_tab_resize(t, n + 1, hbits)
<1>4. lj_tab_reasize(t, n) = u
  BY <1>1 DEF lj_tab_reasize
<1>5. Refilling(t, n + 1, h, u) /\ \A x : lj_tab_get(u, x) = lj_tab_get(t, x)
  <2> HIDE DEF hbits
  <2>1. n + 1 \in Nat
    OBVIOUS
  <2> QED BY <1>0, <1>2, <1>3, <2>1, TableResized
<1> HIDE DEF u
<1> QED BY <1>4, <1>5 DEF Refilling

\* Slots of the array part that get a value together.
AssignedTo(t, vs) == [t EXCEPT !.arr = [i \in DOMAIN @ |-> IF i \in DOMAIN vs THEN vs[i] ELSE @[i]]]

Assigns(t, u, vs) ==
  \A x : lj_tab_get(u, x) = IF x \in DOMAIN vs THEN vs[x] ELSE lj_tab_get(t, x)

LEMMA Assigned ==
  ASSUME HashType, NEW t, NEW a \in Nat, NEW h \in Nat, Whole(t, a, h),
         NEW vs, DOMAIN vs \subseteq IntKeys, DOMAIN vs \subseteq DOMAIN t.arr,
         \A i \in DOMAIN vs : vs[i] \in Values
  PROVE  /\ Whole(AssignedTo(t, vs), a, h) /\ AssignedTo(t, vs).nested = t.nested
         /\ Assigns(t, AssignedTo(t, vs), vs)
<1> DEFINE ks == DOMAIN vs
<1>1. Sized(t, a, h) /\ Keyed(t)
  BY DEF Whole
<1>2. /\ DOMAIN t.arr = 0 .. a - 1 /\ t.arr \in [0 .. a - 1 -> Values]
      /\ Nodes(t) = 0 .. h - 1 /\ t.node \in [0 .. h - 1 -> TabNode]
      /\ t = [arr |-> t.arr, node |-> t.node, free |-> t.free, nested |-> t.nested]
      /\ t.free \in 0 .. h /\ t.nested \in BOOLEAN
  BY <1>1, SizedTable
<1> DEFINE w == [i \in DOMAIN t.arr |-> IF i \in DOMAIN vs THEN vs[i] ELSE t.arr[i]]
           u == AssignedTo(t, vs)
<1>3. u = [arr |-> w, node |-> t.node, free |-> t.free, nested |-> t.nested]
  <2>1. u = [t EXCEPT !.arr = w]
    BY Zenon DEF AssignedTo
  <2> HIDE DEF u, w
  <2> QED BY <1>2, <2>1
<1>4. w \in [0 .. a - 1 -> Values] /\ \A i \in 0 .. a - 1 : w[i] = IF i \in ks THEN vs[i] ELSE t.arr[i]
  BY <1>2
<1> HIDE DEF u, w
<1>5. u.arr = w /\ u.node = t.node /\ u.free = t.free /\ u.nested = t.nested
  BY <1>3
<1>6. Sized(u, a, h)
  <2>1. u = [arr |-> u.arr, node |-> u.node, free |-> u.free, nested |-> u.nested]
    BY <1>3, <1>5
  <2> QED BY <1>2, <1>4, <1>5, <2>1, Resized
<1>7. SameKeys(t, u)
  BY <1>2, <1>4, <1>5 DEF SameKeys, Nodes
<1>8. Whole(u, a, h) /\ Used(u) = Used(t)
  <2>1. \A i \in DOMAIN t.arr : u.arr[i] # TabNil => i \in IntKeys
    BY <1>1, <1>2, <1>4, <1>5 DEF Keyed
  <2>2. \A i \in Nodes(t) \ Used(t) : u.node[i].val = TabNil
    BY <1>1, <1>5 DEF Keyed
  <2> QED BY <1>5, <1>6, <1>7, <2>1, <2>2, SameKeysWhole
<1>9. ASSUME NEW x
      PROVE  lj_tab_get(u, x) = IF x \in ks THEN vs[x] ELSE lj_tab_get(t, x)
  <2>1. inarray(u, x) <=> inarray(t, x)
    BY <1>7 DEF SameKeys, inarray
  <2>2. CASE inarray(t, x)
    <3>1. lj_tab_get(u, x) = u.arr[x] /\ lj_tab_get(t, x) = t.arr[x]
      BY <1>8, <2>1, <2>2, Lookup
    <3> QED BY <1>2, <1>4, <1>5, <2>2, <3>1 DEF inarray
  <2>3. CASE ~ inarray(t, x)
    <3>1. x \notin ks
      BY <2>3 DEF inarray
    <3>2. HashSize(u) = HashSize(t) /\ hashkey(u, x) = hashkey(t, x)
      BY <1>1, <1>6, SizedTable, SameMain
    <3>3. Seek(u, x) = Seek(t, x)
      BY <1>5, <3>2 DEF Seek, Nodes
    <3> QED BY <1>5, <2>1, <2>3, <3>1, <3>3 DEF lj_tab_get
  <2> QED BY <2>2, <2>3
<1> QED BY <1>5, <1>8, <1>9 DEF u, Assigns

\* lj_tab_clear().
ClearedTab(t) ==
  [t EXCEPT !.arr = [i \in DOMAIN @ |-> TabNil],
            !.node = [i \in DOMAIN @ |-> [key |-> TabNil, val |-> TabNil, next |-> None]],
            !.free = HashSize(t)]

\* A table without keys.
LEMMA EmptyTable ==
  ASSUME HashType, NEW a \in Nat, NEW h \in Nat, NEW u,
         u = [arr |-> u.arr, node |-> u.node, free |-> u.free, nested |-> u.nested],
         u.arr = [i \in 0 .. a - 1 |-> TabNil],
         u.node = [i \in 0 .. h - 1 |-> [key |-> TabNil, val |-> TabNil, next |-> None]],
         u.free = h, u.nested \in BOOLEAN
  PROVE  Whole(u, a, h) /\ \A x : lj_tab_get(u, x) = TabNil
<1>1. [key |-> TabNil, val |-> TabNil, next |-> None] \in TabNode
  BY DEF TabNode, Values
<1>2. u.arr \in [0 .. a - 1 -> Values] /\ u.node \in [0 .. h - 1 -> TabNode] /\ u.free \in 0 .. h
  <2>1. u.arr \in [0 .. a - 1 -> Values]
    BY DEF Values
  <2>2. u.node \in [0 .. h - 1 -> TabNode]
    BY <1>1
  <2> QED BY <2>1, <2>2
<1>3. Sized(u, a, h)
  BY <1>2, Resized
<1>4. \A i \in Nodes(u) : u.node[i].key = TabNil /\ u.node[i].val = TabNil /\ u.node[i].next = None /\ i < u.free
  BY DEF Nodes
<1>5. Used(u) = {}
  BY <1>4 DEF Used
<1>6. Keyed(u) /\ Chained(u) /\ Ranked(u, <<>>)
  <2>1. \A i \in DOMAIN u.arr : u.arr[i] = TabNil
    OBVIOUS
  <2> QED BY <1>4, <1>5, <2>1 DEF Keyed, Chained, Ranked
<1>7. Whole(u, a, h)
  BY <1>3, <1>6 DEF Whole
<1>8. ASSUME NEW x
      PROVE  lj_tab_get(u, x) = TabNil
  <2>1. CASE inarray(u, x)
    <3>1. u.arr[x] = TabNil
      BY <2>1 DEF inarray
    <3> QED BY <1>7, <2>1, <3>1, Lookup
  <2>2. CASE ~ inarray(u, x)
    <3>1. lj_tab_get(u, x) # TabNil => \E i \in Used(u) : u.node[i].key = x
      BY <1>7, <2>2, Lookup
    <3> QED BY <1>5, <3>1
  <2> QED BY <2>1, <2>2
<1> QED BY <1>7, <1>8

LEMMA Cleared ==
  ASSUME HashType, NEW t, Consistent(t)
  PROVE  Consistent(ClearedTab(t)) /\ \A x : lj_tab_get(ClearedTab(t), x) = TabNil
<1> PICK a \in Nat, h \in HashSizes : Whole(t, a, h)
  BY DEF Consistent
<1>0. h \in Nat /\ ~ t.nested
  BY HashSizesAreNat DEF Consistent
<1>1. /\ DOMAIN t.arr = 0 .. a - 1 /\ DOMAIN t.node = 0 .. h - 1 /\ HashSize(t) = h /\ t.nested \in BOOLEAN
      /\ t = [arr |-> t.arr, node |-> t.node, free |-> t.free, nested |-> t.nested]
  BY <1>0, SizedTable DEF Whole, Nodes
<1> DEFINE u == ClearedTab(t)
           arr == [i \in 0 .. a - 1 |-> TabNil]
           node == [i \in 0 .. h - 1 |-> [key |-> TabNil, val |-> TabNil, next |-> None]]
<1>2. u = [arr |-> arr, node |-> node, free |-> h, nested |-> t.nested]
  <2>1. u = [t EXCEPT !.arr = arr, !.node = node, !.free = h]
    BY <1>1 DEF ClearedTab
  <2> HIDE DEF u, arr, node
  <2> QED BY <1>1, <2>1
<1> HIDE DEF u, arr, node
<1>3. u.arr = arr /\ u.node = node /\ u.free = h /\ u.nested = t.nested
  BY <1>2
<1>4. u = [arr |-> u.arr, node |-> u.node, free |-> u.free, nested |-> u.nested]
  BY <1>2, <1>3
<1>5. Whole(u, a, h) /\ \A x : lj_tab_get(u, x) = TabNil
  BY <1>0, <1>1, <1>3, <1>4, EmptyTable DEF arr, node
<1> QED BY <1>0, <1>3, <1>5 DEF Consistent, u

(***************************************************************************)
(* Traversal.                                                              *)
(***************************************************************************)

\* The index of a live key is where the traversal finds it.
LEMMA KeyIndex ==
  ASSUME HashType, NEW t, NEW a \in Nat, NEW h \in Nat, Whole(t, a, h)
  PROVE  /\ keyindex(t, TabNil) = -1
         /\ Cardinality(DOMAIN t.arr) + HashSize(t) = a + h
         /\ \A x \in TabKeys : lj_tab_get(t, x) # TabNil =>
              /\ keyindex(t, x) \in 0 .. a + h - 1
              /\ At(t, keyindex(t, x))[1] = x /\ At(t, keyindex(t, x))[2] # TabNil
         /\ \A i \in 0 .. a + h - 1 : At(t, i)[2] # TabNil =>
              /\ At(t, i)[1] \in TabKeys /\ keyindex(t, At(t, i)[1]) = i
              /\ lj_tab_get(t, At(t, i)[1]) # TabNil
<1>1. Sized(t, a, h) /\ Keyed(t) /\ Chained(t)
  BY DEF Whole
<1> PICK r : Ranked(t, r)
  BY DEF Whole
<1>2. /\ DOMAIN t.arr = 0 .. a - 1 /\ Cardinality(DOMAIN t.arr) = a /\ HashSize(t) = h /\ Nodes(t) = 0 .. h - 1
      /\ Used(t) \subseteq Nodes(t)
  BY <1>1, SizedTable, UsedNodes
<1>3. keyindex(t, TabNil) = -1
  BY DEF keyindex
<1>4. ASSUME NEW x \in TabKeys, inarray(t, x)
      PROVE  keyindex(t, x) = x /\ x \in 0 .. a - 1
  BY <1>2, <1>4, TabAssumption DEF keyindex, inarray
<1>5. ASSUME NEW i \in Used(t)
      PROVE  keyindex(t, t.node[i].key) = a + i /\ t.node[i].key \in TabKeys
  <2> DEFINE x == t.node[i].key
             n == Seek(t, x)
  <2>1. x \in TabKeys /\ ~ inarray(t, x) /\ x # TabNil
    <3>1. t.node[i] \in TabNode /\ x # TabNil
      BY <1>1, <1>2, SizedTable DEF Used
    <3>2. x \in TabKeys
      BY <3>1 DEF TabNode
    <3> QED BY <1>1, <3>1, <3>2 DEF Keyed
  <2>2. /\ n \in Used(t) \cup {None} /\ (n # None => t.node[n].key = x)
        /\ (n = None => \A j \in Used(t) : t.node[j].key # x)
    BY <1>1, <2>1, SeekFinds
  <2>3. n = i /\ n # None
    <3>1. n # None
      BY <2>2
    <3> QED BY <1>1, <2>2, <3>1 DEF Keyed
  <2>4. keyindex(t, x) = Cardinality(DOMAIN t.arr) + n
    BY <2>1, <2>3 DEF keyindex
  <2> QED BY <1>2, <2>1, <2>3, <2>4
<1>6. /\ \A i \in 0 .. a - 1 : At(t, i) = <<i, t.arr[i]>>
      /\ \A i \in 0 .. h - 1 : At(t, a + i) = <<t.node[i].key, t.node[i].val>>
  <2>1. \A i \in 0 .. a - 1 : i < a
    OBVIOUS
  <2>2. \A i \in 0 .. h - 1 : ~ (a + i < a) /\ (a + i) - a = i
    OBVIOUS
  <2> QED BY <1>2, <2>1, <2>2 DEF At
<1>7. ASSUME NEW x \in TabKeys, lj_tab_get(t, x) # TabNil
      PROVE  /\ keyindex(t, x) \in 0 .. a + h - 1
             /\ At(t, keyindex(t, x))[1] = x /\ At(t, keyindex(t, x))[2] # TabNil
  <2>1. CASE inarray(t, x)
    <3>1. keyindex(t, x) = x /\ x \in 0 .. a - 1 /\ At(t, x)[1] = x /\ At(t, x)[2] = t.arr[x]
      BY <1>4, <1>6, <2>1
    <3>2. t.arr[x] # TabNil
      BY <1>7, <2>1, Lookup
    <3> QED BY <3>1, <3>2
  <2>2. CASE ~ inarray(t, x)
    <3>1. PICK i \in Used(t) : t.node[i].key = x
      BY <1>7, <2>2, Lookup
    <3>2. t.node[i].val # TabNil
      BY <1>7, <2>2, <3>1, Lookup
    <3>3. keyindex(t, x) = a + i /\ i \in 0 .. h - 1
      BY <1>2, <1>5, <3>1
    <3>4. At(t, a + i)[1] = x /\ At(t, a + i)[2] = t.node[i].val
      BY <1>6, <3>1, <3>3
    <3> QED BY <3>2, <3>3, <3>4
  <2> QED BY <2>1, <2>2
<1>8. ASSUME NEW i \in 0 .. a + h - 1, At(t, i)[2] # TabNil
      PROVE  /\ At(t, i)[1] \in TabKeys /\ keyindex(t, At(t, i)[1]) = i
             /\ lj_tab_get(t, At(t, i)[1]) # TabNil
  <2>1. CASE i < a
    <3>1. i \in 0 .. a - 1 /\ At(t, i)[1] = i /\ t.arr[i] # TabNil
      BY <1>6, <1>8, <2>1
    <3>2. i \in TabKeys /\ inarray(t, i)
      BY <1>1, <1>2, <3>1 DEF Keyed, inarray, TabKeys
    <3> QED BY <1>4, <3>1, <3>2, Lookup
  <2>2. CASE ~ (i < a)
    <3> DEFINE n == i - a
    <3>1. n \in 0 .. h - 1 /\ a + n = i
      BY <2>2
    <3> HIDE DEF n
    <3>2. At(t, i)[1] = t.node[n].key /\ t.node[n].val # TabNil
      BY <1>6, <1>8, <3>1
    <3>3. n \in Used(t)
      BY <1>1, <1>2, <3>1, <3>2 DEF Keyed
    <3>4. ~ inarray(t, t.node[n].key)
      BY <1>1, <3>3 DEF Keyed
    <3>5. lj_tab_get(t, t.node[n].key) = t.node[n].val
      BY <3>3, <3>4, Lookup
    <3> QED BY <1>5, <3>1, <3>2, <3>3, <3>5
  <2> QED BY <2>1, <2>2
<1> QED BY <1>2, <1>3, <1>7, <1>8

\* Stores to keys that are there do not change the order of the traversal.
LEMMA SameIndex ==
  ASSUME HashType, NEW t, NEW u, Consistent(t), Consistent(u), SameKeys(t, u), NEW x \in TabKeys \cup {TabNil}
  PROVE  keyindex(u, x) = keyindex(t, x)
<1> PICK a \in Nat, h \in HashSizes : Whole(t, a, h)
  BY DEF Consistent
<1> PICK b \in Nat, g \in HashSizes : Whole(u, b, g)
  BY DEF Consistent
<1>0. h \in Nat /\ g \in Nat
  BY HashSizesAreNat
<1>1. Sized(t, a, h) /\ Keyed(t) /\ Chained(t) /\ Sized(u, b, g) /\ Keyed(u) /\ Chained(u)
  BY DEF Whole
<1> PICK r : Ranked(t, r)
  BY DEF Whole
<1> PICK q : Ranked(u, q)
  BY DEF Whole
<1>2. DOMAIN u.arr = DOMAIN t.arr /\ Used(u) = Used(t) /\ \A i \in Used(t) : u.node[i].key = t.node[i].key
  BY DEF SameKeys, Used
<1>3. None \notin Used(t)
  <2>1. Nodes(t) = 0 .. h - 1 /\ Used(t) \subseteq Nodes(t)
    BY <1>0, <1>1, SizedTable, UsedNodes
  <2> QED BY <2>1 DEF None
<1>4. CASE x = TabNil
  BY <1>4 DEF keyindex
<1>5. CASE x # TabNil
  <2>0. x \in TabKeys
    BY <1>5
  <2>1. /\ Seek(t, x) \in Used(t) \cup {None}
        /\ Seek(t, x) # None => t.node[Seek(t, x)].key = x
        /\ Seek(t, x) = None => \A i \in Used(t) : t.node[i].key # x
    BY <1>0, <1>1, <2>0, SeekFinds
  <2>2. /\ Seek(u, x) \in Used(u) \cup {None}
        /\ Seek(u, x) # None => u.node[Seek(u, x)].key = x
        /\ Seek(u, x) = None => \A i \in Used(u) : u.node[i].key # x
    BY <1>0, <1>1, <2>0, SeekFinds
  <2>3. \A i, j \in Used(t) : t.node[i].key = t.node[j].key => i = j
    BY <1>1 DEF Keyed
  <2>4. Seek(u, x) = Seek(t, x)
    BY <1>2, <1>3, <2>1, <2>2, <2>3
  <2> QED BY <1>2, <2>4 DEF keyindex, inarray
<1> QED BY <1>4, <1>5

(***************************************************************************)
(* The invariant.                                                          *)
(***************************************************************************)

\* The keys that were visited are behind the traversal, those that are due are ahead.
Traversing(t, it) ==
  /\ it \in [on : BOOLEAN, key : TabKeys \cup {TabNil}, seen : SUBSET TabKeys, due : SUBSET TabKeys,
             wrong : BOOLEAN]
  /\ ~ it.wrong
  /\ it.on =>
       /\ keyindex(t, it.key) \in Nat \cup {-1}
       /\ \A x \in it.seen : keyindex(t, x) \in Nat /\ keyindex(t, x) <= keyindex(t, it.key)
       /\ \A x \in it.due : lj_tab_get(t, x) # TabNil /\ keyindex(t, x) > keyindex(t, it.key)

TabInv ==
  /\ hash = StrHash /\ Consistent(tab)
  /\ nomm => lj_tab_get(tab, MMName) = TabNil
  /\ Traversing(tab, iter)
  /\ \A x \in TabKeys : stored[x] = lj_tab_get(tab, x)

\* While no string is interned again, lookups depend on the table alone.
LEMMA SameLookups ==
  ASSUME NEW t, tab' = t, hash' = hash
  PROVE  /\ \A x : lj_tab_get(tab, x)' = lj_tab_get(t, x)
         /\ \A x : keyindex(tab, x)' = keyindex(t, x)
         /\ Consistent(tab)' = Consistent(t)
<1>1. \A x : hashkey(tab, x)' = hashkey(t, x)
  BY DEF hashkey
<1> DEFINE found(y, x) == CHOOSE s : IsSeek(y, x, s)
<1>2. ASSUME NEW x
      PROVE  Seek(tab, x)' = Seek(t, x)
  <2>1. \A y : Seek(y, x) = IF y.node = <<>> THEN None ELSE found(y, x)[HashSize(y)][hashkey(y, x)]
    BY Zenon DEF Seek, IsSeek
  <2>2. Seek(tab, x)' = IF tab'.node = <<>> THEN None ELSE found(tab', x)[HashSize(tab')][hashkey(tab, x)']
    BY Zenon DEF Seek, IsSeek
  <2> QED BY <1>1, <2>1, <2>2, Zenon
<1>3. \A x : lj_tab_get(tab, x)' = lj_tab_get(t, x)
  BY <1>2 DEF lj_tab_get
<1>4. \A x : keyindex(tab, x)' = keyindex(t, x)
  BY <1>2 DEF keyindex
<1>5. Consistent(tab)' = Consistent(t)
  <2>1. Chained(tab)' = Chained(t)
    BY <1>1, Zenon DEF Chained
  <2>2. ASSUME NEW a, NEW h
        PROVE  Whole(tab, a, h)' = Whole(t, a, h)
    BY <2>1, Zenon DEF Whole
  <2> QED BY <2>2, Zenon DEF Consistent
<1> QED BY <1>3, <1>4, <1>5

\* The table that a step leaves behind.
LEMMA NextTable ==
  ASSUME TabInv, NEW t, tab' = t, hash' = hash, Consistent(t),
         nomm' => lj_tab_get(t, MMName) = TabNil, Traversing(t, iter'),
         \A x \in TabKeys : stored'[x] = lj_tab_get(t, x)
  PROVE  TabInv'
<1>1. /\ \A x : lj_tab_get(tab, x)' = lj_tab_get(t, x)
      /\ \A x : keyindex(tab, x)' = keyindex(t, x)
      /\ Consistent(tab)' = Consistent(t)
  BY SameLookups, Zenon
<1>2. Traversing(tab, iter)'
  BY <1>1 DEF Traversing
<1> QED BY <1>1, <1>2 DEF TabInv

LEMMA TabInvHash ==
  ASSUME hash = StrHash
  PROVE  HashType
BY TabAssumption DEF HashType

\* A table at first.
LEMMA TabInitInv == TabInit => TabInv
<1> SUFFICES ASSUME TabInit
             PROVE  TabInv
  OBVIOUS
<1>0. HashType
  BY TabInvHash DEF TabInit
<1> PICK z \in NewSizes : tab = newtab(z[1], z[2])
  BY DEF TabInit
<1> DEFINE a == z[1]
           b == z[2]
           H == HashNodes(b)
<1>1. a \in Nat /\ b \in Nat /\ H \in HashSizes
  <2>1. a \in Nat /\ b \in Nat
    BY TabAssumption
  <2> HIDE DEF a, b
  <2> QED BY <2>1 DEF HashNodes, HashSizes
<1> HIDE DEF a, b
<1>2. /\ tab = [arr |-> tab.arr, node |-> tab.node, free |-> tab.free, nested |-> tab.nested]
      /\ tab.arr = [i \in 0 .. a - 1 |-> TabNil] /\ tab.node = EmptyNodes(b) /\ tab.free = H /\ tab.nested = FALSE
  BY DEF newtab, a, b, HashNodes
<1>3. EmptyNodes(b) = [i \in 0 .. H - 1 |-> [key |-> TabNil, val |-> TabNil, next |-> None]]
  <2>1. CASE b = 0
    BY <2>1 DEF EmptyNodes, HashNodes
  <2>2. CASE b # 0
    BY <2>2 DEF EmptyNodes, HashNodes
  <2> QED BY <2>1, <2>2
<1> HIDE DEF H
<1>4. H \in Nat
  BY <1>1, HashSizesAreNat
<1>5. Whole(tab, a, H) /\ \A x : lj_tab_get(tab, x) = TabNil
  <2>1. tab.node = [i \in 0 .. H - 1 |-> [key |-> TabNil, val |-> TabNil, next |-> None]] /\ tab.nested \in BOOLEAN
    BY <1>2, <1>3
  <2> QED BY <1>0, <1>1, <1>2, <1>4, <2>1, EmptyTable
<1>6. Consistent(tab)
  BY <1>1, <1>2, <1>5 DEF Consistent
<1>7. Traversing(tab, iter)
  BY DEF TabInit, Traversing
<1>8. \A x \in TabKeys : stored[x] = TabNil
  BY DEF TabInit, Map!MapInit
<1> QED BY <1>5, <1>6, <1>7, <1>8 DEF TabInit, TabInv

\* A step that stores a value, or nil.
LEMMA SetStep ==
  ASSUME TabInv, NEW k \in TabKeys, NEW v \in TabVals \cup {TabNil}, TabSet(k, v)
  PROVE  TabInv' /\ [Map!MapNext]_stored
<1>1. HashType /\ Consistent(tab) /\ v \in Values /\ hash' = hash
  BY TabInvHash DEF TabInv, Values, TabSet
<1> DEFINE t == lj_tab_set(tab, k, v)
<1>2. /\ Consistent(t) /\ Puts(tab, t, k, v)
      /\ lj_tab_get(tab, k) # TabNil => SameKeys(tab, t)
  BY <1>1, SetKey
<1>3. tab' = t /\ ~ nomm' /\ iter' = IF v = TabNil THEN [iter EXCEPT !.due = iter.due \ {k}] ELSE iter
  BY DEF TabSet
<1> HIDE DEF t
<1>4. /\ iter \in [on : BOOLEAN, key : TabKeys \cup {TabNil}, seen : SUBSET TabKeys, due : SUBSET TabKeys, wrong : BOOLEAN]
      /\ ~ iter.wrong
  BY DEF TabInv, Traversing
<1>5. /\ iter' \in [on : BOOLEAN, key : TabKeys \cup {TabNil}, seen : SUBSET TabKeys, due : SUBSET TabKeys, wrong : BOOLEAN]
      /\ iter'.on = iter.on /\ iter'.key = iter.key /\ iter'.seen = iter.seen /\ iter'.wrong = iter.wrong
      /\ \A x \in iter'.due : x \in iter.due /\ (x = k => v # TabNil)
  BY <1>3, <1>4
<1>6. Traversing(t, iter')
  <2>1. CASE ~ iter.on
    BY <1>4, <1>5, <2>1 DEF Traversing
  <2>2. CASE iter.on
    <3>1. SameKeys(tab, t)
      BY <1>2, <2>2 DEF TabSet, LiveKeys
    <3>2. \A x \in TabKeys \cup {TabNil} : keyindex(t, x) = keyindex(tab, x)
      BY <1>1, <1>2, <3>1, SameIndex
    <3>3. /\ keyindex(tab, iter.key) \in Nat \cup {-1}
          /\ \A x \in iter.seen : keyindex(tab, x) \in Nat /\ keyindex(tab, x) <= keyindex(tab, iter.key)
          /\ \A x \in iter.due : lj_tab_get(tab, x) # TabNil /\ keyindex(tab, x) > keyindex(tab, iter.key)
      BY <2>2 DEF TabInv, Traversing
    <3>4. \A x \in iter'.due : lj_tab_get(t, x) # TabNil
      BY <1>2, <1>5, <3>3 DEF Puts
    <3>5. keyindex(t, iter'.key) = keyindex(tab, iter.key)
      BY <1>4, <1>5, <3>2
    <3>6. \A x \in iter'.seen : keyindex(t, x) = keyindex(tab, x) /\ x \in iter.seen
      BY <1>4, <1>5, <3>2
    <3>7. \A x \in iter'.due : keyindex(t, x) = keyindex(tab, x) /\ x \in iter.due
      BY <1>4, <1>5, <3>2
    <3> QED BY <1>4, <1>5, <3>3, <3>4, <3>5, <3>6, <3>7 DEF Traversing
  <2> QED BY <2>1, <2>2
<1>7. Map!MapStore([x \in {k} |-> v])
  BY DEF TabSet
<1>8. \A x \in TabKeys : stored'[x] = lj_tab_get(t, x)
  <2>1. \A x \in TabKeys : stored'[x] = IF x = k THEN v ELSE stored[x]
    BY <1>7 DEF Map!MapStore
  <2> QED BY <1>2, <2>1 DEF Puts, TabInv
<1>9. TabInv'
  BY <1>1, <1>2, <1>3, <1>6, <1>8, NextTable
<1>10. Map!MapNext
  <2>1. [x \in {k} |-> v] \in [{k} -> TabVals \cup {TabNil}]
    OBVIOUS
  <2> QED BY <1>7, <2>1 DEF Map!MapNext
<1> QED BY <1>9, <1>10

\* The array part grows only if its size is below the index that must fit.
LEMMA RoomFor ==
  ASSUME HashType, NEW t, NEW a \in Nat, NEW h \in HashSizes, Whole(t, a, h), NEW n \in Nat
  PROVE  /\ (IF n > a THEN n + 1 ELSE a) \in Nat
         /\ Whole(IF n > a THEN lj_tab_reasize(t, n) ELSE t, IF n > a THEN n + 1 ELSE a, h)
         /\ (IF n > a THEN lj_tab_reasize(t, n) ELSE t).nested = t.nested
         /\ \A x : lj_tab_get(IF n > a THEN lj_tab_reasize(t, n) ELSE t, x) = lj_tab_get(t, x)
<1>1. CASE n > a
  <2>1. a <= n + 1 /\ n + 1 \in Nat
    BY <1>1
  <2>2. /\ Whole(lj_tab_reasize(t, n), n + 1, h) /\ lj_tab_reasize(t, n).nested = t.nested
        /\ \A x : lj_tab_get(lj_tab_reasize(t, n), x) = lj_tab_get(t, x)
    BY <2>1, Reasized, Zenon
  <2> QED BY <1>1, <2>1, <2>2
<1>2. CASE ~ (n > a)
  BY <1>2
<1> QED BY <1>1, <1>2

\* A step that stores values at consecutive indexes.
LEMMA TSETMStep ==
  ASSUME TabInv, NEW k \in IntKeys, NEW n \in 1 .. 2,
         NEW vs \in [k .. k + n - 1 -> TabVals \cup {TabNil}], BC_TSETM(k, n, vs)
  PROVE  TabInv' /\ [Map!MapNext]_stored
<1> DEFINE ks == k .. k + n - 1
<1>1. HashType /\ Consistent(tab) /\ k \in Nat /\ ks \in SUBSET IntKeys
  BY TabInvHash, TabAssumption DEF TabInv, Values, BC_TSETM
<1>v. vs \in [ks -> Values] /\ DOMAIN vs = ks
  BY DEF Values
<1> HIDE DEF ks
<1> PICK a \in Nat, h \in HashSizes : Whole(tab, a, h)
  BY <1>1 DEF Consistent
<1>2. h \in Nat /\ ~ tab.nested
  BY <1>1, HashSizesAreNat DEF Consistent
<1>3. Cardinality(DOMAIN tab.arr) = a /\ DOMAIN tab.arr = 0 .. a - 1
  BY <1>2, SizedTable DEF Whole
<1> DEFINE s == IF k + n > a THEN lj_tab_reasize(tab, k + n) ELSE tab
           b == IF k + n > a THEN k + n + 1 ELSE a
           t == AssignedTo(s, vs)
<1>4. b \in Nat /\ Whole(s, b, h) /\ ~ s.nested /\ \A x : lj_tab_get(s, x) = lj_tab_get(tab, x)
  <2>1. k + n \in Nat
    BY <1>1
  <2> QED BY <1>1, <1>2, <2>1, RoomFor, Zenon
<1>5. ks \subseteq 0 .. b - 1
  BY <1>1 DEF ks
<1> HIDE DEF b, s
<1>6. DOMAIN s.arr = 0 .. b - 1
  BY <1>2, <1>4, SizedTable DEF Whole
<1>7. tab' = t
  <2>1. tab' = [s EXCEPT !.arr = [i \in DOMAIN @ |-> IF i \in DOMAIN vs THEN vs[i] ELSE @[i]]]
    BY <1>3, Zenon DEF BC_TSETM, s
  <2> QED BY <2>1, Zenon DEF AssignedTo
<1>8. /\ Whole(t, b, h) /\ t.nested = s.nested
      /\ \A x : lj_tab_get(t, x) = IF x \in ks THEN vs[x] ELSE lj_tab_get(s, x)
  <2>1. DOMAIN vs \subseteq DOMAIN s.arr
    BY <1>5, <1>6, <1>v
  <2>2. HashType /\ b \in Nat /\ h \in Nat /\ Whole(s, b, h) /\ DOMAIN vs \subseteq IntKeys /\ \A i \in DOMAIN vs : vs[i] \in Values
    BY <1>1, <1>2, <1>4, <1>v
  <2>3. Whole(t, b, h) /\ t.nested = s.nested /\ Assigns(s, t, vs)
    BY <2>1, <2>2, Assigned, Zenon
  <2> HIDE DEF t
  <2> QED BY <1>v, <2>3 DEF Assigns
<1> HIDE DEF t
<1>9. Consistent(t)
  BY <1>4, <1>8 DEF Consistent
<1>10. \A x : lj_tab_get(t, x) = IF x \in ks THEN vs[x] ELSE lj_tab_get(tab, x)
  BY <1>4, <1>8
<1>11. UNCHANGED <<hash, nomm, iter>> /\ ~ iter.on
  BY DEF BC_TSETM
<1>12. nomm => lj_tab_get(t, MMName) = TabNil
  <2>1. MMName \notin ks
    <3>1. ks \subseteq Nat
      BY <1>1, IntKeysAreNat
    <3> QED BY <3>1, TabAssumption
  <2> QED BY <1>10, <2>1 DEF TabInv
<1>13. Traversing(t, iter')
  BY <1>11 DEF TabInv, Traversing
<1>14. Map!MapStore(vs) /\ DOMAIN vs = ks
  BY <1>v DEF BC_TSETM
<1>15. \A x \in TabKeys : stored'[x] = lj_tab_get(t, x)
  <2>1. \A x \in TabKeys : stored'[x] = IF x \in ks THEN vs[x] ELSE stored[x]
    BY <1>14 DEF Map!MapStore
  <2> QED BY <1>10, <2>1 DEF TabInv
<1>16. TabInv'
  BY <1>7, <1>9, <1>11, <1>12, <1>13, <1>15, NextTable
<1>17. ks \in {{x} : x \in TabKeys} \cup {x .. x + 1 : x \in {i \in IntKeys : i + 1 \in IntKeys}}
  <2>1. CASE n = 1
    <3>1. ks = {k}
      BY <1>1, <2>1 DEF ks
    <3> QED BY <3>1 DEF TabKeys
  <2>2. CASE n = 2
    <3>1. ks = k .. k + 1 /\ k + 1 \in ks
      BY <1>1, <2>2 DEF ks
    <3> QED BY <1>1, <3>1
  <2> QED BY <2>1, <2>2
<1>18. Map!MapNext
  <2>1. vs \in [ks -> TabVals \cup {TabNil}]
    BY DEF ks
  <2> QED BY <1>14, <1>17, <2>1 DEF Map!MapNext
<1> QED BY <1>16, <1>18

\* Clearing and rehashing.
LEMMA WholeTableStep ==
  ASSUME TabInv, lj_tab_clear \/ lj_tab_rehash
  PROVE  TabInv' /\ [Map!MapNext]_stored
<1>1. HashType /\ Consistent(tab)
  BY TabInvHash DEF TabInv
<1>2. UNCHANGED <<hash, nomm, iter>> /\ ~ iter.on
  BY DEF lj_tab_clear, lj_tab_rehash
<1>3. \A t : Traversing(t, iter')
  BY <1>2 DEF TabInv, Traversing
<1>4. CASE lj_tab_clear
  <2> DEFINE t == ClearedTab(tab)
  <2>1. tab' = t
    BY <1>4 DEF lj_tab_clear, ClearedTab
  <2>2. Consistent(t) /\ \A x : lj_tab_get(t, x) = TabNil
    BY <1>1, Cleared
  <2> HIDE DEF t
  <2>3. Map!MapClear
    BY <1>4 DEF lj_tab_clear
  <2>4. \A x \in TabKeys : stored'[x] = lj_tab_get(t, x)
    BY <2>2, <2>3 DEF Map!MapClear
  <2>5. TabInv'
    BY <1>2, <1>3, <2>1, <2>2, <2>4, NextTable
  <2> QED BY <2>3, <2>5 DEF Map!MapNext
<1>5. CASE lj_tab_rehash
  <2> DEFINE t == rehashtab(tab, TabNil)
  <2>1. tab' = t
    BY <1>5 DEF lj_tab_rehash
  <2>2. Consistent(t) /\ \A x : lj_tab_get(t, x) = lj_tab_get(tab, x)
    BY <1>1, RehashAll
  <2> HIDE DEF t
  <2>3. stored' = stored
    BY <1>5 DEF lj_tab_rehash
  <2>4. TabInv'
    BY <1>2, <1>3, <2>1, <2>2, <2>3, NextTable DEF TabInv
  <2> QED BY <2>3, <2>4
<1> QED BY <1>4, <1>5

\* Steps that leave the table alone.
LEMMA SameTableStep ==
  ASSUME TabInv, UNCHANGED <<tab, hash, stored>>, nomm' => lj_tab_get(tab, MMName) = TabNil,
         Traversing(tab, iter')
  PROVE  TabInv' /\ [Map!MapNext]_stored
<1> DEFINE t == tab
<1>1. tab' = t /\ hash' = hash /\ Consistent(t) /\ \A x \in TabKeys : stored'[x] = lj_tab_get(t, x)
  BY DEF TabInv
<1>2. TabInv'
  BY <1>1, NextTable
<1> QED BY <1>2

\* A step of the traversal.
LEMMA NextStep ==
  ASSUME TabInv, TabNext1
  PROVE  Traversing(tab, iter')
<1>1. HashType /\ Consistent(tab)
  BY TabInvHash DEF TabInv
<1> PICK a \in Nat, h \in HashSizes : Whole(tab, a, h)
  BY <1>1 DEF Consistent
<1>2. h \in Nat
  BY HashSizesAreNat
<1> DEFINE at == keyindex(tab, iter.key)
           end == Cardinality(DOMAIN tab.arr) + HashSize(tab)
           later == {i \in at + 1 .. end - 1 : At(tab, i)[2] # TabNil}
           first == CHOOSE i \in later : \A j \in later : i <= j
           k == lj_tab_next(tab, iter.key)
<1>3. /\ keyindex(tab, TabNil) = -1
      /\ end = a + h
      /\ \A x \in TabKeys : lj_tab_get(tab, x) # TabNil =>
           /\ keyindex(tab, x) \in 0 .. a + h - 1
           /\ At(tab, keyindex(tab, x))[1] = x /\ At(tab, keyindex(tab, x))[2] # TabNil
      /\ \A i \in 0 .. a + h - 1 : At(tab, i)[2] # TabNil =>
           /\ At(tab, i)[1] \in TabKeys /\ keyindex(tab, At(tab, i)[1]) = i
           /\ lj_tab_get(tab, At(tab, i)[1]) # TabNil
  BY <1>1, <1>2, KeyIndex
<1>4. /\ iter \in [on : BOOLEAN, key : TabKeys \cup {TabNil}, seen : SUBSET TabKeys, due : SUBSET TabKeys, wrong : BOOLEAN]
      /\ iter.on /\ ~ iter.wrong
      /\ at \in Nat \cup {-1}
      /\ \A x \in iter.seen : keyindex(tab, x) \in Nat /\ keyindex(tab, x) <= at
      /\ \A x \in iter.due : lj_tab_get(tab, x) # TabNil /\ keyindex(tab, x) > at
  BY DEF TabInv, Traversing, TabNext1
<1>5. k = IF later = {} THEN TabNil ELSE At(tab, first)[1]
  BY SMT DEF lj_tab_next
<1>6. iter' = IF k = TabNil
              THEN [on |-> FALSE, key |-> TabNil, seen |-> {}, due |-> {}, wrong |-> at = -2 \/ iter.due # {}]
              ELSE [on |-> TRUE, key |-> k, seen |-> iter.seen \cup {k}, due |-> iter.due \ {k},
                    wrong |-> at = -2 \/ k \in iter.seen]
  BY Zenon DEF TabNext1
<1> HIDE DEF at, k, end
<1>7. \A x \in iter.due : keyindex(tab, x) \in later
  <2> SUFFICES ASSUME NEW x \in iter.due
               PROVE  keyindex(tab, x) \in later
    OBVIOUS
  <2>1. x \in TabKeys /\ lj_tab_get(tab, x) # TabNil /\ keyindex(tab, x) > at
    BY <1>4
  <2>2. keyindex(tab, x) \in 0 .. a + h - 1 /\ At(tab, keyindex(tab, x))[2] # TabNil
    BY <1>3, <2>1
  <2> DEFINE i == keyindex(tab, x)
  <2>3. i \in 0 .. a + h - 1 /\ i > at /\ At(tab, i)[2] # TabNil
    BY <2>1, <2>2
  <2>4. at \in Nat \cup {-1} /\ end = a + h
    BY <1>3, <1>4
  <2> HIDE DEF i
  <2>5. i \in at + 1 .. end - 1
    BY <1>2, <2>3, <2>4
  <2>6. i \in later
    BY <2>3, <2>5
  <2> QED BY <2>6 DEF i
<1>8. at # -2
  BY <1>4
<1>9. CASE later = {}
  <2>1. k = TabNil /\ iter.due = {}
    BY <1>5, <1>7, <1>9
  <2>2. iter' = [on |-> FALSE, key |-> TabNil, seen |-> {}, due |-> {}, wrong |-> FALSE]
    BY <1>6, <1>8, <2>1
  <2> QED BY <2>2 DEF Traversing
<1>10. CASE later # {}
  <2>1. later \in SUBSET Nat
    BY <1>4
  <2> HIDE DEF later
  <2>2. first \in later /\ \A j \in later : first <= j
    <3>1. \E i \in later : \A j \in later : i <= j
      BY <1>10, <2>1, LeastMember
    <3> QED BY <3>1, Zenon
  <2> HIDE DEF first
  <2>3. first \in at + 1 .. a + h - 1 /\ At(tab, first)[2] # TabNil /\ first \in 0 .. a + h - 1 /\ first > at
    <3>1. first \in at + 1 .. end - 1 /\ At(tab, first)[2] # TabNil
      BY <2>2 DEF later
    <3>2. at \in Nat \cup {-1} /\ end = a + h
      BY <1>3, <1>4
    <3> QED BY <1>2, <3>1, <3>2
  <2>4. k \in TabKeys /\ keyindex(tab, k) = first
    BY <1>3, <1>5, <1>10, <2>3
  <2>5. k # TabNil /\ k \notin iter.seen
    BY <1>4, <2>3, <2>4, TabAssumption
  <2>6. iter' = [on |-> TRUE, key |-> k, seen |-> iter.seen \cup {k}, due |-> iter.due \ {k}, wrong |-> FALSE]
    BY <1>6, <1>8, <2>5
  <2>7. \A x \in iter.seen \cup {k} : keyindex(tab, x) \in Nat /\ keyindex(tab, x) <= first
    BY <1>4, <2>3, <2>4
  <2>8. \A x \in iter.due \ {k} : lj_tab_get(tab, x) # TabNil /\ keyindex(tab, x) > first
    <3> SUFFICES ASSUME NEW x \in iter.due, x # k
                 PROVE  lj_tab_get(tab, x) # TabNil /\ keyindex(tab, x) > first
      OBVIOUS
    <3>1. lj_tab_get(tab, x) # TabNil /\ keyindex(tab, x) \in later /\ x \in TabKeys
      BY <1>4, <1>7
    <3>2. first <= keyindex(tab, x) /\ keyindex(tab, x) \in Nat
      BY <2>1, <2>2, <3>1
    <3>3. keyindex(tab, x) # first
      <4>1. At(tab, keyindex(tab, x))[1] = x
        BY <1>3, <3>1
      <4> QED BY <1>5, <1>10, <4>1
    <3> QED BY <2>3, <3>1, <3>2, <3>3
  <2> QED BY <1>4, <2>3, <2>4, <2>6, <2>7, <2>8 DEF Traversing
<1> QED BY <1>9, <1>10

\* Every step keeps the invariant, and is a step of the map or leaves it alone.
LEMMA TabStep ==
  ASSUME Reborn = {}, TabInv, [TabNext]_tabVars
  PROVE  TabInv' /\ [Map!MapNext]_stored
<1>1. HashType /\ Consistent(tab)
  BY TabInvHash DEF TabInv
<1>2. /\ iter \in [on : BOOLEAN, key : TabKeys \cup {TabNil}, seen : SUBSET TabKeys, due : SUBSET TabKeys, wrong : BOOLEAN]
      /\ ~ iter.wrong /\ Traversing(tab, iter)
      /\ nomm => lj_tab_get(tab, MMName) = TabNil
  BY DEF TabInv, Traversing
<1>3. CASE \E k \in TabKeys, v \in TabVals \cup {TabNil} : TabSet(k, v)
  BY <1>3, SetStep, Zenon
<1>4. CASE \E k \in IntKeys, n \in 1 .. 2 :
             \E vs \in [k .. k + n - 1 -> TabVals \cup {TabNil}] : BC_TSETM(k, n, vs)
  BY <1>4, TSETMStep, Zenon
<1>5. CASE lj_tab_clear \/ lj_tab_rehash
  BY <1>5, WholeTableStep
<1>6. CASE lj_tab_dup
  <2>1. UNCHANGED <<tab, hash, stored>> /\ ~ nomm' /\ iter' = iter
    BY <1>6 DEF lj_tab_dup
  <2> QED BY <1>2, <2>1, SameTableStep
<1>7. CASE lj_meta_cache
  <2>1. UNCHANGED <<tab, hash, stored>> /\ lj_tab_get(tab, MMName) = TabNil /\ iter' = iter
    BY <1>7 DEF lj_meta_cache
  <2> QED BY <1>2, <2>1, SameTableStep
<1>8. CASE TabTraverse
  <2>1. /\ UNCHANGED <<tab, hash, nomm, stored>>
        /\ iter' = [on |-> TRUE, key |-> TabNil, seen |-> {}, due |-> LiveKeys(tab), wrong |-> FALSE]
    BY <1>8 DEF TabTraverse
  <2> PICK a \in Nat, h \in HashSizes : Whole(tab, a, h)
    BY <1>1 DEF Consistent
  <2>2. h \in Nat
    BY HashSizesAreNat
  <2>3. /\ keyindex(tab, TabNil) = -1
        /\ \A x \in TabKeys : lj_tab_get(tab, x) # TabNil => keyindex(tab, x) \in 0 .. a + h - 1
    BY <1>1, <2>2, KeyIndex
  <2>4. \A x \in LiveKeys(tab) : lj_tab_get(tab, x) # TabNil /\ keyindex(tab, x) > -1
    BY <2>2, <2>3 DEF LiveKeys
  <2>5. LiveKeys(tab) \in SUBSET TabKeys
    BY DEF LiveKeys
  <2>6. Traversing(tab, iter')
    BY <2>1, <2>3, <2>4, <2>5 DEF Traversing
  <2> QED BY <1>2, <2>1, <2>6, SameTableStep
<1>9. CASE TabNext1
  <2>1. UNCHANGED <<tab, hash, nomm, stored>>
    BY <1>9 DEF TabNext1
  <2>2. Traversing(tab, iter')
    BY <1>9, NextStep
  <2> QED BY <1>2, <2>1, <2>2, SameTableStep
<1>10. CASE UNCHANGED tabVars
  <2>1. UNCHANGED <<tab, hash, nomm, iter, stored>>
    BY <1>10 DEF tabVars
  <2> QED BY <1>2, <2>1, SameTableStep
<1>11. ~ \E k \in Reborn, h \in StrHashes : TabReintern(k, h)
  OBVIOUS
<1> QED BY <1>3, <1>4, <1>5, <1>6, <1>7, <1>8, <1>9, <1>10, <1>11 DEF TabNext

LEMMA TabInvariant == Reborn = {} => (TabSpec => []TabInv)
<1> SUFFICES ASSUME Reborn = {}
             PROVE  TabSpec => []TabInv
  OBVIOUS
<1>1. TabInit => TabInv
  BY TabInitInv
<1>2. TabInv /\ [TabNext]_tabVars => TabInv'
  BY TabStep
<1> QED BY <1>1, <1>2, PTL DEF TabSpec

(***************************************************************************)
(* The theorems.  They hold while no dead string key is collected and      *)
(* interned again with another hash value: Tab.tla says what happens then. *)
(***************************************************************************)

\* Collisions of main positions, moves of colliding nodes, rechaining, dead keys
\* and resizes of lj_tab_newkey() and lj_tab_resize() leave no chain with a
\* cycle and every live key where lookups search it, and rehashtab() counts the
\* keys so well that a resize never runs out of nodes while it refills the table.
THEOREM TabSoundCorrect ==
  ASSUME Reborn = {}
  PROVE  TabSpec => []TabSound
<1>1. TabInv => TabSound
  <2> SUFFICES ASSUME TabInv
               PROVE  TabSound
    OBVIOUS
  <2>1. HashType /\ Consistent(tab)
    BY TabInvHash DEF TabInv
  <2> PICK a \in Nat, h \in HashSizes : Whole(tab, a, h)
    BY <2>1 DEF Consistent
  <2>2. h \in Nat /\ Sized(tab, a, h) /\ Keyed(tab) /\ Chained(tab)
    BY HashSizesAreNat DEF Whole
  <2> PICK r : Ranked(tab, r)
    BY DEF Whole
  <2>3. /\ Nodes(tab) = 0 .. h - 1 /\ HashSize(tab) = h /\ Used(tab) \subseteq Nodes(tab)
        /\ tab.node \in [0 .. h - 1 -> TabNode]
    BY <2>2, SizedTable, UsedNodes
  <2>4. ASSUME NEW i \in Nodes(tab)
        PROVE  Len(TabChain(tab, i)) <= HashSize(tab)
    BY <2>2, <2>3, ChainNodes
  <2>5. ASSUME NEW i \in Nodes(tab), tab.node[i].val # TabNil
        PROVE  Seek(tab, tab.node[i].key) = i
    <3>1. i \in Used(tab)
      BY <2>2, <2>5 DEF Keyed
    <3> DEFINE x == tab.node[i].key
               n == Seek(tab, x)
    <3>2. x \in TabKeys
      <4>1. tab.node[i] \in TabNode /\ x # TabNil
        BY <2>3, <3>1 DEF Used
      <4> QED BY <4>1 DEF TabNode
    <3>3. /\ n \in Used(tab) \cup {None} /\ (n # None => tab.node[n].key = x)
          /\ (n = None => \A j \in Used(tab) : tab.node[j].key # x)
      BY <2>1, <2>2, <3>2, SeekFinds
    <3> QED BY <2>2, <3>1, <3>3 DEF Keyed
  <2> QED BY <2>1, <2>4, <2>5 DEF TabSound, ChainsSound, RefillFits, Consistent
<1> QED BY <1>1, TabInvariant, PTL

\* lj_meta_cache() remembers that a metatable lacks a metamethod; a store by
\* lj_tab_set() forgets it, so that the bit never hides one that was set since,
\* and none of the operations that keep the bit brings one in.
THEOREM NoMMSoundCorrect ==
  ASSUME Reborn = {}
  PROVE  TabSpec => []NoMMSound
<1>1. TabInv => NoMMSound
  BY DEF TabInv, NoMMSound
<1> QED BY <1>1, TabInvariant, PTL

\* lj_tab_next() finds its place again from the last key, live or dead: while
\* only existing fields are assigned or removed, a traversal visits no key
\* twice, misses none that is left, and never fails.
THEOREM TraversalOnceCorrect ==
  ASSUME Reborn = {}
  PROVE  TabSpec => []TraversalOnce
<1>1. TabInv => TraversalOnce
  BY DEF TabInv, Traversing, TraversalOnce
<1> QED BY <1>1, TabInvariant, PTL

\* Array part, hash part, rehashing and traversal together are a map: after any
\* operations a lookup by lj_tab_get() finds under each key what was stored last,
\* by lj_tab_set(), BC_TSETM or lj_tab_clear(), and nil if nothing was.
THEOREM TabImplementsMapCorrect ==
  ASSUME Reborn = {}
  PROVE  TabSpec => TabImplementsMap
<1>1. TabInit => Map!MapInit
  BY DEF TabInit
<1>2. TabInv /\ [TabNext]_tabVars => [Map!MapNext]_stored
  BY TabStep
<1>3. TabInv => \A k \in TabKeys : lj_tab_get(tab, k) = stored[k]
  BY DEF TabInv
<1> QED BY <1>1, <1>2, <1>3, TabInvariant, PTL DEF TabSpec, TabImplementsMap, Map!MapSpec

(***************************************************************************)
(* Length.                                                                 *)
(***************************************************************************)

Mid(p) == (p[1] + p[2]) \div 2

IsBisect(t, j, b) ==
  b = [p \in (0 .. j) \X (0 .. j) |->
        IF p[2] - p[1] <= 1 THEN p[1]
        ELSE IF Present(t, Mid(p)) THEN b[<<Mid(p), p[2]>>] ELSE b[<<p[1], Mid(p)>>]]

\* The middle is between the ends.
LEMMA Middle ==
  ASSUME NEW j \in Nat, NEW p \in (0 .. j) \X (0 .. j), ~ (p[2] - p[1] <= 1)
  PROVE  /\ Mid(p) \in 0 .. j /\ p[1] < Mid(p) /\ Mid(p) < p[2]
         /\ <<Mid(p), p[2]>> \in (0 .. j) \X (0 .. j) /\ <<p[1], Mid(p)>> \in (0 .. j) \X (0 .. j)
<1> DEFINE x == p[1]
           y == p[2]
           m == (x + y) \div 2
<1>1. x \in 0 .. j /\ y \in 0 .. j /\ y - x >= 2
  OBVIOUS
<1> HIDE DEF x, y
<1>2. m \in Int /\ 2 * m <= x + y /\ x + y < 2 * m + 2
  BY <1>1
<1> HIDE DEF m
<1>3. m \in 0 .. j /\ x < m /\ m < y
  BY <1>1, <1>2
<1>4. m = Mid(p)
  BY DEF m, x, y, Mid
<1> QED BY <1>1, <1>3, <1>4 DEF x, y

\* The bisection is well defined: what it finds for an interval does not change
\* once as many levels are unfolded as the interval is long.
LEMMA BisectExists ==
  ASSUME NEW t, NEW j \in Nat
  PROVE  \E b : IsBisect(t, j, b)
<1> DEFINE P == (0 .. j) \X (0 .. j)
           V == [P -> Nat]
           start == [p \in P |-> p[1]]
           part(g, p) == IF Present(t, Mid(p)) THEN g[<<Mid(p), p[2]>>] ELSE g[<<p[1], Mid(p)>>]
           step(g) == [p \in P |-> IF p[2] - p[1] <= 1 THEN p[1] ELSE part(g, p)]
           F == [x \in (1 .. j + 1) \X V |-> step(x[2])]
<1>1. start \in V /\ \A g \in V : step(g) \in V
  <2>1. start \in V
    OBVIOUS
  <2>2. ASSUME NEW g \in V, NEW p \in P
        PROVE  (IF p[2] - p[1] <= 1 THEN p[1] ELSE part(g, p)) \in Nat
    <3>1. CASE p[2] - p[1] <= 1
      BY <3>1
    <3>2. CASE ~ (p[2] - p[1] <= 1)
      <4>1. <<Mid(p), p[2]>> \in P /\ <<p[1], Mid(p)>> \in P
        BY <3>2, Middle
      <4>2. g[<<Mid(p), p[2]>>] \in Nat /\ g[<<p[1], Mid(p)>>] \in Nat
        BY <4>1
      <4> QED BY <3>2, <4>2
    <3> QED BY <3>1, <3>2
  <2> HIDE DEF part
  <2>3. \A g \in V : step(g) \in V
    BY <2>2
  <2> QED BY <2>1, <2>3
<1> HIDE DEF start, step, V, part
<1>2. F \in [(1 .. j + 1) \X V -> V] /\ \A i \in 1 .. j + 1, g \in V : F[<<i, g>>] = step(g)
  BY <1>1
<1> HIDE DEF F
<1>3. PICK f : Accumulates(f, V, start, j + 1, F)
  <2>1. j + 1 \in Nat /\ start \in V /\ F \in [(1 .. j + 1) \X V -> V]
    BY <1>1, <1>2
  <2> QED BY <2>1, AccumulationExists
<1>4. f \in [0 .. j + 1 -> V] /\ f[0] = start /\ \A i \in 1 .. j + 1 : f[i] = step(f[i - 1])
  <2>1. \A i \in 1 .. j + 1 : i - 1 \in 0 .. j + 1
    OBVIOUS
  <2> QED BY <1>2, <1>3, <2>1 DEF Accumulates
<1> DEFINE S == {i \in 0 .. j : \A p \in P : p[2] - p[1] <= i + 1 => f[i + 1][p] = f[i][p]}
<1>5. 0 \in S
  <2>1. f[0] = start /\ f[1] = step(f[0])
    BY <1>4
  <2>2. \A p \in P : p[2] - p[1] <= 1 => step(f[0])[p] = p[1] /\ start[p] = p[1]
    BY DEF step, start
  <2> QED BY <2>1, <2>2
<1>6. ASSUME NEW i \in 1 .. j, i - 1 \in S
      PROVE  i \in S
  <2> DEFINE g == f[i]
             e == f[i - 1]
  <2>1. f[i + 1] = step(g) /\ g = step(e)
    <3>1. i + 1 \in 1 .. j + 1 /\ i \in 1 .. j + 1 /\ (i + 1) - 1 = i
      OBVIOUS
    <3> QED BY <1>4, <3>1
  <2>2. \A q \in P : q[2] - q[1] <= i => g[q] = e[q]
    BY <1>6
  <2> HIDE DEF g, e
  <2>3. ASSUME NEW p \in P, p[2] - p[1] <= i + 1
        PROVE  step(g)[p] = step(e)[p]
    <3>1. CASE p[2] - p[1] <= 1
      BY <3>1 DEF step
    <3>2. CASE ~ (p[2] - p[1] <= 1)
      <4> DEFINE l == <<Mid(p), p[2]>>
                 r == <<p[1], Mid(p)>>
      <4>1. l \in P /\ r \in P /\ p[1] < Mid(p) /\ Mid(p) < p[2] /\ Mid(p) \in 0 .. j
        BY <3>2, Middle
      <4>2. l[2] - l[1] <= i /\ r[2] - r[1] <= i
        BY <2>3, <4>1
      <4>3. g[l] = e[l] /\ g[r] = e[r]
        BY <2>2, <4>1, <4>2
      <4>4. part(g, p) = part(e, p)
        BY <4>3 DEF part
      <4> QED BY <3>2, <4>4 DEF step
    <3> QED BY <3>1, <3>2
  <2>4. \A p \in P : p[2] - p[1] <= i + 1 => f[i + 1][p] = f[i][p]
    BY <2>1, <2>3 DEF g
  <2> QED BY <2>4
<1>7. j \in S
  <2> HIDE DEF S
  <2>1. 0 .. j \subseteq S
    BY <1>5, <1>6, BoundedInduction
  <2> QED BY <2>1
<1> DEFINE b == f[j]
<1>8. \A p \in P : step(b)[p] = b[p]
  <2>1. f[j + 1] = step(b)
    <3>1. j + 1 \in 1 .. j + 1 /\ (j + 1) - 1 = j
      OBVIOUS
    <3> QED BY <1>4, <3>1
  <2>2. \A p \in P : p[2] - p[1] <= j + 1
    OBVIOUS
  <2> QED BY <1>7, <2>1, <2>2
<1>9. b \in [P -> Nat]
  <2>1. j \in 0 .. j + 1
    OBVIOUS
  <2>2. b \in V
    BY <1>4, <2>1
  <2> HIDE DEF b
  <2> QED BY <2>2 DEF V
<1> HIDE DEF b
<1>10. b = [p \in P |-> IF p[2] - p[1] <= 1 THEN p[1] ELSE part(b, p)]
  <2>1. \A p \in P : b[p] = IF p[2] - p[1] <= 1 THEN p[1] ELSE part(b, p)
    BY <1>8 DEF step
  <2> QED BY <1>9, <2>1
<1> QED BY <1>10, Zenon DEF IsBisect, part, P

\* n is present or 0, and n + 1 is not.
Border(t, n) == n \in Nat /\ (n = 0 \/ Present(t, n)) /\ ~ Present(t, n + 1)

LEMMA BisectBorder ==
  ASSUME NEW t, NEW i \in Nat, NEW j \in Nat, i < j, i = 0 \/ Present(t, i), ~ Present(t, j)
  PROVE  Border(t, Bisect(t, i, j))
<1> DEFINE b == CHOOSE x : IsBisect(t, j, x)
           P == (0 .. j) \X (0 .. j)
           From(p) == p[1] < p[2] /\ (p[1] = 0 \/ Present(t, p[1])) /\ ~ Present(t, p[2])
<1>1. IsBisect(t, j, b)
  BY BisectExists, Zenon
<1>2. Bisect(t, i, j) = b[<<i, j>>]
  BY Zenon DEF Bisect, IsBisect, Mid
<1> HIDE DEF b
<1>3. \A p \in P : b[p] = IF p[2] - p[1] <= 1 THEN p[1]
                          ELSE IF Present(t, Mid(p)) THEN b[<<Mid(p), p[2]>>] ELSE b[<<p[1], Mid(p)>>]
  BY <1>1, Zenon DEF IsBisect
<1> DEFINE S == {n \in 0 .. j : \A p \in P : p[2] - p[1] <= n /\ From(p) => Border(t, b[p])}
<1>4. 0 \in S
  <2>1. \A p \in P : p[2] - p[1] <= 0 => ~ (p[1] < p[2])
    OBVIOUS
  <2> QED BY <2>1
<1>5. ASSUME NEW n \in 1 .. j, n - 1 \in S
      PROVE  n \in S
  <2> SUFFICES ASSUME NEW p \in P, p[2] - p[1] <= n, From(p)
               PROVE  Border(t, b[p])
    OBVIOUS
  <2>1. CASE p[2] - p[1] <= 1
    <3>1. b[p] = p[1]
      BY <1>3, <2>1
    <3>2. p[1] \in Nat /\ p[2] \in Nat /\ p[1] < p[2]
      OBVIOUS
    <3>3. p[2] = p[1] + 1
      BY <2>1, <3>2
    <3> QED BY <3>1, <3>2, <3>3 DEF Border
  <2>2. CASE ~ (p[2] - p[1] <= 1)
    <3> DEFINE l == <<Mid(p), p[2]>>
               r == <<p[1], Mid(p)>>
    <3>1. l \in P /\ r \in P /\ p[1] < Mid(p) /\ Mid(p) < p[2] /\ Mid(p) \in 0 .. j
      BY <2>2, Middle
    <3>2. l[2] - l[1] <= n - 1 /\ r[2] - r[1] <= n - 1
      BY <3>1
    <3>3. \A q \in P : q[2] - q[1] <= n - 1 /\ From(q) => Border(t, b[q])
      BY <1>5
    <3>4. CASE Present(t, Mid(p))
      <4>1. From(l)
        BY <3>1, <3>4
      <4>2. b[p] = b[l]
        BY <1>3, <2>2, <3>4
      <4> HIDE DEF l, From
      <4> QED BY <3>1, <3>2, <3>3, <4>1, <4>2
    <3>5. CASE ~ Present(t, Mid(p))
      <4>1. From(r)
        BY <3>1, <3>5
      <4>2. b[p] = b[r]
        BY <1>3, <2>2, <3>5
      <4> HIDE DEF r, From
      <4> QED BY <3>1, <3>2, <3>3, <4>1, <4>2
    <3> QED BY <3>4, <3>5
  <2> QED BY <2>1, <2>2
<1>6. j \in S
  <2> HIDE DEF S
  <2>1. 0 .. j \subseteq S
    BY <1>4, <1>5, BoundedInduction
  <2> QED BY <2>1
<1>7. <<i, j>> \in P /\ From(<<i, j>>)
  OBVIOUS
<1> QED BY <1>2, <1>6, <1>7

\* No integer beyond INT_MAX is a key.
LEMMA PresentBound ==
  ASSUME HashType, NEW t, Consistent(t), NEW x \in Nat, Present(t, x)
  PROVE  x <= INT_MAX
<1> PICK a \in Nat, h \in HashSizes : Whole(t, a, h)
  BY DEF Consistent
<1>1. h \in Nat
  BY HashSizesAreNat
<1>2. x \in TabKeys
  BY <1>1, Lookup DEF Present
<1>3. x \in IntKeys
  BY <1>2, TabAssumption DEF TabKeys
<1> QED BY <1>3, TabAssumption

\* The search past the array part.
LEMMA SearchBorder ==
  ASSUME HashType, NEW t, Consistent(t), NEW i \in Nat, i = 0 \/ Present(t, i)
  PROVE  Border(t, unbound_search(t, i))
<1> DEFINE Probe(n) == (i + 1) * Pow2(n)
           Overflow(n) == n > 0 /\ Probe(n) > INT_MAX - 2
           ends == {n \in 0 .. INT_MAX : ~ Present(t, Probe(n)) \/ Overflow(n)}
           end == CHOOSE n \in ends : \A m \in ends : n <= m
           linear == CHOOSE n \in 1 .. INT_MAX + 1 : ~ Present(t, n) /\ \A m \in 1 .. n - 1 : Present(t, m)
           from == IF end = 0 THEN i ELSE Probe(end - 1)
<1>0. INT_MAX \in Nat
  BY TabAssumption
<1>1. unbound_search(t, i) = IF Overflow(end) THEN linear - 1 ELSE Bisect(t, from, Probe(end))
  BY Zenon DEF unbound_search
<1>2. Probe(0) = i + 1 /\ \A n \in Nat : Probe(n) \in Nat /\ Probe(n + 1) = 2 * Probe(n)
  <2>1. Probe(0) = i + 1
    BY Pow2Step
  <2>2. ASSUME NEW n \in Nat
        PROVE  Probe(n) \in Nat /\ Probe(n + 1) = 2 * Probe(n)
    <3>1. Pow2(n) \in Nat /\ Pow2(n + 1) = 2 * Pow2(n)
      BY Pow2Step
    <3> DEFINE w == Pow2(n)
    <3>2. (i + 1) * (2 * w) = 2 * ((i + 1) * w) /\ (i + 1) * w \in Nat
      <4>1. w \in Nat
        BY <3>1
      <4> HIDE DEF w
      <4> QED BY <4>1
    <3> QED BY <3>1, <3>2
  <2> QED BY <2>1, <2>2
<1> HIDE DEF Probe
<1>3. \A n \in Nat : Probe(n) > n
  <2> DEFINE S == {n \in Nat : Probe(n) > n}
  <2>1. 0 \in S
    BY <1>2
  <2>2. \A n \in Nat : n \in S => n + 1 \in S
    BY <1>2
  <2> HIDE DEF S
  <2>3. Nat \subseteq S
    BY <2>1, <2>2, SetInduction
  <2> QED BY <2>3 DEF S
<1>4. end \in ends /\ \A m \in ends : end <= m
  <2>1. INT_MAX \in ends
    <3>1. CASE INT_MAX = 0
      <4>1. ~ Present(t, Probe(0))
        BY <1>0, <1>2, <3>1, PresentBound
      <4> QED BY <3>1, <4>1
    <3>2. CASE INT_MAX # 0
      <4>1. Overflow(INT_MAX)
        BY <1>0, <1>2, <1>3, <3>2
      <4> QED BY <1>0, <4>1
    <3> QED BY <3>1, <3>2
  <2>2. ends \in SUBSET Nat
    BY <1>0
  <2> HIDE DEF ends
  <2>3. \E n \in ends : \A m \in ends : n <= m
    BY <2>1, <2>2, LeastMember
  <2> QED BY <2>3, Zenon
<1> HIDE DEF end
<1>5. end \in Nat /\ (~ Present(t, Probe(end)) \/ Overflow(end))
  BY <1>0, <1>4
<1>6. CASE Overflow(end)
  <2> DEFINE absent == {n \in 1 .. INT_MAX + 1 : ~ Present(t, n)}
  <2>1. INT_MAX + 1 \in absent
    BY <1>0, PresentBound
  <2>2. absent \in SUBSET Nat
    BY <1>0
  <2>3. \E n \in 1 .. INT_MAX + 1 : ~ Present(t, n) /\ \A m \in 1 .. n - 1 : Present(t, m)
    <3> HIDE DEF absent
    <3>1. PICK n \in absent : \A m \in absent : n <= m
      BY <2>1, <2>2, LeastMember
    <3>2. n \in 1 .. INT_MAX + 1 /\ ~ Present(t, n)
      BY <3>1 DEF absent
    <3>3. ASSUME NEW m \in 1 .. n - 1
          PROVE  Present(t, m)
      <4>1. m \in 1 .. INT_MAX + 1 /\ m < n
        BY <1>0, <3>2
      <4> QED BY <3>1, <3>2, <4>1 DEF absent
    <3> QED BY <3>2, <3>3
  <2>4. /\ linear \in 1 .. INT_MAX + 1 /\ ~ Present(t, linear)
        /\ \A m \in 1 .. linear - 1 : Present(t, m)
    BY <2>3, Zenon
  <2> HIDE DEF linear
  <2>5. linear - 1 \in Nat /\ (linear - 1) + 1 = linear /\ (linear - 1 = 0 \/ linear - 1 \in 1 .. linear - 1)
    BY <1>0, <2>4
  <2>6. Border(t, linear - 1)
    BY <2>4, <2>5 DEF Border
  <2> QED BY <1>1, <1>6, <2>6
<1>7. CASE ~ Overflow(end)
  <2>1. ~ Present(t, Probe(end))
    BY <1>5, <1>7
  <2>2. from \in Nat /\ from < Probe(end) /\ (from = 0 \/ Present(t, from))
    <3>1. CASE end = 0
      BY <1>2, <3>1
    <3>2. CASE end # 0
      <4>1. end - 1 \in Nat /\ end - 1 \in 0 .. INT_MAX /\ (end - 1) + 1 = end /\ end - 1 < end
        BY <1>0, <1>4, <3>2
      <4>2. Present(t, Probe(end - 1))
        <5> SUFFICES ASSUME ~ Present(t, Probe(end - 1))
                     PROVE  FALSE
          OBVIOUS
        <5>1. end - 1 \in ends
          BY <4>1
        <5> QED BY <1>4, <1>5, <4>1, <5>1
      <4>3. Probe(end) = 2 * Probe(end - 1) /\ Probe(end - 1) \in Nat /\ Probe(end - 1) > end - 1
        BY <1>2, <1>3, <4>1
      <4> QED BY <3>2, <4>1, <4>2, <4>3
    <3> QED BY <3>1, <3>2
  <2> HIDE DEF from
  <2>3. Probe(end) \in Nat
    BY <1>2, <1>5
  <2>4. Border(t, Bisect(t, from, Probe(end)))
    BY <2>1, <2>2, <2>3, BisectBorder
  <2> QED BY <1>1, <1>7, <2>4
<1> QED BY <1>6, <1>7

\* What lj_tab_len() returns.
LEMMA LenBorder ==
  ASSUME HashType, NEW t, Consistent(t)
  PROVE  Border(t, lj_tab_len(t))
<1> PICK a \in Nat, h \in HashSizes : Whole(t, a, h)
  BY DEF Consistent
<1>1. h \in Nat
  BY HashSizesAreNat
<1>2. DOMAIN t.arr = 0 .. a - 1 /\ Cardinality(DOMAIN t.arr) = a
  BY <1>1, SizedTable DEF Whole
<1> DEFINE j == IF a = 0 THEN 0 ELSE a - 1
<1>3. lj_tab_len(t) = IF a > 1 /\ t.arr[a - 1] = TabNil THEN Bisect(t, 0, a - 1)
                      ELSE IF t.node = <<>> THEN j ELSE unbound_search(t, j)
  BY <1>2 DEF lj_tab_len
<1>4. \A x \in 0 .. a - 1 : Present(t, x) <=> t.arr[x] # TabNil
  BY <1>1, <1>2, Lookup DEF Present, inarray
<1>5. CASE a > 1 /\ t.arr[a - 1] = TabNil
  <2>1. a - 1 \in 0 .. a - 1 /\ a - 1 \in Nat /\ 0 < a - 1
    BY <1>5
  <2>2. ~ Present(t, a - 1)
    BY <1>4, <1>5, <2>1
  <2>3. Border(t, Bisect(t, 0, a - 1))
    BY <2>1, <2>2, BisectBorder
  <2> QED BY <1>3, <1>5, <2>3
<1>6. CASE ~ (a > 1 /\ t.arr[a - 1] = TabNil)
  <2>1. j \in Nat /\ (j = 0 \/ Present(t, j))
    <3>1. CASE a > 1
      <4>1. a - 1 \in 0 .. a - 1 /\ t.arr[a - 1] # TabNil
        BY <1>6, <3>1
      <4> QED BY <1>4, <3>1, <4>1
    <3>2. CASE ~ (a > 1)
      BY <3>2
    <3> QED BY <3>1, <3>2
  <2>2. CASE t.node = <<>>
    <3>1. ~ inarray(t, j + 1)
      BY <1>2 DEF inarray
    <3>2. Seek(t, j + 1) = None
      BY <2>2 DEF Seek
    <3>3. ~ Present(t, j + 1)
      BY <3>1, <3>2 DEF Present, lj_tab_get
    <3> QED BY <1>3, <1>6, <2>1, <2>2, <3>3 DEF Border
  <2>3. CASE t.node # <<>>
    <3> HIDE DEF j
    <3>1. Border(t, unbound_search(t, j))
      BY <2>1, SearchBorder
    <3> QED BY <1>3, <1>6, <2>3, <3>1
  <2> QED BY <2>2, <2>3
<1> QED BY <1>5, <1>6

\* lj_tab_len() returns a border of the table: an index that is present, or 0,
\* and the next one is not; by bisection of an array part that ends in nil, or
\* from its end by doubling and bisection, or by a linear search when the
\* doubled index would exceed the range of integers.
THEOREM LenIsBoundaryCorrect ==
  ASSUME Reborn = {}
  PROVE  TabSpec => []LenIsBoundary
<1>1. TabInv => LenIsBoundary
  BY TabInvHash, LenBorder DEF TabInv, LenIsBoundary, Border
<1> QED BY <1>1, TabInvariant, PTL
=============================================================================
