---------------------------- MODULE StrTabProofs ----------------------------
(***************************************************************************)
(* Theorems about StrTab, for every value of its constants: interning,     *)
(* resizing and sweeping keep the chains in order, and the table           *)
(* implements a set of unique strings.                                     *)
(***************************************************************************)
EXTENDS StrTab, Numbers, FiniteSetTheorems
LOCAL INSTANCE SequencesExt

(***************************************************************************)
(* Sequences without repetition.                                           *)
(***************************************************************************)
\* r has the elements of s and x, x only once more than s.
Adds(r, s, x, T) ==
  /\ r \in Seq(T)
  /\ ToSet(r) = ToSet(s) \cup {x}
  /\ IsInjective(s) /\ x \notin ToSet(s) => IsInjective(r)

\* Linking a string behind a chain, or in front of it.
LEMMA AddedTo ==
  ASSUME NEW T, NEW s \in Seq(T), NEW x \in T
  PROVE  Adds(Append(s, x), s, x, T) /\ Adds(<<x>> \o s, s, x, T)
<1> DEFINE a == Append(s, x)
           b == <<x>> \o s
           n == Len(s)
<1>1. /\ a \in Seq(T) /\ DOMAIN a = 1 .. n + 1 /\ a[n + 1] = x /\ \A i \in 1 .. n : a[i] = s[i]
      /\ DOMAIN s = 1 .. n /\ n \in Nat
  OBVIOUS
<1>2. /\ b \in Seq(T) /\ DOMAIN b = 1 .. n + 1 /\ b[1] = x /\ \A i \in 1 .. n + 1 : i # 1 => b[i] = s[i - 1]
  OBVIOUS
<1> HIDE DEF a, b, n
<1>3. ToSet(a) = ToSet(s) \cup {x}
  <2>1. \A i \in 1 .. n + 1 : i = n + 1 \/ i \in 1 .. n
    BY <1>1
  <2>2. \A i \in 1 .. n : i \in 1 .. n + 1
    BY <1>1
  <2> QED BY <1>1, <2>1, <2>2 DEF ToSet
<1>4. ToSet(b) = ToSet(s) \cup {x}
  <2>1. \A i \in 1 .. n + 1 : i = 1 \/ (i # 1 /\ i - 1 \in 1 .. n)
    BY <1>1
  <2>2. ASSUME NEW i \in 1 .. n
        PROVE  i + 1 \in 1 .. n + 1 /\ b[i + 1] = s[i]
    BY <1>1, <1>2
  <2>3. 1 \in 1 .. n + 1
    BY <1>1
  <2>4. ASSUME NEW i \in 1 .. n + 1
        PROVE  b[i] \in ToSet(s) \cup {x}
    BY <1>1, <1>2, <2>1 DEF ToSet
  <2>5. ASSUME NEW i \in 1 .. n
        PROVE  s[i] \in ToSet(b)
    <3>1. b[i + 1] \in ToSet(b)
      BY <1>2, <2>2 DEF ToSet
    <3> QED BY <2>2, <3>1
  <2>6. x \in ToSet(b)
    BY <1>2, <2>3 DEF ToSet
  <2>7. ToSet(b) \subseteq ToSet(s) \cup {x}
    BY <1>2, <2>4 DEF ToSet
  <2>8. ToSet(s) \subseteq ToSet(b)
    BY <1>1, <2>5 DEF ToSet
  <2> QED BY <2>6, <2>7, <2>8
<1>5. ASSUME IsInjective(s), x \notin ToSet(s)
      PROVE  IsInjective(a)
  BY <1>1, <1>5 DEF IsInjective, ToSet
<1>6. ASSUME IsInjective(s), x \notin ToSet(s)
      PROVE  IsInjective(b)
  <2>1. ASSUME NEW i \in 1 .. n + 1, i # 1
        PROVE  i - 1 \in 1 .. n /\ b[i] = s[i - 1] /\ b[i] # x
    <3>1. i - 1 \in 1 .. n /\ b[i] = s[i - 1]
      BY <1>1, <1>2, <2>1
    <3>2. s[i - 1] \in ToSet(s)
      BY <1>1, <3>1 DEF ToSet
    <3> QED BY <1>6, <3>1, <3>2
  <2>2. ASSUME NEW i \in 1 .. n + 1, NEW j \in 1 .. n + 1, i # 1, j # 1, b[i] = b[j]
        PROVE  i = j
    <3>1. i - 1 \in 1 .. n /\ j - 1 \in 1 .. n /\ s[i - 1] = s[j - 1]
      BY <2>1, <2>2
    <3>2. i - 1 = j - 1
      BY <1>1, <1>6, <3>1 DEF IsInjective
    <3> QED BY <1>1, <3>2
  <2>3. \A i, j \in 1 .. n + 1 : b[i] = b[j] => i = j
    BY <1>2, <2>1, <2>2
  <2> QED BY <1>2, <2>3 DEF IsInjective
<1>7. Adds(a, s, x, T) /\ Adds(b, s, x, T)
  BY <1>1, <1>2, <1>3, <1>4, <1>5, <1>6 DEF Adds
<1> QED BY <1>7 DEF a, b

\* r has the elements of s and those of t, each as often as they have it.
Joins(r, s, t, T) ==
  /\ r \in Seq(T)
  /\ ToSet(r) = ToSet(s) \cup ToSet(t)
  /\ IsInjective(s) /\ IsInjective(t) /\ ToSet(s) \cap ToSet(t) = {} => IsInjective(r)

\* Two chains in a row.
LEMMA Joined ==
  ASSUME NEW T, NEW s \in Seq(T), NEW t \in Seq(T)
  PROVE  Joins(s \o t, s, t, T)
<1> DEFINE c == s \o t
           m == Len(s)
           n == Len(t)
<1>1. /\ c \in Seq(T) /\ DOMAIN c = 1 .. m + n /\ DOMAIN s = 1 .. m /\ DOMAIN t = 1 .. n
      /\ m \in Nat /\ n \in Nat
  OBVIOUS
<1>2. /\ \A i \in 1 .. m : c[i] = s[i] /\ i \in 1 .. m + n
      /\ \A i \in 1 .. m + n : i \notin 1 .. m => i - m \in 1 .. n /\ c[i] = t[i - m]
  OBVIOUS
<1> HIDE DEF c, m, n
<1>3. ASSUME NEW i \in 1 .. n
      PROVE  i + m \in 1 .. m + n /\ c[i + m] = t[i]
  <2>1. i + m \in 1 .. m + n /\ i + m \notin 1 .. m /\ (i + m) - m = i
    BY <1>1
  <2> QED BY <1>2, <2>1
<1>4. ToSet(c) = ToSet(s) \cup ToSet(t)
  <2>1. ASSUME NEW i \in 1 .. m + n
        PROVE  c[i] \in ToSet(s) \cup ToSet(t)
    BY <1>1, <1>2 DEF ToSet
  <2>2. ASSUME NEW i \in 1 .. m
        PROVE  s[i] \in ToSet(c)
    BY <1>1, <1>2 DEF ToSet
  <2>3. ASSUME NEW i \in 1 .. n
        PROVE  t[i] \in ToSet(c)
    BY <1>1, <1>3 DEF ToSet
  <2>4. ToSet(c) \subseteq ToSet(s) \cup ToSet(t)
    BY <1>1, <2>1 DEF ToSet
  <2>5. ToSet(s) \subseteq ToSet(c) /\ ToSet(t) \subseteq ToSet(c)
    BY <1>1, <2>2, <2>3 DEF ToSet
  <2> QED BY <2>4, <2>5
<1>5. ASSUME IsInjective(s), IsInjective(t), ToSet(s) \cap ToSet(t) = {}
      PROVE  IsInjective(c)
  <2> SUFFICES ASSUME NEW i \in 1 .. m + n, NEW j \in 1 .. m + n, c[i] = c[j]
               PROVE  i = j
    BY <1>1 DEF IsInjective
  <2>1. CASE i \in 1 .. m /\ j \in 1 .. m
    BY <1>1, <1>2, <1>5, <2>1 DEF IsInjective
  <2>2. CASE i \notin 1 .. m /\ j \notin 1 .. m
    <3>1. i - m \in 1 .. n /\ j - m \in 1 .. n /\ t[i - m] = t[j - m]
      BY <1>2, <2>2
    <3>2. i - m = j - m
      BY <1>1, <1>5, <3>1 DEF IsInjective
    <3> QED BY <1>1, <3>2
  <2>3. CASE ~(i \in 1 .. m <=> j \in 1 .. m)
    BY <1>1, <1>2, <1>5, <2>3 DEF ToSet
  <2> QED BY <2>1, <2>2, <2>3
<1>6. Joins(c, s, t, T)
  BY <1>1, <1>4, <1>5 DEF Joins
<1> QED BY <1>6 DEF c

\* What gc_sweep() leaves of a chain: every text that is not dead, once.
LEMMA UndeadEffect ==
  ASSUME NEW T, NEW s \in Seq(T), NEW dead
  PROVE  /\ Undead(s, dead) \in Seq(T)
         /\ ToSet(Undead(s, dead)) = ToSet(s) \ dead
         /\ IsInjective(s) => IsInjective(Undead(s, dead))
<1> DEFINE n == Len(s)
           F == [x \in (1 .. n) \X Seq(T) |-> IF s[x[1]] \in dead THEN x[2] ELSE Append(x[2], s[x[1]])]
           isDef(r) == r = [j \in 0 .. n |-> IF j = 0 THEN <<>>
                              ELSE IF s[j] \in dead THEN r[j - 1] ELSE Append(r[j - 1], s[j])]
           rest == CHOOSE r : isDef(r)
<1>1. n \in Nat /\ <<>> \in Seq(T) /\ DOMAIN s = 1 .. n /\ \A i \in 1 .. n : s[i] \in T
  OBVIOUS
<1>2. Undead(s, dead) = rest[n]
  BY DEF Undead
<1>3. F \in [(1 .. n) \X Seq(T) -> Seq(T)]
  BY <1>1
<1>4. \A i \in 1 .. n, x \in Seq(T) : F[<<i, x>>] = IF s[i] \in dead THEN x ELSE Append(x, s[i])
  OBVIOUS
<1> HIDE DEF n, F
<1>5. PICK f : Accumulates(f, Seq(T), <<>>, n, F)
  BY <1>1, <1>3, AccumulationExists
<1>6. isDef(f)
  <2>1. f = [k \in 0 .. n |-> f[k]]
    BY <1>5 DEF Accumulates
  <2>2. ASSUME NEW k \in 1 .. n
        PROVE  f[k] = IF s[k] \in dead THEN f[k - 1] ELSE Append(f[k - 1], s[k])
    <3>1. k - 1 \in 0 .. n
      BY <1>1
    <3> QED BY <1>4, <1>5, <3>1 DEF Accumulates
  <2>3. \A k \in 0 .. n : f[k] = IF k = 0 THEN <<>> ELSE IF s[k] \in dead THEN f[k - 1] ELSE Append(f[k - 1], s[k])
    <3>1. f[0] = <<>> /\ \A k \in 0 .. n : k = 0 \/ (k # 0 /\ k \in 1 .. n)
      BY <1>1, <1>5 DEF Accumulates
    <3> QED BY <2>2, <3>1, Zenon
  <2> QED BY <2>1, <2>3
<1>7. isDef(rest)
  <2> HIDE DEF isDef
  <2> QED BY <1>6
<1> HIDE DEF rest
<1>8. rest[0] = <<>> /\ \A k \in 1 .. n : rest[k] = IF s[k] \in dead THEN rest[k - 1] ELSE Append(rest[k - 1], s[k])
  <2>1. \A k \in 0 .. n : rest[k] = IF k = 0 THEN <<>>
                                    ELSE IF s[k] \in dead THEN rest[k - 1] ELSE Append(rest[k - 1], s[k])
    BY <1>7, Zenon
  <2>2. 0 \in 0 .. n /\ \A k \in 1 .. n : k \in 0 .. n /\ k # 0
    BY <1>1
  <2> QED BY <2>1, <2>2, Zenon
<1> DEFINE upto(k) == {s[i] : i \in 1 .. k}
           good(k) == /\ rest[k] \in Seq(T) /\ ToSet(rest[k]) = upto(k) \ dead
                      /\ IsInjective(s) => IsInjective(rest[k])
           S == {k \in 0 .. n : good(k)}
<1>9. 0 \in S
  <2>1. rest[0] = <<>> /\ DOMAIN <<>> = {} /\ 1 .. 0 = {} /\ 0 \in 0 .. n
    BY <1>1, <1>8
  <2>2. ToSet(<<>>) = {} /\ IsInjective(<<>>)
    BY <2>1 DEF ToSet, IsInjective
  <2>3. upto(0) = {}
    BY <2>1
  <2> QED BY <1>1, <2>1, <2>2, <2>3
<1>10. ASSUME NEW k \in 1 .. n, k - 1 \in S
       PROVE  k \in S
  <2>1. upto(k) = upto(k - 1) \cup {s[k]}
    <3>1. 1 .. k = (1 .. k - 1) \cup {k}
      BY <1>1
    <3> QED BY <3>1
  <2>2. IsInjective(s) => s[k] \notin upto(k - 1)
    <3>1. \A i \in 1 .. k - 1 : i \in 1 .. n /\ i # k
      BY <1>1
    <3> QED BY <1>1, <3>1 DEF IsInjective
  <2>3. good(k - 1) /\ s[k] \in T /\ k \in 0 .. n
    BY <1>1, <1>10
  <2> HIDE DEF upto
  <2>4. CASE s[k] \in dead
    BY <1>8, <2>1, <2>3, <2>4
  <2>6. rest[k - 1] \in Seq(T) /\ s[k] \in T
    BY <2>3
  <2>5. CASE s[k] \notin dead
    <3>0. IsInjective(s) => s[k] \notin ToSet(rest[k - 1])
      BY <2>2, <2>3
    <3>1. rest[k] = Append(rest[k - 1], s[k])
      BY <1>8, <2>5
    <3>2. Adds(rest[k], rest[k - 1], s[k], T)
      BY <2>6, <3>1, AddedTo
    <3>3. /\ rest[k] \in Seq(T) /\ ToSet(rest[k]) = ToSet(rest[k - 1]) \cup {s[k]}
          /\ IsInjective(s) => IsInjective(rest[k])
      BY <2>3, <3>0, <3>2 DEF Adds
    <3> QED BY <2>1, <2>3, <2>5, <3>3
  <2> QED BY <2>4, <2>5
<1> HIDE DEF S
<1>11. n \in S
  <2>1. \A k \in 1 .. n : k - 1 \in S => k \in S
    BY <1>10
  <2>2. 0 .. n \subseteq S
    BY <1>1, <1>9, <2>1, BoundedInduction
  <2> QED BY <1>1, <2>2
<1> QED BY <1>1, <1>2, <1>11 DEF S, ToSet

\* The strings of all the chains in a row, from the last chain to the first.
LEMMA FlattenEffect ==
  ASSUME NEW T, NEW n \in Nat \ {0}, NEW q \in [1 .. n -> Seq(T)],
         \A i \in 1 .. n : IsInjective(q[i]),
         \A i, j \in 1 .. n : i # j => ToSet(q[i]) \cap ToSet(q[j]) = {}
  PROVE  /\ FlattenSeq(q) \in Seq(T)
         /\ ToSet(FlattenSeq(q)) = UNION {ToSet(q[i]) : i \in 1 .. n}
         /\ IsInjective(FlattenSeq(q))
<1> DEFINE m == n - 1
           F == [x \in (1 .. m) \X Seq(T) |-> x[2] \o q[x[1] + 1]]
           isDef(r) == r = [i \in 1 .. n |-> IF i = 1 THEN q[i] ELSE r[i - 1] \o q[i]]
           flatten == CHOOSE r : isDef(r)
<1>1. m \in Nat /\ Len(q) = n /\ n # 0 /\ q[1] \in Seq(T) /\ m + 1 = n
  OBVIOUS
<1>2. FlattenSeq(q) = flatten[n]
  BY <1>1 DEF FlattenSeq
<1> HIDE DEF m
<1>3. F \in [(1 .. m) \X Seq(T) -> Seq(T)]
  BY <1>1
<1>4. \A i \in 1 .. m, x \in Seq(T) : F[<<i, x>>] = x \o q[i + 1]
  OBVIOUS
<1> HIDE DEF F
<1>5. PICK f : Accumulates(f, Seq(T), q[1], m, F)
  BY <1>1, <1>3, AccumulationExists
<1> DEFINE g == [i \in 1 .. n |-> f[i - 1]]
<1>6. isDef(g)
  <2>1. ASSUME NEW i \in 1 .. n
        PROVE  f[i - 1] = IF i = 1 THEN q[i] ELSE g[i - 1] \o q[i]
    <3>1. CASE i = 1
      BY <1>5, <3>1 DEF Accumulates
    <3>2. CASE i # 1
      <4>1. i - 1 \in 1 .. m /\ i - 1 \in 1 .. n /\ (i - 1) + 1 = i /\ (i - 1) - 1 \in 0 .. m
        BY <1>1, <3>2
      <4>2. f[i - 1] = F[<<i - 1, f[(i - 1) - 1]>>] /\ f[(i - 1) - 1] \in Seq(T)
        BY <1>5, <4>1 DEF Accumulates
      <4>3. f[i - 1] = f[(i - 1) - 1] \o q[i]
        BY <1>4, <4>1, <4>2
      <4>4. g[i - 1] = f[(i - 1) - 1]
        BY <4>1
      <4> QED BY <3>2, <4>3, <4>4
    <3> QED BY <3>1, <3>2
  <2>2. \A i \in 1 .. n : g[i] = f[i - 1]
    OBVIOUS
  <2>3. g = [i \in 1 .. n |-> g[i]]
    OBVIOUS
  <2> HIDE DEF g
  <2> DEFINE row(i) == IF i = 1 THEN q[i] ELSE g[i - 1] \o q[i]
  <2>4. \A i \in 1 .. n : g[i] = row(i)
    BY <2>1, <2>2
  <2>5. g = [i \in 1 .. n |-> row(i)]
    <3> HIDE DEF row
    <3> QED BY <2>3, <2>4
  <2> QED BY <2>5
<1> HIDE DEF g
<1>7. isDef(flatten)
  <2> HIDE DEF isDef
  <2> QED BY <1>6
<1> HIDE DEF flatten
<1>8. flatten[1] = q[1] /\ \A i \in 1 .. m : flatten[i + 1] = flatten[i] \o q[i + 1]
  <2>1. \A i \in 1 .. n : flatten[i] = IF i = 1 THEN q[i] ELSE flatten[i - 1] \o q[i]
    BY <1>7, Zenon
  <2>2. 1 \in 1 .. n /\ \A i \in 1 .. m : i + 1 \in 1 .. n /\ i + 1 # 1 /\ (i + 1) - 1 = i
    BY <1>1
  <2>3. flatten[1] = q[1]
    BY <2>1, <2>2
  <2>4. ASSUME NEW i \in 1 .. m
        PROVE  flatten[i + 1] = flatten[i] \o q[i + 1]
    <3>1. flatten[i + 1] = flatten[(i + 1) - 1] \o q[i + 1]
      BY <2>1, <2>2, Zenon
    <3> QED BY <2>2, <3>1
  <2> QED BY <2>3, <2>4
<1> DEFINE upto(k) == UNION {ToSet(q[i]) : i \in 1 .. k}
           good(k) == flatten[k] \in Seq(T) /\ ToSet(flatten[k]) = upto(k) /\ IsInjective(flatten[k])
           S == {k \in 0 .. m : good(k + 1)}
<1>9. 0 \in S
  <2>1. 1 .. 1 = {1} /\ 1 \in 1 .. n /\ 0 \in 0 .. m /\ 0 + 1 = 1
    BY <1>1
  <2>2. good(1)
    BY <1>1, <1>8, <2>1
  <2> HIDE DEF good
  <2> QED BY <2>1, <2>2
<1>10. ASSUME NEW k \in 1 .. m, k - 1 \in S
       PROVE  k \in S
  <2>1. k + 1 \in 1 .. n /\ (k - 1) + 1 = k /\ 1 .. k + 1 = (1 .. k) \cup {k + 1} /\ k \in 0 .. m
        /\ \A i \in 1 .. k : i \in 1 .. n /\ i # k + 1
    BY <1>1
  <2>2. upto(k + 1) = upto(k) \cup ToSet(q[k + 1])
    BY <2>1
  <2>3. upto(k) \cap ToSet(q[k + 1]) = {}
    BY <2>1
  <2>4. good((k - 1) + 1)
    BY <1>10
  <2>5. flatten[k] \in Seq(T) /\ ToSet(flatten[k]) = upto(k) /\ IsInjective(flatten[k])
    BY <2>1, <2>4
  <2> HIDE DEF upto
  <2>6. q[k + 1] \in Seq(T) /\ IsInjective(q[k + 1]) /\ flatten[k + 1] = flatten[k] \o q[k + 1]
    BY <1>8, <2>1
  <2>7. Joins(flatten[k + 1], flatten[k], q[k + 1], T)
    BY <2>5, <2>6, Joined
  <2>8. good(k + 1)
    BY <2>2, <2>3, <2>5, <2>6, <2>7 DEF Joins
  <2> HIDE DEF good
  <2> QED BY <2>1, <2>8
<1> HIDE DEF S
<1>11. m \in S
  <2>1. \A k \in 1 .. m : k - 1 \in S => k \in S
    BY <1>10
  <2>2. 0 .. m \subseteq S
    BY <1>1, <1>9, <2>1, BoundedInduction
  <2> QED BY <1>1, <2>2
<1>12. good(n)
  BY <1>1, <1>11 DEF S
<1> QED BY <1>2, <1>12

-----------------------------------------------------------------------------
(* Tables. *)

\* h is a table of n chains, every string in the chain of its hash value, once.
Chained(h, n) ==
  /\ h \in [0 .. n - 1 -> Seq(Texts)]
  /\ \A i \in 0 .. n - 1 : IsInjective(h[i]) /\ \A t \in ToSet(h[i]) : TextHash[t] % n = i

\* The strings of a table.
StringsOf(h) == UNION {ToSet(h[i]) : i \in DOMAIN h}

\* The index of a chain.
LEMMA HomeOf ==
  ASSUME NEW n \in Nat \ {0}, NEW t \in Texts
  PROVE  TextHash[t] % n \in 0 .. n - 1
BY StrTabAssumption

\* strmask + 1 is the number of chains.
LEMMA SizeOf ==
  ASSUME NEW n \in Nat \ {0}, NEW h, DOMAIN h = 0 .. n - 1
  PROVE  Size(h) = n
<1>1. Cardinality(0 .. n - 1) = IF 0 > n - 1 THEN 0 ELSE (n - 1) - 0 + 1
  BY FS_Interval
<1> QED BY <1>1 DEF Size

\* A string is in the table if and only if it is in its chain.
LEMMA InChain ==
  ASSUME NEW n \in Nat \ {0}, NEW h, Chained(h, n)
  PROVE  /\ StringsOf(h) \subseteq Texts
         /\ DOMAIN h = 0 .. n - 1
         /\ \A t \in Texts : t \in StringsOf(h) <=> t \in ToSet(h[TextHash[t] % n])
         /\ \A i \in 0 .. n - 1 : \A t \in ToSet(h[i]) : t \in StringsOf(h) /\ TextHash[t] % n = i
<1>1. DOMAIN h = 0 .. n - 1 /\ \A i \in 0 .. n - 1 : h[i] \in Seq(Texts)
  BY DEF Chained
<1>2. ASSUME NEW i \in 0 .. n - 1
      PROVE  ToSet(h[i]) \subseteq Texts
  BY <1>1 DEF ToSet
<1>3. \A i \in 0 .. n - 1 : \A t \in ToSet(h[i]) : TextHash[t] % n = i
  BY DEF Chained
<1>4. \A t \in Texts : TextHash[t] % n \in 0 .. n - 1
  BY HomeOf
<1> QED BY <1>1, <1>2, <1>3, <1>4 DEF StringsOf

\* r is a table of n chains with the strings of h and t.
Linked(r, h, n, t) == Chained(r, n) /\ StringsOf(r) = StringsOf(h) \cup {t}

\* A string at the head of its chain.
LEMMA LinkEffect ==
  ASSUME NEW n \in Nat \ {0}, NEW h, Chained(h, n), NEW t \in Texts, t \notin StringsOf(h)
  PROVE  Linked([h EXCEPT ![TextHash[t] % n] = <<t>> \o @], h, n, t)
<1> DEFINE k == TextHash[t] % n
           l == [h EXCEPT ![k] = <<t>> \o @]
<1>1. k \in 0 .. n - 1
  BY HomeOf
<1>2. h \in [0 .. n - 1 -> Seq(Texts)]
  BY DEF Chained
<1>3. t \notin ToSet(h[k])
  BY InChain
<1>4. TextHash[t] % n = k
  OBVIOUS
<1> HIDE DEF k
<1>5. Adds(<<t>> \o h[k], h[k], t, Texts)
  BY <1>1, <1>2, AddedTo
<1>6. l[k] = <<t>> \o h[k] /\ \A i \in 0 .. n - 1 : i # k => l[i] = h[i]
  BY <1>1, <1>2
<1>7. /\ l[k] \in Seq(Texts) /\ ToSet(l[k]) = ToSet(h[k]) \cup {t} /\ IsInjective(l[k])
      /\ l \in [0 .. n - 1 -> Seq(Texts)]
  <2>1. IsInjective(h[k])
    BY <1>1 DEF Chained
  <2>2. <<t>> \o h[k] \in Seq(Texts)
    BY <1>5 DEF Adds
  <2> QED BY <1>1, <1>2, <1>3, <1>5, <1>6, <2>1, <2>2 DEF Adds
<1> HIDE DEF l
<1>8. Chained(l, n)
  <2>1. ASSUME NEW i \in 0 .. n - 1
        PROVE  IsInjective(l[i]) /\ \A u \in ToSet(l[i]) : TextHash[u] % n = i
    BY <1>4, <1>6, <1>7 DEF Chained
  <2> QED BY <1>7, <2>1 DEF Chained
<1>9. StringsOf(l) = StringsOf(h) \cup {t}
  <2>1. DOMAIN l = 0 .. n - 1 /\ DOMAIN h = 0 .. n - 1
    BY <1>2, <1>7
  <2>2. StringsOf(l) \subseteq StringsOf(h) \cup {t}
    BY <1>1, <1>6, <1>7, <2>1 DEF StringsOf
  <2>3. ASSUME NEW i \in 0 .. n - 1
        PROVE  ToSet(h[i]) \subseteq ToSet(l[i])
    BY <1>6, <1>7
  <2>4. t \in ToSet(l[k])
    BY <1>7
  <2> QED BY <1>1, <2>1, <2>2, <2>3, <2>4 DEF StringsOf
<1>10. Linked(l, h, n, t)
  BY <1>8, <1>9 DEF Linked
<1> QED BY <1>10 DEF k, l

\* The strings of a table in a row.
LEMMA RowEffect ==
  ASSUME NEW n \in Nat \ {0}, NEW h, Chained(h, n)
  PROVE  LET old == FlattenSeq([i \in 1 .. n |-> h[n - i]])
         IN  old \in Seq(Texts) /\ ToSet(old) = StringsOf(h) /\ IsInjective(old)
<1> DEFINE q == [i \in 1 .. n |-> h[n - i]]
<1>1. \A i \in 1 .. n : n - i \in 0 .. n - 1 /\ q[i] = h[n - i]
  OBVIOUS
<1>2. h \in [0 .. n - 1 -> Seq(Texts)]
  BY DEF Chained
<1>3. q \in [1 .. n -> Seq(Texts)]
  BY <1>1, <1>2
<1> HIDE DEF q
<1>4. \A i \in 1 .. n : IsInjective(q[i])
  BY <1>1 DEF Chained
<1>5. ASSUME NEW i \in 1 .. n, NEW j \in 1 .. n, i # j
      PROVE  ToSet(q[i]) \cap ToSet(q[j]) = {}
  <2>1. n - i # n - j
    BY <1>5
  <2> QED BY <1>1, <2>1 DEF Chained
<1>6. UNION {ToSet(q[i]) : i \in 1 .. n} = StringsOf(h)
  <2>1. \A j \in 0 .. n - 1 : n - j \in 1 .. n /\ n - (n - j) = j
    OBVIOUS
  <2>2. ASSUME NEW j \in 0 .. n - 1
        PROVE  h[j] = q[n - j] /\ n - j \in 1 .. n
    BY <1>1, <2>1
  <2>3. \A i \in 1 .. n : ToSet(q[i]) \subseteq StringsOf(h)
    BY <1>1, <1>2 DEF StringsOf
  <2> QED BY <1>2, <2>2, <2>3 DEF StringsOf
<1>7. /\ FlattenSeq(q) \in Seq(Texts) /\ IsInjective(FlattenSeq(q))
      /\ ToSet(FlattenSeq(q)) = UNION {ToSet(q[i]) : i \in 1 .. n}
  BY <1>3, <1>4, <1>5, FlattenEffect
<1> QED BY <1>6, <1>7 DEF q

\* Resizing moves every string to its chain in the new table, except in the
\* middle of a sweep.
LEMMA ResizeEffect ==
  ASSUME NEW n \in Nat \ {0}, NEW h, Chained(h, n), NEW size \in Nat \ {0}
  PROVE  \/ lj_str_resize(h, size) = h
         \/ /\ strgc # "sweepstring"
            /\ Chained(lj_str_resize(h, size), size)
            /\ StringsOf(lj_str_resize(h, size)) = StringsOf(h)
<1> DEFINE old == FlattenSeq([i \in 1 .. n |-> h[n - i]])
           m == Len(old)
           V == [0 .. size - 1 -> Seq(Texts)]
           empty == [i \in 0 .. size - 1 |-> <<>>]
           link(g, t) == [g EXCEPT ![TextHash[t] % size] = <<t>> \o @]
           F == [x \in (1 .. m) \X V |-> link(x[2], old[x[1]])]
           isDef(r) == r = [j \in 0 .. m |-> IF j = 0 THEN empty ELSE link(r[j - 1], old[j])]
           new == CHOOSE r : isDef(r)
<1> SUFFICES ASSUME strgc # "sweepstring", ~ (size >= LJ_MAX_STRTAB)
             PROVE  /\ Chained(lj_str_resize(h, size), size)
                    /\ StringsOf(lj_str_resize(h, size)) = StringsOf(h)
  BY DEF lj_str_resize
<1>1. Size(h) = n
  BY SizeOf, InChain
<1>2. lj_str_resize(h, size) = new[m]
  BY <1>1, ZenonT(60) DEF lj_str_resize
<1>3. old \in Seq(Texts) /\ ToSet(old) = StringsOf(h) /\ IsInjective(old)
  BY RowEffect
<1> HIDE DEF old
<1>4. m \in Nat /\ DOMAIN old = 1 .. m /\ \A j \in 1 .. m : old[j] \in Texts
  BY <1>3
<1> HIDE DEF m
<1>5. ASSUME NEW g \in V, NEW t \in Texts
      PROVE  link(g, t) \in V
  <2>1. TextHash[t] % size \in 0 .. size - 1
    BY HomeOf
  <2>2. <<t>> \o g[TextHash[t] % size] \in Seq(Texts)
    BY <2>1
  <2> QED BY <2>1, <2>2
<1>6. empty \in V
  OBVIOUS
<1>7. /\ F \in [(1 .. m) \X V -> V]
      /\ \A j \in 1 .. m, g \in V : F[<<j, g>>] = link(g, old[j])
  <2> HIDE DEF link, V
  <2> QED BY <1>4, <1>5
<1> HIDE DEF F
<1>8. PICK f : Accumulates(f, V, empty, m, F)
  <2> HIDE DEF V, empty
  <2> QED BY <1>4, <1>6, <1>7, AccumulationExists
<1>9. isDef(f)
  <2> HIDE DEF V, empty, link
  <2>1. f = [k \in 0 .. m |-> f[k]] /\ f[0] = empty
    BY <1>8 DEF Accumulates
  <2>2. ASSUME NEW k \in 1 .. m
        PROVE  f[k] = link(f[k - 1], old[k])
    <3>1. k - 1 \in 0 .. m
      BY <1>4
    <3> QED BY <1>7, <1>8, <3>1 DEF Accumulates
  <2>3. \A k \in 0 .. m : k = 0 \/ (k # 0 /\ k \in 1 .. m)
    BY <1>4
  <2>4. \A k \in 0 .. m : f[k] = IF k = 0 THEN empty ELSE link(f[k - 1], old[k])
    BY <2>1, <2>2, <2>3, Zenon
  <2> QED BY <2>1, <2>4
<1>10. isDef(new)
  <2> HIDE DEF isDef
  <2> QED BY <1>9
<1> HIDE DEF new
<1>11. new[0] = empty /\ \A k \in 1 .. m : new[k] = link(new[k - 1], old[k])
  <2> HIDE DEF empty, link
  <2>1. \A k \in 0 .. m : new[k] = IF k = 0 THEN empty ELSE link(new[k - 1], old[k])
    BY <1>10, Zenon
  <2>2. 0 \in 0 .. m /\ \A k \in 1 .. m : k \in 0 .. m /\ k # 0
    BY <1>4
  <2> QED BY <2>1, <2>2, Zenon
<1> DEFINE upto(k) == {old[i] : i \in 1 .. k}
           good(k) == Chained(new[k], size) /\ StringsOf(new[k]) = upto(k)
           S == {k \in 0 .. m : good(k)}
<1>12. 0 \in S
  <2>1. ToSet(<<>>) = {} /\ IsInjective(<<>>)
    <3>1. DOMAIN <<>> = {}
      OBVIOUS
    <3> QED BY <3>1 DEF ToSet, IsInjective
  <2>2. DOMAIN empty = 0 .. size - 1 /\ \A i \in 0 .. size - 1 : empty[i] = <<>>
    OBVIOUS
  <2>3. Chained(empty, size)
    <3> HIDE DEF empty
    <3> QED BY <1>6, <2>1, <2>2 DEF Chained
  <2>4. StringsOf(empty) = {} /\ upto(0) = {}
    <3> HIDE DEF empty
    <3> QED BY <2>1, <2>2 DEF StringsOf
  <2> HIDE DEF empty
  <2> QED BY <1>4, <1>11, <2>3, <2>4
<1>13. ASSUME NEW k \in 1 .. m, k - 1 \in S
       PROVE  k \in S
  <2>1. upto(k) = upto(k - 1) \cup {old[k]}
    <3>1. 1 .. k = (1 .. k - 1) \cup {k}
      BY <1>4
    <3> QED BY <3>1
  <2>2. old[k] \notin upto(k - 1)
    <3>1. \A i \in 1 .. k - 1 : i \in 1 .. m /\ i # k
      BY <1>4
    <3> QED BY <1>3, <1>4, <3>1 DEF IsInjective
  <2>3. Chained(new[k - 1], size) /\ StringsOf(new[k - 1]) = upto(k - 1)
    BY <1>13
  <2>4. old[k] \in Texts
    BY <1>4
  <2> HIDE DEF upto
  <2>5. old[k] \notin StringsOf(new[k - 1])
    BY <2>2, <2>3
  <2>6. Linked(link(new[k - 1], old[k]), new[k - 1], size, old[k])
    BY <2>3, <2>4, <2>5, LinkEffect
  <2> HIDE DEF link
  <2>7. good(k)
    BY <1>11, <2>1, <2>3, <2>6 DEF Linked
  <2> QED BY <1>4, <2>7
<1> HIDE DEF S
<1>14. m \in S
  <2>1. \A k \in 1 .. m : k - 1 \in S => k \in S
    BY <1>13
  <2>2. 0 .. m \subseteq S
    BY <1>4, <1>12, <2>1, BoundedInduction
  <2> QED BY <1>4, <2>2
<1>15. Chained(new[m], size) /\ StringsOf(new[m]) = upto(m)
  BY <1>14 DEF S
<1>16. upto(m) = StringsOf(h)
  BY <1>3, <1>4 DEF ToSet
<1> QED BY <1>2, <1>15, <1>16

\* r is a table of n chains with the strings of h that are not dead.
Swept(r, h, n, dead) == Chained(r, n) /\ StringsOf(r) = StringsOf(h) \ dead

\* Sweeping a chain removes the dead strings from the table.
LEMMA SweepEffect ==
  ASSUME NEW n \in Nat \ {0}, NEW h, Chained(h, n), NEW k \in 0 .. n - 1,
         NEW dead \in SUBSET ToSet(h[k])
  PROVE  Swept([h EXCEPT ![k] = Undead(@, dead)], h, n, dead)
<1> DEFINE u == Undead(h[k], dead)
           r == [h EXCEPT ![k] = Undead(@, dead)]
<1>1. h \in [0 .. n - 1 -> Seq(Texts)] /\ DOMAIN h = 0 .. n - 1
  BY DEF Chained
<1>2. h[k] \in Seq(Texts) /\ IsInjective(h[k])
  BY <1>1 DEF Chained
<1>3. u \in Seq(Texts) /\ ToSet(u) = ToSet(h[k]) \ dead /\ IsInjective(u)
  BY <1>2, UndeadEffect
<1>4. r[k] = u /\ \A i \in 0 .. n - 1 : i # k => r[i] = h[i]
  BY <1>1
<1>5. r \in [0 .. n - 1 -> Seq(Texts)] /\ DOMAIN r = 0 .. n - 1
  <2> HIDE DEF u
  <2>1. r = [h EXCEPT ![k] = u]
    BY <1>1 DEF u
  <2> QED BY <1>1, <1>3, <2>1
<1> HIDE DEF r, u
<1>6. Chained(r, n)
  <2>1. ASSUME NEW i \in 0 .. n - 1
        PROVE  IsInjective(r[i]) /\ \A t \in ToSet(r[i]) : TextHash[t] % n = i
    BY <1>3, <1>4 DEF Chained
  <2> QED BY <1>5, <2>1 DEF Chained
<1>7. ASSUME NEW i \in 0 .. n - 1
      PROVE  ToSet(r[i]) = ToSet(h[i]) \ dead
  <2>1. \A t \in ToSet(h[i]) : t \in dead => i = k
    BY DEF Chained
  <2> QED BY <1>3, <1>4, <2>1
<1>8. StringsOf(r) = StringsOf(h) \ dead
  BY <1>1, <1>5, <1>7 DEF StringsOf
<1>9. Swept(r, h, n, dead)
  BY <1>6, <1>8 DEF Swept
<1> QED BY <1>9 DEF r

-----------------------------------------------------------------------------
(* The invariant. *)

\* The chains hold exactly the strings that have a color; strnum counts them.
StrType ==
  /\ Size(strhash) \in Nat \ {0} /\ Chained(strhash, Size(strhash))
  /\ curwhite \in {0, 1} /\ strgc \in {"pause", "mark", "sweepstring", "sweep"} /\ sweepstr \in Nat
  /\ shade \in [Texts -> 0 .. 3]
  /\ \A t \in Texts : t \in Interned <=> shade[t] # Absent
  /\ IsFiniteSet(Interned) /\ strnum = Cardinality(Interned)
  /\ strheld \subseteq Interned

\* Only the sweep meets dead strings, none of them held and none in a chain
\* that it has left behind.
StrColors ==
  /\ strgc \in {"pause", "sweep"} => \A t \in Interned : shade[t] = curwhite
  /\ strgc = "mark" => \A t \in Interned : shade[t] \in {curwhite, Black}
  /\ strgc = "sweepstring" =>
       /\ sweepstr < Size(strhash)
       /\ \A t \in strheld : shade[t] # 1 - curwhite
       /\ \A t \in Interned : Home(strhash, t) < sweepstr => shade[t] = curwhite

StrInv == StrType /\ StrColors

\* The invariant of a state whose table is known to be in order.
LEMMA TypeOfTable ==
  ASSUME NEW n \in Nat \ {0}, Chained(strhash, n)
  PROVE  Size(strhash) = n /\ Interned = StringsOf(strhash)
<1>1. DOMAIN strhash = 0 .. n - 1
  BY DEF Chained
<1> QED BY <1>1, SizeOf DEF Interned, StringsOf

\* What the invariant says of chains.
LEMMA InvChains ==
  ASSUME StrType
  PROVE  /\ Interned \subseteq Texts /\ Interned = StringsOf(strhash)
         /\ DOMAIN strhash = 0 .. Size(strhash) - 1
         /\ \A t \in Texts : /\ Home(strhash, t) \in 0 .. Size(strhash) - 1
                             /\ t \in Interned <=> t \in ToSet(strhash[Home(strhash, t)])
         /\ \A i \in 0 .. Size(strhash) - 1 : \A t \in ToSet(strhash[i]) : t \in Interned /\ Home(strhash, t) = i
<1>1. Size(strhash) \in Nat \ {0} /\ Chained(strhash, Size(strhash))
  BY DEF StrType
<1>2. Interned = StringsOf(strhash)
  BY DEF Interned, StringsOf
<1>3. \A t \in Texts : TextHash[t] % Size(strhash) \in 0 .. Size(strhash) - 1
  BY <1>1, HomeOf
<1>4. /\ StringsOf(strhash) \subseteq Texts
      /\ DOMAIN strhash = 0 .. Size(strhash) - 1
      /\ \A t \in Texts : t \in StringsOf(strhash) <=> t \in ToSet(strhash[TextHash[t] % Size(strhash)])
      /\ \A i \in 0 .. Size(strhash) - 1 : \A t \in ToSet(strhash[i]) :
           t \in StringsOf(strhash) /\ TextHash[t] % Size(strhash) = i
  BY <1>1, InChain
<1> QED BY <1>2, <1>3, <1>4 DEF Home

\* The invariant implies what is checked.
LEMMA StrInvChains == StrInv => StrChains
<1> SUFFICES ASSUME StrInv
             PROVE  StrChains
  OBVIOUS
<1>1. /\ DOMAIN strhash = 0 .. Size(strhash) - 1
      /\ \A i \in 0 .. Size(strhash) - 1 : \A t \in ToSet(strhash[i]) : t \in Interned /\ Home(strhash, t) = i
  BY InvChains DEF StrInv
<1>2. StrUnique
  <2>1. ASSUME NEW i \in 0 .. Size(strhash) - 1
        PROVE  \A j, k \in 1 .. Len(strhash[i]) : strhash[i][j] = strhash[i][k] => j = k
    <3>1. Chained(strhash, Size(strhash))
      BY DEF StrInv, StrType
    <3>2. strhash[i] \in Seq(Texts) /\ IsInjective(strhash[i])
      BY <3>1 DEF Chained
    <3> QED BY <3>2 DEF IsInjective
  <2>2. strnum = Cardinality(Interned)
    BY DEF StrInv, StrType
  <2> QED BY <1>1, <2>1, <2>2 DEF StrUnique
<1>3. StrAllWhite
  <2>1. ASSUME strgc = "sweepstring", NEW i \in 0 .. sweepstr - 1, NEW t \in ToSet(strhash[i])
        PROVE  shade[t] = curwhite
    <3>1. sweepstr \in Nat /\ Size(strhash) \in Nat /\ sweepstr < Size(strhash)
      BY <2>1 DEF StrInv, StrType, StrColors
    <3>2. i \in 0 .. Size(strhash) - 1 /\ i < sweepstr
      BY <3>1
    <3> QED BY <1>1, <2>1, <3>2 DEF StrInv, StrColors
  <2> QED BY <2>1 DEF StrAllWhite, StrInv, StrColors
<1> QED BY <1>2, <1>3 DEF StrChains

LEMMA StrInitInv == StrTabInit => StrInv
<1> SUFFICES ASSUME StrTabInit
             PROVE  StrInv
  OBVIOUS
<1>1. PICK n \in StrSizes : strhash = [i \in 0 .. n - 1 |-> <<>>]
  BY DEF StrTabInit
<1>2. n \in Nat \ {0}
  BY StrTabAssumption
<1>3. DOMAIN <<>> = {} /\ DOMAIN strhash = 0 .. n - 1 /\ \A i \in 0 .. n - 1 : strhash[i] = <<>>
  BY <1>1
<1>4. ToSet(<<>>) = {} /\ IsInjective(<<>>)
  BY <1>3 DEF ToSet, IsInjective
<1>5. strhash \in [0 .. n - 1 -> Seq(Texts)]
  BY <1>1
<1>6. Chained(strhash, n) /\ Interned = {}
  BY <1>3, <1>4, <1>5 DEF Chained, Interned
<1>7. Size(strhash) = n
  BY <1>2, <1>6, TypeOfTable
<1>8. IsFiniteSet({}) /\ Cardinality({}) = 0
  BY FS_EmptySet
<1>9. StrType
  BY <1>2, <1>6, <1>7, <1>8 DEF StrType, StrTabInit, Absent
<1>10. StrColors
  BY <1>6 DEF StrColors, StrTabInit
<1> QED BY <1>9, <1>10 DEF StrInv

-----------------------------------------------------------------------------
(* The steps. *)

\* A step that leaves the table alone.
LEMMA SameTable ==
  ASSUME StrType, UNCHANGED <<strhash, strnum>>, curwhite' \in {0, 1},
         strgc' \in {"pause", "mark", "sweepstring", "sweep"}, sweepstr' \in Nat,
         shade' \in [Texts -> 0 .. 3], \A t \in Texts : shade[t] = Absent <=> shade'[t] = Absent,
         strheld' \subseteq Interned
  PROVE  StrType' /\ Interned' = Interned
<1>1. Interned' = Interned
  BY DEF Interned
<1>2. Size(strhash)' = Size(strhash) /\ Chained(strhash, Size(strhash))'
  BY DEF StrType, Size, Chained
<1> QED BY <1>1, <1>2 DEF StrType

\* A step whose table is in order.
LEMMA NewTable ==
  ASSUME NEW n \in Nat \ {0}, Chained(strhash, n)', IsFiniteSet(StringsOf(strhash)'),
         strnum' = Cardinality(StringsOf(strhash)'), strheld' \subseteq StringsOf(strhash)',
         \A t \in Texts : t \in StringsOf(strhash)' <=> shade'[t] # Absent,
         curwhite' \in {0, 1}, strgc' \in {"pause", "mark", "sweepstring", "sweep"}, sweepstr' \in Nat,
         shade' \in [Texts -> 0 .. 3]
  PROVE  StrType' /\ Interned' = StringsOf(strhash)' /\ Size(strhash)' = n
<1>1. DOMAIN strhash' = 0 .. n - 1
  BY DEF Chained
<1>2. Size(strhash)' = n
  BY <1>1, SizeOf
<1>3. Interned' = StringsOf(strhash)'
  BY DEF Interned, StringsOf
<1> QED BY <1>2, <1>3 DEF StrType

\* Interning a string that exists.
LEMMA FoundStep ==
  ASSUME StrInv, NEW t \in Texts, StrFound(t)
  PROVE  StrInv' /\ Strings!SetIntern(t)
<1>1. StrType /\ StrColors
  BY DEF StrInv
<1>2. t \in Interned
  BY <1>1, InvChains DEF StrFound
<1>3. /\ shade' \in [Texts -> 0 .. 3]
      /\ \A u \in Texts : shade'[u] = IF u = t /\ shade[t] = 1 - curwhite THEN curwhite ELSE shade[u]
  BY <1>1 DEF StrFound, StrType
<1>4. UNCHANGED <<strhash, strnum, curwhite, strgc, sweepstr>> /\ strheld' = strheld \cup {t}
  BY DEF StrFound
<1>5. curwhite \in {0, 1} /\ \A u \in Texts : shade[u] = Absent <=> shade'[u] = Absent
  BY <1>1, <1>3 DEF StrType, Absent
<1>6. strheld' \subseteq Interned
  BY <1>1, <1>2, <1>4 DEF StrType
<1>7. StrType' /\ Interned' = Interned
  BY <1>1, <1>3, <1>4, <1>5, <1>6, SameTable DEF StrType
<1>8. StrColors'
  <2>1. Interned \subseteq Texts /\ strheld' \subseteq Texts
    BY <1>1, <1>6, InvChains
  <2>2. Size(strhash)' = Size(strhash) /\ \A u : Home(strhash, u)' = Home(strhash, u)
    BY <1>4 DEF Size, Home
  <2>3. \A u \in Interned : shade[u] = curwhite => shade'[u] = curwhite
    BY <1>3, <2>1
  <2>4. \A u \in Interned : shade[u] \in {curwhite, Black} => shade'[u] \in {curwhite, Black}
    BY <1>3, <2>1
  <2>5. strgc = "sweepstring" => \A u \in strheld' : shade'[u] # 1 - curwhite
    <3>1. curwhite # 1 - curwhite
      BY <1>5
    <3> QED BY <1>1, <1>3, <1>4, <2>1, <3>1 DEF StrColors
  <2> QED BY <1>1, <1>4, <1>7, <2>2, <2>3, <2>4, <2>5 DEF StrColors
<1>9. Strings!SetIntern(t)
  BY <1>2, <1>4, <1>7 DEF Strings!SetIntern
<1> QED BY <1>7, <1>8, <1>9 DEF StrInv

\* Creating a string; the table may grow, or fail to.
LEMMA CreateStep ==
  ASSUME StrInv, NEW t \in Texts, NEW oom \in BOOLEAN, StrCreate(t, oom)
  PROVE  StrInv' /\ (Strings!SetIntern(t) \/ Strings!SetLose(t))
<1> DEFINE n == Size(strhash)
           linked == [strhash EXCEPT ![Home(strhash, t)] = <<t>> \o @]
<1>1. StrType /\ StrColors
  BY DEF StrInv
<1>2. n \in Nat \ {0} /\ Chained(strhash, n) /\ Interned = StringsOf(strhash)
  BY <1>1, InvChains DEF StrType
<1>3. t \notin Interned
  BY <1>1, InvChains DEF StrCreate
<1>4. /\ strhash' = linked \/ strhash' = lj_str_resize(linked, 2 * n)
      /\ strnum' = strnum + 1 /\ shade' = [shade EXCEPT ![t] = curwhite]
      /\ strheld' = strheld \/ strheld' = strheld \cup {t}
      /\ UNCHANGED <<curwhite, strgc, sweepstr>>
  BY DEF StrCreate
<1>5. Chained(linked, n) /\ StringsOf(linked) = Interned \cup {t}
  <2>1. Linked(linked, strhash, n, t)
    BY <1>2, <1>3, LinkEffect DEF Home
  <2> QED BY <1>2, <2>1 DEF Linked
<1> HIDE DEF linked, n
<1>6. PICK m \in Nat \ {0} : /\ Chained(strhash', m) /\ StringsOf(strhash') = Interned \cup {t}
                             /\ strgc = "sweepstring" => m = n
  <2>1. CASE strhash' = linked
    BY <1>2, <1>5, <2>1
  <2>2. CASE strhash' = lj_str_resize(linked, 2 * n)
    <3>1. 2 * n \in Nat \ {0}
      BY <1>2
    <3>2. \/ strhash' = linked
          \/ strgc # "sweepstring" /\ Chained(strhash', 2 * n) /\ StringsOf(strhash') = StringsOf(linked)
      BY <1>2, <1>5, <2>2, <3>1, ResizeEffect
    <3> QED BY <1>2, <1>5, <3>1, <3>2
  <2> QED BY <1>4, <2>1, <2>2
<1>7. /\ curwhite \in {0, 1} /\ shade' \in [Texts -> 0 .. 3] /\ shade'[t] = curwhite
      /\ \A u \in Texts : u # t => shade'[u] = shade[u]
  BY <1>1, <1>4 DEF StrType
<1>8. \A u \in Texts : u \in StringsOf(strhash') <=> shade'[u] # Absent
  BY <1>1, <1>6, <1>7 DEF StrType, Absent
<1>9. IsFiniteSet(StringsOf(strhash')) /\ strnum' = Cardinality(StringsOf(strhash'))
  BY <1>1, <1>3, <1>4, <1>6, FS_AddElement DEF StrType
<1>10. strheld' \subseteq StringsOf(strhash')
  BY <1>1, <1>4, <1>6 DEF StrType
<1>11. StrType' /\ Interned' = Interned \cup {t} /\ Size(strhash') = m
  BY <1>1, <1>4, <1>6, <1>7, <1>8, <1>9, <1>10, NewTable DEF StrType
<1>12. StrColors'
  <2>1. \A u \in Interned : u \in Texts /\ shade'[u] = shade[u]
    BY <1>1, <1>3, <1>7, InvChains
  <2>2. strgc = "sweepstring" => /\ sweepstr < Size(strhash')
                                 /\ \A u : Home(strhash', u) = Home(strhash, u)
    BY <1>1, <1>6, <1>11 DEF StrColors, Home, n
  <2>3. strgc = "sweepstring" => \A u \in strheld' : shade'[u] # 1 - curwhite
    <3>1. curwhite # 1 - curwhite /\ strheld \subseteq Interned
      BY <1>1, <1>7 DEF StrType
    <3> QED BY <1>1, <1>4, <1>7, <2>1, <3>1 DEF StrColors
  <2> QED BY <1>1, <1>4, <1>7, <1>11, <2>1, <2>2, <2>3 DEF StrColors
<1>13. Strings!SetIntern(t) \/ Strings!SetLose(t)
  BY <1>4, <1>11 DEF Strings!SetIntern, Strings!SetLose
<1> QED BY <1>11, <1>12, <1>13 DEF StrInv

\* The string is no longer needed.
LEMMA DropStep ==
  ASSUME StrInv, NEW t \in Texts, StrDrop(t)
  PROVE  StrInv' /\ Strings!SetDrop(t)
<1>1. StrType /\ StrColors /\ strheld' = strheld \ {t} /\ UNCHANGED <<strhash, strnum, shade, curwhite, strgc, sweepstr>>
  BY DEF StrInv, StrDrop
<1>2. StrType' /\ Interned' = Interned
  <2>1. strheld' \subseteq Interned
    BY <1>1 DEF StrType
  <2> QED BY <1>1, <2>1, SameTable DEF StrType
<1>3. StrColors'
  <2>1. Size(strhash)' = Size(strhash) /\ \A u : Home(strhash, u)' = Home(strhash, u)
    BY <1>1 DEF Size, Home
  <2> QED BY <1>1, <1>2, <2>1 DEF StrColors
<1> QED BY <1>1, <1>2, <1>3 DEF StrInv, Strings!SetDrop

\* The mark phase: no string becomes dead before the white changes, and then
\* none that is held.
LEMMA MarkStep ==
  ASSUME StrInv, StrGCStart \/ (\E t \in Texts : StrMark(t)) \/ StrAtomic \/ StrFullGC
  PROVE  StrInv' /\ UNCHANGED <<Interned, strheld>>
<1>1. StrType /\ StrColors /\ Interned \subseteq Texts
  BY InvChains DEF StrInv
<1>2. /\ UNCHANGED <<strhash, strnum, strheld>>
      /\ Size(strhash)' = Size(strhash) /\ Size(strhash) \in Nat \ {0}
      /\ \A u : Home(strhash, u)' = Home(strhash, u)
      /\ \A u \in Texts : Home(strhash, u) \in Nat
  <2>1. UNCHANGED <<strhash, strnum, strheld>>
    BY DEF StrGCStart, StrMark, StrAtomic, StrFullGC
  <2>2. Size(strhash) \in Nat \ {0} /\ \A u \in Texts : Home(strhash, u) \in Nat
    BY <1>1, InvChains DEF StrType
  <2> QED BY <2>1, <2>2 DEF Size, Home
<1>3. strheld \subseteq Interned /\ curwhite \in {0, 1} /\ sweepstr \in Nat /\ shade \in [Texts -> 0 .. 3]
      /\ \A t \in Texts : t \in Interned <=> shade[t] # Absent
  BY <1>1 DEF StrType
<1>4. CASE StrGCStart
  <2>1. UNCHANGED <<shade, curwhite, sweepstr>> /\ strgc = "pause" /\ strgc' = "mark"
    BY <1>4 DEF StrGCStart
  <2>2. StrType' /\ Interned' = Interned
    BY <1>1, <1>2, <1>3, <2>1, SameTable
  <2> QED BY <1>1, <1>2, <2>1, <2>2 DEF StrColors, StrInv
<1>5. ASSUME NEW t \in Texts, StrMark(t)
      PROVE  StrInv' /\ UNCHANGED <<Interned, strheld>>
  <2>1. /\ UNCHANGED <<curwhite, sweepstr>> /\ strgc = "mark" /\ strgc' = "mark"
        /\ t \in strheld /\ shade[t] = curwhite /\ shade' = [shade EXCEPT ![t] = Black]
    BY <1>5 DEF StrMark
  <2>2. /\ shade' \in [Texts -> 0 .. 3] /\ shade'[t] = Black
        /\ \A u \in Texts : u # t => shade'[u] = shade[u]
    BY <1>3, <2>1 DEF Black
  <2>3. StrType' /\ Interned' = Interned
    <3>1. \A u \in Texts : shade[u] = Absent <=> shade'[u] = Absent
      BY <1>3, <2>1, <2>2 DEF Absent, Black
    <3> QED BY <1>1, <1>2, <1>3, <2>1, <2>2, <3>1, SameTable
  <2> QED BY <1>1, <1>2, <2>1, <2>2, <2>3 DEF StrColors, StrInv
<1>6. CASE StrAtomic
  <2>1. /\ strgc = "mark" /\ strgc' = "sweepstring" /\ sweepstr' = 0 /\ curwhite' = 1 - curwhite
        /\ shade' = [t \in Texts |-> IF t \in strheld THEN Black ELSE shade[t]]
    BY <1>6 DEF StrAtomic
  <2>2. /\ curwhite' \in {0, 1} /\ 1 - curwhite' = curwhite
        /\ shade' \in [Texts -> 0 .. 3]
        /\ \A u \in strheld : shade'[u] = Black
        /\ \A u \in Texts : shade[u] = Absent <=> shade'[u] = Absent
    BY <1>1, <1>3, <2>1 DEF Black, Absent
  <2>3. StrType' /\ Interned' = Interned
    BY <1>1, <1>2, <1>3, <2>1, <2>2, SameTable
  <2>4. Black # curwhite /\ strheld' = strheld
    BY <1>2, <1>3 DEF Black
  <2>5. \A u \in Interned' : ~ (Home(strhash, u)' < sweepstr')
    BY <1>1, <1>2, <2>1, <2>3
  <2>6. StrColors'
    BY <1>2, <2>1, <2>2, <2>3, <2>4, <2>5 DEF StrColors
  <2> QED BY <1>2, <2>3, <2>6 DEF StrInv
<1>7. CASE StrFullGC
  <2>1. UNCHANGED <<shade, curwhite>> /\ strgc \in {"pause", "mark"} /\ strgc' = "sweepstring" /\ sweepstr' = 0
    BY <1>7 DEF StrFullGC
  <2>2. StrType' /\ Interned' = Interned
    BY <1>1, <1>2, <1>3, <2>1, SameTable
  <2>3. \A u \in strheld : shade[u] # 1 - curwhite
    BY <1>1, <1>3, <2>1 DEF StrColors, Black
  <2>4. \A u \in Interned' : ~ (Home(strhash, u)' < sweepstr')
    BY <1>1, <1>2, <2>1, <2>2
  <2>5. StrColors'
    BY <1>2, <2>1, <2>2, <2>3, <2>4 DEF StrColors
  <2> QED BY <1>2, <2>2, <2>5 DEF StrInv
<1> QED BY <1>4, <1>5, <1>6, <1>7

\* The sweep of a chain.
LEMMA SweepStep ==
  ASSUME StrInv, StrSweepChain
  PROVE  StrInv' /\ Strings!SetCollect
<1> DEFINE n == Size(strhash)
           dead == {t \in ToSet(strhash[sweepstr]) : shade[t] = 1 - curwhite}
<1>1. StrType /\ StrColors
  BY DEF StrInv
<1>2. /\ strgc = "sweepstring" /\ UNCHANGED <<curwhite, strheld>>
      /\ strhash' = [strhash EXCEPT ![sweepstr] = Undead(@, dead)]
      /\ strnum' = strnum - Cardinality(dead)
      /\ shade' = [t \in Texts |-> IF t \in dead THEN Absent
                                   ELSE IF t \in ToSet(strhash[sweepstr]) THEN curwhite ELSE shade[t]]
      /\ sweepstr' = sweepstr + 1
      /\ strgc' = IF sweepstr + 1 > n - 1 THEN "sweep" ELSE "sweepstring"
  BY DEF StrSweepChain
<1>3. /\ n \in Nat \ {0} /\ Chained(strhash, n) /\ Interned = StringsOf(strhash) /\ Interned \subseteq Texts
      /\ sweepstr \in 0 .. n - 1
      /\ \A t \in Texts : t \in ToSet(strhash[sweepstr]) <=> t \in Interned /\ Home(strhash, t) = sweepstr
  BY <1>1, <1>2, InvChains DEF StrType, StrColors
<1>4. \A t \in Texts : t \in dead <=> t \in Interned /\ Home(strhash, t) = sweepstr /\ shade[t] = 1 - curwhite
  BY <1>3
<1>5. dead \in SUBSET ToSet(strhash[sweepstr]) /\ dead \subseteq Interned
  <2>1. ToSet(strhash[sweepstr]) \subseteq Interned
    BY <1>1, <1>3, InvChains
  <2> QED BY <2>1
<1>6. \A t \in Texts : shade'[t] = IF t \in dead THEN Absent
                                   ELSE IF t \in Interned /\ Home(strhash, t) = sweepstr THEN curwhite ELSE shade[t]
  <2> HIDE DEF dead
  <2> QED BY <1>2, <1>3
<1> HIDE DEF dead, n
<1>7. Chained(strhash', n) /\ StringsOf(strhash') = Interned \ dead
  <2> DEFINE r == [strhash EXCEPT ![sweepstr] = Undead(@, dead)]
  <2>1. Swept(r, strhash, n, dead)
    BY <1>3, <1>5, SweepEffect
  <2>2. strhash' = r
    BY <1>2
  <2> HIDE DEF r
  <2> QED BY <1>3, <2>1, <2>2 DEF Swept
<1>8. curwhite \in {0, 1} /\ shade \in [Texts -> 0 .. 3] /\ strheld \subseteq Interned /\ curwhite # 1 - curwhite
      /\ curwhite # Absent /\ \A t \in Texts : t \in Interned <=> shade[t] # Absent
  BY <1>1 DEF StrType, Absent
<1>9. shade' \in [Texts -> 0 .. 3]
  <2>1. DOMAIN shade' = Texts /\ shade' = [t \in Texts |-> shade'[t]]
    BY <1>2
  <2>2. \A t \in Texts : shade'[t] \in 0 .. 3
    BY <1>6, <1>8 DEF Absent
  <2> QED BY <2>1, <2>2
<1>10. \A t \in Texts : t \in StringsOf(strhash') <=> shade'[t] # Absent
  BY <1>6, <1>7, <1>8
<1>11. IsFiniteSet(StringsOf(strhash')) /\ strnum' = Cardinality(StringsOf(strhash'))
  <2>1. IsFiniteSet(Interned) /\ strnum = Cardinality(Interned) /\ Interned \cap dead = dead
    BY <1>1, <1>5 DEF StrType
  <2>2. IsFiniteSet(Interned \ dead) /\ Cardinality(Interned \ dead) = Cardinality(Interned) - Cardinality(Interned \cap dead)
    BY <2>1, FS_Difference
  <2> QED BY <1>2, <1>7, <2>1, <2>2
<1>12. strheld \subseteq Interned \ dead
  <2>1. \A t \in strheld : t \in Texts /\ shade[t] # 1 - curwhite
    BY <1>1, <1>2, <1>3, <1>8 DEF StrColors
  <2> QED BY <1>4, <1>8, <2>1
<1>13. StrType' /\ Interned' = Interned \ dead /\ Size(strhash)' = n
  <2>1. /\ curwhite' \in {0, 1} /\ strgc' \in {"pause", "mark", "sweepstring", "sweep"}
        /\ sweepstr' \in Nat /\ strheld' \subseteq StringsOf(strhash')
    <3>1. strgc' \in {"sweep", "sweepstring"} /\ sweepstr + 1 \in Nat
      BY <1>2, <1>3
    <3> QED BY <1>2, <1>7, <1>8, <1>12, <3>1
  <2> QED BY <1>3, <1>7, <1>9, <1>10, <1>11, <2>1, NewTable
<1>14. \A t \in Interned' : t \in Texts /\ (Home(strhash, t)' < sweepstr + 1 => shade'[t] = curwhite)
  <2> SUFFICES ASSUME NEW t \in Interned'
               PROVE  t \in Texts /\ (Home(strhash, t)' < sweepstr + 1 => shade'[t] = curwhite)
    OBVIOUS
  <2>1. t \in Interned /\ t \notin dead /\ t \in Texts
    BY <1>3, <1>13
  <2>2. Home(strhash, t)' = Home(strhash, t)
    BY <1>13 DEF Home, n
  <2>3. Home(strhash, t) \in Nat
    BY <1>1, <2>1, InvChains
  <2>4. CASE Home(strhash, t) = sweepstr
    BY <1>6, <2>1, <2>4
  <2>5. CASE Home(strhash, t) # sweepstr
    <3>1. Home(strhash, t) < sweepstr => shade[t] = curwhite
      BY <1>1, <1>2, <2>1 DEF StrColors
    <3> QED BY <1>3, <1>6, <2>1, <2>2, <2>3, <2>5, <3>1
  <2> QED BY <2>4, <2>5
<1>15. StrColors'
  <2>1. strgc' = "sweepstring" => sweepstr' < n
    BY <1>2, <1>3
  <2>2. strgc' = "sweep" => \A t \in Interned' : shade'[t] = curwhite
    <3>1. ASSUME strgc' = "sweep", NEW t \in Interned'
          PROVE  Home(strhash, t)' < sweepstr + 1
      <4>1. Home(strhash, t)' \in 0 .. Size(strhash)' - 1
        <5>1. TextHash[t] % n \in 0 .. n - 1
          BY <1>3, <1>14, HomeOf
        <5> QED BY <1>13, <5>1 DEF Home
      <4>2. sweepstr + 1 > n - 1
        BY <1>2, <3>1
      <4> QED BY <1>3, <1>13, <4>1, <4>2
    <3> QED BY <1>14, <3>1
  <2>3. \A t \in strheld : shade'[t] # 1 - curwhite
    <3>1. \A t \in strheld : t \in Texts /\ t \notin dead /\ shade[t] # 1 - curwhite
      BY <1>1, <1>2, <1>3, <1>8, <1>12 DEF StrColors
    <3> QED BY <1>6, <1>8, <3>1
  <2> QED BY <1>2, <1>13, <1>14, <2>1, <2>2, <2>3 DEF StrColors
<1>16. Strings!SetCollect
  BY <1>2, <1>12, <1>13 DEF Strings!SetCollect
<1> QED BY <1>13, <1>15, <1>16 DEF StrInv

\* The end of the sweep; the table may shrink.
LEMMA SweepEndStep ==
  ASSUME StrInv, StrSweepEnd
  PROVE  StrInv' /\ UNCHANGED <<Interned, strheld>>
<1> DEFINE n == Size(strhash)
<1>1. StrType /\ StrColors
  BY DEF StrInv
<1>2. n \in Nat \ {0} /\ Chained(strhash, n) /\ Interned = StringsOf(strhash)
  BY <1>1, InvChains DEF StrType
<1>3. /\ strgc = "sweep" /\ strgc' = "pause" /\ UNCHANGED <<strnum, shade, curwhite, sweepstr, strheld>>
      /\ \/ strhash' = strhash
         \/ n > 2 * LJ_MIN_STRTAB /\ strhash' = lj_str_resize(strhash, n \div 2)
  BY DEF StrSweepEnd
<1> HIDE DEF n
<1>4. PICK m \in Nat \ {0} : Chained(strhash', m) /\ StringsOf(strhash') = StringsOf(strhash)
  <2>1. CASE strhash' = strhash
    BY <1>2, <2>1
  <2>2. CASE n > 2 * LJ_MIN_STRTAB /\ strhash' = lj_str_resize(strhash, n \div 2)
    <3>1. n \div 2 \in Nat \ {0}
      BY <1>2, <2>2, StrTabAssumption
    <3>2. \/ strhash' = strhash
          \/ strgc # "sweepstring" /\ Chained(strhash', n \div 2) /\ StringsOf(strhash') = StringsOf(strhash)
      BY <1>2, <2>2, <3>1, ResizeEffect
    <3> QED BY <1>2, <3>1, <3>2
  <2> QED BY <1>3, <2>1, <2>2
<1>5. StrType' /\ Interned' = Interned
  <2>1. /\ IsFiniteSet(StringsOf(strhash')) /\ strnum' = Cardinality(StringsOf(strhash'))
        /\ strheld' \subseteq StringsOf(strhash')
        /\ \A t \in Texts : t \in StringsOf(strhash') <=> shade'[t] # Absent
    BY <1>1, <1>2, <1>3, <1>4 DEF StrType
  <2>2. curwhite' \in {0, 1} /\ sweepstr' \in Nat /\ shade' \in [Texts -> 0 .. 3]
    BY <1>1, <1>3 DEF StrType
  <2> QED BY <1>2, <1>3, <1>4, <2>1, <2>2, NewTable
<1>6. StrColors'
  BY <1>1, <1>3, <1>5 DEF StrColors
<1> QED BY <1>3, <1>5, <1>6 DEF StrInv

\* Every step keeps the invariant and is a step of the set of strings, or none.
LEMMA StrStep ==
  ASSUME StrInv, [StrTabNext]_strVars
  PROVE  StrInv' /\ [Strings!SetNext]_<<Interned, strheld>>
<1>1. ASSUME NEW t \in Texts, lj_str_new(t)
      PROVE  StrInv' /\ [Strings!SetNext]_<<Interned, strheld>>
  <2>1. CASE StrFound(t)
    BY <2>1, FoundStep DEF Strings!SetNext
  <2>2. ASSUME NEW oom \in BOOLEAN, StrCreate(t, oom)
        PROVE  StrInv' /\ [Strings!SetNext]_<<Interned, strheld>>
    BY <2>2, CreateStep DEF Strings!SetNext
  <2> QED BY <1>1, <2>1, <2>2 DEF lj_str_new
<1>2. ASSUME NEW t \in Texts, StrDrop(t)
      PROVE  StrInv' /\ [Strings!SetNext]_<<Interned, strheld>>
  BY <1>2, DropStep DEF Strings!SetNext
<1>3. CASE StrGCStart \/ (\E t \in Texts : StrMark(t)) \/ StrAtomic \/ StrFullGC
  BY <1>3, MarkStep
<1>4. CASE StrSweepChain
  BY <1>4, SweepStep DEF Strings!SetNext
<1>5. CASE StrSweepEnd
  BY <1>5, SweepEndStep
<1>6. CASE UNCHANGED strVars
  <2>1. UNCHANGED <<strhash, strnum, shade, curwhite, strgc, sweepstr, strheld>>
    BY <1>6 DEF strVars
  <2>2. Interned' = Interned /\ Size(strhash)' = Size(strhash) /\ \A u : Home(strhash, u)' = Home(strhash, u)
    BY <2>1 DEF Interned, Size, Home
  <2>3. StrType'
    BY <2>1, SameTable DEF StrInv, StrType
  <2>4. StrColors'
    BY <2>1, <2>2 DEF StrInv, StrColors
  <2> QED BY <2>1, <2>2, <2>3, <2>4 DEF StrInv
<1> QED BY <1>1, <1>2, <1>3, <1>4, <1>5, <1>6 DEF StrTabNext

\* After any resize in the middle of a collector's cycle every string is found
\* in its chain, there is one string of a text, strnum counts them, and the
\* sweep by index leaves no string behind it that is not of the current white.
THEOREM StrChainsCorrect == StrTabSpec => []StrChains
<1>1. StrInv /\ [StrTabNext]_strVars => StrInv'
  BY StrStep
<1> QED BY <1>1, StrInitInv, StrInvChains, PTL DEF StrTabSpec

\* The table implements a set of strings: interning a text twice gives one
\* string, also when the sweep had found it dead; a string that the program
\* holds is never collected.
THEOREM StrTabImplementsSetCorrect == StrTabSpec => StrTabImplementsSet
<1>1. StrTabInit => Strings!SetInit
  <2>1. ASSUME StrTabInit
        PROVE  Interned = {} /\ strheld = {}
    <3>1. PICK n \in StrSizes : strhash = [i \in 0 .. n - 1 |-> <<>>]
      BY <2>1 DEF StrTabInit
    <3>2. DOMAIN <<>> = {} /\ DOMAIN strhash = 0 .. n - 1 /\ \A i \in 0 .. n - 1 : strhash[i] = <<>>
      BY <3>1
    <3> QED BY <2>1, <3>2 DEF StrTabInit, Interned, ToSet
  <2> QED BY <2>1 DEF Strings!SetInit
<1>2. StrInv /\ [StrTabNext]_strVars => StrInv'
  BY StrStep
<1>3. StrInv /\ [StrTabNext]_strVars => [Strings!SetNext]_<<Interned, strheld>>
  BY StrStep
<1> QED BY <1>1, <1>2, <1>3, StrInitInv, PTL DEF StrTabSpec, StrTabImplementsSet, Strings!SetSpec
=============================================================================
