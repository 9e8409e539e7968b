-------------------------------- MODULE Tab --------------------------------
(***************************************************************************)
(* One table of lj_tab.c: its array part, its hash part with Brent's       *)
(* variation of chained scatter tables, the rehash that divides integer    *)
(* keys between the two, traversal, length, and the negative metamethod    *)
(* cache of a metatable.                                                   *)
(*                                                                         *)
(* Removing a key only stores nil: the node keeps its dead key and its     *)
(* place in a chain, until a rehash or until a new key with that main      *)
(* position overwrites it.  A dead string may be collected, and a new      *)
(* string with another hash value be interned at its address: the node's   *)
(* key is then "pseudo-resurrected" (TabReintern, for the strings in       *)
(* Reborn).                                                                *)
(***************************************************************************)
EXTENDS Integers, Sequences, FiniteSets

CONSTANTS
  INT_MAX,
  IntKeys,      \* keys that are integers
  StrKeys,      \* addresses of strings
  Reborn,       \* the ones of them that may be collected and interned again
  IntHash,      \* hash values of the integers (hashnum)
  StrHash,      \* hash values of the strings at first
  StrHashes,    \* hash values a string that is interned again may have
  TabVals,      \* values other than nil
  TabNil,       \* nil, as a value and as a key
  MMName,       \* the string that names the metamethod which is cached
  NewSizes,     \* <<asize, hbits>> of tables that lj_tab_new() creates
  LJ_MAX_ABITS, \* number of bins of rehashtab()
  TabOps        \* operations beyond stores, of {"next", "clear", "rehash", "tsetm", "dup"}

TabKeys == IntKeys \cup StrKeys

ASSUME TabAssumption ==
  /\ INT_MAX \in Nat /\ IntKeys \subseteq 0 .. INT_MAX /\ TabNil \notin TabKeys \cup TabVals
  /\ Reborn \subseteq StrKeys /\ MMName \in StrKeys
  /\ Nat \cap StrKeys = {} /\ TabNil \notin Nat
  /\ IntHash \in [IntKeys -> Nat] /\ StrHash \in [StrKeys -> Nat] /\ StrHashes \subseteq Nat
  /\ NewSizes \subseteq Nat \X Nat /\ LJ_MAX_ABITS \in Nat

VARIABLES
  tab,          \* [arr, node, free, nested]: the table
  hash,         \* the hash value of the string at each address
  nomm,         \* the bit of MMName in t->nomm: "the metamethod is known to be absent"
  iter,         \* the traversal: [on, key, seen, due, wrong]
  stored        \* history: what was stored last under each key

tabVars == <<tab, hash, nomm, iter, stored>>

\* The map of the table's user, kept by the operations that were called and not
\* by what they do to the table.
Map == INSTANCE TabMap WITH
  MapKeys <- TabKeys, MapVals <- TabVals, MapNil <- TabNil,
  MapRuns <- {{k} : k \in TabKeys} \cup {k .. k + 1 : k \in {i \in IntKeys : i + 1 \in IntKeys}},
  map <- stored

None == -1
Pow2(b) == LET p[i \in 0 .. b] == IF i = 0 THEN 1 ELSE 2 * p[i - 1] IN p[b]
Bits(n) == CHOOSE b \in 0 .. n : Pow2(b) <= n /\ n < Pow2(b + 1)      \* lj_fls
hsize2hbits(s) == IF s <= 1 THEN s ELSE 1 + Bits(s - 1)

-----------------------------------------------------------------------------
(* Lookup. *)

Nodes(t) == DOMAIN t.node
HashSize(t) == Cardinality(Nodes(t))       \* 0 for the shared nilnode, else hmask + 1
inarray(t, k) == k \in DOMAIN t.arr

hashkey(t, k) == (IF k \in StrKeys THEN hash[k] ELSE IntHash[k]) % HashSize(t)

\* The nodes from n on; longer than the hash part if the chain has a cycle.
TabChain(t, n) ==
  LET c[fuel \in 0 .. HashSize(t)] ==
        [m \in Nodes(t) |-> IF t.node[m].next = None \/ fuel = 0 THEN <<m>>
                            ELSE <<m>> \o c[fuel - 1][t.node[m].next]]
  IN c[HashSize(t)][n]

\* The first node of the key's chain that holds it.
Seek(t, k) ==
  LET s[fuel \in 0 .. HashSize(t)] ==
        [m \in Nodes(t) \cup {None} |->
           IF m = None \/ fuel = 0 THEN None
           ELSE IF t.node[m].key = k THEN m ELSE s[fuel - 1][t.node[m].next]]
  IN IF t.node = <<>> THEN None ELSE s[HashSize(t)][hashkey(t, k)]

lj_tab_get(t, k) ==
  IF inarray(t, k) THEN t.arr[k]
  ELSE IF k \notin TabKeys THEN TabNil
  ELSE LET n == Seek(t, k) IN IF n = None THEN TabNil ELSE t.node[n].val

-----------------------------------------------------------------------------
(* New keys. *)

EmptyNodes(hbits) ==
  IF hbits = 0 THEN <<>>
  ELSE [i \in 0 .. Pow2(hbits) - 1 |-> [key |-> TabNil, val |-> TabNil, next |-> None]]

newtab(asize, hbits) ==
  [arr |-> [i \in 0 .. asize - 1 |-> TabNil], node |-> EmptyNodes(hbits),
   free |-> IF hbits = 0 THEN 0 ELSE Pow2(hbits), nested |-> FALSE]

FreeNodes(t) == {i \in Nodes(t) : i < t.free /\ t.node[i].key = TabNil}
FreeNode(t) == CHOOSE i \in FreeNodes(t) : \A j \in FreeNodes(t) : j <= i

\* Mutant: nothing is chained to its main position again.
Rechain_none(node, moved, n) == node

\* Live string keys behind the node that moved away from n, which belong to n,
\* are chained to n.
Rechain(node, moved, n) ==
  LET Belongs(nd, m) == nd[m].key \in StrKeys /\ nd[m].val # TabNil
                          /\ hash[nd[m].key] % Cardinality(DOMAIN node) = n
      r[j \in 0 .. Cardinality(DOMAIN node)] ==
        IF j = 0 THEN <<node, moved>>
        ELSE LET p == r[j - 1]
                 nd == p[1]
                 at == p[2]
                 m == nd[at].next
             IN IF m = None THEN p
                ELSE IF Belongs(nd, m)
                     THEN <<[nd EXCEPT ![at].next = nd[m].next, ![m].next = nd[n].next,
                                       ![n].next = m], at>>
                     ELSE <<nd, m>>
  IN r[Cardinality(DOMAIN node)][1]

Room(t, k) ==
  t.node # <<>> /\ (t.node[hashkey(t, k)].val = TabNil \/ FreeNodes(t) # {})

\* The new key takes its main position if that is free, else a free node; a
\* colliding node that is not in its own main position moves to the free node.
NewKey(t, k, v) ==
  LET n == hashkey(t, k)
      old == t.node[n]
      f == FreeNode(t)
      home == hashkey(t, old.key)
      chain == TabChain(t, home)
      pred == chain[CHOOSE j \in 1 .. Len(chain) : t.node[chain[j]].next = n]
      New(next) == [key |-> k, val |-> v, next |-> next]
  IN IF old.val = TabNil
     THEN [t EXCEPT !.node[n] = New(old.next)]
     ELSE IF home = n
     THEN [t EXCEPT !.free = f,
                    !.node = [@ EXCEPT ![f] = New(old.next), ![n].next = f]]
     ELSE LET relinked == [t.node EXCEPT ![pred].next = f, ![f] = old,
                                         ![n] = [key |-> old.key, val |-> TabNil, next |-> None]]
              nodes == Rechain(relinked, f, n)
          IN [t EXCEPT !.free = f, !.node = [nodes EXCEPT ![n] = New(@.next)]]

\* lj_tab_set() and the store through the slot it returns, if no rehash is needed.
Store(t, k, v) ==
  IF inarray(t, k) THEN [t EXCEPT !.arr[k] = v]
  ELSE LET n == Seek(t, k)
       IN IF n # None THEN [t EXCEPT !.node[n].val = v]
          ELSE IF Room(t, k) THEN NewKey(t, k, v)
          ELSE [t EXCEPT !.nested = TRUE]

-----------------------------------------------------------------------------
(* Resizing. *)

\* The array part that is kept, and an empty hash part.
Kept(t, asize, hbits) ==
  [newtab(asize, hbits) EXCEPT
    !.arr = [i \in DOMAIN @ |-> IF i \in DOMAIN t.arr THEN t.arr[i] ELSE TabNil],
    !.nested = t.nested]

\* Mutant: what the array part loses is dropped.
Pairs_hash(t, asize) ==
  [i \in 1 .. HashSize(t) |-> <<t.node[i - 1].key, t.node[i - 1].val>>]

\* The pairs that a resize inserts again if they are not nil, in its order: what
\* the array part loses, then the hash part.
Pairs(t, asize) ==
  LET old == Cardinality(DOMAIN t.arr)
      lost == [i \in 1 .. (IF asize < old THEN old - asize ELSE 0)
                 |-> <<asize + i - 1, t.arr[asize + i - 1]>>]
      hashed == [i \in 1 .. HashSize(t) |-> <<t.node[i - 1].key, t.node[i - 1].val>>]
  IN lost \o hashed

lj_tab_resize(t, asize, hbits) ==
  LET ps == Pairs(t, asize)
      filled[j \in 0 .. Len(ps)] ==
        IF j = 0 THEN Kept(t, asize, hbits)
        ELSE IF ps[j][2] = TabNil THEN filled[j - 1]
        ELSE Store(filled[j - 1], ps[j][1], ps[j][2])
  IN filled[Len(ps)]

\* Integer keys k with 2^b < k <= 2^(b+1) are counted in bin b, 0 to 2 in bin 0.
Bin(k) == IF k > 2 THEN Bits(k - 1) ELSE 0

\* Mutant: no room for the new key.
rehashtab_tight(t, ek) ==
  LET live == {i \in Nodes(t) : t.node[i].val # TabNil}
      ints == {i \in DOMAIN t.arr : t.arr[i] # TabNil}
                \cup ({t.node[i].key : i \in live} \cap IntKeys) \cup ({ek} \cap IntKeys)
      UpTo(b) == Cardinality({k \in ints : Bin(k) <= b})
      dense == {b \in 0 .. LJ_MAX_ABITS - 1 : 2 * UpTo(b) > Pow2(b) /\ \E k \in ints : Bin(k) = b}
      best == CHOOSE b \in dense : \A c \in dense : c <= b
      na == IF dense = {} THEN 0 ELSE UpTo(best)
      total == Cardinality({i \in DOMAIN t.arr : t.arr[i] # TabNil}) + Cardinality(live) - na
  IN lj_tab_resize(t, IF dense = {} THEN 0 ELSE Pow2(best + 1) + 1, hsize2hbits(total))

rehashtab(t, ek) ==
  LET live == {i \in Nodes(t) : t.node[i].val # TabNil}
      ints == {i \in DOMAIN t.arr : t.arr[i] # TabNil}
                \cup ({t.node[i].key : i \in live} \cap IntKeys) \cup ({ek} \cap IntKeys)
      UpTo(b) == Cardinality({k \in ints : Bin(k) <= b})
      dense == {b \in 0 .. LJ_MAX_ABITS - 1 : 2 * UpTo(b) > Pow2(b) /\ \E k \in ints : Bin(k) = b}
      best == CHOOSE b \in dense : \A c \in dense : c <= b
      na == IF dense = {} THEN 0 ELSE UpTo(best)
      total == 1 + Cardinality({i \in DOMAIN t.arr : t.arr[i] # TabNil}) + Cardinality(live) - na
  IN lj_tab_resize(t, IF dense = {} THEN 0 ELSE Pow2(best + 1) + 1, hsize2hbits(total))

lj_tab_set(t, k, v) ==
  IF inarray(t, k) \/ Seek(t, k) # None \/ Room(t, k) THEN Store(t, k, v)
  ELSE Store(rehashtab(t, k), k, v)

lj_tab_reasize(t, n) == lj_tab_resize(t, n + 1, IF HashSize(t) = 0 THEN 0 ELSE Bits(HashSize(t)))

-----------------------------------------------------------------------------
(* Traversal and length. *)

\* Mutant: hash nodes are counted from the array part.
keyindex_hash(t, k) ==
  IF k = TabNil THEN -1
  ELSE IF inarray(t, k) THEN k
  ELSE LET n == Seek(t, k) IN IF n = None THEN -2 ELSE n

keyindex(t, k) ==
  IF k = TabNil THEN -1
  ELSE IF inarray(t, k) THEN k
  ELSE LET n == Seek(t, k) IN IF n = None THEN -2 ELSE Cardinality(DOMAIN t.arr) + n

At(t, i) ==
  LET asize == Cardinality(DOMAIN t.arr)
  IN IF i < asize THEN <<i, t.arr[i]>> ELSE <<t.node[i - asize].key, t.node[i - asize].val>>

\* The index of the key that follows k, or the end.
lj_tab_next(t, k) ==
  LET end == Cardinality(DOMAIN t.arr) + HashSize(t)
      later == {i \in keyindex(t, k) + 1 .. end - 1 : At(t, i)[2] # TabNil}
  IN IF later = {} THEN TabNil ELSE At(t, CHOOSE i \in later : \A j \in later : i <= j)[1]

Present(t, j) == lj_tab_get(t, j) # TabNil

\* The last present index between i, which is present or 0, and j, which is not.
Bisect(t, i, j) ==
  LET b[p \in (0 .. j) \X (0 .. j)] ==
        IF p[2] - p[1] <= 1 THEN p[1]
        ELSE LET m == (p[1] + p[2]) \div 2
             IN IF Present(t, m) THEN b[<<m, p[2]>>] ELSE b[<<p[1], m>>]
  IN b[<<i, j>>]

\* i is 0 or present.  The first of i + 1, 2 * (i + 1), 4 * (i + 1), ... that is
\* absent ends the bisection, which starts at the one before it, or at i.  If
\* they get too large the search is linear.
unbound_search(t, i) ==
  LET Probe(n) == (i + 1) * Pow2(n)
      Overflow(n) == n > 0 /\ Probe(n) > INT_MAX - 2
      ends == {n \in 0 .. INT_MAX : ~Present(t, Probe(n)) \/ Overflow(n)}
      end == CHOOSE n \in ends : \A m \in ends : n <= m
      linear == CHOOSE n \in 1 .. INT_MAX + 1 : ~Present(t, n) /\ \A m \in 1 .. n - 1 : Present(t, m)
  IN IF Overflow(end) THEN linear - 1
     ELSE Bisect(t, IF end = 0 THEN i ELSE Probe(end - 1), Probe(end))

\* Mutant: a nil at the end of the array part is not seen.
lj_tab_len_hash(t) ==
  LET asize == Cardinality(DOMAIN t.arr)
      j == IF asize = 0 THEN 0 ELSE asize - 1
  IN IF t.node = <<>> THEN j ELSE unbound_search(t, j)

lj_tab_len(t) ==
  LET asize == Cardinality(DOMAIN t.arr)
      j == IF asize = 0 THEN 0 ELSE asize - 1
  IN IF asize > 1 /\ t.arr[asize - 1] = TabNil THEN Bisect(t, 0, asize - 1)
     ELSE IF t.node = <<>> THEN j
     ELSE unbound_search(t, j)

-----------------------------------------------------------------------------
(* Operations. *)

TabInit ==
  /\ \E z \in NewSizes : tab = newtab(z[1], z[2])
  /\ hash = StrHash
  /\ nomm = TRUE
  /\ iter = [on |-> FALSE, key |-> TabNil, seen |-> {}, due |-> {}, wrong |-> FALSE]
  /\ Map!MapInit

LiveKeys(t) == {k \in TabKeys : lj_tab_get(t, k) # TabNil}

\* Mutant: the negative cache is kept.
TabSet_cached(k, v) ==
  /\ iter.on => k \in LiveKeys(tab)
  /\ v = TabNil => k \in LiveKeys(tab)
  /\ tab' = lj_tab_set(tab, k, v)
  /\ nomm' = nomm
  /\ iter' = IF v = TabNil THEN [iter EXCEPT !.due = @ \ {k}] ELSE iter
  /\ Map!MapStore([x \in {k} |-> v])
  /\ UNCHANGED hash

\* While a table is traversed only existing fields may be assigned.
TabSet(k, v) ==
  /\ iter.on => k \in LiveKeys(tab)
  /\ v = TabNil => k \in LiveKeys(tab)
  /\ tab' = lj_tab_set(tab, k, v)
  /\ nomm' = FALSE
  /\ iter' = IF v = TabNil THEN [iter EXCEPT !.due = @ \ {k}] ELSE iter
  /\ Map!MapStore([x \in {k} |-> v])
  /\ UNCHANGED hash

\* Mutant: the first value is stored at all indexes.
BC_TSETM_first(k, n, vs) ==
  /\ "tsetm" \in TabOps /\ ~iter.on
  /\ DOMAIN vs \subseteq IntKeys
  /\ LET t == IF k + n > Cardinality(DOMAIN tab.arr) THEN lj_tab_reasize(tab, k + n) ELSE tab
     IN tab' = [t EXCEPT !.arr = [i \in DOMAIN @ |-> IF i \in DOMAIN vs THEN vs[k] ELSE @[i]]]
  /\ Map!MapStore(vs)
  /\ UNCHANGED <<hash, nomm, iter>>

\* Values vs, nil among them, at n consecutive indexes from k on, at the end of a
\* table constructor.
BC_TSETM(k, n, vs) ==
  /\ "tsetm" \in TabOps /\ ~iter.on
  /\ DOMAIN vs \subseteq IntKeys
  /\ LET t == IF k + n > Cardinality(DOMAIN tab.arr) THEN lj_tab_reasize(tab, k + n) ELSE tab
     IN tab' = [t EXCEPT !.arr = [i \in DOMAIN @ |-> IF i \in DOMAIN vs THEN vs[i] ELSE @[i]]]
  /\ Map!MapStore(vs)
  /\ UNCHANGED <<hash, nomm, iter>>

lj_tab_clear ==
  /\ "clear" \in TabOps /\ ~iter.on
  /\ tab' = [tab EXCEPT !.arr = [i \in DOMAIN @ |-> TabNil],
                        !.node = [i \in DOMAIN @ |-> [key |-> TabNil, val |-> TabNil, next |-> None]],
                        !.free = HashSize(tab)]
  /\ Map!MapClear
  /\ UNCHANGED <<hash, nomm, iter>>

lj_tab_rehash ==
  /\ "rehash" \in TabOps /\ ~iter.on
  /\ tab' = rehashtab(tab, TabNil)
  /\ UNCHANGED <<hash, nomm, iter, stored>>

lj_tab_dup ==
  /\ "dup" \in TabOps /\ ~iter.on /\ nomm
  /\ nomm' = FALSE
  /\ UNCHANGED <<tab, hash, iter, stored>>

\* lj_meta_fast() of the metatable tab, which has no such metamethod.
lj_meta_cache ==
  /\ ~nomm /\ lj_tab_get(tab, MMName) = TabNil
  /\ nomm' = TRUE
  /\ UNCHANGED <<tab, hash, iter, stored>>

\* A string that is in the table only as a dead key is collected, and another
\* string takes its address.
TabReintern(k, h) ==
  /\ k \in Reborn /\ h # hash[k] /\ k \notin LiveKeys(tab)
  /\ iter.on => iter.key # k
  /\ hash' = [hash EXCEPT ![k] = h]
  /\ UNCHANGED <<tab, nomm, iter, stored>>

TabTraverse ==
  /\ "next" \in TabOps /\ ~iter.on
  /\ iter' = [on |-> TRUE, key |-> TabNil, seen |-> {}, due |-> LiveKeys(tab), wrong |-> FALSE]
  /\ UNCHANGED <<tab, hash, nomm, stored>>

TabNext1 ==
  /\ iter.on
  /\ LET k == lj_tab_next(tab, iter.key)
         lost == keyindex(tab, iter.key) = -2
     IN iter' = IF k = TabNil
                THEN [on |-> FALSE, key |-> TabNil, seen |-> {}, due |-> {}, wrong |-> lost \/ iter.due # {}]
                ELSE [on |-> TRUE, key |-> k, seen |-> iter.seen \cup {k}, due |-> iter.due \ {k},
                      wrong |-> lost \/ k \in iter.seen]
  /\ UNCHANGED <<tab, hash, nomm, stored>>

TabNext ==
  \/ \E k \in TabKeys, v \in TabVals \cup {TabNil} : TabSet(k, v)
  \/ \E k \in IntKeys, n \in 1 .. 2 :
       \E vs \in [k .. k + n - 1 -> TabVals \cup {TabNil}] : BC_TSETM(k, n, vs)
  \/ lj_tab_clear \/ lj_tab_rehash \/ lj_tab_dup \/ lj_meta_cache
  \/ \E k \in Reborn, h \in StrHashes : TabReintern(k, h)
  \/ TabTraverse \/ TabNext1

TabSpec == TabInit /\ [][TabNext]_tabVars

-----------------------------------------------------------------------------
(* Properties. *)

\* A lookup of any key finds what was stored last under it, whatever was removed,
\* moved, rehashed, cleared or assigned together since.
TabImplementsMap == Map!MapSpec /\ [](\A k \in TabKeys : lj_tab_get(tab, k) = stored[k])

\* No chain has a cycle, and every live key is found from its main position, in
\* the node that holds it, although chains go through dead keys whose hash
\* value may have changed.
ChainsSound ==
  \A i \in Nodes(tab) : /\ Len(TabChain(tab, i)) <= HashSize(tab)
                        /\ tab.node[i].val # TabNil => Seek(tab, tab.node[i].key) = i

\* rehashtab() counts so well that lj_tab_resize() never runs out of nodes while
\* it inserts the pairs again, and so never starts a rehash of its own.
RefillFits == ~tab.nested

\* Collisions, dead keys, rechaining and resizing leave every key where the
\* lookups search it.
TabSound == ChainsSound /\ RefillFits

\* The negative cache of a metatable never hides a metamethod that was set.
NoMMSound == nomm => lj_tab_get(tab, MMName) = TabNil

\* The length is a border, also if the array part ends in nil.
LenIsBoundary == LET n == lj_tab_len(tab) IN (n = 0 \/ Present(tab, n)) /\ ~Present(tab, n + 1)

\* A traversal during which fields are changed or removed visits no key twice,
\* none that is left is missed, and next() never fails.
TraversalOnce == ~iter.wrong
=============================================================================
