---------------------------- MODULE TraceTheorems ----------------------------
(***************************************************************************)
(* The rest of the invariant of Trace, and the theorems: the fields that   *)
(* refer to other traces, the trace that is compiled, the bytecode that    *)
(* enters traces, the machine code that jumps from one to another, and the *)
(* numbers that lead to NULL.                                              *)
(***************************************************************************)
EXTENDS TraceProofs

USE DEF codeVars, tableVars, penVars, recVars, recFrame, runFrame, asmFrame

-----------------------------------------------------------------------------
(* The fields that refer to other traces.                                  *)

\* A number is live if its object is.
LEMMA LiveNumber ==
  /\ \A n : IsLive(n) <=> n \in TraceNo /\ trace[n] \in Live
  /\ \A n : IsLive(n)' <=> n \in TraceNo /\ trace'[n] \in Live'
  /\ \A t : t \in Live <=> t \in Tr /\ obj[t] # Free /\ t \notin dead
  /\ \A t : t \in Live' <=> t \in Tr /\ obj'[t] # Free /\ t \notin dead'
BY ConstantsOK, DistinctOK DEF IsLive, Live, Saved, Exists

\* A live object with a number is the one of that number.
LEMMA OwnNumber ==
  ASSUME TraceType, Numbered, NEW t \in Live, obj[t].no # 0
  PROVE  obj[t].no \in TraceNo /\ trace[obj[t].no] = t /\ IsLive(obj[t].no)
<1>1. t \in Tr /\ obj[t] # Free /\ obj[t] \in Trace
  BY SavedNumbers
<1>2. obj[t].no \in 0..maxtrace /\ maxtrace \in Nat
  BY <1>1, ConstantsOK DEF Trace
<1> QED BY <1>1, <1>2, LiveNumber DEF Numbered, TraceNo

\* The chains of side traces stay in a set of live traces.
LEMMA NewSides ==
  ASSUME NEW S, S \subseteq Live', {t \in Live' : obj'[t].root = 0} \subseteq S,
         \A t \in S : obj'[t].no # 0 /\ obj'[t].nextside # 0 =>
            obj'[t].nextside \in TraceNo /\ trace'[obj'[t].nextside] \in S
  PROVE  SidesLive'
<1>1. Sides(S)'
  BY LiveNumber DEF Sides
<1> QED BY <1>1 DEF SidesLive

\* Nothing but numbers that are free or not live has changed, a head was
\* dropped, or a trace was linked to itself.
LEMMA GraphSame ==
  ASSUME TraceInv, TraceType', Live' = Live,
         \A p \in Proto : head'[p] = 0 \/ head'[p] = head[p],
         \A n \in TraceNo : trace[n] \in Live \/ trace'[n] \in Live' => trace'[n] = trace[n],
         \A t \in Live : /\ SameTrace(obj'[t], obj[t]) /\ obj'[t].nextside = obj[t].nextside
                         /\ obj'[t].link = obj[t].link \/ obj'[t].link = obj[t].no,
         \A t \in Tr : obj'[t] # Free => obj[t] # Free /\ obj'[t].kind = obj[t].kind /\ obj'[t].root = obj[t].root
  PROVE  Graph'
<1>1. TraceType /\ Numbered /\ Roots /\ NoCycle /\ LinksLive /\ SidesLive
  BY DEF TraceInv, Table, Graph
<1>2. \A n : IsLive(n) => IsLive(n)' /\ trace'[n] = trace[n]
  BY LiveNumber
<1>3. \A n : IsLive(n)' => IsLive(n) /\ trace'[n] = trace[n]
  BY LiveNumber
<1>4. \A n, p : RootAt(n, p) => RootAt(n, p)'
  <2> SUFFICES ASSUME NEW n, NEW p, RootAt(n, p)
               PROVE  RootAt(n, p)'
    OBVIOUS
  <2>1. IsLive(n) /\ trace[n] \in Live /\ IsRoot(obj[trace[n]]) /\ obj[trace[n]].pt = p
    BY LiveNumber DEF RootAt
  <2>2. IsLive(n)' /\ trace'[n] = trace[n] /\ SameTrace(obj'[trace[n]], obj[trace[n]])
    BY <1>2, <2>1
  <2> QED BY <2>1, <2>2 DEF RootAt, IsRoot, SameTrace
<1>5. Roots'
  <2>1. \A p \in Proto : head'[p] # 0 => RootAt(head[p], p)' /\ head'[p] = head[p]
    BY <1>1, <1>4 DEF Roots
  <2>2. ASSUME NEW t \in Live', obj'[t].no # 0, obj'[t].nextroot # 0
        PROVE  IsRoot(obj'[t]) /\ RootAt(obj[t].nextroot, obj[t].pt)' /\ obj'[t].nextroot = obj[t].nextroot
                 /\ obj'[t].pt = obj[t].pt
    <3>1. t \in Live /\ SameTrace(obj'[t], obj[t])
      BY LiveNumber
    <3>2. IsRoot(obj[t]) /\ RootAt(obj[t].nextroot, obj[t].pt)
      BY <1>1, <2>2, <3>1 DEF Roots, SameTrace
    <3> QED BY <1>4, <3>1, <3>2 DEF SameTrace, IsRoot
  <2>3. \A t \in Tr : obj'[t] # Free /\ IsRoot(obj'[t]) => obj'[t].root = 0
    BY <1>1 DEF Roots, IsRoot
  <2> QED BY <2>1, <2>2, <2>3 DEF Roots
<1>6. NoCycle'
  <2> SUFFICES ASSUME NEW S \in SUBSET (LiveNumbers'), S # {}
               PROVE  \E n \in S : obj'[trace'[n]].nextroot \notin S
    BY DEF NoCycle
  <2>1. S \in SUBSET LiveNumbers /\ \A n \in S : IsLive(n) /\ trace'[n] = trace[n]
    BY <1>3 DEF LiveNumbers
  <2>2. PICK n \in S : obj[trace[n]].nextroot \notin S
    BY <1>1, <2>1 DEF NoCycle
  <2>3. obj'[trace[n]].nextroot = obj[trace[n]].nextroot
    BY <2>1, LiveNumber DEF SameTrace
  <2> QED BY <2>1, <2>2, <2>3
<1>7. LinksLive'
  <2> SUFFICES ASSUME NEW t \in Live', obj'[t].no # 0, obj'[t].link # 0
               PROVE  obj'[t].link \in TraceNo /\ trace'[obj'[t].link] \in Live'
    BY LiveNumber DEF LinksLive
  <2>1. t \in Live /\ obj[t].no = obj'[t].no
    BY LiveNumber DEF SameTrace
  <2>2. CASE obj'[t].link = obj[t].link
    BY <1>1, <2>1, <2>2, LiveNumber DEF LinksLive
  <2>3. CASE obj'[t].link = obj[t].no
    BY <1>1, <2>1, <2>3, OwnNumber, LiveNumber
  <2> QED BY <2>1, <2>2, <2>3
<1>8. SidesLive'
  <2>1. PICK S \in SUBSET Live : {t \in Live : obj[t].root = 0} \subseteq S /\ Sides(S)
    BY <1>1 DEF SidesLive
  <2>2. {t \in Live' : obj'[t].root = 0} \subseteq S
    BY <2>1 DEF SameTrace
  <2>3. \A t \in S : obj'[t].no # 0 /\ obj'[t].nextside # 0 =>
            obj'[t].nextside \in TraceNo /\ trace'[obj'[t].nextside] \in S
    BY <2>1, LiveNumber DEF Sides, SameTrace
  <2> QED BY <2>1, <2>2, <2>3, NewSides
<1> QED BY <1>5, <1>6, <1>7, <1>8 DEF Graph

\* Trace n leaves its chain: the chain that skips it has no cycle either.
LEMMA GraphUnchained ==
  ASSUME TraceInv, TraceType', NEW n, Saved(n), Unchained(n)
  PROVE  Graph'
<1> DEFINE T == obj[trace[n]]
<1>1. TraceType /\ Numbered /\ Roots /\ NoCycle /\ LinksLive /\ SidesLive
  BY DEF TraceInv, Table, Graph
<1>2. Live' = Live /\ trace' = trace /\ n \in TraceNo /\ trace[n] \in Tr /\ T.no = n /\ T # Free /\ n # 0
  <2>1. n \in TraceNo /\ trace[n] \in Tr /\ T \in Trace /\ T.no = n
    BY <1>1, SavedNumbers
  <2>2. Live' = Live /\ trace' = trace
    BY DEF Unchained, Live
  <2> QED BY <2>1, <2>2, ConstantsOK, DistinctOK DEF TraceNo
<1>3. ASSUME NEW t \in Live
      PROVE  /\ t \in Tr /\ obj[t] # Free
             /\ obj'[t].no = obj[t].no /\ obj'[t].kind = obj[t].kind /\ obj'[t].pt = obj[t].pt
             /\ obj'[t].root = obj[t].root
             /\ obj'[t].link = obj[t].link /\ obj'[t].nextside = obj[t].nextside
             /\ \/ obj'[t].nextroot = obj[t].nextroot
                \/ obj[t].nextroot = n /\ obj'[t].nextroot = T.nextroot
  BY LiveNumber DEF Unchained
<1>4. \A k, p : RootAt(k, p) => RootAt(k, p)'
  BY <1>2, <1>3, LiveNumber DEF RootAt, IsRoot
<1>5. \A p : RootAt(n, p) /\ T.nextroot # 0 => RootAt(T.nextroot, p) /\ p = T.pt
  BY <1>1, <1>2, LiveNumber DEF Roots, RootAt
<1>6. Roots'
  <2>1. ASSUME NEW p \in Proto, head'[p] # 0
        PROVE  RootAt(head'[p], p)
    <3>1. head \in [Proto -> 0..maxtrace] /\ head' = IF head[T.pt] = n THEN [head EXCEPT ![T.pt] = T.nextroot] ELSE head
      BY <1>1, TypesOf DEF Unchained
    <3>2. CASE head'[p] = head[p]
      BY <1>1, <2>1, <3>2 DEF Roots
    <3>3. CASE head'[p] # head[p]
      <4>1. p = T.pt /\ head[p] = n /\ head'[p] = T.nextroot
        BY <3>1, <3>3
      <4>2. RootAt(n, p)
        BY <1>1, <1>2, <4>1 DEF Roots
      <4> QED BY <1>5, <2>1, <4>1, <4>2
    <3> QED BY <3>2, <3>3
  <2>2. ASSUME NEW t \in Live, obj[t].no # 0, obj'[t].nextroot # 0
        PROVE  IsRoot(obj'[t]) /\ RootAt(obj'[t].nextroot, obj[t].pt) /\ obj'[t].pt = obj[t].pt
    <3>1. CASE obj'[t].nextroot = obj[t].nextroot
      BY <1>1, <1>3, <2>2, <3>1 DEF Roots, IsRoot
    <3>2. CASE obj[t].nextroot = n /\ obj'[t].nextroot = T.nextroot
      <4>1. IsRoot(obj[t]) /\ RootAt(n, obj[t].pt)
        BY <1>1, <1>2, <2>2, <3>2 DEF Roots
      <4> QED BY <1>3, <1>5, <2>2, <3>2, <4>1 DEF IsRoot
    <3> QED BY <1>3, <3>1, <3>2
  <2>3. \A t \in Tr : obj'[t] # Free /\ IsRoot(obj'[t]) => obj'[t].root = 0
    BY <1>1 DEF Roots, Unchained, IsRoot
  <2>4. \A k, p : RootAt(k, p) => k \in TraceNo /\ trace'[k] \in Live' /\ IsRoot(obj'[trace'[k]]) /\ obj'[trace'[k]].pt = p
    BY <1>2, <1>3, LiveNumber DEF RootAt, IsRoot
  <2> QED BY <1>2, <1>3, <2>1, <2>2, <2>3, <2>4, LiveNumber DEF Roots, RootAt
<1>7. NoCycle'
  <2>1. SUFFICES ASSUME NEW S \in SUBSET LiveNumbers, S # {},
                        \A k \in S : obj'[trace[k]].nextroot \in S
                 PROVE  FALSE
    <3>1. LiveNumbers' = LiveNumbers
      BY <1>2, LiveNumber DEF LiveNumbers
    <3> QED BY <1>2, <3>1 DEF NoCycle
  <2>2. \A k \in S : trace[k] \in Live /\ obj[trace[k]].no = k /\ k \in TraceNo /\ k # 0
    BY <1>1, <2>1, SavedNumbers, LiveNumber DEF LiveNumbers, TraceNo
  <2>3. \A k \in S : obj[trace[k]].nextroot \in S \/ (obj[trace[k]].nextroot = n /\ T.nextroot \in S)
    BY <1>3, <2>1, <2>2
  <2>4. CASE \A k \in S : obj[trace[k]].nextroot \in S
    BY <1>1, <2>1, <2>4 DEF NoCycle
  <2>5. CASE \E k \in S : obj[trace[k]].nextroot \notin S
    <3>1. PICK k \in S : obj[trace[k]].nextroot = n /\ T.nextroot \in S
      BY <2>3, <2>5
    <3>2. IsLive(n)
      BY <1>1, <1>2, <2>2, <3>1 DEF Roots, RootAt
    <3>3. S \union {n} \in SUBSET LiveNumbers
      BY <1>2, <3>2 DEF LiveNumbers
    <3>4. \A i \in S \union {n} : obj[trace[i]].nextroot \in S \union {n}
      BY <2>3, <3>1
    <3> HIDE DEF T
    <3> QED BY <1>1, <3>3, <3>4 DEF NoCycle
  <2> QED BY <2>4, <2>5
<1>8. LinksLive'
  BY <1>1, <1>2, <1>3, LiveNumber DEF LinksLive
<1>9. SidesLive'
  <2>1. PICK S \in SUBSET Live : {t \in Live : obj[t].root = 0} \subseteq S /\ Sides(S)
    BY <1>1 DEF SidesLive
  <2>2. S \subseteq Live' /\ {t \in Live' : obj'[t].root = 0} \subseteq S
    BY <1>2, <1>3, <2>1
  <2>3. \A t \in S : obj'[t].no # 0 /\ obj'[t].nextside # 0 =>
            obj'[t].nextside \in TraceNo /\ trace'[obj'[t].nextside] \in S
    BY <1>2, <1>3, <2>1, LiveNumber DEF Sides
  <2> QED BY <2>2, <2>3, NewSides
<1> QED BY <1>6, <1>7, <1>8, <1>9 DEF Graph

\* A new trace is first in the chain of its root traces, or second in that of
\* the side traces of its root, or the link of the trace before it.
LEMMA GraphStores ==
  ASSUME TraceInv, TraceType', NEW o \in Tr, Stores(o)
  PROVE  Graph'
<1> DEFINE c == cur.no
<1>1. TraceType /\ Numbered /\ Roots /\ NoCycle /\ LinksLive /\ SidesLive /\ Compiled /\ LinkKnown
  BY DEF TraceInv, Table, Graph, Compiler
<1>2. /\ obj[o] = Free /\ obj'[o] # Free /\ o \notin dead /\ c \in TraceNo /\ trace[c] = Cur /\ c # 0
      /\ trace' = [trace EXCEPT ![c] = o] /\ dead' = dead
      /\ trace \in [TraceNo -> Tr \union {Nil, Cur}] /\ Cur \notin Tr
      /\ head \in [Proto -> 0..maxtrace] /\ cur.pt \in Proto
  <2>1. obj[o] = Free /\ obj'[o] \in Trace /\ c \in TraceNo /\ trace[c] = Cur
        /\ trace' = [trace EXCEPT ![c] = o] /\ dead' = dead
    BY DEF Stores
  <2>2. o \notin dead
    BY <1>1, <2>1 DEF Numbered
  <2>3. trace \in [TraceNo -> Tr \union {Nil, Cur}] /\ head \in [Proto -> 0..maxtrace] /\ cur.pt \in Proto
    BY <1>1, TypesOf DEF Trace
  <2> QED BY <2>1, <2>2, <2>3, ConstantsOK, DistinctOK DEF TraceNo
<1>3. Live' = Live \union {o} /\ o \notin Live
  <2>1. \A t \in Tr \ {o} : obj'[t] = Free <=> obj[t] = Free
    BY DEF Stores
  <2> QED BY <1>2, <2>1 DEF Live
<1>4. ASSUME NEW t \in Live
      PROVE  /\ t # o /\ t \in Tr /\ obj[t] # Free /\ SameTrace(obj'[t], obj[t])
             /\ obj'[t].link = IF cur.kind = "stitch" /\ t = trace[exitno] THEN c ELSE obj[t].link
             /\ obj'[t].nextside = IF cur.kind = "side" /\ t = trace[cur.root] THEN c ELSE obj[t].nextside
  BY <1>3, LiveNumber DEF Stores
<1>5. /\ obj'[o].no = c /\ obj'[o].kind = cur.kind /\ obj'[o].pt = cur.pt
      /\ obj'[o].root = cur.root /\ obj'[o].link = cur.link
      /\ obj'[o].nextroot = IF IsRoot(cur) THEN head[cur.pt] ELSE 0
      /\ obj'[o].nextside = IF cur.kind = "side" THEN traceref(cur.root).nextside ELSE 0
      /\ head' = IF IsRoot(cur) THEN [head EXCEPT ![cur.pt] = c] ELSE head
  BY DEF Stores
<1>6. /\ cur.kind \in {"root", "ret", "side", "stitch"}
      /\ cur.kind # "side" => cur.root = 0
      /\ cur.kind = "side" => cur.root # 0
      /\ cur.nextside = 0
      /\ cur.link = 0 \/ cur.link = c \/ IsLive(cur.link)
  BY <1>1 DEF Stores, Compiled, LinkKnown, Busy
<1> HIDE DEF c
<1>7. \A k \in TraceNo : (trace[k] \in Live => k # c) /\ (k # c => trace'[k] = trace[k]) /\ trace'[c] = o
  BY <1>2, LiveNumber
<1>8. \A k, p : RootAt(k, p) => /\ k \in TraceNo /\ trace'[k] \in Live' /\ IsRoot(obj'[trace'[k]])
                                /\ obj'[trace'[k]].pt = p /\ k # c
  BY <1>3, <1>4, <1>7, LiveNumber DEF RootAt, IsRoot, SameTrace
<1>9. Roots'
  <2>1. ASSUME NEW p \in Proto, head'[p] # 0
        PROVE  /\ head'[p] \in TraceNo /\ trace'[head'[p]] \in Live' /\ IsRoot(obj'[trace'[head'[p]]])
               /\ obj'[trace'[head'[p]]].pt = p
    <3>1. CASE head'[p] = head[p]
      BY <1>1, <1>8, <2>1, <3>1 DEF Roots
    <3>2. CASE head'[p] # head[p]
      <4>1. IsRoot(cur) /\ p = cur.pt /\ head'[p] = c
        BY <1>2, <1>5, <3>2
      <4> QED BY <1>2, <1>3, <1>5, <1>7, <4>1 DEF IsRoot
    <3> QED BY <3>1, <3>2
  <2>2. ASSUME NEW t \in Live', obj'[t].no # 0, obj'[t].nextroot # 0
        PROVE  IsRoot(obj'[t]) /\ RootAt(obj'[t].nextroot, obj'[t].pt)
    <3>1. CASE t = o
      BY <1>1, <1>2, <1>5, <2>2, <3>1 DEF Roots, IsRoot
    <3>2. CASE t # o
      BY <1>1, <1>3, <1>4, <2>2, <3>2 DEF Roots, IsRoot, SameTrace
    <3> QED BY <3>1, <3>2
  <2>3. ASSUME NEW t \in Tr, obj'[t] # Free, IsRoot(obj'[t])
        PROVE  obj'[t].root = 0
    <3>1. CASE t = o
      BY <1>5, <1>6, <2>3, <3>1 DEF IsRoot
    <3>2. CASE t # o
      BY <1>1, <2>3, <3>2 DEF Roots, Stores, IsRoot, SameTrace
    <3> QED BY <3>1, <3>2
  <2> QED BY <1>8, <2>1, <2>2, <2>3, LiveNumber DEF Roots, RootAt
<1>10. NoCycle'
  <2>1. SUFFICES ASSUME NEW S, S \subseteq TraceNo, \A k \in S : trace'[k] \in Live', S # {},
                        \A k \in S : obj'[trace'[k]].nextroot \in S
                 PROVE  FALSE
    BY LiveNumber DEF NoCycle, LiveNumbers
  <2> DEFINE old == S \ {c}
  <2>2. \A k \in old : trace'[k] = trace[k] /\ trace[k] \in Live /\ k \in TraceNo
    <3>1. \A k \in TraceNo : trace[k] # o
      BY <1>1, <1>2 DEF Numbered
    <3> QED BY <1>3, <1>7, <2>1, <3>1
  <2>3. \A k \in old : obj[trace[k]].nextroot \in S /\ obj[trace[k]].no # 0
    <3>1. \A k \in old : obj[trace[k]].nextroot \in S
      BY <1>4, <2>1, <2>2 DEF SameTrace
    <3>2. \A k \in old : obj[trace[k]].no = k /\ k # 0
      BY <1>1, <2>2, LiveNumber DEF Numbered, TraceNo
    <3> QED BY <3>1, <3>2
  <2>4. \A k \in old : obj[trace[k]].nextroot # c
    <3>1. 0 \notin S
      BY <2>1 DEF TraceNo
    <3> QED BY <1>1, <1>8, <2>2, <2>3, <3>1 DEF Roots
  <2>5. old \in SUBSET LiveNumbers
    BY <2>2, LiveNumber DEF LiveNumbers
  <2>6. \A k \in old : obj[trace[k]].nextroot \in old
    BY <2>3, <2>4
  <2>7. old # {}
    <3>1. CASE c \notin S
      BY <2>1, <3>1
    <3>2. CASE c \in S
      <4>1. obj'[o].nextroot \in S
        BY <1>7, <1>2, <2>1, <3>2
      <4>2. obj'[o].nextroot # 0
        BY <2>1, <4>1 DEF TraceNo
      <4>3. obj'[o].nextroot = head[cur.pt] /\ head[cur.pt] # c
        BY <1>1, <1>2, <1>5, <1>8, <4>2 DEF Roots
      <4> QED BY <4>1, <4>3
    <3> QED BY <3>1, <3>2
  <2> QED BY <1>1, <2>5, <2>6, <2>7 DEF NoCycle
<1>11. LinksLive'
  <2> SUFFICES ASSUME NEW t \in Live', obj'[t].no # 0, obj'[t].link # 0
               PROVE  obj'[t].link \in TraceNo /\ trace'[obj'[t].link] \in Live'
    BY LiveNumber DEF LinksLive
  <2>1. obj'[t].link = c \/ IsLive(obj'[t].link)
    BY <1>1, <1>3, <1>4, <1>5, <1>6 DEF LinksLive, SameTrace
  <2> QED BY <1>2, <1>3, <1>7, <2>1, LiveNumber
<1>12. SidesLive'
  <2>1. PICK S \in SUBSET Live : {t \in Live : obj[t].root = 0} \subseteq S /\ Sides(S)
    BY <1>1 DEF SidesLive
  <2>2. \A t \in S : t \in Live /\ t # o
    BY <1>3, <2>1
  <2>3. \A t \in S : obj[t].no # 0 /\ obj[t].nextside # 0 =>
            obj[t].nextside \in TraceNo /\ trace'[obj[t].nextside] \in S
    BY <1>7, <2>1, LiveNumber DEF Sides
  <2>4. \A t \in S : obj'[t].no = obj[t].no /\ (obj'[t].nextside = obj[t].nextside \/
                        (cur.kind = "side" /\ t = trace[cur.root] /\ obj'[t].nextside = c))
    BY <1>4, <2>2 DEF SameTrace
  <2>5. CASE cur.kind = "side" /\ trace[cur.root] \notin S
    <3>1. S \subseteq Live' /\ {t \in Live' : obj'[t].root = 0} \subseteq S
      BY <1>3, <1>4, <1>5, <1>6, <2>1, <2>5 DEF SameTrace
    <3>2. \A t \in S : obj'[t].no # 0 /\ obj'[t].nextside # 0 =>
              obj'[t].nextside \in TraceNo /\ trace'[obj'[t].nextside] \in S
      BY <2>3, <2>4, <2>5
    <3> QED BY <3>1, <3>2, NewSides
  <2>6. CASE ~ (cur.kind = "side" /\ trace[cur.root] \notin S)
    <3>1. S \union {o} \subseteq Live' /\ {t \in Live' : obj'[t].root = 0} \subseteq S \union {o}
      BY <1>3, <1>4, <2>1 DEF SameTrace
    <3>2. \A t \in S : obj'[t].no # 0 /\ obj'[t].nextside # 0 =>
              obj'[t].nextside \in TraceNo /\ trace'[obj'[t].nextside] \in S \union {o}
      BY <1>2, <1>7, <2>3, <2>4
    <3>3. obj'[o].no # 0 /\ obj'[o].nextside # 0 =>
              obj'[o].nextside \in TraceNo /\ trace'[obj'[o].nextside] \in S \union {o}
      <4>1. SUFFICES ASSUME obj'[o].nextside # 0
                     PROVE  obj'[o].nextside \in TraceNo /\ trace'[obj'[o].nextside] \in S
        OBVIOUS
      <4>2. cur.kind = "side" /\ obj'[o].nextside = traceref(cur.root).nextside /\ trace[cur.root] \in S
            /\ cur.root \in TraceNo
        BY <1>5, <2>6, <4>1 DEF Stores, Exists
      <4>3. traceref(cur.root) = obj[trace[cur.root]] /\ obj[trace[cur.root]].no # 0
        <5>1. trace[cur.root] \in Live /\ trace[cur.root] \in Tr
          BY <2>2, <4>2, LiveNumber
        <5>2. obj[trace[cur.root]].no = cur.root
          BY <1>1, <4>2, <5>1 DEF Numbered
        <5> QED BY <1>2, <1>6, <4>2, <5>1, <5>2 DEF traceref
      <4> QED BY <2>3, <4>1, <4>2, <4>3
    <3>4. \A t \in S \union {o} : obj'[t].no # 0 /\ obj'[t].nextside # 0 =>
              obj'[t].nextside \in TraceNo /\ trace'[obj'[t].nextside] \in S \union {o}
      BY <3>2, <3>3
    <3> QED BY <3>1, <3>4, NewSides
  <2> QED BY <2>5, <2>6
<1> QED BY <1>9, <1>10, <1>11, <1>12 DEF Graph

\* What the collector frees is not marked by what stays.
LEMMA GraphAtomic ==
  ASSUME TraceInv, TraceType', GCAtomic
  PROVE  Graph'
<1>1. TraceType /\ Numbered /\ Roots /\ NoCycle /\ LinksLive /\ SidesLive
  BY DEF TraceInv, Table, Graph
<1>2. /\ obj' = obj /\ trace' = trace /\ head' = head /\ dead = {}
      /\ dead' \subseteq {t \in Tr : obj[t] # Free} /\ MarkedBut(dead') \intersect dead' = {}
  BY DEF GCAtomic
<1>3. Live' = Live \ dead' /\ \A t \in Live : t \in Tr /\ obj[t] # Free
  BY <1>2 DEF Live
<1>4. \A p \in Proto : head[p] # 0 => trace[head[p]] \notin dead'
  BY <1>2 DEF MarkedBut
<1>5. ASSUME NEW t \in Live', obj[t].no # 0, NEW n \in {obj[t].link, obj[t].nextroot, obj[t].nextside}, n # 0
      PROVE  trace[n] \notin dead'
  <2>1. trace[n] \in Marks(obj[t])
    BY <1>5 DEF Marks
  <2>2. t \in {u \in Tr \ dead' : obj[u] # Free}
    BY <1>3
  <2>3. trace[n] \in MarkedBut(dead')
    BY <2>1, <2>2 DEF MarkedBut
  <2> QED BY <1>2, <2>3
<1>6. Roots'
  <2>1. \A k, p : RootAt(k, p) /\ trace[k] \notin dead' =>
            k \in TraceNo /\ trace'[k] \in Live' /\ IsRoot(obj'[trace'[k]]) /\ obj'[trace'[k]].pt = p
    BY <1>2, <1>3, LiveNumber DEF RootAt
  <2>2. \A p \in Proto : head'[p] # 0 => RootAt(head'[p], p) /\ trace[head'[p]] \notin dead'
    BY <1>1, <1>2, <1>4 DEF Roots
  <2>3. \A t \in Live' : obj'[t].no # 0 /\ obj'[t].nextroot # 0 =>
            IsRoot(obj'[t]) /\ RootAt(obj'[t].nextroot, obj'[t].pt) /\ trace[obj'[t].nextroot] \notin dead'
    BY <1>1, <1>2, <1>3, <1>5 DEF Roots
  <2>4. \A t \in Tr : obj'[t] # Free /\ IsRoot(obj'[t]) => obj'[t].root = 0
    BY <1>1, <1>2 DEF Roots
  <2> QED BY <2>1, <2>2, <2>3, <2>4, LiveNumber DEF Roots, RootAt
<1>7. NoCycle'
  <2>1. LiveNumbers' \subseteq LiveNumbers
    BY <1>2, <1>3, LiveNumber DEF LiveNumbers
  <2> QED BY <1>1, <1>2, <2>1 DEF NoCycle
<1>8. LinksLive'
  <2> SUFFICES ASSUME NEW t \in Live', obj[t].no # 0, obj[t].link # 0
               PROVE  obj[t].link \in TraceNo /\ trace[obj[t].link] \in Live'
    BY <1>2, LiveNumber DEF LinksLive
  <2> QED BY <1>1, <1>3, <1>5, LiveNumber DEF LinksLive
<1>9. SidesLive'
  <2>1. PICK S \in SUBSET Live : {t \in Live : obj[t].root = 0} \subseteq S /\ Sides(S)
    BY <1>1 DEF SidesLive
  <2>2. S \ dead' \subseteq Live' /\ {t \in Live' : obj'[t].root = 0} \subseteq S \ dead'
    BY <1>2, <1>3, <2>1
  <2>3. \A t \in S \ dead' : obj'[t].no # 0 /\ obj'[t].nextside # 0 =>
            obj'[t].nextside \in TraceNo /\ trace'[obj'[t].nextside] \in S \ dead'
    BY <1>2, <1>5, <2>1, <2>2, LiveNumber DEF Sides
  <2> QED BY <2>2, <2>3, NewSides
<1> QED BY <1>6, <1>7, <1>8, <1>9 DEF Graph

\* Every step keeps the numbers that traces refer to.
LEMMA GraphKept ==
  ASSUME TraceInv, TraceType', [Next]_vars
  PROVE  Graph'
<1>1. TraceType /\ Numbered /\ PatchPending /\ Roots
  BY DEF TraceInv, Table, Compiler, Graph
<1>2. trace \in [TraceNo -> Tr \union {Nil, Cur}] /\ obj \in [Tr -> Trace \union {Free}]
      /\ head \in [Proto -> 0..maxtrace] /\ Nil \notin Tr /\ Cur \notin Tr
  BY <1>1, TypesOf, ConstantsOK, DistinctOK
<1>3. CASE Calm
  <2>1. \A t \in Tr : /\ obj'[t] = Free <=> obj[t] = Free
                      /\ obj[t] # Free => SameTrace(obj'[t], obj[t]) /\ obj'[t].link = obj[t].link
                                          /\ obj'[t].nextside = obj[t].nextside
    BY <1>3 DEF Calm, SameLinks
  <2>2. Live' = Live /\ head' = head /\ trace' = trace
    BY <1>3, <2>1 DEF Calm, Live
  <2> QED BY <2>1, <2>2, LiveNumber, GraphSame DEF SameTrace
<1>4. CASE AllFlushed
  <2>1. /\ trace' = [n \in TraceNo |-> Nil] /\ head' = [p \in Proto |-> 0]
        /\ \A t \in Tr : /\ obj'[t] = Free <=> obj[t] = Free
                         /\ obj[t] # Free => /\ obj'[t].no = 0 /\ obj'[t].kind = obj[t].kind
                                             /\ obj'[t].root = obj[t].root
    BY <1>1, <1>4, FlushAllEffect DEF AllFlushed, PatchPending
  <2>2. \A t \in Live' : obj'[t].no = 0
    BY <2>1, LiveNumber
  <2>3. Roots'
    BY <1>1, <2>1, <2>2 DEF Roots, IsRoot
  <2>4. NoCycle'
    <3>1. \A n \in TraceNo : trace'[n] \notin Live'
      BY <1>2, <2>1, LiveNumber
    <3>2. LiveNumbers' = {}
      BY <3>1, LiveNumber DEF LiveNumbers
    <3> QED BY <3>2 DEF NoCycle
  <2>5. LinksLive'
    BY <2>2 DEF LinksLive
  <2>6. SidesLive'
    <3> DEFINE S == {t \in Tr : obj'[t] # Free /\ t \notin dead'}
    <3>1. S = Live'
      BY LiveNumber
    <3> HIDE DEF S
    <3> QED BY <2>2, <3>1, NewSides
  <2> QED BY <2>3, <2>4, <2>5, <2>6 DEF Graph
<1>5. CASE Taken
  <2>1. /\ trace_findfree.no # 0 /\ trace' = [trace EXCEPT ![trace_findfree.no] = Cur]
        /\ obj' = obj /\ dead' = dead /\ head' = head
    BY <1>5 DEF Taken, StartTrace
  <2>2. trace[trace_findfree.no] = Nil
    BY <1>1, <2>1, FreeNumber DEF TraceInv, Table
  <2>3. Live' = Live
    BY <2>1 DEF Live
  <2>4. \A n \in TraceNo : trace[n] \in Live \/ trace'[n] \in Live' => trace'[n] = trace[n]
    BY <1>2, <2>1, <2>2, <2>3, LiveNumber
  <2> QED BY <2>1, <2>3, <2>4, GraphSame DEF SameTrace
<1>6. CASE Dropped
  <2>1. /\ \A t \in Tr : /\ obj'[t] = Free <=> obj[t] = Free
                         /\ obj[t] # Free => /\ SameTrace(obj'[t], obj[t])
                                             /\ obj'[t].nextside = obj[t].nextside
                                             /\ obj'[t].link = obj[t].link \/ (t = trace[exitno] /\ exitno # 0 /\ obj'[t].link = exitno)
        /\ trace' = [n \in TraceNo |-> IF n = cur.no THEN Nil ELSE trace[n]]
        /\ dead' = dead /\ head' = head
    BY <1>6, PenalizeEffect DEF Dropped, DropCur
  <2>2. Live' = Live
    BY <2>1 DEF Live
  <2>3. \A n \in TraceNo : trace[n] \in Live \/ trace'[n] \in Live' => trace'[n] = trace[n]
    <3>1. \A n \in TraceNo : n = cur.no => trace[n] = Cur
      BY <1>1 DEF Numbered
    <3> QED BY <1>2, <2>1, <2>2, <3>1, LiveNumber
  <2>4. ASSUME NEW t \in Live, obj'[t].link # obj[t].link
        PROVE  obj'[t].link = obj[t].no
    <3>1. t \in Tr /\ obj[t] # Free /\ t = trace[exitno] /\ obj'[t].link = exitno /\ exitno # 0
      BY <2>1, <2>4, LiveNumber
    <3>2. exitno \in 0..maxtrace /\ maxtrace \in Nat
      BY <1>1, TypesOf, ConstantsOK
    <3> QED BY <1>1, <3>1, <3>2 DEF Numbered, TraceNo
  <2> QED BY <2>1, <2>2, <2>3, <2>4, LiveNumber, GraphSame DEF SameTrace
<1>7. ASSUME NEW p, NEW mode, setptmode(p, mode)
      PROVE  Graph'
  <2>1. /\ UNCHANGED <<obj, trace, dead>>
        /\ head' = head \/ head' = [head EXCEPT ![p] = 0]
    BY <1>7 DEF setptmode, lj_trace_flushproto
  <2>2. Live' = Live /\ \A q \in Proto : head'[q] = 0 \/ head'[q] = head[q]
    BY <1>2, <2>1 DEF Live
  <2> QED BY <2>1, <2>2, GraphSame DEF SameTrace
<1>8. ASSUME NEW t \in Tr, lj_trace_free(t)
      PROVE  Graph'
  <2>1. /\ t \in dead /\ obj' = [obj EXCEPT ![t] = Free] /\ dead' = dead \ {t} /\ head' = head
        /\ obj[t].no # 0 => trace' = [trace EXCEPT ![obj[t].no] = Nil]
        /\ obj[t].no = 0 => trace' = trace
    BY <1>8 DEF lj_trace_free
  <2>2. Live' = Live /\ t \notin Live /\ \A u \in Tr \ {t} : obj'[u] = obj[u]
    BY <1>2, <2>1 DEF Live
  <2>3. obj[t] # Free
    BY <1>1, <2>1 DEF Numbered
  <2>4. \A n \in TraceNo : trace'[n] # trace[n] => trace[n] = t /\ trace'[n] = Nil
    BY <1>1, <1>2, <2>1, <2>3 DEF Numbered
  <2>5. \A n \in TraceNo : trace[n] \in Live \/ trace'[n] \in Live' => trace'[n] = trace[n]
    BY <1>2, <2>2, <2>4, LiveNumber
  <2>6. obj'[t] = Free
    BY <1>2, <2>1
  <2> QED BY <2>1, <2>2, <2>5, <2>6, LiveNumber, GraphSame DEF SameTrace
<1> QED BY <1>3, <1>4, <1>5, <1>6, <1>7, <1>8, GraphAtomic, GraphStores, GraphUnchained, Steps

-----------------------------------------------------------------------------
(* The trace that is compiled.                                             *)

\* Outside a recording.
LEMMA NotCompiling ==
  ASSUME state' \in {"IDLE", "MCODEAL"}, cur'.no = 0, patch' = Nil, run' # Nil => state' = "IDLE"
  PROVE  Compiler'
BY DEF Compiler, Started, Compiled, PatchPending, LinkKnown, Busy, Quiet

\* After a NULL pointer nothing is left to undo.
LEMMA Crashed ==
  ASSUME PatchPending, state' = "CRASH", UNCHANGED <<patch, bc>>, run' = Nil
  PROVE  Compiler'
BY DEF Compiler, Started, Compiled, PatchPending, LinkKnown, Busy, Quiet

\* From one state of a recording to another.
LEMMA StillCompiled ==
  ASSUME Compiled, state \in Busy, state' \in Busy, UNCHANGED <<parent, exitno, nojit>>,
         cur.pc \in PC => Repatched'[cur.pc].op = Repatched[cur.pc].op \/ Repatched'[cur.pc].op = 0,
         cur' = cur \/ cur' = [cur EXCEPT !.ltype = cur'.ltype, !.link = cur'.link], cur \in Trace
  PROVE  /\ Compiled'
         /\ cur'.no = cur.no
<1>1. /\ cur'.no = cur.no /\ cur'.kind = cur.kind /\ cur'.pc = cur.pc /\ cur'.pt = cur.pt /\ cur'.root = cur.root
      /\ cur'.nextroot = cur.nextroot /\ cur'.nextside = cur.nextside /\ cur'.to = cur.to
      /\ cur'.branch = cur.branch
  BY DEF Trace
<1>2. cur.kind = "root" => Repatched'[cur.pc].op = 0
  BY DEF Compiled, PC
<1> QED BY <1>1, <1>2 DEF Compiled, IsRoot

\* What is pending comes back.
LEMMA StillPending ==
  ASSUME TraceType, PatchPending
  PROVE  /\ bc' = Pended /\ patch' = PendedPatch => Repatched' = Repatched /\ (patch' # Nil => bc'[patch'.pc] = Plain)
         /\ bc' = Repatched /\ patch' = Nil => Repatched' = Repatched
         /\ bc' = bc /\ patch' = patch => Repatched' = Repatched
<1>1. /\ patch \in Pending \union {Nil}
      /\ patch # Nil => bc[patch.pc] = Plain
  BY TypesOf DEF PatchPending
<1>2. ASSUME bc' = Pended, patch' = PendedPatch
      PROVE  Repatched' = Repatched /\ (patch' # Nil => bc'[patch'.pc] = Plain)
  <2>1. CASE patch = Nil \/ ~patch.skip
    BY <1>2, <2>1 DEF Repatched, Pended, PendedPatch
  <2>2. CASE patch # Nil /\ patch.skip
    <3>1. bc' = bc /\ patch' = [patch EXCEPT !.skip = FALSE] /\ patch \in Pending
      BY <1>1, <1>2, <2>2 DEF Pended, PendedPatch
    <3>2. patch'.pc = patch.pc /\ patch'.ins = patch.ins /\ patch' \in Pending
      BY <3>1 DEF Pending
    <3>3. patch' # Nil
      BY <3>2, DistinctOK
    <3> QED BY <1>1, <2>2, <3>1, <3>2, <3>3 DEF Repatched
  <2> QED BY <2>1, <2>2
<1> QED BY <1>2 DEF Repatched

\* A function that only returns is unpatched for one instruction.
LEMMA UnpatchedOnce ==
  ASSUME TraceInv, NEW pc \in Func, rec_func_jit(pc)
  PROVE  Repatched' = Repatched /\ (patch' # Nil => bc'[patch'.pc] = Plain)
<1>1. TraceType /\ PatchPending
  BY DEF TraceInv, Compiler
<1>2. /\ bc' = [Pended EXCEPT ![pc] = Plain] /\ cur' = cur /\ UNCHANGED <<parent, exitno, nojit, run>>
      /\ patch' = [pc |-> pc, ins |-> Pended[pc], skip |-> FALSE]
      /\ state' = "RECORD" /\ PendedPatch = Nil
  BY <1>1 DEF rec_func_jit
<1>3. pc \in PC /\ patch' # Nil /\ Pended \in [PC -> [op : 0..2, d : 0..maxtrace]]
  <2>1. patch' \in Pending
    <3>1. pc \in PC /\ Pended[pc].op = J /\ Pended[pc] \in [op : 0..2, d : 0..maxtrace]
      BY <1>1, Bytecode DEF rec_func_jit, PC
    <3>2. Repatched[pc] = Pended[pc] /\ Repatched[pc].d \in TraceNo
      BY <1>1, <3>1, Bytecode, PatchedRoots
    <3>3. Pended[pc] \in [op : {J}, d : TraceNo]
      BY <3>1, <3>2
    <3> QED BY <1>2, <3>1, <3>3 DEF Pending
  <2> QED BY <1>1, <2>1, Bytecode, DistinctOK DEF PC
<1>4. Pended = Repatched
  <2>1. patch = Nil \/ ~patch.skip
    <3>1. SUFFICES ASSUME patch # Nil, patch.skip
                   PROVE  FALSE
      BY <1>1, TypesOf DEF Pending
    <3>2. PendedPatch = [patch EXCEPT !.skip = FALSE] /\ patch \in Pending
      BY <1>1, <3>1, TypesOf DEF PendedPatch
    <3>3. PendedPatch \in Pending
      BY <3>2 DEF Pending
    <3> QED BY <1>2, <3>3, DistinctOK
  <2> QED BY <2>1 DEF Pended, Repatched
<1>5. Repatched' = [bc' EXCEPT ![pc] = Pended[pc]] /\ bc'[pc] = Plain /\ patch'.pc = pc
  BY <1>2, <1>3 DEF Repatched
<1>6. Repatched' = Repatched
  BY <1>2, <1>3, <1>4, <1>5
<1> QED BY <1>2, <1>5, <1>6

\* Recording: the link is known when it ends.
LEMMA CompilerRecord ==
  ASSUME TraceInv, TraceType', Record
  PROVE  Compiler'
<1>1. TraceType /\ Started /\ Compiled /\ PatchPending /\ LinkKnown /\ state = "RECORD" /\ Numbered
  BY DEF TraceInv, Compiler, Table, Record, lj_record_ins, lj_record_stop, lj_trace_err, lj_trace_abort, rec_func_jit, check_call_unroll
<1>2. cur \in Trace /\ cur.no # 0 /\ cur.link = 0 /\ cur.ltype # "loop" /\ run = Nil
  <2>1. cur \in Trace /\ cur.no # 0
    BY <1>1, TypesOf DEF Compiled, Busy
  <2>2. cur.link = 0 /\ cur.ltype # "loop" /\ run = Nil
    BY <1>1, <2>1 DEF LinkKnown, PatchPending, Busy
  <2> QED BY <2>1, <2>2
<1>3. ASSUME state' \in {"RECORD", "ABORTED", "ERR"}, cur' = cur, UNCHANGED <<parent, exitno, nojit, run>>,
             cur.pc \in PC => Repatched'[cur.pc].op = Repatched[cur.pc].op \/ Repatched'[cur.pc].op = 0,
             patch' # Nil => bc'[patch'.pc] = Plain,
             state' = "ERR" => \/ err' \in {"RECERR", "RETRY"}
                               \/ err' = "DOWNREC" /\ jpc'.kind = "ret" /\ jpc'.pc \in Ret /\ jpc'.pt = protoOf[jpc'.pc]
      PROVE  Compiler'
  <2>1. Compiled'
    BY <1>1, <1>2, <1>3, StillCompiled DEF Busy
  <2>2. Started'
    BY <1>3 DEF Started
  <2>3. PatchPending'
    <3>1. state' = "ERR" => err' # "MCODELM"
      BY <1>3
    <3> QED BY <1>2, <1>3, <3>1 DEF PatchPending, Quiet
  <2>4. LinkKnown'
    BY <1>2, <1>3 DEF LinkKnown
  <2> QED BY <2>1, <2>2, <2>3, <2>4 DEF Compiler
<1>4. ASSUME lj_record_ins \/ lj_trace_err
      PROVE  Compiler'
  <2>1. /\ bc' = Pended /\ patch' = PendedPatch /\ cur' = cur /\ UNCHANGED <<parent, exitno, nojit, run>>
        /\ state' \in {"RECORD", "ERR"}
    BY <1>1, <1>4 DEF lj_record_ins, lj_trace_err
  <2>2. state' = "ERR" => \/ err' \in {"RECERR", "RETRY"}
                          \/ err' = "DOWNREC" /\ jpc'.kind = "ret" /\ jpc'.pc \in Ret /\ jpc'.pt = protoOf[jpc'.pc]
    BY <1>1, <1>4 DEF lj_record_ins, lj_trace_err
  <2> QED BY <1>1, <1>3, <2>1, <2>2, StillPending
<1>5. ASSUME lj_trace_abort
      PROVE  Compiler'
  <2>1. /\ bc' = bc /\ patch' = patch /\ cur' = cur /\ UNCHANGED <<parent, exitno, nojit, run>>
        /\ state' = "ABORTED"
    BY <1>5 DEF lj_trace_abort
  <2> QED BY <1>1, <1>3, <2>1, StillPending DEF PatchPending
<1>6. ASSUME NEW pc \in Func, rec_func_jit(pc)
      PROVE  Compiler'
  <2>1. cur' = cur /\ UNCHANGED <<parent, exitno, nojit, run>> /\ state' = "RECORD"
    BY <1>1, <1>6 DEF rec_func_jit
  <2> QED BY <1>3, <1>6, <2>1, UnpatchedOnce
<1>7. ASSUME NEW pc \in Func, check_call_unroll(pc)
      PROVE  Compiler'
  <2>1. /\ bc' \in {bc, [bc EXCEPT ![traceref(bc[pc].d).pc] = Plain]} /\ cur' = cur /\ patch' = Nil /\ patch = Nil
        /\ UNCHANGED <<parent, exitno, nojit, run>> /\ state' = "ERR" /\ err' = "RECERR"
    BY <1>7 DEF check_call_unroll, lj_trace_flush, trace_flushroot, trace_unpatch
  <2>2. Repatched' = bc' /\ Repatched = bc /\ bc \in Bytes
    BY <1>1, <2>1, TypesOf DEF Repatched
  <2>3. \A x \in PC : bc'[x].op = bc[x].op \/ bc'[x].op = 0
    BY <2>1, <2>2 DEF Bytes, Plain
  <2> QED BY <1>3, <2>1, <2>2, <2>3
<1>8. ASSUME lj_record_stop
      PROVE  Compiler'
  <2>1. PICK l \in StopLinks : cur' = [cur EXCEPT !.ltype = l[1], !.link = l[2]]
    BY <1>8 DEF lj_record_stop
  <2>2. /\ bc' = Pended /\ patch' = PendedPatch /\ UNCHANGED <<parent, exitno, nojit, run, trace, obj, dead>>
        /\ state' = "END"
    BY <1>8 DEF lj_record_stop
  <2>3. /\ cur'.ltype = l[1] /\ cur'.link = l[2]
        /\ cur' = [cur EXCEPT !.ltype = cur'.ltype, !.link = cur'.link]
    BY <1>2, <2>1 DEF Trace
  <2>4. Compiled' /\ cur'.no = cur.no
    BY <1>1, <1>2, <2>2, <2>3, StillPending, StillCompiled DEF Busy
  <2>5. Live' = Live
    BY <2>2 DEF Live
  <2>6. LinkKnown'
    <3>1. CASE l \in {<<"return", 0>>, <<"stitch", 0>>}
      BY <1>2, <2>2, <2>3, <2>4, <3>1 DEF LinkKnown
    <3>2. CASE l = <<"loop", cur.no>>
      BY <1>2, <2>2, <2>3, <2>4, <3>2 DEF LinkKnown
    <3>3. CASE \E pc \in PC : Pended[pc].op = J /\ l = <<"root", Pended[pc].d>>
      <4>1. PICK pc \in PC : Pended[pc].op = J /\ l = <<"root", Pended[pc].d>>
        BY <3>3
      <4>2. Repatched[pc] = Pended[pc] /\ l[2] \in TraceNo /\ IsLive(l[2])
        BY <1>1, <4>1, Bytecode, PatchedRoots
      <4>3. trace[l[2]] \in Tr /\ trace'[l[2]] \in Live'
        BY <2>2, <2>5, <4>2, LiveNumber
      <4>4. l[2] # cur.no /\ l[2] # 0
        BY <1>1, <4>2, <4>3, DistinctOK, ConstantsOK DEF Numbered, TraceNo
      <4>6. \A n : n = l[2] => IsLive(n)'
        BY <4>2, <4>3, LiveNumber
      <4> QED BY <2>2, <2>3, <2>4, <4>1, <4>4, <4>6 DEF LinkKnown
    <3> QED BY <2>1, <3>1, <3>2, <3>3 DEF StopLinks
  <2>7. Started' /\ PatchPending'
    BY <1>1, <1>2, <2>2, StillPending DEF Started, PatchPending, Quiet
  <2> QED BY <2>4, <2>6, <2>7 DEF Compiler
<1> QED BY <1>4, <1>5, <1>6, <1>7, <1>8 DEF Record

\* Running traces and the host program: no recording goes on, except for an
\* error that unwinds a frame before the recorder notices.
LEMMA CompilerRun ==
  ASSUME TraceInv, "throw" \notin Ops, Run
  PROVE  Compiler'
<1>1. TraceType /\ Started /\ Compiled /\ PatchPending /\ LinkKnown
  BY DEF TraceInv, Compiler
<1>2. run # Nil => state = "IDLE"
  BY <1>1 DEF PatchPending
<1>3. state = "IDLE" => cur.no = 0 /\ patch = Nil
  BY <1>1 DEF PatchPending, Quiet
<1>4. ASSUME NEW t \in Tr, Unwind(t)
      PROVE  Compiler'
  <2>1. UNCHANGED <<bc, nojit, state, jpc, err, parent, exitno, cur, patch, run, trace, obj, dead>>
    BY <1>4 DEF Unwind
  <2>2. Started' /\ Compiled' /\ PatchPending' /\ LinkKnown'
    BY <1>1, <2>1 DEF Started, Compiled, PatchPending, LinkKnown, Repatched, IsLive, Saved, Exists, Live
  <2> QED BY <2>2 DEF Compiler
<1>5. ASSUME (\E pc \in PC : EnterTrace(pc)) \/ JumpOn \/ LeaveTrace \/ lj_trace_exit
      PROVE  Compiler'
  <2>1. state = "IDLE" /\ UNCHANGED <<cur, patch, bc>> /\ (state' = "IDLE" \/ (state' = "CRASH" /\ run' = Nil))
    BY <1>2, <1>5 DEF EnterTrace, JumpOn, LeaveTrace, lj_trace_exit
  <2> QED BY <1>1, <1>3, <2>1, NotCompiling, Crashed
<1>6. ASSUME NEW p \in Proto, trace_hotside(p)
      PROVE  Compiler'
  <2>1. state = "IDLE" /\ UNCHANGED <<cur, patch, bc>> /\ run' = Nil /\ exitno' = 0
        /\ (state' = "IDLE" \/ (state' = "START" /\ jpc' = [kind |-> "side", pt |-> p, pc |-> Nil]))
    BY <1>2, <1>6 DEF trace_hotside
  <2>2. CASE state' = "IDLE"
    BY <1>3, <2>1, <2>2, NotCompiling
  <2>3. CASE state' = "START"
    BY <1>3, <2>1, <2>3 DEF Compiler, Started, Compiled, PatchPending, LinkKnown, Busy, Quiet
  <2> QED BY <2>1, <2>2, <2>3
<1>7. ASSUME NEW t \in Tr, NEW p \in Proto, lj_cont_stitch(t, p)
      PROVE  Compiler'
  <2>1. state = "IDLE" /\ run = Nil /\ UNCHANGED <<cur, patch, bc>>
    BY <1>7 DEF lj_cont_stitch
  <2>2. \/ state' = "IDLE"
        \/ state' = "CRASH" /\ run' = Nil
        \/ /\ state' = "START" /\ run' = Nil /\ parent' = 0 /\ exitno' # 0
           /\ jpc' = [kind |-> "stitch", pt |-> p, pc |-> Nil]
    BY <1>7, <2>1 DEF lj_cont_stitch
  <2>3. CASE state' = "START" /\ run' = Nil /\ parent' = 0 /\ exitno' # 0 /\ jpc' = [kind |-> "stitch", pt |-> p, pc |-> Nil]
    BY <1>3, <2>1, <2>3 DEF Compiler, Started, Compiled, PatchPending, LinkKnown, Busy, Quiet
  <2> QED BY <1>1, <1>3, <2>1, <2>2, <2>3, NotCompiling, Crashed
<1> QED BY <1>4, <1>5, <1>6, <1>7 DEF Run

\* All traces are flushed outside a recording.
LEMMA CompilerFlushed ==
  ASSUME TraceInv, AllFlushed
  PROVE  Compiler'
<1>1. patch = Nil
  BY DEF TraceInv, Compiler, PatchPending, AllFlushed
<1>2. cur'.no = 0
  BY <1>1, FlushAllEffect DEF AllFlushed
<1> QED BY <1>1, <1>2, NotCompiling DEF AllFlushed

\* The host program keeps the invariant of the compiler.
LEMMA CompilerHost ==
  ASSUME TraceInv, Host
  PROVE  Compiler'
<1>1. state = "IDLE" => cur.no = 0 /\ patch = Nil
  BY DEF TraceInv, Compiler, PatchPending, Quiet
<1>2. ASSUME FlushAll
      PROVE  Compiler'
  BY <1>2, CompilerFlushed DEF FlushAll, Calls, AllFlushed, Quiet
<1>3. ASSUME (\E n \in TraceNo : FlushTrace(n)) \/ (\E p \in Proto, mode \in {"on", "off", "flush"} : setptmode(p, mode))
      PROVE  Compiler'
  <2>1. state = "IDLE" /\ state' = "IDLE" /\ UNCHANGED <<cur, patch>>
    BY <1>3 DEF FlushTrace, setptmode, Calls
  <2> QED BY <1>1, <2>1, NotCompiling
<1> QED BY <1>2, <1>3 DEF Host

\* The collector runs when no link is known yet.
LEMMA CompilerCollect ==
  ASSUME TraceInv, Collect
  PROVE  Compiler'
<1>1. Started /\ Compiled /\ PatchPending /\ LinkKnown /\ state \in {"IDLE", "RECORD", "ABORTED"}
  BY DEF TraceInv, Compiler, Collect, GCAtomic, lj_trace_free
<1>2. UNCHANGED <<bc, nojit, state, jpc, err, parent, exitno, cur, patch, run>>
  BY DEF Collect, GCAtomic, lj_trace_free
<1>3. Started' /\ Compiled' /\ PatchPending'
  BY <1>1, <1>2 DEF Started, Compiled, PatchPending, Repatched
<1>4. LinkKnown'
  BY <1>1, <1>2 DEF LinkKnown, Busy
<1> QED BY <1>3, <1>4 DEF Compiler

\* A trace starts: of the kind that was asked for.
LEMMA CompilerStart ==
  ASSUME TraceInv, NEW x \in {Nil} \union Ret, StartTrace(x), run = Nil, UNCHANGED <<run, jpc, err>>,
         \/ /\ state = "START" /\ UNCHANGED <<parent, exitno>>
            /\ x # Nil => jpc.kind = "side" /\ bc[x].op = J
         \/ state = "DOWNREC" /\ parent' = 0 /\ exitno' = 0 /\ x = Nil
  PROVE  Compiler'
<1> DEFINE f == trace_findfree
<1>1. TraceType /\ Started /\ PatchPending /\ patch = Nil /\ Room
  BY DEF TraceInv, Compiler, PatchPending, Quiet, Table
<1>2. /\ f.no # 0 /\ jpc.pt \notin nojit /\ nojit' = nojit
      /\ lj_record_setup(NewTrace(f.no, jpc.kind, jpc.pt, jpc.pc))
  BY DEF StartTrace
<1>3. \/ /\ x # Nil /\ state' = "RECORD" /\ bc' = [bc EXCEPT ![x] = Plain]
         /\ patch' = [pc |-> x, ins |-> bc[x], skip |-> TRUE]
      \/ (x = Nil \/ state' # "RECORD") /\ patch' = Nil /\ bc' = bc
  BY <1>1 DEF StartTrace
<1> HIDE DEF f
<1>4. /\ cur'.no = f.no /\ cur'.kind = jpc.kind /\ cur'.pt = jpc.pt /\ cur'.pc = jpc.pc
      /\ cur'.link = 0 /\ cur'.nextroot = 0 /\ cur'.nextside = 0 /\ cur'.to = Nil /\ cur'.branch = Nil
      /\ cur'.ltype # "loop"
      /\ state' \in {"RECORD", "END", "CRASH"}
      /\ jpc.kind # "side" => cur'.root = 0 /\ state' = "RECORD"
      /\ jpc.kind = "side" /\ state' # "CRASH" => Exists(parent) /\ Exists(RootOf(parent)) /\ cur'.root = RootOf(parent)
  BY <1>2, SetupEffect
<1>5. CASE state' = "CRASH"
  BY <1>1, <1>3, <1>5, Crashed
<1>6. CASE state' # "CRASH"
  <2>1. state' \in {"RECORD", "END"}
    BY <1>4, <1>6
  <2>2. Started'
    BY <2>1 DEF Started
  <2>3. Compiled'
    <3>1. CASE jpc.kind = "side"
      <4>1. parent # 0 /\ RootOf(parent) # 0
        BY <1>4, <1>6, <3>1 DEF Exists, TraceNo
      <4>2. state = "START" /\ exitno = 0 /\ jpc.pc = Nil
        BY <1>1, <3>1 DEF Started
      <4>3. cur'.root # 0 /\ parent' # 0 /\ exitno' = 0 /\ cur'.pc = Nil /\ cur'.kind = "side"
        BY <1>4, <1>6, <3>1, <4>1, <4>2
      <4> QED BY <1>2, <1>4, <4>3 DEF Compiled, IsRoot
    <3>2. CASE jpc.kind = "root"
      <4>1. state = "START" /\ parent = 0 /\ exitno = 0 /\ jpc.pc \in Loop \union Func /\ bc[jpc.pc].op = 0 /\ jpc.pt = protoOf[jpc.pc]
        BY <1>1, <3>2 DEF Started
      <4>2. bc' = bc /\ patch' = Nil /\ parent' = 0 /\ exitno' = 0
        BY <1>3, <3>2, <4>1
      <4>3. Repatched' = bc
        BY <4>2 DEF Repatched
      <4> QED BY <1>2, <1>4, <3>2, <4>1, <4>2, <4>3 DEF Compiled, IsRoot
    <3>3. CASE jpc.kind = "stitch"
      <4>1. state = "START" /\ jpc.pc = Nil /\ parent = 0 /\ exitno # 0
        BY <1>1, <3>3 DEF Started
      <4>2. parent' = 0 /\ exitno' # 0
        BY <4>1
      <4> QED BY <1>2, <1>4, <3>3, <4>1, <4>2 DEF Compiled, IsRoot
    <3>4. CASE state = "DOWNREC"
      <4>1. jpc.kind = "ret" /\ jpc.pc \in Ret /\ jpc.pt = protoOf[jpc.pc] /\ parent' = 0 /\ exitno' = 0
        BY <1>1, <3>4 DEF Started
      <4> QED BY <1>2, <1>4, <4>1 DEF Compiled, IsRoot
    <3> QED BY <1>1, <3>1, <3>2, <3>3, <3>4 DEF Started
  <2>4. PatchPending'
    <3>1. patch' # Nil => bc'[patch'.pc] = Plain
      <4>1. bc \in Bytes /\ Ret \subseteq PC
        BY <1>1, TypesOf DEF PC
      <4> QED BY <1>3, <4>1 DEF Bytes
    <3> QED BY <2>1, <3>1 DEF PatchPending, Quiet
  <2>5. LinkKnown'
    BY <1>2, <1>4 DEF LinkKnown
  <2> QED BY <2>2, <2>3, <2>4, <2>5 DEF Compiler
<1> QED BY <1>5, <1>6

\* The compiler: a recording goes on, ends, or has not begun.
LEMMA CompilerCompile ==
  ASSUME TraceInv, TraceType', Compile
  PROVE  Compiler'
<1>1. TraceType /\ Started /\ Compiled /\ PatchPending /\ LinkKnown /\ Numbered
  BY DEF TraceInv, Compiler, Table
<1>2. state # "IDLE" => run = Nil
  BY <1>1 DEF PatchPending
<1>3. ASSUME trace_start
      PROVE  Compiler'
  <2>1. CASE NoJIT /\ state' = "IDLE"
    <3>1. cur' = cur /\ patch' = patch /\ cur.no = 0 /\ patch = Nil
      BY <1>1, <1>3, <2>1 DEF NoJIT, trace_start, PatchPending, Quiet
    <3> QED BY <2>1, <3>1, NotCompiling
  <2>2. CASE NoFreeTrace /\ state' = "IDLE"
    BY <1>2, <1>3, <2>2, CompilerFlushed DEF trace_start, NoFreeTrace, AllFlushed, Quiet
  <2>3. ASSUME NEW x \in {Nil} \union (IF jpc.kind = "side" THEN {r \in Ret : bc[r].op = J} ELSE {}), StartTrace(x)
        PROVE  Compiler'
    <3>1. x \in {Nil} \union Ret /\ (x # Nil => jpc.kind = "side" /\ bc[x].op = J)
      BY <2>3
    <3>2. state = "START" /\ UNCHANGED <<run, jpc, err, parent, exitno>> /\ run = Nil
      BY <1>2, <1>3 DEF trace_start
    <3> QED BY <2>3, <3>1, <3>2, CompilerStart
  <2> QED BY <1>3, <2>1, <2>2, <2>3 DEF trace_start
<1>4. ASSUME lj_opt_loop
      PROVE  Compiler'
  <2>1. /\ state = "END" /\ bc' = Repatched /\ patch' = Nil /\ UNCHANGED <<parent, exitno, nojit, run, jpc, trace, obj, dead>>
        /\ \/ state' = "ASM" /\ cur' = cur
           \/ state' = "ERR" /\ err' = "RECERR" /\ cur' = cur
           \/ state' = "RECORD" /\ cur' = [cur EXCEPT !.link = 0, !.ltype = "none"]
    BY <1>4 DEF lj_opt_loop
  <2>2. cur' = cur \/ (cur' = [cur EXCEPT !.ltype = cur'.ltype, !.link = cur'.link] /\ cur'.link = 0 /\ cur'.ltype = "none")
    BY <1>1, <2>1, TypesOf DEF Trace
  <2>3. Compiled' /\ cur'.no = cur.no
    BY <1>1, <2>1, <2>2, StillPending, StillCompiled, TypesOf DEF Busy
  <2>4. LinkKnown'
    <3>1. CASE cur' = cur /\ state' \in {"ASM", "ERR"}
      <4>1. Live' = Live
        BY <2>1 DEF Live
      <4> QED BY <1>1, <2>1, <3>1, <4>1, LiveNumber DEF LinkKnown, Busy
    <3>2. CASE state' = "RECORD"
      <4>1. cur'.link = 0 /\ cur'.ltype = "none" /\ cur'.no # 0
        BY <1>1, <2>1, <2>3, <3>2, TypesOf DEF Trace, Compiled, Busy
      <4> QED BY <3>2, <4>1 DEF LinkKnown
    <3> QED BY <2>1, <3>1, <3>2
  <2>5. Started' /\ PatchPending'
    BY <1>2, <2>1 DEF Started, PatchPending, Quiet
  <2> QED BY <2>3, <2>4, <2>5 DEF Compiler
<1>5. ASSUME lj_asm_error
      PROVE  Compiler'
  <2>1. /\ state = "ASM" /\ state' = "ERR" /\ err' # "DOWNREC"
        /\ UNCHANGED <<bc, patch, cur, parent, exitno, nojit, run, jpc, trace, obj, dead>>
    BY <1>5 DEF lj_asm_error
  <2>2. Compiled'
    BY <1>1, <2>1, StillPending, StillCompiled, TypesOf DEF Busy
  <2>3. LinkKnown'
    <3>1. Live' = Live
      BY <2>1 DEF Live
    <3> QED BY <1>1, <2>1, <3>1, LiveNumber DEF LinkKnown, Busy
  <2>4. Started' /\ PatchPending'
    BY <1>1, <1>2, <2>1 DEF Started, PatchPending, Quiet
  <2> QED BY <2>2, <2>3, <2>4 DEF Compiler
<1>6. ASSUME NEW o \in Tr, trace_stop(o)
      PROVE  Compiler'
  <2>1. CASE Crash
    BY <1>1, <1>2, <1>6, <2>1, Crashed DEF Crash, trace_stop
  <2>2. CASE Stores(o)
    <3>1. cur'.no = 0
      BY <1>1, <2>2, TypesOf DEF Stores, Trace
    <3> QED BY <2>2, <3>1, NotCompiling DEF Stores
  <2> QED BY <1>6, <2>1, <2>2, StopStores
<1>7. ASSUME trace_abort
      PROVE  Compiler'
  <2>1. state \in {"ERR", "ABORTED"} /\ run = Nil /\ UNCHANGED <<nojit, jpc, err, parent, exitno, run>>
    BY <1>7 DEF trace_abort
  <2>2. CASE /\ Aborted = "MCODELM" /\ state' = "ASM"
             /\ UNCHANGED <<bc, iloop, obj, trace, freetrace, cur, penVars, patch>>
    <3>1. state = "ERR" /\ err = "MCODELM" /\ patch = Nil
      BY <1>1, <2>1, <2>2 DEF Aborted, PatchPending
    <3>2. Compiled'
      BY <1>1, <2>1, <2>2, StillPending, StillCompiled, TypesOf DEF Busy
    <3>3. LinkKnown'
      <4>1. Live' = Live /\ trace' = trace /\ cur' = cur
        BY <1>7, <2>2 DEF Live, trace_abort
      <4> QED BY <1>1, <2>2, <3>1, <4>1, LiveNumber DEF LinkKnown, Busy
    <3>4. Started' /\ PatchPending'
      BY <1>1, <2>1, <2>2, <3>1 DEF Started, PatchPending, Quiet
    <3> QED BY <3>2, <3>3, <3>4 DEF Compiler
  <2>3. CASE DropCur /\ patch' = Nil /\ state' = IF Aborted \in {"DOWNREC", "MCODEAL"} THEN Aborted ELSE "IDLE"
    <3>1. cur'.no = 0
      BY <1>1, <2>3, TypesOf DEF DropCur, Trace
    <3>2. CASE state' \in {"IDLE", "MCODEAL"}
      BY <2>1, <2>3, <3>1, <3>2, NotCompiling
    <3>3. CASE state' = "DOWNREC"
      <4>1. state = "ERR" /\ err = "DOWNREC"
        BY <2>1, <2>3, <3>3 DEF Aborted
      <4>2. jpc'.kind = "ret" /\ jpc'.pc \in Ret /\ jpc'.pt = protoOf[jpc'.pc]
        BY <1>1, <2>1, <4>1 DEF Started
      <4> QED BY <2>1, <2>3, <3>1, <3>3, <4>2 DEF Compiler, Started, Compiled, PatchPending, LinkKnown, Busy, Quiet
    <3> QED BY <2>3, <3>2, <3>3
  <2>4. CASE state' = "CRASH" /\ UNCHANGED <<bc, iloop, obj, trace, freetrace, cur, penVars, patch>>
    BY <1>1, <2>1, <2>4, Crashed
  <2> QED BY <1>7, <2>2, <2>3, <2>4 DEF trace_abort
<1>8. ASSUME trace_downrec
      PROVE  Compiler'
  <2>1. StartTrace(Nil) /\ state = "DOWNREC" /\ parent' = 0 /\ exitno' = 0 /\ UNCHANGED <<run, jpc, err>> /\ run = Nil
    BY <1>2, <1>8 DEF trace_downrec
  <2> QED BY <2>1, CompilerStart
<1>9. ASSUME MCodeFlush
      PROVE  Compiler'
  BY <1>2, <1>9, CompilerFlushed DEF MCodeFlush, AllFlushed, Quiet
<1> QED BY <1>3, <1>4, <1>5, <1>6, <1>7, <1>8, <1>9 DEF Compile

\* Every step keeps what is known of the trace that is compiled.
LEMMA CompilerKept ==
  ASSUME TraceInv, TraceType', "throw" \notin Ops, [Next]_vars
  PROVE  Compiler'
<1>1. TraceType /\ Started /\ Compiled /\ PatchPending /\ LinkKnown
  BY DEF TraceInv, Compiler
<1>2. CASE UNCHANGED vars
  <2>1. UNCHANGED <<bc, nojit, state, jpc, err, parent, exitno, cur, patch, run, trace, obj, dead>>
    BY <1>2 DEF vars
  <2>2. Started' /\ Compiled' /\ PatchPending' /\ LinkKnown'
    BY <1>1, <2>1 DEF Started, Compiled, PatchPending, LinkKnown, Repatched, IsLive, Saved, Exists, Live
  <2> QED BY <2>2 DEF Compiler
<1>3. ASSUME NEW pc \in PC, lj_trace_hot(pc)
      PROVE  Compiler'
  <2>1. /\ state = "IDLE" /\ state' = "START" /\ run = Nil /\ parent' = 0 /\ exitno' = 0
        /\ pc \in Loop \union Func /\ bc[pc].op = 0 /\ jpc' = [kind |-> "root", pt |-> protoOf[pc], pc |-> pc]
        /\ UNCHANGED <<bc, cur, patch, run>>
    BY <1>3 DEF lj_trace_hot
  <2>2. cur.no = 0 /\ patch = Nil /\ protoOf[pc] \in Proto
    BY <1>1, <2>1, ConstantsOK DEF PatchPending, Quiet
  <2> QED BY <2>1, <2>2 DEF Compiler, Started, Compiled, PatchPending, LinkKnown, Busy, Quiet
<1> QED BY <1>2, <1>3, CompilerCompile, CompilerRecord, CompilerRun, CompilerHost, CompilerCollect DEF Next

-----------------------------------------------------------------------------
(* The chain of the root traces of a prototype.                            *)

\* What the walk is: its definition has exactly one solution.
LEMMA WalkSteps ==
  ASSUME TraceType, Numbered, NEW p \in Proto
  PROVE  /\ Walk(p) \in [0..maxtrace -> 0..maxtrace] /\ Walk(p)[0] = head[p]
         /\ \A i \in 1..maxtrace :
              Walk(p)[i] = IF Exists(Walk(p)[i - 1]) THEN traceref(Walk(p)[i - 1]).nextroot ELSE 0
<1> DEFINE isDef(h) == h = [i \in 0..maxtrace |-> IF i = 0 THEN head[p]
                                                  ELSE IF Exists(h[i - 1]) THEN traceref(h[i - 1]).nextroot ELSE 0]
           next(v) == IF Exists(v) THEN traceref(v).nextroot ELSE 0
           F == [x \in (1..maxtrace) \X (0..maxtrace) |-> next(x[2])]
           at == CHOOSE h : isDef(h)
<1>1. maxtrace \in Nat /\ head[p] \in 0..maxtrace
  BY TypesOf, ConstantsOK
<1>2. ASSUME NEW v \in 0..maxtrace
      PROVE  next(v) \in 0..maxtrace
  <2>1. Exists(v) => traceref(v) \in Trace
    BY TypesOf DEF Exists, traceref, Numbered
  <2> QED BY <1>1, <2>1 DEF Trace
<1>3. F \in [(1..maxtrace) \X (0..maxtrace) -> 0..maxtrace]
  BY <1>2
<1>4. \A i \in 1..maxtrace, v \in 0..maxtrace : F[<<i, v>>] = next(v)
  OBVIOUS
<1> HIDE DEF F, next
<1>5. PICK f : Accumulates(f, 0..maxtrace, head[p], maxtrace, F)
  BY <1>1, <1>3, AccumulationExists
<1>6. f \in [0..maxtrace -> 0..maxtrace] /\ f[0] = head[p] /\ \A i \in 1..maxtrace : f[i] = next(f[i - 1])
  <2>1. f \in [0..maxtrace -> 0..maxtrace] /\ f[0] = head[p] /\ \A i \in 1..maxtrace : f[i] = F[<<i, f[i - 1]>>]
    BY <1>5 DEF Accumulates
  <2>2. \A i \in 1..maxtrace : f[i - 1] \in 0..maxtrace
    BY <1>1, <2>1
  <2> QED BY <1>4, <2>1, <2>2
<1>7. isDef(f)
  <2>1. f = [i \in 0..maxtrace |-> f[i]]
    BY <1>6
  <2>2. \A i \in 0..maxtrace : f[i] = IF i = 0 THEN head[p] ELSE next(f[i - 1])
    BY <1>1, <1>6
  <2> QED BY <2>1, <2>2 DEF next
<1>8. isDef(at)
  <2> HIDE DEF isDef
  <2> QED BY <1>7
<1>9. Walk(p) = at
  BY DEF Walk
<1> HIDE DEF at
<1>10. at[0] = head[p] /\ \A i \in 1..maxtrace : at[i] = next(at[i - 1])
  BY <1>1, <1>8 DEF next
<1>11. \A i \in 1..maxtrace : at[i - 1] = f[i - 1] => at[i] = f[i]
  BY <1>6, <1>10
<1>12. \A i \in 0..maxtrace : at[i] = f[i]
  <2>1. at[0] = f[0] /\ maxtrace \in Nat
    BY <1>1, <1>6, <1>10
  <2> QED BY <1>11, <2>1, AccumulationUnique
<1>13. at \in [0..maxtrace -> 0..maxtrace]
  BY <1>6, <1>8, <1>12
<1> QED BY <1>9, <1>10, <1>13 DEF next

\* It meets root traces of the prototype until it is at the end, and stays there.
LEMMA WalkRoots ==
  ASSUME TraceType, Numbered, Roots, NEW p \in Proto
  PROVE  /\ \A i \in 0..maxtrace : Walk(p)[i] # 0 => RootAt(Walk(p)[i], p)
         /\ \A i \in 1..maxtrace : Walk(p)[i] # 0 =>
              Walk(p)[i - 1] # 0 /\ Walk(p)[i] = obj[trace[Walk(p)[i - 1]]].nextroot
         /\ \A i \in 1..maxtrace : Walk(p)[i - 1] # 0 => Walk(p)[i] = obj[trace[Walk(p)[i - 1]]].nextroot
<1> DEFINE w == Walk(p)
           S == {i \in Nat : i <= maxtrace => (w[i] # 0 => RootAt(w[i], p))}
<1>1. /\ w[0] = head[p] /\ maxtrace \in Nat
      /\ \A i \in 1..maxtrace : w[i] = IF Exists(w[i - 1]) THEN traceref(w[i - 1]).nextroot ELSE 0
  BY WalkSteps, ConstantsOK
<1> HIDE DEF w
<1>2. 0 \in S
  BY <1>1 DEF Roots
<1>3. ASSUME NEW i \in Nat, w[i] # 0, i + 1 <= maxtrace, RootAt(w[i], p)
      PROVE  w[i + 1] = obj[trace[w[i]]].nextroot /\ (w[i + 1] # 0 => RootAt(w[i + 1], p))
  <2>1. i + 1 \in 1..maxtrace /\ (i + 1) - 1 = i
    BY <1>1, <1>3
  <2>2. w[i + 1] = IF Exists(w[i]) THEN traceref(w[i]).nextroot ELSE 0
    BY <1>1, <2>1
  <2>3. Saved(w[i]) /\ Exists(w[i]) /\ traceref(w[i]) = obj[trace[w[i]]] /\ trace[w[i]] \in Live
        /\ obj[trace[w[i]]].no # 0 /\ obj[trace[w[i]]].pt = p
    BY <1>3, SavedNumbers DEF RootAt, IsLive, Saved, TraceNo
  <2> QED BY <2>2, <2>3 DEF Roots
<1>4. ASSUME NEW i \in Nat, w[i] = 0, i + 1 <= maxtrace
      PROVE  w[i + 1] = 0
  <2>1. i + 1 \in 1..maxtrace /\ (i + 1) - 1 = i
    BY <1>1, <1>4
  <2> QED BY <1>1, <1>4, <2>1 DEF Exists, TraceNo
<1>5. ASSUME NEW i \in Nat, i \in S
      PROVE  i + 1 \in S
  BY <1>1, <1>3, <1>4, <1>5
<1>6. \A i \in Nat : i \in S
  <2> HIDE DEF S
  <2> QED BY <1>2, <1>5, SetInduction
<1>7. ASSUME NEW i \in 1..maxtrace
      PROVE  /\ w[i] # 0 => w[i - 1] # 0 /\ w[i] = obj[trace[w[i - 1]]].nextroot
             /\ w[i - 1] # 0 => w[i] = obj[trace[w[i - 1]]].nextroot
  <2>1. i - 1 \in Nat /\ (i - 1) + 1 = i /\ i <= maxtrace /\ i - 1 <= maxtrace
    BY <1>1
  <2>2. w[i - 1] # 0 => RootAt(w[i - 1], p)
    BY <1>6, <2>1
  <2> QED BY <1>3, <1>4, <2>1, <2>2
<1>8. \A i \in 0..maxtrace : w[i] # 0 => RootAt(w[i], p)
  BY <1>1, <1>6
<1> QED BY <1>7, <1>8 DEF w

\* It ends: there are no more numbers, and no cycle.
LEMMA WalkEnds ==
  ASSUME TraceType, Numbered, Roots, NoCycle, NEW p \in Proto
  PROVE  Walk(p)[maxtrace] = 0
<1> DEFINE w == Walk(p)
<1>1. /\ maxtrace \in Nat /\ w \in [0..maxtrace -> 0..maxtrace]
      /\ \A i \in 0..maxtrace : w[i] # 0 => RootAt(w[i], p)
      /\ \A i \in 1..maxtrace : w[i] # 0 => w[i - 1] # 0 /\ w[i] = obj[trace[w[i - 1]]].nextroot
  BY WalkSteps, WalkRoots, ConstantsOK
<1> HIDE DEF w
<1> SUFFICES ASSUME w[maxtrace] # 0
             PROVE  FALSE
  BY DEF w
<1>2. \A i \in 0..maxtrace : w[i] # 0
  <2> DEFINE S == {k \in Nat : k <= maxtrace => w[maxtrace - k] # 0}
  <2>1. 0 \in S
    BY <1>1
  <2>2. ASSUME NEW k \in Nat, k \in S
        PROVE  k + 1 \in S
    <3> SUFFICES ASSUME k + 1 <= maxtrace
                 PROVE  w[maxtrace - (k + 1)] # 0
      OBVIOUS
    <3>1. maxtrace - k \in 1..maxtrace /\ maxtrace - (k + 1) = (maxtrace - k) - 1 /\ k <= maxtrace
      BY <1>1
    <3> QED BY <1>1, <2>2, <3>1
  <2>3. \A k \in Nat : k \in S
    <3> HIDE DEF S
    <3> QED BY <2>1, <2>2, SetInduction
  <2>4. ASSUME NEW i \in 0..maxtrace
        PROVE  w[i] # 0
    <3>1. maxtrace - i \in Nat /\ maxtrace - (maxtrace - i) = i /\ maxtrace - i <= maxtrace
      BY <1>1
    <3> QED BY <2>3, <3>1
  <2> QED BY <2>4
<1>3. w \in [0..maxtrace -> TraceNo]
  BY <1>1, <1>2 DEF TraceNo
<1>4. PICK x \in 0..maxtrace, y \in 0..maxtrace : x < y /\ w[x] = w[y]
  <2>1. IsFiniteSet(0..maxtrace) /\ Cardinality(0..maxtrace) = maxtrace + 1
    BY <1>1, FS_Interval
  <2>2. IsFiniteSet(TraceNo) /\ Cardinality(TraceNo) = maxtrace
    BY <1>1, FS_Interval DEF TraceNo
  <2>3. Cardinality(TraceNo) < Cardinality(0..maxtrace)
    BY <1>1, <2>1, <2>2
  <2>4. PICK x \in 0..maxtrace, y \in 0..maxtrace : x # y /\ w[x] = w[y]
    BY <1>3, <2>1, <2>2, <2>3, FS_PigeonHole, ZenonT(60)
  <2> QED BY <1>1, <2>4
<1> DEFINE S == {w[i] : i \in x..y - 1}
<1>5. x \in Nat /\ y \in Nat /\ x < y /\ y <= maxtrace
  BY <1>1, <1>4
<1>6. S \in SUBSET LiveNumbers
  <2>1. \A i \in x..y - 1 : i \in 0..maxtrace
    BY <1>1, <1>5
  <2> QED BY <1>1, <1>2, <1>3, <2>1 DEF LiveNumbers, RootAt
<1>7. S # {}
  <2>1. x \in x..y - 1
    BY <1>5
  <2> QED BY <2>1
<1>8. ASSUME NEW i \in x..y - 1
      PROVE  obj[trace[w[i]]].nextroot \in S
  <2>1. i \in Nat /\ i + 1 \in 1..maxtrace /\ i + 1 \in 0..maxtrace /\ (i + 1) - 1 = i
    BY <1>1, <1>5
  <2>2. obj[trace[w[i]]].nextroot = w[i + 1]
    BY <1>1, <1>2, <2>1
  <2>3. x \in x..y - 1
    BY <1>5
  <2>4. CASE i + 1 = y
    BY <1>4, <2>2, <2>3, <2>4
  <2>5. CASE i + 1 # y
    <3>1. i + 1 \in x..y - 1
      BY <1>5, <2>1, <2>5
    <3> QED BY <2>2, <3>1
  <2> QED BY <2>4, <2>5
<1> QED BY <1>6, <1>7, <1>8 DEF NoCycle

\* What follows the head of a chain is met by the walk.
LEMMA ChainWalked ==
  ASSUME TraceType, Numbered, Roots, NoCycle, NEW p \in Proto, NEW n, InChain(n, p)
  PROVE  n \in Chain(p)
<1>1. /\ maxtrace \in Nat /\ Walk(p) \in [0..maxtrace -> 0..maxtrace] /\ Walk(p)[0] = head[p]
      /\ \A i \in 1..maxtrace : Walk(p)[i - 1] # 0 => Walk(p)[i] = obj[trace[Walk(p)[i - 1]]].nextroot
      /\ Walk(p)[maxtrace] = 0
  BY WalkSteps, WalkRoots, WalkEnds, ConstantsOK
<1>2. Chain(p) \subseteq TraceNo
  BY <1>1 DEF Chain, TraceNo
<1>3. head[p] # 0 => head[p] \in Chain(p)
  BY <1>1 DEF Chain
<1>4. ASSUME NEW k \in Chain(p), obj[trace[k]].nextroot # 0
      PROVE  obj[trace[k]].nextroot \in Chain(p)
  <2>1. PICK i \in 0..maxtrace : k = Walk(p)[i] /\ k # 0
    BY DEF Chain
  <2>2. i + 1 \in 1..maxtrace /\ (i + 1) - 1 = i /\ i + 1 \in 0..maxtrace
    BY <1>1, <2>1
  <2>3. Walk(p)[i + 1] = obj[trace[k]].nextroot
    BY <1>1, <2>1, <2>2
  <2> QED BY <1>4, <2>2, <2>3 DEF Chain
<1>5. Closed(p, Chain(p))
  BY <1>3, <1>4 DEF Closed
<1> QED BY <1>2, <1>5 DEF InChain

-----------------------------------------------------------------------------
(* The bytecode that enters traces.                                        *)

\* No instruction is patched anew.
NothingPatched == \A pc \in PC : Repatched'[pc].op = J => Repatched'[pc] = Repatched[pc]

\* Live root traces stay, and what follows them in the chain.
ChainGoesOn(p) ==
  /\ \A k \in TraceNo : RootAt(k, p) =>
        /\ k \in TraceNo /\ trace'[k] \in Tr /\ trace'[k] = trace[k]
        /\ obj'[trace[k]].nextroot = obj[trace[k]].nextroot
        /\ obj'[trace[k]].pc = obj[trace[k]].pc

\* A number stays in a chain that goes on, if the head is still in it.
LEMMA ChainKept ==
  ASSUME TraceType, Numbered, Roots, NEW p \in Proto, NEW n, InChain(n, p),
         ChainGoesOn(p), NEW K \in SUBSET TraceNo, Closed(p, K)', head[p] # 0 => head[p] \in K
  PROVE  n \in K
<1> DEFINE K0 == {k \in K : RootAt(k, p)}
<1>1. head[p] # 0 => head[p] \in K0
  BY DEF Roots
<1>2. ASSUME NEW k \in K0, obj[trace[k]].nextroot # 0
      PROVE  obj[trace[k]].nextroot \in K0
  <2>1. trace[k] \in Live /\ obj[trace[k]].no # 0 /\ obj[trace[k]].pt = p /\ k \in TraceNo
    BY SavedNumbers DEF RootAt, IsLive, TraceNo
  <2>2. RootAt(obj[trace[k]].nextroot, p)
    BY <1>2, <2>1 DEF Roots
  <2>3. trace'[k] \in Tr /\ obj'[trace'[k]].nextroot = obj[trace[k]].nextroot
    BY <2>1 DEF ChainGoesOn
  <2>4. Saved(k)'
    BY <2>1, <2>3, ConstantsOK, DistinctOK DEF Saved, Exists
  <2>5. obj'[trace'[k]].nextroot \in K
    BY <1>2, <2>3, <2>4 DEF Closed
  <2> QED BY <2>2, <2>3, <2>5
<1>3. K0 \in SUBSET TraceNo /\ Closed(p, K0)
  BY <1>1, <1>2 DEF Closed
<1> QED BY <1>3 DEF InChain

\* What Patched is about, number by number.
LEMMA NewPatched ==
  ASSUME \A pc \in PC : Repatched'[pc].op = J =>
            /\ \A K \in SUBSET TraceNo : Closed(protoOf[pc], K)' => Repatched'[pc].d \in K
            /\ obj'[trace'[Repatched'[pc].d]].pc = pc
  PROVE  Patched'
BY DEF Patched, InChain

\* Bytecode that stays patched, when the chain of its prototype goes on.
LEMMA PatchedKept ==
  ASSUME TraceInv, NothingPatched,
         \A pc \in PC : Repatched'[pc].op = J => ChainGoesOn(protoOf[pc]) /\ head'[protoOf[pc]] = head[protoOf[pc]]
  PROVE  Patched'
<1>1. TraceType /\ Numbered /\ Roots
  BY DEF TraceInv, Table, Graph
<1>2. ASSUME NEW pc \in PC, Repatched'[pc].op = J
      PROVE  /\ \A K \in SUBSET TraceNo : Closed(protoOf[pc], K)' => Repatched'[pc].d \in K
             /\ obj'[trace'[Repatched'[pc].d]].pc = pc
  <2> DEFINE p == protoOf[pc]
             d == Repatched[pc].d
  <2>1. Repatched'[pc] = Repatched[pc] /\ ChainGoesOn(p) /\ head'[p] = head[p] /\ p \in Proto
    BY <1>2, ConstantsOK DEF NothingPatched
  <2>2. InChain(d, p) /\ RootAt(d, p) /\ d \in TraceNo /\ obj[trace[d]].pc = pc
    BY <1>2, <2>1, PatchedRoots DEF TraceInv, Code, Patched
  <2> HIDE DEF d, p
  <2>3. ASSUME NEW K \in SUBSET TraceNo, Closed(p, K)'
        PROVE  d \in K
    <3>1. head[p] # 0 => head[p] \in K
      BY <2>1, <2>3 DEF Closed
    <3> QED BY <1>1, <2>1, <2>2, <2>3, <3>1, ChainKept
  <2>4. obj'[trace'[d]].pc = pc
    BY <2>1, <2>2 DEF ChainGoesOn
  <2> QED BY <2>1, <2>3, <2>4 DEF d, p
<1> QED BY <1>2, NewPatched

\* The bytecode changes with nothing pending: what is patched stays or goes.
LEMMA BytecodeUnpatched ==
  ASSUME patch = Nil, patch' = Nil, \A pc \in PC : bc'[pc] = bc[pc] \/ bc'[pc].op # J
  PROVE  NothingPatched
BY DEF NothingPatched, Repatched

\* Lazily, a loop or a function without JIT becomes an I instruction.
LEMMA IInstruction ==
  ASSUME NEW B \in Bytes, NEW x, x \in PC => B[x].op = 0
  PROVE  \A pc \in PC : [B EXCEPT ![x].op = @ + I][pc] = B[pc] \/ [B EXCEPT ![x].op = @ + I][pc].op # J
BY DEF Bytes, I, J

\* An instruction that is recorded keeps the bytecode patched.
LEMMA PatchedRecord ==
  ASSUME TraceInv, Record
  PROVE  NothingPatched
<1>1. TraceType /\ PatchPending
  BY DEF TraceInv, Compiler
<1>2. ASSUME lj_record_ins \/ lj_record_stop \/ lj_trace_err \/ lj_trace_abort
      PROVE  NothingPatched
  <2>1. (bc' = Pended /\ patch' = PendedPatch) \/ (bc' = bc /\ patch' = patch)
    BY <1>2 DEF lj_record_ins, lj_record_stop, lj_trace_err, lj_trace_abort
  <2>2. Repatched' = Repatched
    BY <1>1, <2>1, StillPending
  <2> QED BY <2>2 DEF NothingPatched
<1>3. ASSUME NEW pc \in Func, rec_func_jit(pc)
      PROVE  NothingPatched
  BY <1>3, UnpatchedOnce DEF NothingPatched
<1>4. ASSUME NEW pc \in Func, check_call_unroll(pc)
      PROVE  NothingPatched
  <2>1. bc' \in {bc, [bc EXCEPT ![traceref(bc[pc].d).pc] = Plain]} /\ patch' = Nil /\ patch = Nil /\ bc \in Bytes
    BY <1>1, <1>4, TypesOf DEF check_call_unroll, lj_trace_flush, trace_flushroot, trace_unpatch
  <2>2. \A x \in PC : bc'[x] = bc[x] \/ bc'[x].op # J
    BY <2>1 DEF Bytes, Plain, J
  <2> QED BY <2>1, <2>2, BytecodeUnpatched
<1> QED BY <1>2, <1>3, <1>4 DEF Record

\* After a flush of all traces no bytecode is patched.
LEMMA PatchedFlushed ==
  ASSUME TraceInv, AllFlushed
  PROVE  NothingPatched /\ \A pc \in PC : Repatched'[pc].op # J
<1>1. patch = Nil /\ patch' = Nil
  BY DEF TraceInv, Compiler, PatchPending, AllFlushed
<1>2. \A pc \in PC : bc'[pc].op # J
  BY <1>1, FlushAllEffect DEF AllFlushed
<1> QED BY <1>1, <1>2 DEF NothingPatched, Repatched

\* The host program keeps the bytecode patched.
LEMMA PatchedHost ==
  ASSUME TraceInv, Host
  PROVE  NothingPatched
<1>1. TraceType /\ PatchPending /\ bc \in Bytes
  BY TypesOf DEF TraceInv, Compiler
<1>2. ASSUME FlushAll
      PROVE  NothingPatched
  BY <1>2, PatchedFlushed DEF FlushAll, Calls, AllFlushed, Quiet
<1>3. ASSUME NEW n \in TraceNo, FlushTrace(n)
      PROVE  NothingPatched
  <2>1. bc' \in {bc, [bc EXCEPT ![traceref(n).pc] = Plain]} /\ patch' = Nil /\ patch = Nil
    BY <1>1, <1>3 DEF FlushTrace, lj_trace_flush, trace_flushroot, trace_unpatch, Calls, PatchPending, Quiet
  <2>2. \A x \in PC : bc'[x] = bc[x] \/ bc'[x].op # J
    BY <1>1, <2>1 DEF Bytes, Plain, J
  <2> QED BY <2>1, <2>2, BytecodeUnpatched
<1>4. ASSUME NEW p \in Proto, NEW mode \in {"on", "off", "flush"}, setptmode(p, mode)
      PROVE  NothingPatched
  <2>1. patch' = Nil /\ patch = Nil
    BY <1>1, <1>4 DEF setptmode, Calls, PatchPending, Quiet
  <2>2. ASSUME NEW pc \in PC
        PROVE  bc'[pc] = bc[pc] \/ bc'[pc] = Plain
    BY <1>4 DEF setptmode, lj_trace_reenableproto, lj_trace_flushproto
  <2> QED BY <2>1, <2>2, BytecodeUnpatched DEF Plain, J
<1> QED BY <1>2, <1>3, <1>4 DEF Host

\* Every state of trace_state keeps the bytecode patched.
LEMMA PatchedCompile ==
  ASSUME TraceInv, TraceType', Compile
  PROVE  NothingPatched \/ \E o \in Tr : Stores(o)
<1>1. TraceType /\ Started /\ Compiled /\ PatchPending /\ bc \in Bytes /\ Repatched \in Bytes
  BY TypesOf, Bytecode DEF TraceInv, Compiler, Bytes
<1>2. ASSUME bc' = bc, patch' = patch
      PROVE  NothingPatched
  BY <1>1, <1>2, StillPending DEF NothingPatched
<1>3. ASSUME NEW x, StartTrace(x), patch = Nil
      PROVE  NothingPatched
  <2>1. \/ bc' = bc /\ patch' = patch
        \/ patch' = [pc |-> x, ins |-> bc[x], skip |-> TRUE] /\ bc' = [bc EXCEPT ![x] = Plain]
    BY <1>3 DEF StartTrace
  <2>2. CASE patch' = [pc |-> x, ins |-> bc[x], skip |-> TRUE] /\ bc' = [bc EXCEPT ![x] = Plain]
    <3>1. Repatched = bc
      BY <1>3 DEF Repatched
    <3>2. Repatched' = [bc EXCEPT ![x] = Plain] \/ Repatched' = [[bc EXCEPT ![x] = Plain] EXCEPT ![x] = bc[x]]
      BY <2>2 DEF Repatched
    <3>3. \A pc \in PC : Repatched'[pc] = bc[pc] \/ Repatched'[pc] = Plain
      BY <1>1, <3>2 DEF Bytes
    <3> QED BY <3>1, <3>3 DEF NothingPatched, Plain, J
  <2> QED BY <1>2, <2>1, <2>2
<1>4. ASSUME trace_start
      PROVE  NothingPatched
  <2>1. state = "START" /\ patch = Nil
    BY <1>1, <1>4 DEF trace_start, PatchPending, Quiet
  <2>2. CASE NoJIT
    <3>1. patch' = Nil
      BY <2>1, <2>2 DEF NoJIT
    <3>2. bc' = bc \/ (parent = 0 /\ exitno = 0 /\ bc' = [bc EXCEPT ![jpc.pc].op = @ + I])
      BY <2>2 DEF NoJIT
    <3>3. CASE parent = 0 /\ exitno = 0 /\ bc' = [bc EXCEPT ![jpc.pc].op = @ + I]
      <4>1. jpc.pc \in PC => bc[jpc.pc].op = 0
        BY <1>1, <2>1, <3>3, ConstantsOK DEF Started
      <4>2. \A pc \in PC : bc'[pc] = bc[pc] \/ bc'[pc].op # J
        BY <1>1, <3>3, <4>1, IInstruction
      <4> QED BY <2>1, <3>1, <4>2, BytecodeUnpatched
    <3> QED BY <1>2, <2>1, <3>1, <3>2, <3>3
  <2>3. CASE NoFreeTrace /\ state' = "IDLE"
    BY <1>1, <1>4, <2>3, PatchedFlushed DEF trace_start, NoFreeTrace, AllFlushed, Quiet, PatchPending
  <2> QED BY <1>3, <1>4, <2>1, <2>2, <2>3 DEF trace_start
<1>5. ASSUME lj_opt_loop
      PROVE  NothingPatched
  BY <1>1, <1>5, StillPending DEF lj_opt_loop, NothingPatched
<1>6. ASSUME lj_asm_error
      PROVE  NothingPatched
  BY <1>2, <1>6 DEF lj_asm_error
<1>7. ASSUME NEW o \in Tr, trace_stop(o)
      PROVE  NothingPatched \/ Stores(o)
  BY <1>2, <1>7, StopStores DEF Crash
<1>8. ASSUME trace_abort
      PROVE  NothingPatched
  <2>1. \/ bc' = bc /\ patch' = patch
        \/ patch' = Nil /\ Penalize
    BY <1>8 DEF trace_abort
  <2>2. CASE patch' = Nil /\ Penalize
    <3>1. CASE bc' = Repatched
      BY <1>1, <2>2, <3>1, StillPending DEF NothingPatched
    <3>2. CASE bc' # Repatched
      <4>1. parent = 0 /\ cur.kind # "ret" /\ exitno = 0 /\ bc' = [Repatched EXCEPT ![cur.pc].op = @ + I]
        BY <2>2, <3>2 DEF Penalize, penalty_pc
      <4>2. cur.pc \in PC => Repatched[cur.pc].op = 0
        BY <1>1, <1>8, <4>1, ConstantsOK DEF Compiled, Busy, trace_abort
      <4>3. \A pc \in PC : bc'[pc] = Repatched[pc] \/ bc'[pc].op # J
        BY <1>1, <4>1, <4>2, IInstruction
      <4>4. Repatched' = bc'
        BY <2>2 DEF Repatched
      <4> QED BY <4>3, <4>4 DEF NothingPatched
    <3> QED BY <3>1, <3>2
  <2> QED BY <1>2, <2>1, <2>2
<1>9. ASSUME trace_downrec
      PROVE  NothingPatched
  BY <1>1, <1>3, <1>9 DEF trace_downrec, PatchPending, Quiet
<1>10. ASSUME MCodeFlush
       PROVE  NothingPatched
  BY <1>1, <1>10, PatchedFlushed DEF MCodeFlush, AllFlushed, Quiet, PatchPending
<1> QED BY <1>4, <1>5, <1>6, <1>7, <1>8, <1>9, <1>10 DEF Compile

\* Only a new root trace is patched in.
LEMMA PatchedSteps ==
  ASSUME TraceInv, TraceType', [Next]_vars
  PROVE  NothingPatched \/ \E o \in Tr : Stores(o)
<1>1. ASSUME bc' = bc, patch' = patch
      PROVE  NothingPatched
  BY <1>1, StillPending DEF NothingPatched, TraceInv, Compiler
<1>2. CASE UNCHANGED vars
  BY <1>1, <1>2 DEF vars
<1>3. CASE Run
  <2>1. bc' = bc /\ patch' = patch
    BY <1>3 DEF Run, EnterTrace, JumpOn, LeaveTrace, lj_trace_exit, trace_hotside, lj_cont_stitch, Unwind
  <2> QED BY <1>1, <2>1
<1>4. CASE Collect
  BY <1>1, <1>4 DEF Collect, GCAtomic, lj_trace_free
<1>5. ASSUME NEW pc \in PC, lj_trace_hot(pc)
      PROVE  NothingPatched
  BY <1>1, <1>5 DEF lj_trace_hot
<1> QED BY <1>2, <1>3, <1>4, <1>5, PatchedRecord, PatchedHost, PatchedCompile DEF Next

\* Steps that leave live root traces and the heads alone.
LEMMA CodeSame ==
  ASSUME TraceInv, NothingPatched, nojit' = nojit, head' = head,
         \A n \in TraceNo : trace[n] \in Live => trace'[n] = trace[n],
         \A t \in Live : obj'[t].nextroot = obj[t].nextroot /\ obj'[t].pc = obj[t].pc
  PROVE  Code'
<1>1. OffIsOff /\ \A pc \in PC : Repatched'[pc].op = J => Repatched'[pc] = Repatched[pc]
  BY DEF TraceInv, Code, NothingPatched
<1>2. OffIsOff'
  BY <1>1 DEF OffIsOff
<1>3. \A p : ChainGoesOn(p)
  BY LiveNumber DEF ChainGoesOn, RootAt
<1>4. Patched'
  BY <1>3, PatchedKept
<1> QED BY <1>2, <1>4 DEF Code

\* jit.off: nothing of the prototype is patched any more, because what is
\* patched enters a trace that the walk along its chain meets.
LEMMA CodeMode ==
  ASSUME TraceInv, NothingPatched, NEW p \in Proto, NEW mode, setptmode(p, mode)
  PROVE  Code'
<1>1. TraceType /\ Numbered /\ Roots /\ NoCycle /\ PatchPending /\ OffIsOff /\ Patched
  BY DEF TraceInv, Table, Graph, Compiler, Code
<1>2. /\ UNCHANGED <<trace, obj>> /\ patch = Nil /\ patch' = Nil
      /\ head \in [Proto -> 0..maxtrace]
  BY <1>1, TypesOf DEF setptmode, Calls, PatchPending, Quiet
<1>3. \A q : ChainGoesOn(q)
  BY <1>2, LiveNumber DEF ChainGoesOn, RootAt
<1>4. Repatched' = bc' /\ Repatched = bc
  BY <1>2 DEF Repatched
<1>5. CASE mode = "on"
  <2>1. head' = head /\ nojit' \subseteq nojit
    BY <1>5 DEF setptmode
  <2>2. Patched'
    BY <1>3, <2>1, PatchedKept
  <2>3. OffIsOff'
    BY <1>1, <2>1 DEF OffIsOff, NothingPatched
  <2> QED BY <2>2, <2>3 DEF Code
<1>6. CASE mode # "on"
  <2>1. nojit' \subseteq nojit \union {p} /\ lj_trace_flushproto(p)
    BY <1>6 DEF setptmode
  <2>2. ASSUME NEW pc \in PC, protoOf[pc] = p
        PROVE  bc'[pc].op # J
    <3>1. CASE bc[pc].op = J
      <4> DEFINE d == bc[pc].d
      <4>1. InChain(d, p) /\ IsLive(d) /\ obj[trace[d]].pc = pc
        BY <1>1, <1>4, <2>2, <3>1, PatchedRoots DEF Patched
      <4>2. d \in Chain(p) /\ Exists(d) /\ traceref(d).pc = pc
        BY <1>1, <4>1, ChainWalked, SavedNumbers DEF IsLive, Saved
      <4> HIDE DEF d
      <4>3. bc'[pc] = Plain
        BY <2>1, <3>1, <4>2 DEF lj_trace_flushproto
      <4> QED BY <4>3 DEF Plain, J
    <3>2. CASE bc[pc].op # J
      BY <2>1, <3>2 DEF lj_trace_flushproto
    <3> QED BY <3>1, <3>2
  <2>3. \A q \in Proto : q # p => head'[q] = head[q]
    BY <1>2, <2>1 DEF lj_trace_flushproto
  <2>4. Patched'
    BY <1>3, <1>4, <2>2, <2>3, PatchedKept, ConstantsOK
  <2>5. OffIsOff'
    BY <1>1, <1>4, <2>1, <2>2 DEF OffIsOff, NothingPatched
  <2> QED BY <2>4, <2>5 DEF Code
<1> QED BY <1>5, <1>6

\* Trace n leaves its chain: the bytecode that entered it is restored, and the
\* rest of the chain is still met.
LEMMA CodeUnchained ==
  ASSUME TraceInv, NothingPatched, NEW n, Saved(n), Unchained(n)
  PROVE  Code'
<1> DEFINE T == obj[trace[n]]
<1>1. TraceType /\ Numbered /\ Roots /\ OffIsOff /\ Patched /\ bc \in Bytes /\ head \in [Proto -> 0..maxtrace]
  BY TypesOf DEF TraceInv, Table, Graph, Code
<1>2. /\ trace' = trace /\ n \in TraceNo /\ trace[n] \in Tr /\ T.no = n /\ T \in Trace
      /\ head' = IF head[T.pt] = n THEN [head EXCEPT ![T.pt] = T.nextroot] ELSE head
      /\ bc' = trace_unpatch(bc, T) /\ Repatched = bc /\ Repatched' = bc' /\ nojit' = nojit
  BY <1>1, SavedNumbers DEF Unchained, Repatched
<1>3. ASSUME NEW k \in TraceNo, trace[k] \in Live
      PROVE  /\ Saved(k)' /\ Saved(k) /\ obj'[trace[k]].pc = obj[trace[k]].pc
             /\ \/ obj'[trace[k]].nextroot = obj[trace[k]].nextroot
                \/ obj[trace[k]].nextroot = n /\ obj'[trace[k]].nextroot = T.nextroot
  BY <1>2, <1>3, LiveNumber, ConstantsOK, DistinctOK DEF Unchained, Saved, Exists
<1>4. OffIsOff'
  BY <1>1, <1>2 DEF OffIsOff, NothingPatched
<1>5. ASSUME NEW pc \in PC, Repatched'[pc].op = J
      PROVE  /\ \A K \in SUBSET TraceNo : Closed(protoOf[pc], K)' => Repatched'[pc].d \in K
             /\ obj'[trace'[Repatched'[pc].d]].pc = pc
  <2> DEFINE p == protoOf[pc]
             d == bc[pc].d
  <2>1. bc'[pc] = bc[pc] /\ bc[pc].op = J /\ p \in Proto
    BY <1>2, <1>5, ConstantsOK DEF NothingPatched
  <2>2. InChain(d, p) /\ RootAt(d, p) /\ d \in TraceNo /\ obj[trace[d]].pc = pc
    BY <1>1, <1>2, <2>1, PatchedRoots DEF Patched
  <2>3. d # n
    <3>1. SUFFICES ASSUME d = n
                   PROVE  FALSE
      OBVIOUS
    <3>2. IsRoot(T) /\ T.pc = pc
      BY <2>2, <3>1 DEF RootAt
    <3>3. bc' = [bc EXCEPT ![pc] = Plain]
      BY <1>2, <2>1, <3>2 DEF trace_unpatch
    <3> QED BY <1>1, <2>1, <3>3 DEF Bytes, Plain, J
  <2> HIDE DEF d, p, T
  <2>4. ASSUME NEW k \in TraceNo, RootAt(k, p)
        PROVE  /\ trace[k] \in Live /\ obj[trace[k]].pt = p
               /\ obj[trace[k]].nextroot # 0 => RootAt(obj[trace[k]].nextroot, p) /\ obj[trace[k]].nextroot \in TraceNo
    <3>1. trace[k] \in Live /\ obj[trace[k]].no # 0 /\ obj[trace[k]].pt = p
      BY <1>1, <2>4, SavedNumbers DEF RootAt, IsLive, TraceNo
    <3> QED BY <1>1, <3>1, LiveNumber DEF Roots, RootAt
  <2>5. ASSUME NEW K \in SUBSET TraceNo, Closed(p, K)'
        PROVE  d \in K
    <3> DEFINE R == {k \in K : RootAt(k, p)}
               R1 == {k \in TraceNo : k = n /\ RootAt(k, p)}
    <3>1. \A k \in R : obj'[trace[k]].nextroot # 0 => obj'[trace[k]].nextroot \in K
      BY <1>2, <1>3, <2>4, <2>5 DEF Closed
    <3>2. head[p] # 0 => RootAt(head[p], p) /\ head[p] \in TraceNo
      BY <1>1, <2>1, LiveNumber DEF Roots, RootAt
    <3>3. head'[p] # 0 => head'[p] \in K
      BY <2>5 DEF Closed
    <3>4. head[p] # n => head'[p] = head[p]
      BY <1>1, <1>2, <2>1
    <3>5. RootAt(n, p) /\ head[p] = n => head'[p] = T.nextroot
      BY <1>1, <1>2, <2>1, <2>4 DEF T
    <3>6. CASE T.nextroot = 0 \/ T.nextroot \in K
      <4>1. Closed(p, R \union R1)
        <5>1. head[p] # 0 => head[p] \in R \union R1
          BY <3>2, <3>3, <3>4
        <5>2. ASSUME NEW k \in R \union R1, obj[trace[k]].nextroot # 0
              PROVE  obj[trace[k]].nextroot \in R \union R1
          <6>1. RootAt(obj[trace[k]].nextroot, p) /\ obj[trace[k]].nextroot \in TraceNo /\ trace[k] \in Live /\ k \in TraceNo
            BY <2>4, <5>2
          <6>2. CASE k = n
            BY <3>6, <5>2, <6>1, <6>2 DEF T
          <6>3. CASE k # n
            BY <1>3, <3>1, <5>2, <6>1, <6>3
          <6> QED BY <6>2, <6>3
        <5> QED BY <5>1, <5>2 DEF Closed
      <4> QED BY <2>2, <2>3, <4>1 DEF InChain
    <3>7. CASE T.nextroot # 0 /\ T.nextroot \notin K
      <4>1. n \notin R
        <5>1. SUFFICES ASSUME n \in R
                       PROVE  FALSE
          OBVIOUS
        <5>2. obj'[trace[n]].nextroot = T.nextroot
          BY <1>3, <2>4, <5>1 DEF T
        <5> QED BY <3>1, <3>7, <5>1, <5>2
      <4>2. Closed(p, R)
        <5>1. head[p] # 0 => head[p] \in R
          BY <3>2, <3>3, <3>4, <3>5, <3>7
        <5>2. ASSUME NEW k \in R, obj[trace[k]].nextroot # 0
              PROVE  obj[trace[k]].nextroot \in R
          <6>1. RootAt(obj[trace[k]].nextroot, p) /\ obj[trace[k]].nextroot \in TraceNo /\ trace[k] \in Live /\ k \in TraceNo
            BY <2>4, <5>2
          <6>2. obj'[trace[k]].nextroot = obj[trace[k]].nextroot
            BY <1>3, <3>1, <3>7, <5>2, <6>1
          <6> QED BY <3>1, <5>2, <6>1, <6>2
        <5> QED BY <5>1, <5>2 DEF Closed
      <4> QED BY <2>2, <4>2 DEF InChain
    <3> QED BY <3>6, <3>7
  <2>6. obj'[trace'[d]].pc = pc
    BY <1>2, <1>3, <2>2, <2>4
  <2> QED BY <1>2, <2>1, <2>5, <2>6 DEF d, p
<1>6. Patched'
  BY <1>5, NewPatched
<1> QED BY <1>4, <1>6 DEF Code

\* A new root trace is first in its chain, before those that were there.
LEMMA CodeStores ==
  ASSUME TraceInv, NEW o \in Tr, Stores(o)
  PROVE  Code'
<1> DEFINE c == cur.no
<1>1. TraceType /\ Numbered /\ Roots /\ OffIsOff /\ Patched /\ Compiled /\ bc \in Bytes /\ head \in [Proto -> 0..maxtrace]
      /\ trace \in [TraceNo -> Tr \union {Nil, Cur}]
  BY TypesOf DEF TraceInv, Table, Graph, Code, Compiler
<1>2. /\ c \in TraceNo /\ c # 0 /\ trace[c] = Cur /\ trace' = [trace EXCEPT ![c] = o] /\ nojit' = nojit
      /\ obj'[o].nextroot = (IF IsRoot(cur) THEN head[cur.pt] ELSE 0) /\ obj'[o].pc = cur.pc
      /\ head' = (IF IsRoot(cur) THEN [head EXCEPT ![cur.pt] = c] ELSE head)
      /\ bc' = (IF IsRoot(cur) THEN [bc EXCEPT ![cur.pc] = [op |-> J, d |-> c]] ELSE bc)
      /\ Repatched = bc /\ Repatched' = bc' /\ obj[o] = Free
  BY DEF Stores, Repatched, TraceNo
<1>3. \A n \in TraceNo : trace[n] \in Live => trace'[n] = trace[n]
  BY <1>1, <1>2, LiveNumber, DistinctOK
<1>4. \A t \in Live : obj'[t].nextroot = obj[t].nextroot /\ obj'[t].pc = obj[t].pc
  BY <1>2, LiveNumber DEF Stores, SameTrace
<1>5. CASE ~IsRoot(cur)
  BY <1>2, <1>3, <1>4, <1>5, CodeSame DEF NothingPatched
<1>6. CASE IsRoot(cur)
  <2>1. cur.pc \in PC /\ cur.pt = protoOf[cur.pc] /\ cur.pt \notin nojit /\ cur.pt \in Proto
    BY <1>1, <1>6, ConstantsOK DEF Compiled, Stores, Busy, IsRoot, PC
  <2>2. trace'[c] = o /\ o # Nil /\ o # Cur /\ bc'[cur.pc].op = J /\ bc'[cur.pc].d = c
        /\ \A pc \in PC \ {cur.pc} : bc'[pc] = bc[pc]
    <3>1. trace'[c] = o /\ o # Nil /\ o # Cur
      BY <1>1, <1>2, ConstantsOK, DistinctOK
    <3>2. bc' = [bc EXCEPT ![cur.pc] = [op |-> J, d |-> c]]
      BY <1>2, <1>6
    <3> HIDE DEF c
    <3> QED BY <1>1, <2>1, <3>1, <3>2 DEF Bytes
  <2>3. OffIsOff'
    BY <1>1, <1>2, <2>1, <2>2 DEF OffIsOff
  <2>4. \A q : ChainGoesOn(q)
    BY <1>3, <1>4, LiveNumber DEF ChainGoesOn, RootAt
  <2>5. ASSUME NEW q \in Proto, NEW K \in SUBSET TraceNo, Closed(q, K)'
        PROVE  (q = cur.pt => c \in K) /\ (head[q] # 0 => head[q] \in K)
    <3>1. head'[q] # 0 => head'[q] \in K
      BY <2>5 DEF Closed
    <3>2. CASE q = cur.pt
      <4>1. head'[q] = c
        BY <1>1, <1>2, <1>6, <3>2
      <4>2. obj'[trace'[c]].nextroot = head[q]
        BY <1>2, <1>6, <2>2, <3>2
      <4>3. c \in K
        BY <1>2, <3>1, <4>1
      <4>4. head[q] # 0 => head[q] \in K
        BY <1>2, <2>2, <2>5, <4>2, <4>3 DEF Closed, Saved, Exists
      <4> QED BY <4>3, <4>4
    <3>3. CASE q # cur.pt
      BY <1>1, <1>2, <3>1, <3>3
    <3> QED BY <3>2, <3>3
  <2> HIDE DEF c
  <2>6. ASSUME NEW pc \in PC, Repatched'[pc].op = J
        PROVE  /\ \A K \in SUBSET TraceNo : Closed(protoOf[pc], K)' => Repatched'[pc].d \in K
               /\ obj'[trace'[Repatched'[pc].d]].pc = pc
    <3>1. CASE pc = cur.pc
      BY <1>2, <2>1, <2>2, <2>5, <3>1
    <3>2. CASE pc # cur.pc
      <4> DEFINE p == protoOf[pc]
                 d == bc[pc].d
      <4>1. bc[pc].op = J /\ Repatched'[pc] = bc[pc] /\ p \in Proto
        BY <1>2, <2>2, <2>6, <3>2, ConstantsOK
      <4>2. InChain(d, p) /\ RootAt(d, p) /\ d \in TraceNo /\ obj[trace[d]].pc = pc
        BY <1>1, <1>2, <4>1, PatchedRoots DEF Patched
      <4> HIDE DEF d, p
      <4>3. \A K \in SUBSET TraceNo : Closed(p, K)' => d \in K
        BY <1>1, <2>4, <2>5, <4>1, <4>2, ChainKept
      <4>4. obj'[trace'[d]].pc = pc
        BY <1>3, <1>4, <4>2, LiveNumber DEF RootAt
      <4> QED BY <4>1, <4>3, <4>4 DEF d, p
    <3> QED BY <3>1, <3>2
  <2>7. Patched'
    BY <2>6, NewPatched
  <2> QED BY <2>3, <2>7 DEF Code
<1> QED BY <1>5, <1>6

\* Every step keeps the bytecode that enters traces.
LEMMA CodeKept ==
  ASSUME TraceInv, TraceType', [Next]_vars
  PROVE  Code'
<1>1. TraceType /\ Numbered /\ Room /\ Roots /\ PatchPending
  BY DEF TraceInv, Table, Graph, Compiler
<1>2. trace \in [TraceNo -> Tr \union {Nil, Cur}] /\ obj \in [Tr -> Trace \union {Free}] /\ Nil \notin Tr /\ Cur \notin Tr
  BY <1>1, TypesOf, ConstantsOK, DistinctOK
<1>3. CASE \E o \in Tr : Stores(o)
  BY <1>3, CodeStores
<1>4. SUFFICES ASSUME NothingPatched
               PROVE  Code'
  BY <1>3, PatchedSteps
<1>5. CASE Calm
  BY <1>4, <1>5, LiveNumber, CodeSame DEF Calm, SameLinks, SameTrace
<1>6. CASE AllFlushed
  <2>1. \A pc \in PC : Repatched'[pc].op # J
    BY <1>6, PatchedFlushed
  <2> QED BY <2>1 DEF Code, Patched, OffIsOff
<1>7. CASE Taken
  <2>1. /\ trace_findfree.no # 0 /\ trace' = [trace EXCEPT ![trace_findfree.no] = Cur]
        /\ obj' = obj /\ head' = head /\ nojit' = nojit
    BY <1>7 DEF Taken, StartTrace
  <2>2. trace[trace_findfree.no] = Nil
    BY <1>1, <2>1, FreeNumber
  <2>3. \A n \in TraceNo : trace[n] \in Live => trace'[n] = trace[n]
    BY <1>2, <2>1, <2>2, LiveNumber
  <2> QED BY <1>4, <2>1, <2>3, CodeSame
<1>8. CASE Dropped
  <2>1. /\ \A t \in Live : SameTrace(obj'[t], obj[t])
        /\ trace' = [n \in TraceNo |-> IF n = cur.no THEN Nil ELSE trace[n]]
        /\ head' = head /\ nojit' = nojit
    BY <1>8, PenalizeEffect, LiveNumber DEF Dropped, DropCur
  <2>2. \A n \in TraceNo : n = cur.no => trace[n] = Cur
    BY <1>1 DEF Numbered
  <2>3. \A n \in TraceNo : trace[n] \in Live => trace'[n] = trace[n]
    BY <1>2, <2>1, <2>2, LiveNumber
  <2> QED BY <1>4, <2>1, <2>3, CodeSame DEF SameTrace
<1>9. ASSUME NEW n \in TraceNo, Saved(n), Unchained(n)
      PROVE  Code'
  BY <1>4, <1>9, CodeUnchained
<1>10. ASSUME NEW p \in Proto, NEW mode \in {"on", "off", "flush"}, setptmode(p, mode)
       PROVE  Code'
  BY <1>4, <1>10, CodeMode
<1>11. CASE GCAtomic
  BY <1>4, <1>11, CodeSame DEF GCAtomic
<1>12. ASSUME NEW t \in Tr, lj_trace_free(t)
       PROVE  Code'
  <2>1. /\ t \in dead /\ obj' = [obj EXCEPT ![t] = Free] /\ head' = head /\ nojit' = nojit
        /\ obj[t].no # 0 => trace' = [trace EXCEPT ![obj[t].no] = Nil]
        /\ obj[t].no = 0 => trace' = trace
    BY <1>12 DEF lj_trace_free
  <2>2. obj[t] # Free /\ t \in Tr
    BY <1>1, <2>1 DEF Numbered
  <2>3. \A n \in TraceNo : trace'[n] # trace[n] => trace[n] = t
    BY <1>1, <1>2, <2>1, <2>2 DEF Numbered
  <2>4. \A n \in TraceNo : trace[n] \in Live => trace'[n] = trace[n]
    BY <2>1, <2>3, LiveNumber
  <2>5. \A u \in Live : obj'[u] = obj[u]
    BY <1>2, <2>1, LiveNumber
  <2> QED BY <1>4, <2>1, <2>4, <2>5, CodeSame
<1> QED BY <1>3, <1>5, <1>6, <1>7, <1>8, <1>9, <1>10, <1>11, <1>12, Steps

-----------------------------------------------------------------------------
(* The theorems.                                                           *)

\* The invariant holds at first, and every step keeps it.
LEMMA InitInv == Init => TraceInv
<1> SUFFICES ASSUME Init
             PROVE  TraceInv
  OBVIOUS
<1>1. TraceType
  BY InitTypes
<1>2. /\ maxtrace \in Nat /\ maxtrace > 0 /\ Cur # Nil /\ Nil \notin Tr
      /\ trace = [n \in TraceNo |-> Nil] /\ obj = [t \in Tr |-> Free] /\ head = [p \in Proto |-> 0]
      /\ dead = {} /\ sizetrace = 0 /\ freetrace = 0 /\ state = "IDLE" /\ patch = Nil /\ run = Nil /\ cur.no = 0
      /\ bc = [pc \in PC |-> Plain] /\ nojit = {}
  BY ConstantsOK, DistinctOK DEF Init, NewTrace
<1>3. Table
  BY <1>2 DEF Table, Room, Numbered, TraceNo
<1>4. Compiler
  BY <1>2 DEF Compiler, Started, Compiled, PatchPending, LinkKnown, Busy, Quiet
<1>5. Graph
  <2>1. Live = {} /\ LiveNumbers = {}
    BY <1>2 DEF Live, LiveNumbers, IsLive
  <2>2. Roots /\ NoCycle /\ LinksLive
    BY <1>2, <2>1 DEF Roots, NoCycle, LinksLive
  <2>3. Sides({})
    BY DEF Sides
  <2>4. SidesLive
    BY <2>1, <2>3 DEF SidesLive
  <2> QED BY <2>2, <2>4 DEF Graph
<1>6. Code
  <2>1. \A pc \in PC : Repatched[pc].op # J
    BY <1>2 DEF Repatched, Plain, J
  <2> QED BY <2>1 DEF Code, Patched, OffIsOff
<1> QED BY <1>1, <1>3, <1>4, <1>5, <1>6 DEF TraceInv

\* Every step keeps the invariant.
LEMMA InvKept ==
  ASSUME TraceInv, "throw" \notin Ops, [Next]_vars
  PROVE  TraceInv'
<1>1. TraceType'
  BY TypesKept
<1> QED BY <1>1, TableKept, CompilerKept, GraphKept, CodeKept DEF TraceInv

\* The invariant holds in every state.
LEMMA InvHolds ==
  ASSUME "throw" \notin Ops
  PROVE  Spec => []TraceInv
<1>1. Init => TraceInv
  BY InitInv
<1>2. TraceInv /\ [Next]_vars => TraceInv'
  BY InvKept
<1> QED BY <1>1, <1>2, PTL DEF Spec

\* Whatever is recorded, run, flushed and collected, the table of traces, the
\* fields of each trace and the bytecode hold what their readers expect.
THEOREM TypesCorrect == "throw" \notin Ops => (Spec => []TypeOK)
<1> SUFFICES ASSUME "throw" \notin Ops
             PROVE  Spec => []TypeOK
  OBVIOUS
<1>1. TraceInv => TypeOK
  BY DEF TraceInv, TraceType
<1> QED BY <1>1, InvHolds, PTL

\* trace_findfree loses no number and never gives one away twice: J->cur has a
\* number while it is recorded, and only then, and none below J->freetrace is free.
THEOREM TraceNumbersCorrect == "throw" \notin Ops => (Spec => []TraceNumbers)
<1> SUFFICES ASSUME "throw" \notin Ops
             PROVE  Spec => []TraceNumbers
  OBVIOUS
<1>1. TraceInv => TraceNumbers
  BY DEF TraceInv, Table, Room, Numbered, Compiler, Compiled, PatchPending, Busy, Quiet, TraceNumbers
<1> QED BY <1>1, InvHolds, PTL

\* The link, the rest of the chain of root traces and the chains of side traces
\* that gc_traverse_trace, lj_trace_flush and trace_stop follow never lead to a
\* trace that is freed, or about to be.
THEOREM NumbersAreLiveCorrect == "throw" \notin Ops => (Spec => []NumbersAreLive)
<1> SUFFICES ASSUME "throw" \notin Ops
             PROVE  Spec => []NumbersAreLive
  OBVIOUS
<1>1. TraceInv => NumbersAreLive
  <2> SUFFICES ASSUME TraceInv
               PROVE  NumbersAreLive
    OBVIOUS
  <2>1. TraceType /\ Numbered /\ Roots /\ LinksLive /\ SidesLive
    BY DEF TraceInv, Table, Graph
  <2>2. \A n \in TraceNo : Saved(n) => traceref(n).no = n
    BY <2>1, SavedNumbers
  <2>3. \A p \in Proto : head[p] # 0 => IsLive(head[p])
    BY <2>1 DEF Roots, RootAt
  <2>4. ASSUME NEW t \in Live, obj[t].no # 0
        PROVE  /\ trace[obj[t].no] = t
               /\ \A n \in {obj[t].link, obj[t].nextroot} \ {0} : IsLive(n)
    BY <2>1, <2>4, OwnNumber DEF LinksLive, Roots, RootAt
  <2> QED BY <2>1, <2>2, <2>3, <2>4 DEF SidesLive, NumbersAreLive
<1> QED BY <1>1, InvHolds, PTL

\* A JLOOP, JFORL or JFUNCF instruction, and the one that trace_pendpatch will
\* put back, holds the number of a root trace that started there, that is not
\* about to be freed, and that lj_trace_flushproto meets.
THEOREM PatchedEntersTraceCorrect == "throw" \notin Ops => (Spec => []PatchedEntersTrace)
<1> SUFFICES ASSUME "throw" \notin Ops
             PROVE  Spec => []PatchedEntersTrace
  OBVIOUS
<1>1. TraceInv => PatchedEntersTrace
  <2> SUFFICES ASSUME TraceInv, NEW pc \in PC, Repatched[pc].op = J
               PROVE  /\ Saved(Repatched[pc].d) /\ trace[Repatched[pc].d] \in Live
                      /\ traceref(Repatched[pc].d).pc = pc
                      /\ Repatched[pc].d \in Chain(protoOf[pc])
    BY DEF PatchedEntersTrace
  <2>1. TraceType /\ Numbered /\ Roots /\ NoCycle /\ InChain(Repatched[pc].d, protoOf[pc]) /\ protoOf[pc] \in Proto
    BY ConstantsOK DEF TraceInv, Table, Graph, Code, Patched
  <2>2. Repatched[pc].d \in Chain(protoOf[pc])
    BY <2>1, ChainWalked
  <2>3. IsLive(Repatched[pc].d) /\ obj[trace[Repatched[pc].d]].pc = pc
    BY PatchedRoots
  <2> QED BY <2>1, <2>2, <2>3, SavedNumbers DEF IsLive
<1> QED BY <1>1, InvHolds, PTL

\* The walks of trace_flushroot and lj_trace_flushproto end, and meet root
\* traces of that prototype only.
THEOREM ChainsAreRootsCorrect == "throw" \notin Ops => (Spec => []ChainsAreRoots)
<1> SUFFICES ASSUME "throw" \notin Ops
             PROVE  Spec => []ChainsAreRoots
  OBVIOUS
<1>1. TraceInv => ChainsAreRoots
  <2> SUFFICES ASSUME TraceInv, NEW p \in Proto
               PROVE  /\ Walk(p)[maxtrace] = 0
                      /\ \A n \in Chain(p) : /\ Saved(n) /\ traceref(n).root = 0 /\ traceref(n).pt = p
                                             /\ IsRoot(traceref(n))
    BY DEF ChainsAreRoots
  <2>1. TraceType /\ Numbered /\ Roots /\ NoCycle
    BY DEF TraceInv, Table, Graph
  <2>2. ASSUME NEW n \in Chain(p)
        PROVE  Saved(n) /\ traceref(n).root = 0 /\ traceref(n).pt = p /\ IsRoot(traceref(n))
    <3>1. RootAt(n, p)
      BY <2>1, WalkRoots DEF Chain
    <3>2. Saved(n) /\ traceref(n) = obj[trace[n]] /\ trace[n] \in Tr /\ obj[trace[n]] # Free
      BY <2>1, <3>1, SavedNumbers, DistinctOK DEF RootAt, IsLive
    <3> QED BY <2>1, <3>1, <3>2 DEF RootAt, Roots
  <2> QED BY <2>1, <2>2, WalkEnds
<1> QED BY <1>1, InvHolds, PTL

\* After jit.off(f) no bytecode of f enters a trace, nor will once
\* trace_pendpatch is done, until jit.on(f).
THEOREM OffIsOffCorrect == "throw" \notin Ops => (Spec => []OffIsOff)
<1> SUFFICES ASSUME "throw" \notin Ops
             PROVE  Spec => []OffIsOff
  OBVIOUS
<1>1. TraceInv => OffIsOff
  BY DEF TraceInv, Code
<1> QED BY <1>1, InvHolds, PTL

\* The assertion of trace_hotside: a hot exit only starts a side trace while the
\* recorder is idle.  With "throw" it fails.
THEOREM StartsIdleCorrect == "throw" \notin Ops => (Spec => StartsIdle)
<1> SUFFICES ASSUME "throw" \notin Ops
             PROVE  Spec => StartsIdle
  OBVIOUS
<1>1. ASSUME TraceInv
      PROVE  [\A p \in Proto : trace_hotside(p) /\ state' = "START" => state = "IDLE"]_vars
  BY <1>1 DEF TraceInv, Compiler, PatchPending, trace_hotside
<1> QED BY <1>1, InvHolds, PTL DEF StartsIdle

-----------------------------------------------------------------------------
(* Machine code.  The jumps between traces are addresses: they stay when a *)
(* number is flushed, and nothing marks the trace at their other end.      *)

\* A live trace that others can link to, and what is in every set that has it
\* and is closed under nextside: the trace and the chain of its side traces.
Root(R) == R \in Live /\ obj[R].no # 0 /\ obj[R].root = 0
SideClosed(K) ==
  \A t \in K : obj[t] # Free /\ obj[t].no # 0 /\ obj[t].nextside # 0 => trace[obj[t].nextside] \in K
InGroup(t, R) == t \in Tr /\ \A K \in SUBSET Tr : R \in K /\ SideClosed(K) => t \in K
Enterable(t) == \E R \in Tr : Root(R) /\ InGroup(t, R)

\* Side traces know their root, and patched exits stay in the group of it.
Groups ==
  \A R \in Tr, t \in Tr : Root(R) /\ InGroup(t, R) =>
    /\ t # R => obj[t].root = obj[R].no
    /\ obj[t].branch # Nil => InGroup(obj[t].branch, R)

\* A trace jumps to where its link says, itself or a root.
Tails ==
  \A t \in Live : obj[t].no # 0 =>
    /\ obj[t].link \notin {0, obj[t].no} => obj[trace[obj[t].link]].root = 0
    /\ obj[t].to # Nil => obj[t].link # 0 /\ obj[t].to = trace[obj[t].link]

\* Traces in continuation frames are live and call the interpreter; one that
\* was flushed has no link.
Held ==
  /\ \A t \in conts : t \in Live /\ obj[t].to = Nil
  /\ \A t \in Tr : obj[t] # Free /\ obj[t].no = 0 => obj[t].link = 0

Running == run # Nil => Enterable(run)
Unpatched == \A pc \in PC : bc[pc].op # J => bc[pc].d = 0

\* Where the new trace will be attached, and where it will jump to.
Attached ==
  /\ state = "START" /\ jpc.kind = "side" => Saved(parent) /\ Enterable(trace[parent])
  /\ state = "START" /\ jpc.kind = "stitch" => Saved(exitno) /\ obj[trace[exitno]].to = Nil
  /\ state \in Busy =>
       /\ cur.kind = "side" /\ Saved(parent) => cur.root = RootOf(parent)
       /\ cur.kind = "side" /\ Saved(cur.root) => obj[trace[cur.root]].root = 0
       /\ cur.kind = "stitch" /\ Saved(exitno) => obj[trace[exitno]].to = Nil
       /\ cur.link \notin {0, cur.no} => obj[trace[cur.link]].root = 0

Jumps == Groups /\ Tails /\ Held /\ Running /\ Unpatched /\ Attached

\* The members of a group are live and have numbers.
LEMMA GroupMembers ==
  ASSUME TraceInv, NEW R, Root(R), NEW t, InGroup(t, R)
  PROVE  /\ t \in Live /\ t \in Tr /\ obj[t] \in Trace /\ obj[t] # Free /\ obj[t].no # 0
         /\ obj[t].no \in TraceNo /\ trace[obj[t].no] = t
         /\ obj[t].nextside # 0 => /\ obj[t].nextside \in TraceNo /\ IsLive(obj[t].nextside)
                                   /\ InGroup(trace[obj[t].nextside], R)
<1>1. TraceType /\ Numbered /\ SidesLive
  BY DEF TraceInv, Table, Graph
<1>2. PICK S \in SUBSET Live : {u \in Live : obj[u].root = 0} \subseteq S /\ Sides(S)
  BY <1>1 DEF SidesLive
<1> DEFINE K == {u \in S : obj[u].no # 0}
<1>3. \A u \in K : obj[u].nextside # 0 => IsLive(obj[u].nextside) /\ trace[obj[u].nextside] \in K
  <2> SUFFICES ASSUME NEW u \in K, obj[u].nextside # 0
               PROVE  IsLive(obj[u].nextside) /\ trace[obj[u].nextside] \in K
    OBVIOUS
  <2>1. IsLive(obj[u].nextside) /\ trace[obj[u].nextside] \in S
    BY <1>2 DEF Sides
  <2> QED BY <1>1, <2>1, SavedNumbers
<1>4. R \in K /\ K \in SUBSET Tr /\ SideClosed(K)
  BY <1>2, <1>3, LiveNumber DEF Root, SideClosed
<1>5. t \in K
  BY <1>4 DEF InGroup
<1>6. t \in Live /\ obj[t].no # 0
  BY <1>2, <1>5
<1>7. obj[t].nextside # 0 => IsLive(obj[t].nextside) /\ obj[t].nextside \in TraceNo
  BY <1>3, <1>5, LiveNumber
<1>8. ASSUME obj[t].nextside # 0
      PROVE  InGroup(trace[obj[t].nextside], R)
  <2>1. trace[obj[t].nextside] \in Tr
    BY <1>7, <1>8, LiveNumber
  <2>2. obj[t] # Free
    BY <1>6, LiveNumber
  <2> QED BY <1>6, <1>8, <2>1, <2>2 DEF InGroup, SideClosed
<1> QED BY <1>1, <1>6, <1>7, <1>8, SavedNumbers, OwnNumber

\* A group whose members keep their fields stays the same.
LEMMA GroupSame ==
  ASSUME TraceInv, NEW R, Root(R),
         \A u : InGroup(u, R) =>
            /\ obj'[u] # Free /\ obj'[u].no = obj[u].no /\ obj'[u].nextside = obj[u].nextside
            /\ obj[u].nextside # 0 => trace'[obj[u].nextside] = trace[obj[u].nextside]
  PROVE  \A t : InGroup(t, R) <=> InGroup(t, R)'
<1> PICK G : G = {u \in Tr : InGroup(u, R)}
  OBVIOUS
<1>1. ASSUME NEW u \in G, obj[u].nextside # 0
      PROVE  trace[obj[u].nextside] \in G /\ trace'[obj'[u].nextside] = trace[obj[u].nextside]
  BY <1>1, GroupMembers DEF InGroup
<1>2. R \in G
  BY LiveNumber DEF Root, InGroup
<1>3. ASSUME NEW K \in SUBSET Tr, R \in K, SideClosed(K)'
      PROVE  G \subseteq K
  <2>1. SideClosed(K \intersect G)
    <3> SUFFICES ASSUME NEW u \in K \intersect G, obj[u].no # 0, obj[u].nextside # 0
                 PROVE  trace[obj[u].nextside] \in K \intersect G
      BY DEF SideClosed
    <3>1. obj'[u] # Free /\ obj'[u].no # 0 /\ obj'[u].nextside # 0
      OBVIOUS
    <3>2. trace'[obj'[u].nextside] \in K
      BY <1>3, <3>1 DEF SideClosed
    <3> QED BY <1>1, <3>2
  <2> QED BY <1>2, <1>3, <2>1 DEF InGroup
<1>4. ASSUME NEW K \in SUBSET Tr, R \in K, SideClosed(K)
      PROVE  SideClosed(K \intersect G)'
  <2> SUFFICES ASSUME NEW u \in K \intersect G, obj'[u].no # 0, obj'[u].nextside # 0
               PROVE  trace'[obj'[u].nextside] \in K \intersect G
    BY DEF SideClosed
  <2>1. obj[u] # Free /\ obj[u].no # 0 /\ obj[u].nextside # 0
    BY GroupMembers
  <2>2. trace[obj[u].nextside] \in K
    BY <1>4, <2>1 DEF SideClosed
  <2> QED BY <1>1, <2>1, <2>2
<1>5. ASSUME NEW t, InGroup(t, R)
      PROVE  InGroup(t, R)'
  BY <1>3, <1>5 DEF InGroup
<1>6. ASSUME NEW t, InGroup(t, R)'
      PROVE  InGroup(t, R)
  <2>1. SUFFICES ASSUME NEW K \in SUBSET Tr, R \in K, SideClosed(K)
                 PROVE  t \in K
    BY <1>6 DEF InGroup
  <2>2. K \intersect G \in SUBSET Tr /\ R \in K \intersect G
    BY <1>2, <2>1
  <2>3. SideClosed(K \intersect G)'
    BY <1>4, <2>1
  <2>4. t \in K \intersect G
    BY <1>6, <2>2, <2>3 DEF InGroup
  <2> QED BY <2>4
<1> QED BY <1>5, <1>6

\* What of a trace decides where its code jumps to.
SameJumps(T, U) ==
  T.no = U.no /\ T.root = U.root /\ T.nextside = U.nextside /\ T.to = U.to /\ T.branch = U.branch

\* Live traces keep their fields, but for one that is blacklisted.
LEMMA JumpsSame ==
  ASSUME TraceInv, Groups, Tails, Live' \subseteq Live,
         \A n \in TraceNo : trace[n] \in Live => trace'[n] = trace[n],
         \A t \in Live : /\ obj'[t] # Free /\ SameJumps(obj'[t], obj[t])
                         /\ obj'[t].link = obj[t].link \/ (obj'[t].link = obj[t].no /\ obj[t].to = Nil)
  PROVE  Groups' /\ Tails' /\ (Live' = Live => \A t : Enterable(t) => Enterable(t)')
<1>1. TraceType /\ Numbered /\ LinksLive
  BY DEF TraceInv, Table, Graph
<1>2. ASSUME NEW R, Root(R)
      PROVE  \A t : InGroup(t, R) <=> InGroup(t, R)'
  <2>1. \A u : InGroup(u, R) =>
            /\ obj'[u] # Free /\ obj'[u].no = obj[u].no /\ obj'[u].nextside = obj[u].nextside
            /\ obj[u].nextside # 0 => trace'[obj[u].nextside] = trace[obj[u].nextside]
    BY <1>2, GroupMembers, LiveNumber DEF SameJumps
  <2> QED BY <1>2, <2>1, GroupSame
<1>3. \A R : R \in Live' /\ obj'[R].no # 0 /\ obj'[R].root = 0 => Root(R)
  BY DEF Root, SameJumps
<1>4. Groups'
  <2> SUFFICES ASSUME NEW R \in Tr, NEW t \in Tr, Root(R)', InGroup(t, R)'
               PROVE  /\ t # R => obj'[t].root = obj'[R].no
                      /\ obj'[t].branch # Nil => InGroup(obj[t].branch, R)'
    BY DEF Groups
  <2>1. Root(R)
    BY <1>3 DEF Root
  <2>2. InGroup(t, R) /\ t \in Live /\ R \in Live
    BY <1>2, <2>1, GroupMembers DEF Root
  <2>3. SameJumps(obj'[t], obj[t]) /\ obj'[R].no = obj[R].no
    BY <2>2 DEF SameJumps
  <2>4. obj[t].branch # Nil => InGroup(obj[t].branch, R)
    BY <2>1, <2>2 DEF Groups
  <2>5. ASSUME obj'[t].branch # Nil
        PROVE  InGroup(obj[t].branch, R)'
    <3>1. PICK b : b = obj[t].branch
      OBVIOUS
    <3>2. InGroup(b, R)'
      BY <1>2, <2>1, <2>3, <2>4, <2>5, <3>1 DEF SameJumps
    <3>3. obj'[t].branch = b
      BY <2>3, <3>1 DEF SameJumps
    <3> QED BY <3>2, <3>3 DEF InGroup
  <2>6. t # R => obj'[t].root = obj'[R].no
    BY <2>1, <2>2, <2>3 DEF Groups, SameJumps
  <2> QED BY <2>5, <2>6
<1>5. Tails'
  <2> SUFFICES ASSUME NEW t \in Live', obj'[t].no # 0
               PROVE  /\ obj'[t].link \notin {0, obj'[t].no} => obj'[trace'[obj'[t].link]].root = 0
                      /\ obj'[t].to # Nil => obj'[t].link # 0 /\ obj'[t].to = trace'[obj'[t].link]
    BY DEF Tails
  <2>1. t \in Live /\ obj[t].no # 0 /\ SameJumps(obj'[t], obj[t])
    BY DEF SameJumps
  <2>2. CASE obj'[t].link = obj[t].link
    <3>1. obj[t].link # 0 => IsLive(obj[t].link) /\ trace'[obj[t].link] = trace[obj[t].link] /\ trace[obj[t].link] \in Live
      BY <1>1, <2>1, LiveNumber DEF LinksLive
    <3> QED BY <2>1, <2>2, <3>1 DEF Tails, SameJumps
  <2>3. CASE obj'[t].link = obj[t].no /\ obj[t].to = Nil
    BY <2>1, <2>3 DEF SameJumps
  <2> QED BY <2>1, <2>2, <2>3
<1>6. ASSUME Live' = Live, NEW t, Enterable(t)
      PROVE  Enterable(t)'
  <2>1. PICK R \in Tr : Root(R) /\ InGroup(t, R)
    BY <1>6 DEF Enterable
  <2>2. Root(R)' /\ InGroup(t, R)'
    BY <1>2, <1>6, <2>1 DEF Root, SameJumps
  <2> QED BY <2>2 DEF Enterable
<1> QED BY <1>4, <1>5, <1>6

\* A new side trace joins the group of its root, and of no other.
LEMMA GroupStores ==
  ASSUME TraceInv, Groups, Attached, NEW o \in Tr, Stores(o), NEW R, Root(R)
  PROVE  /\ Root(R)' /\ obj'[R].no = obj[R].no
         /\ \A t : InGroup(t, R)' <=> InGroup(t, R) \/ (cur.kind = "side" /\ R = trace[cur.root] /\ t = o)
<1>1. TraceType /\ Numbered /\ Compiled
  BY DEF TraceInv, Table, Compiler
<1>2. /\ obj[o] = Free /\ obj'[o] \in Trace /\ obj'[o] # Free /\ o \notin dead /\ dead' = dead
      /\ cur.no \in TraceNo /\ cur.no # 0 /\ trace[cur.no] = Cur /\ trace' = [trace EXCEPT ![cur.no] = o]
      /\ trace \in [TraceNo -> Tr \union {Nil, Cur}] /\ Cur \notin Tr
  <2>1. /\ obj[o] = Free /\ obj'[o] \in Trace /\ dead' = dead
        /\ cur.no \in TraceNo /\ trace[cur.no] = Cur /\ trace' = [trace EXCEPT ![cur.no] = o]
    BY DEF Stores
  <2>2. o \notin dead
    BY <1>1, <2>1 DEF Numbered
  <2>3. trace \in [TraceNo -> Tr \union {Nil, Cur}]
    BY <1>1, TypesOf
  <2> QED BY <2>1, <2>2, <2>3, DistinctOK DEF TraceNo
<1>3. ASSUME NEW t \in Live
      PROVE  /\ t # o /\ t \in Live' /\ obj'[t] # Free /\ obj[t] # Free /\ obj'[t].no = obj[t].no /\ obj'[t].root = obj[t].root
             /\ obj'[t].nextside = IF cur.kind = "side" /\ t = trace[cur.root] THEN cur.no ELSE obj[t].nextside
  <2>1. t \in Tr /\ obj[t] # Free /\ t \notin dead /\ t # o
    BY <1>2, LiveNumber
  <2> QED BY <1>2, <2>1, LiveNumber DEF Stores, SameTrace
<1>4. \A n \in TraceNo : trace[n] \in Live => trace'[n] = trace[n]
  BY <1>2, LiveNumber
<1>5. R \in Live /\ Root(R)' /\ obj'[R].no = obj[R].no
  BY <1>3 DEF Root
<1>6. CASE ~ (cur.kind = "side" /\ R = trace[cur.root])
  <2>1. ASSUME NEW u, InGroup(u, R), cur.kind = "side", u = trace[cur.root]
        PROVE  FALSE
    <3>1. u # R /\ u \in Tr /\ obj[u].root = obj[R].no /\ obj[R].no # 0
      BY <1>5, <1>6, <2>1, GroupMembers, LiveNumber DEF Groups, Root
    <3>2. Exists(cur.root) /\ trace[cur.root] # Cur
      BY <1>2, <2>1, <3>1 DEF Stores
    <3>3. state \in Busy /\ Saved(cur.root)
      BY <3>2 DEF Saved, Busy, Stores
    <3> QED BY <2>1, <3>1, <3>3 DEF Attached
  <2>2. \A u : InGroup(u, R) =>
            /\ obj'[u] # Free /\ obj'[u].no = obj[u].no /\ obj'[u].nextside = obj[u].nextside
            /\ obj[u].nextside # 0 => trace'[obj[u].nextside] = trace[obj[u].nextside]
    BY <1>3, <1>4, <2>1, GroupMembers, LiveNumber
  <2> QED BY <1>5, <1>6, <2>2, GroupSame
<1>7. CASE cur.kind = "side" /\ R = trace[cur.root]
  <2> PICK G : G = {u \in Tr : InGroup(u, R)}
    OBVIOUS
  <2>1. R \in G /\ \A u \in G : u \in Live
    BY <1>5, GroupMembers, LiveNumber DEF InGroup
  <2>2. obj'[R].nextside = cur.no /\ trace'[cur.no] = o
    BY <1>2, <1>3, <1>5, <1>7
  <2>3. obj'[o].nextside = obj[R].nextside /\ obj'[o].no # 0
    <3>1. cur.root \in TraceNo /\ R # Cur
      BY <1>2, <1>5, <1>7, LiveNumber DEF Stores, Exists
    <3>2. traceref(cur.root) = obj[R]
      BY <1>7, <3>1 DEF traceref
    <3> QED BY <1>2, <1>7, <3>2 DEF Stores
  <2>4. ASSUME NEW u \in G, obj[u].nextside # 0
        PROVE  /\ trace[obj[u].nextside] \in G /\ trace'[obj[u].nextside] = trace[obj[u].nextside]
               /\ obj[u] # Free /\ obj[u].no # 0
    BY <1>4, <2>4, GroupMembers, LiveNumber DEF InGroup
  <2>5. ASSUME NEW u \in G, u # R
        PROVE  obj'[u] # Free /\ obj'[u].no = obj[u].no /\ obj'[u].nextside = obj[u].nextside
    BY <1>3, <1>7, <2>1, <2>5
  <2>6. ASSUME NEW K \in SUBSET Tr, R \in K, SideClosed(K)'
        PROVE  o \in K /\ G \subseteq K
    <3>1. o \in K
      <4>1. obj'[R] # Free /\ obj'[R].no # 0 /\ obj'[R].nextside # 0
        BY <1>2, <1>3, <1>5, <2>2 DEF Root
      <4> QED BY <2>2, <2>6, <4>1 DEF SideClosed
    <3>2. SideClosed(K \intersect G)
      <4> SUFFICES ASSUME NEW u \in K \intersect G, obj[u].no # 0, obj[u].nextside # 0
                   PROVE  trace[obj[u].nextside] \in K \intersect G
        BY DEF SideClosed
      <4>1. CASE u = R
        <5>1. trace'[obj'[o].nextside] \in K
          BY <1>2, <2>3, <2>6, <3>1, <4>1 DEF SideClosed
        <5> QED BY <2>3, <2>4, <4>1, <5>1
      <4>2. CASE u # R
        <5>1. trace'[obj'[u].nextside] \in K
          BY <2>5, <2>6, <4>2 DEF SideClosed
        <5> QED BY <2>4, <2>5, <4>2, <5>1
      <4> QED BY <4>1, <4>2
    <3>3. K \intersect G \in SUBSET Tr /\ R \in K \intersect G
      BY <2>1, <2>6
    <3>4. \A u \in G : u \in K \intersect G
      BY <3>2, <3>3 DEF InGroup
    <3> QED BY <3>1, <3>4
  <2>7. SideClosed(G \union {o})'
    <3> SUFFICES ASSUME NEW u \in G \union {o}, obj'[u].no # 0, obj'[u].nextside # 0
                 PROVE  trace'[obj'[u].nextside] \in G \union {o}
      BY DEF SideClosed
    <3>1. CASE u = o
      BY <2>1, <2>3, <2>4, <3>1
    <3>2. CASE u = R
      BY <2>2, <3>2
    <3>3. CASE u # o /\ u # R
      BY <2>4, <2>5, <3>3
    <3> QED BY <3>1, <3>2, <3>3
  <2>8. ASSUME NEW t, InGroup(t, R)'
        PROVE  InGroup(t, R) \/ t = o
    <3>1. G \union {o} \in SUBSET Tr /\ R \in G \union {o}
      BY <2>1
    <3>2. t \in G \union {o}
      BY <2>7, <2>8, <3>1 DEF InGroup
    <3> QED BY <3>2
  <2>9. ASSUME NEW t, InGroup(t, R) \/ t = o
        PROVE  InGroup(t, R)'
    <3>1. t \in Tr /\ (t \in G \/ t = o)
      BY <2>9 DEF InGroup
    <3> QED BY <2>6, <3>1 DEF InGroup
  <2> QED BY <1>5, <1>7, <2>8, <2>9
<1> QED BY <1>6, <1>7

\* The new trace jumps to itself or to a root, and the exit that now enters it
\* belongs to its group.
LEMMA JumpsStores ==
  ASSUME TraceInv, Groups, Tails, Attached, NEW o \in Tr, Stores(o)
  PROVE  Groups' /\ Tails' /\ \A t : Enterable(t) => Enterable(t)'
<1>1. TraceType /\ Numbered /\ Compiled /\ LinkKnown /\ LinksLive
  BY DEF TraceInv, Table, Compiler, Graph
<1>2. /\ obj[o] = Free /\ obj'[o] \in Trace /\ obj'[o] # Free /\ o \notin dead /\ dead' = dead
      /\ cur.no \in TraceNo /\ cur.no # 0 /\ trace[cur.no] = Cur /\ trace' = [trace EXCEPT ![cur.no] = o]
      /\ trace \in [TraceNo -> Tr \union {Nil, Cur}] /\ Cur \notin Tr /\ state \in Busy /\ Nil \notin Tr
  <2>1. /\ obj[o] = Free /\ obj'[o] \in Trace /\ dead' = dead /\ state = "ASM"
        /\ cur.no \in TraceNo /\ trace[cur.no] = Cur /\ trace' = [trace EXCEPT ![cur.no] = o]
    BY DEF Stores
  <2>2. o \notin dead
    BY <1>1, <2>1 DEF Numbered
  <2>3. trace \in [TraceNo -> Tr \union {Nil, Cur}]
    BY <1>1, TypesOf
  <2> QED BY <2>1, <2>2, <2>3, ConstantsOK, DistinctOK DEF TraceNo, Busy
<1>3. ASSUME NEW t \in Live
      PROVE  /\ t # o /\ t \in Tr /\ obj[t] # Free
             /\ obj'[t].no = obj[t].no /\ obj'[t].root = obj[t].root /\ obj'[t].to = obj[t].to
             /\ obj'[t].link = IF cur.kind = "stitch" /\ t = trace[exitno] THEN cur.no ELSE obj[t].link
             /\ obj'[t].branch = IF cur.kind = "side" /\ t = trace[parent] THEN o ELSE obj[t].branch
  <2>1. t \in Tr /\ obj[t] # Free /\ t \notin dead /\ t # o
    BY <1>2, LiveNumber
  <2> QED BY <2>1 DEF Stores, SameTrace
<1>4. \A n \in TraceNo : trace[n] \in Live => trace'[n] = trace[n]
  BY <1>2, LiveNumber
<1>5. /\ obj'[o].no = cur.no /\ obj'[o].root = cur.root /\ obj'[o].link = cur.link
      /\ obj'[o].to = TailOf(o) /\ obj'[o].branch = Nil
      /\ cur.kind # "side" => obj'[o].nextside = 0
      /\ Live' = Live \union {o}
  <2>1. \A t \in Tr \ {o} : obj'[t] = Free <=> obj[t] = Free
    BY DEF Stores
  <2>2. Live' = Live \union {o}
    BY <1>2, <2>1 DEF Live
  <2> QED BY <2>2 DEF Stores
<1>6. cur.kind \in {"root", "ret", "side", "stitch"} /\ (cur.kind # "side" => cur.root = 0) /\ (cur.kind = "side" => cur.root # 0)
  BY <1>1, <1>2 DEF Compiled
<1>7. Groups'
  <2> SUFFICES ASSUME NEW R \in Tr, NEW t \in Tr, Root(R)', InGroup(t, R)'
               PROVE  /\ t # R => obj'[t].root = obj'[R].no
                      /\ obj'[t].branch # Nil => InGroup(obj[t].branch, R)'
    BY DEF Groups
  <2>1. CASE R = o
    <3>1. cur.kind # "side"
      BY <1>5, <1>6, <2>1 DEF Root
    <3>2. SideClosed({o})'
      BY <1>5, <3>1 DEF SideClosed
    <3>3. t = o
      BY <2>1, <3>2 DEF InGroup
    <3> QED BY <1>5, <2>1, <3>3
  <2>2. CASE R # o
    <3>1. Root(R)
      BY <1>3, <1>5, <2>2 DEF Root
    <3>2. /\ obj'[R].no = obj[R].no
          /\ \A u : InGroup(u, R)' <=> InGroup(u, R) \/ (cur.kind = "side" /\ R = trace[cur.root] /\ u = o)
      BY <3>1, GroupStores
    <3>3. CASE InGroup(t, R)
      <4>1. t \in Live /\ obj'[t].root = obj[t].root
        BY <1>3, <3>1, <3>3, GroupMembers
      <4>2. t # R => obj[t].root = obj[R].no
        BY <3>1, <3>3 DEF Groups
      <4>3. CASE cur.kind = "side" /\ t = trace[parent]
        <5>1. parent \in TraceNo /\ t \in Tr /\ t # Cur
          BY <1>2, <1>3, <4>1, <4>3 DEF Stores, Exists
        <5>2. Saved(parent) /\ traceref(parent) = obj[t]
          BY <4>3, <5>1 DEF Saved, Stores, traceref
        <5>3. cur.root = IF obj[t].root # 0 THEN obj[t].root ELSE parent
          BY <1>2, <4>3, <5>2 DEF Attached, RootOf
        <5>4. trace[cur.root] = R
          <6>1. CASE t = R
            BY <3>1, <4>3, <5>3, <6>1 DEF Root
          <6>2. CASE t # R
            <7>1. cur.root = obj[R].no
              BY <3>1, <4>2, <5>3, <6>2 DEF Root
            <7> QED BY <1>1, <3>1, <7>1, OwnNumber DEF Root
          <6> QED BY <6>1, <6>2
        <5>5. InGroup(o, R)' /\ obj'[t].branch = o
          BY <1>3, <3>2, <4>1, <4>3, <5>4
        <5> QED BY <3>2, <4>1, <4>2, <5>5 DEF InGroup
      <4>4. CASE ~ (cur.kind = "side" /\ t = trace[parent])
        <5>1. obj'[t].branch = obj[t].branch
          BY <1>3, <4>1, <4>4
        <5>2. PICK b : b = obj[t].branch
          OBVIOUS
        <5>3. b # Nil => InGroup(b, R)'
          BY <3>1, <3>2, <3>3, <5>2 DEF Groups
        <5> QED BY <3>2, <4>1, <4>2, <5>1, <5>2, <5>3 DEF InGroup
      <4> QED BY <4>3, <4>4
    <3>4. CASE ~ InGroup(t, R)
      <4>1. cur.kind = "side" /\ R = trace[cur.root] /\ t = o
        BY <3>2, <3>4
      <4>2. cur.root \in TraceNo /\ R \in Tr
        BY <4>1 DEF Stores, Exists
      <4>3. obj[R].no = cur.root
        BY <1>1, <4>1, <4>2 DEF Numbered
      <4> QED BY <1>5, <3>2, <4>1, <4>3
    <3> QED BY <3>3, <3>4
  <2> QED BY <2>1, <2>2
<1>8. Tails'
  <2> SUFFICES ASSUME NEW t \in Live', obj'[t].no # 0
               PROVE  /\ obj'[t].link \notin {0, obj'[t].no} => obj'[trace'[obj'[t].link]].root = 0
                      /\ obj'[t].to # Nil => obj'[t].link # 0 /\ obj'[t].to = trace'[obj'[t].link]
    BY DEF Tails
  <2>1. trace'[cur.no] = o
    BY <1>2
  <2>2. CASE t = o
    <3>1. CASE cur.link = cur.no
      BY <1>1, <1>2, <1>5, <2>1, <2>2, <3>1 DEF LinkKnown, TailOf
    <3>2. CASE cur.link = 0
      BY <1>1, <1>2, <1>5, <2>2, <3>2 DEF LinkKnown, TailOf
    <3>3. CASE cur.link \notin {0, cur.no}
      <4>1. IsLive(cur.link) /\ cur.ltype # "loop" /\ obj[trace[cur.link]].root = 0
        BY <1>1, <1>2, <3>3 DEF LinkKnown, Attached
      <4>2. trace[cur.link] \in Live /\ trace'[cur.link] = trace[cur.link] /\ TailOf(o) = trace[cur.link]
        BY <1>4, <3>3, <4>1, LiveNumber DEF TailOf
      <4> QED BY <1>3, <1>5, <2>2, <3>3, <4>1, <4>2
    <3> QED BY <3>1, <3>2, <3>3
  <2>3. CASE t # o
    <3>1. t \in Live /\ obj[t].no # 0
      BY <1>3, <1>5, <2>3
    <3>2. CASE cur.kind = "stitch" /\ t = trace[exitno]
      <4>1. exitno \in TraceNo /\ t \in Tr /\ t # Cur
        BY <1>2, <1>3, <3>1, <3>2 DEF Stores, Exists
      <4>2. Saved(exitno)
        BY <3>2, <4>1 DEF Saved, Stores
      <4>3. obj[t].to = Nil
        BY <1>2, <3>2, <4>2 DEF Attached
      <4> QED BY <1>3, <1>5, <1>6, <2>1, <3>1, <3>2, <4>3
    <3>3. CASE ~ (cur.kind = "stitch" /\ t = trace[exitno])
      <4>1. obj'[t].link = obj[t].link
        BY <1>3, <3>1, <3>3
      <4>2. obj[t].link # 0 => trace[obj[t].link] \in Live /\ trace'[obj[t].link] = trace[obj[t].link]
        BY <1>1, <1>4, <3>1, LiveNumber DEF LinksLive
      <4> QED BY <1>3, <3>1, <4>1, <4>2 DEF Tails
    <3> QED BY <3>2, <3>3
  <2> QED BY <2>2, <2>3
<1>9. ASSUME NEW t, Enterable(t)
      PROVE  Enterable(t)'
  <2>1. PICK R \in Tr : Root(R) /\ InGroup(t, R)
    BY <1>9 DEF Enterable
  <2>2. Root(R)' /\ InGroup(t, R)'
    BY <2>1, GroupStores
  <2> QED BY <2>2 DEF Enterable
<1> QED BY <1>7, <1>8, <1>9

\* The instruction is not patched, nor is the one that is pending.
NoNumber(B) == \A pc \in PC : B[pc].op # J => B[pc].d = 0

\* Instructions that are not patched hold no number.
LEMMA NumbersUnpatched ==
  ASSUME TraceInv, Unpatched
  PROVE  /\ bc \in Bytes /\ NoNumber(bc) /\ Repatched \in Bytes /\ NoNumber(Repatched)
         /\ Pended \in Bytes /\ NoNumber(Pended)
<1>1. TraceType /\ PatchPending
  BY DEF TraceInv, Compiler
<1>2. bc \in Bytes /\ Repatched \in Bytes /\ Pended \in Bytes /\ Pended \in {bc, Repatched}
  BY <1>1, Bytecode DEF Bytes
<1>3. NoNumber(bc)
  BY DEF Unpatched, NoNumber
<1>4. NoNumber(Repatched)
  <2>1. CASE patch = Nil
    BY <1>3, <2>1 DEF Repatched
  <2>2. CASE patch # Nil
    <3>1. Repatched = [bc EXCEPT ![patch.pc] = patch.ins] /\ patch.ins.op = J
      BY <1>1, <2>2, Bytecode DEF Pending
    <3> QED BY <1>2, <1>3, <3>1 DEF NoNumber, Bytes
  <2> QED BY <2>1, <2>2
<1> QED BY <1>2, <1>3, <1>4

\* Unpatching and blacklisting leave no number behind.
LEMMA UnpatchedSame ==
  ASSUME NEW B \in Bytes, NoNumber(B)
  PROVE  /\ (\A pc \in PC : bc'[pc] = B[pc] \/ bc'[pc] = Plain) => Unpatched'
         /\ \A x : (x \in PC => B[x].op = 0) /\ bc' = [B EXCEPT ![x].op = @ + I] => Unpatched'
<1>1. ASSUME \A pc \in PC : bc'[pc] = B[pc] \/ bc'[pc] = Plain
      PROVE  Unpatched'
  BY <1>1 DEF Unpatched, NoNumber, Plain
<1>2. ASSUME NEW x, x \in PC => B[x].op = 0, bc' = [B EXCEPT ![x].op = @ + I]
      PROVE  Unpatched'
  BY <1>2 DEF Unpatched, NoNumber, Bytes, J
<1> QED BY <1>1, <1>2

\* Every step leaves instructions that are not patched without a number.
LEMMA UnpatchedKept ==
  ASSUME TraceInv, Unpatched, [Next]_vars
  PROVE  Unpatched'
<1>1. /\ bc \in Bytes /\ NoNumber(bc) /\ Repatched \in Bytes /\ NoNumber(Repatched)
      /\ Pended \in Bytes /\ NoNumber(Pended)
  BY NumbersUnpatched
<1>2. TraceType /\ Started /\ Compiled /\ PatchPending
  BY DEF TraceInv, Compiler
<1>3. ASSUME NEW B \in Bytes, NoNumber(B), \A pc \in PC : bc'[pc] = B[pc] \/ bc'[pc] = Plain
      PROVE  Unpatched'
  BY <1>3, UnpatchedSame
<1>4. bc' = bc \/ bc' = Repatched \/ bc' = Pended => Unpatched'
  BY <1>1, <1>3
<1>5. ASSUME NEW T, bc' = trace_unpatch(bc, T)
      PROVE  Unpatched'
  <2>1. \A pc \in PC : bc'[pc] = bc[pc] \/ bc'[pc] = Plain
    BY <1>1, <1>5 DEF trace_unpatch, Bytes
  <2> QED BY <1>1, <1>3, <2>1
<1>6. CASE UNCHANGED vars \/ (\E pc \in PC : lj_trace_hot(pc)) \/ Run \/ Collect
  <2>1. bc' = bc
    BY <1>6 DEF vars, lj_trace_hot, Run, EnterTrace, JumpOn, LeaveTrace, lj_trace_exit, trace_hotside,
                lj_cont_stitch, Unwind, Collect, GCAtomic, lj_trace_free
  <2> QED BY <1>4, <2>1
<1>7. CASE lj_record_ins \/ lj_record_stop \/ lj_trace_err \/ lj_trace_abort
  BY <1>4, <1>7 DEF lj_record_ins, lj_record_stop, lj_trace_err, lj_trace_abort
<1>8. ASSUME NEW pc \in Func, rec_func_jit(pc)
      PROVE  Unpatched'
  <2>1. \A x \in PC : bc'[x] = Pended[x] \/ bc'[x] = Plain
    BY <1>1, <1>8 DEF rec_func_jit, Bytes
  <2> QED BY <1>1, <1>3, <2>1
<1>9. ASSUME NEW pc \in Func, check_call_unroll(pc)
      PROVE  Unpatched'
  BY <1>5, <1>9 DEF check_call_unroll, lj_trace_flush, trace_flushroot
<1>10. CASE Record
  BY <1>7, <1>8, <1>9, <1>10 DEF Record
<1>11. CASE lj_trace_flushall
  <2>1. \A pc \in PC : bc'[pc] = bc[pc] \/ bc'[pc] = Plain
    BY <1>11 DEF lj_trace_flushall
  <2> QED BY <1>1, <1>3, <2>1
<1>12. ASSUME NEW p \in Proto, NEW mode \in {"on", "off", "flush"}, setptmode(p, mode)
       PROVE  Unpatched'
  <2>1. \A pc \in PC : bc'[pc] = bc[pc] \/ bc'[pc] = Plain
    BY <1>12 DEF setptmode, lj_trace_reenableproto, lj_trace_flushproto
  <2> QED BY <1>1, <1>3, <2>1
<1>13. CASE Host
  BY <1>5, <1>11, <1>12, <1>13 DEF Host, FlushAll, FlushTrace, lj_trace_flush, trace_flushroot
<1>14. ASSUME NEW x, StartTrace(x)
       PROVE  Unpatched'
  <2>1. \A pc \in PC : bc'[pc] = bc[pc] \/ bc'[pc] = Plain
    BY <1>1, <1>14 DEF StartTrace, Bytes
  <2> QED BY <1>1, <1>3, <2>1
<1>15. CASE trace_start
  <2>1. CASE NoJIT
    <3>1. CASE bc' = bc
      BY <1>4, <3>1
    <3>2. CASE parent = 0 /\ exitno = 0 /\ bc' = [bc EXCEPT ![jpc.pc].op = @ + I]
      <4>1. jpc.pc \in PC => bc[jpc.pc].op = 0
        BY <1>2, <1>15, <3>2, ConstantsOK DEF Started, trace_start
      <4> QED BY <1>1, <3>2, <4>1, UnpatchedSame
    <3> QED BY <2>1, <3>1, <3>2 DEF NoJIT
  <2> QED BY <1>11, <1>14, <1>15, <2>1 DEF trace_start, NoFreeTrace
<1>16. CASE trace_abort
  <2>1. CASE bc' = bc \/ bc' = Repatched
    BY <1>4, <2>1
  <2>2. CASE parent = 0 /\ cur.kind # "ret" /\ exitno = 0 /\ bc' = [Repatched EXCEPT ![cur.pc].op = @ + I]
    <3>1. cur.pc \in PC => Repatched[cur.pc].op = 0
      BY <1>2, <1>16, <2>2, ConstantsOK DEF Compiled, Busy, trace_abort
    <3> QED BY <1>1, <2>2, <3>1, UnpatchedSame
  <2> QED BY <1>16, <2>1, <2>2 DEF trace_abort, Penalize, penalty_pc
<1>17. ASSUME NEW o \in Tr, trace_stop(o)
       PROVE  Unpatched'
  <2>1. CASE Crash
    BY <1>4, <2>1 DEF Crash
  <2>2. CASE Stores(o)
    <3>1. CASE bc' = bc
      BY <1>4, <3>1
    <3>2. CASE bc' = [bc EXCEPT ![cur.pc] = [op |-> J, d |-> cur.no]]
      BY <1>1, <3>2 DEF Unpatched, NoNumber, Bytes
    <3> QED BY <2>2, <3>1, <3>2 DEF Stores
  <2> QED BY <1>17, <2>1, <2>2, StopStores
<1>18. CASE Compile
  BY <1>4, <1>11, <1>14, <1>15, <1>16, <1>17, <1>18 DEF Compile, lj_opt_loop, lj_asm_error, trace_downrec, MCodeFlush
<1> QED BY <1>6, <1>10, <1>13, <1>18 DEF Next

\* Steps keep the groups and the tails; what bytecode can enter stays so, but
\* for a flush of all traces and for the collector.
LEMMA GroupsKept ==
  ASSUME TraceInv, Groups, Tails, Attached, [Next]_vars
  PROVE  /\ Groups' /\ Tails'
         /\ AllFlushed \/ GCAtomic \/ \A t : Enterable(t) => Enterable(t)'
<1> DEFINE Keeps == Groups' /\ Tails' /\ \A t : Enterable(t) => Enterable(t)'
<1>1. TraceType /\ Numbered /\ Room /\ Compiled /\ PatchPending
  BY DEF TraceInv, Table, Compiler
<1>2. /\ trace \in [TraceNo -> Tr \union {Nil, Cur}] /\ obj \in [Tr -> Trace \union {Free}]
      /\ Nil \notin Tr /\ Cur \notin Tr
  BY <1>1, TypesOf, ConstantsOK, DistinctOK
<1>3. ASSUME Live' = Live, \A n \in TraceNo : trace[n] \in Live => trace'[n] = trace[n],
             \A t \in Live : obj'[t] # Free /\ SameJumps(obj'[t], obj[t]) /\ obj'[t].link = obj[t].link
      PROVE  Keeps
  BY <1>3, JumpsSame
<1>4. CASE Calm
  <2>1. Live' = Live
    BY <1>4 DEF Calm, Live
  <2> QED BY <1>3, <1>4, <2>1, LiveNumber DEF Calm, SameLinks, SameTrace, SameJumps
<1>5. CASE AllFlushed
  <2>1. \A t \in Tr : obj'[t] # Free => obj'[t].no = 0
    BY <1>1, <1>5, FlushAllEffect DEF AllFlushed, PatchPending
  <2>2. Groups' /\ Tails'
    BY <2>1, LiveNumber DEF Groups, Tails, Root
  <2> QED BY <1>5, <2>2
<1>6. CASE Taken
  <2>1. trace_findfree.no # 0 /\ trace' = [trace EXCEPT ![trace_findfree.no] = Cur] /\ obj' = obj /\ dead' = dead
    BY <1>6 DEF Taken, StartTrace
  <2>2. trace[trace_findfree.no] = Nil
    BY <1>1, <2>1, FreeNumber
  <2>3. \A n \in TraceNo : trace[n] \in Live => trace'[n] = trace[n]
    BY <1>2, <2>1, <2>2, LiveNumber
  <2>4. Live' = Live
    BY <2>1 DEF Live
  <2> QED BY <1>3, <2>1, <2>3, <2>4, LiveNumber DEF SameJumps
<1>7. CASE Dropped
  <2>1. /\ \A t \in Tr : /\ obj'[t] = Free <=> obj[t] = Free
                         /\ obj[t] # Free => SameJumps(obj'[t], obj[t])
        /\ trace' = [n \in TraceNo |-> IF n = cur.no THEN Nil ELSE trace[n]] /\ dead' = dead
    BY <1>7, PenalizeEffect DEF Dropped, DropCur, SameTrace, SameJumps
  <2>2. Live' = Live
    BY <2>1 DEF Live
  <2>3. \A n \in TraceNo : trace[n] \in Live => trace'[n] = trace[n]
    <3>1. \A n \in TraceNo : n = cur.no => trace[n] = Cur
      BY <1>1 DEF Numbered
    <3> QED BY <1>2, <2>1, <3>1, LiveNumber
  <2>4. ASSUME NEW t \in Live, obj'[t].link # obj[t].link
        PROVE  obj'[t].link = obj[t].no /\ obj[t].to = Nil
    <3>1. t = trace[exitno] /\ exitno # 0 /\ obj'[t].link = exitno /\ t \in Tr
      BY <1>7, <2>4, PenalizeEffect, LiveNumber DEF Dropped
    <3>2. exitno \in TraceNo
      <4>1. exitno \in 0..maxtrace /\ maxtrace \in Nat
        BY <1>1, TypesOf, ConstantsOK
      <4> QED BY <3>1, <4>1 DEF TraceNo
    <3>3. Saved(exitno) /\ obj[t].no = exitno
      BY <1>1, <3>1, <3>2, SavedNumbers
    <3>4. state \in Busy /\ cur.kind = "stitch"
      BY <1>1, <1>7, <3>1 DEF Dropped, Busy, Compiled
    <3> QED BY <3>1, <3>3, <3>4 DEF Attached
  <2> QED BY <2>1, <2>2, <2>3, <2>4, JumpsSame, LiveNumber
<1>8. ASSUME NEW o \in Tr, Stores(o)
      PROVE  Keeps
  BY <1>8, JumpsStores
<1>9. ASSUME NEW n, Unchained(n)
      PROVE  Keeps
  <2>1. Live' = Live
    BY <1>9 DEF Unchained, Live
  <2> QED BY <1>3, <1>9, <2>1, LiveNumber DEF Unchained, SameJumps
<1>10. ASSUME NEW p, NEW mode, setptmode(p, mode)
       PROVE  Keeps
  <2>1. UNCHANGED <<trace, dead, obj>>
    BY <1>10 DEF setptmode
  <2> QED BY <1>3, <2>1, LiveNumber DEF SameJumps, Live
<1>11. CASE GCAtomic
  <2>1. UNCHANGED <<trace, obj>> /\ Live' \subseteq Live
    BY <1>11 DEF GCAtomic, Live
  <2>2. \A t \in Live : obj'[t] # Free /\ SameJumps(obj'[t], obj[t]) /\ obj'[t].link = obj[t].link
    BY <2>1, LiveNumber DEF SameJumps
  <2> QED BY <1>11, <2>1, <2>2, JumpsSame
<1>12. ASSUME NEW t \in Tr, lj_trace_free(t)
       PROVE  Keeps
  <2>1. /\ t \in dead /\ obj' = [obj EXCEPT ![t] = Free] /\ dead' = dead \ {t}
        /\ obj[t].no # 0 => trace' = [trace EXCEPT ![obj[t].no] = Nil]
        /\ obj[t].no = 0 => trace' = trace
    BY <1>12 DEF lj_trace_free
  <2>2. obj[t] # Free
    BY <1>1, <2>1 DEF Numbered
  <2>3. \A n \in TraceNo : trace'[n] # trace[n] => trace[n] = t
    BY <1>1, <1>2, <2>1, <2>2 DEF Numbered
  <2>4. \A n \in TraceNo : trace[n] \in Live => trace'[n] = trace[n]
    BY <2>1, <2>3, LiveNumber
  <2>5. \A u \in Live : obj'[u] = obj[u]
    BY <1>2, <2>1, LiveNumber
  <2>6. Live' = Live
    BY <1>2, <2>1 DEF Live
  <2> QED BY <1>3, <2>4, <2>5, <2>6, LiveNumber DEF SameJumps
<1> QED BY <1>4, <1>5, <1>6, <1>7, <1>8, <1>9, <1>10, <1>11, <1>12, Steps

\* A root is in its own group.
LEMMA EnterRoot ==
  ASSUME NEW R, Root(R)
  PROVE  R \in Tr /\ InGroup(R, R) /\ Enterable(R)
BY LiveNumber DEF Root, InGroup, Enterable

\* A link to another trace leads to a root.
LEMMA LinkEnterable ==
  ASSUME TraceInv, Tails, NEW t \in Live, obj[t].no # 0, obj[t].link \notin {0, obj[t].no}
  PROVE  obj[t].link \in TraceNo /\ Enterable(trace[obj[t].link])
<1>1. TraceType /\ Numbered /\ LinksLive
  BY DEF TraceInv, Table, Graph
<1>2. IsLive(obj[t].link)
  BY <1>1 DEF LinksLive
<1>3. PICK n \in TraceNo : n = obj[t].link /\ trace[n] \in Live /\ obj[trace[n]].no = n /\ n # 0
  BY <1>1, <1>2, SavedNumbers, LiveNumber
<1>4. Root(trace[n])
  BY <1>3 DEF Tails, Root
<1> QED BY <1>3, <1>4, EnterRoot

\* Patched bytecode enters a root.
LEMMA PatchedEnterable ==
  ASSUME TraceInv, NEW pc \in PC, bc[pc].op = J
  PROVE  bc[pc].d \in TraceNo /\ Enterable(trace[bc[pc].d])
<1>1. TraceType /\ Numbered /\ PatchPending /\ Roots
  BY DEF TraceInv, Table, Compiler, Graph
<1>2. PICK d \in TraceNo : d = bc[pc].d /\ IsLive(d) /\ RootAt(d, protoOf[pc])
  BY <1>1, Bytecode, PatchedRoots
<1>3. trace[d] \in Live /\ obj[trace[d]].no = d /\ d # 0 /\ trace[d] \in Tr /\ obj[trace[d]] # Free
  BY <1>1, <1>2, SavedNumbers, LiveNumber DEF TraceNo
<1>4. Root(trace[d])
  BY <1>1, <1>2, <1>3 DEF Roots, RootAt, Root
<1> QED BY <1>2, <1>4, EnterRoot

\* So does the tail, and a patched exit enters a trace of the group.
LEMMA JumpEnterable ==
  ASSUME TraceInv, Jumps, NEW t, Enterable(t), NEW u \in {obj[t].to, obj[t].branch}, u # Nil
  PROVE  Enterable(u)
<1>1. PICK R \in Tr : Root(R) /\ InGroup(t, R)
  BY DEF Enterable
<1>2. t \in Live /\ obj[t].no # 0 /\ trace[obj[t].no] = t /\ t \in Tr
  BY <1>1, GroupMembers
<1>3. CASE u = obj[t].branch
  <2>1. InGroup(u, R)
    BY <1>1, <1>2, <1>3 DEF Jumps, Groups
  <2> QED BY <1>1, <2>1 DEF Enterable
<1>4. CASE u = obj[t].to
  <2>1. obj[t].link # 0 /\ u = trace[obj[t].link]
    BY <1>2, <1>4 DEF Jumps, Tails
  <2>2. CASE obj[t].link = obj[t].no
    BY <1>2, <2>1, <2>2
  <2>3. CASE obj[t].link # obj[t].no
    BY <1>2, <2>1, <2>3, LinkEnterable DEF Jumps
  <2> QED BY <2>2, <2>3
<1> QED BY <1>3, <1>4

\* The code that is entered, jumped to or returned to can be entered.
LEMMA RunEnterable ==
  ASSUME TraceInv, Jumps, [Next]_vars, run' # Nil
  PROVE  \E t : run' = t /\ Enterable(t)
<1>1. CASE UNCHANGED run
  BY <1>1 DEF Jumps, Running
<1>2. ASSUME NEW pc \in PC, EnterTrace(pc)
      PROVE  \E t : run' = t /\ Enterable(t)
  <2>1. bc[pc].op = J /\ (run' = run \/ run' = trace[bc[pc].d])
    BY <1>2 DEF EnterTrace
  <2> QED BY <1>1, <2>1, PatchedEnterable
<1>3. ASSUME JumpOn
      PROVE  \E t : run' = t /\ Enterable(t)
  <2>1. PICK t : t = run /\ Enterable(t) /\ run' \in {obj[t].to, obj[t].branch}
    BY <1>3 DEF JumpOn, Jumps, Running
  <2> QED BY <2>1, JumpEnterable
<1>4. ASSUME NEW t \in Tr, NEW p \in Proto, lj_cont_stitch(t, p)
      PROVE  \E u : run' = u /\ Enterable(u)
  <2>1. t \in conts /\ obj[t] # Free /\ run = Nil /\ run' = trace[obj[t].link] /\ obj[t].link \notin {0, obj[t].no}
    BY <1>4 DEF lj_cont_stitch
  <2>2. t \in Live /\ obj[t].no # 0
    BY <2>1 DEF Jumps, Held
  <2> QED BY <2>1, <2>2, LinkEnterable DEF Jumps
<1>5. CASE Run
  BY <1>1, <1>2, <1>3, <1>4, <1>5 DEF Run, LeaveTrace, lj_trace_exit, trace_hotside, Unwind
<1>6. CASE ~Run
  <2>1. UNCHANGED run
    BY <1>6 DEF Next, vars, lj_trace_hot, Compile, trace_start, lj_opt_loop, lj_asm_error, trace_stop, Crash, trace_abort,
                trace_downrec, MCodeFlush, Record, lj_record_ins, lj_record_stop, lj_trace_err, lj_trace_abort,
                rec_func_jit, check_call_unroll, Host, FlushAll, FlushTrace, setptmode, Collect, GCAtomic, lj_trace_free
  <2> QED BY <1>1, <2>1
<1> QED BY <1>5, <1>6

\* What runs can be entered after the step, too.
LEMMA RunningKept ==
  ASSUME TraceInv, Jumps, [Next]_vars
  PROVE  Running'
<1> SUFFICES ASSUME run' # Nil
             PROVE  \E t : run' = t /\ Enterable(t)'
  BY DEF Running, Enterable, InGroup
<1>1. PICK t : run' = t /\ Enterable(t)
  BY RunEnterable
<1>2. ~AllFlushed /\ ~GCAtomic
  BY DEF AllFlushed, GCAtomic
<1> QED BY <1>1, <1>2, GroupsKept DEF Jumps

\* Continuation frames come from traces that leave their code, which have no tail.
LEMMA FramesKept ==
  ASSUME TraceInv, Jumps, [Next]_vars
  PROVE  \A t \in conts' : t \in Live /\ obj[t].to = Nil
<1>1. \A t \in conts : t \in Live /\ obj[t].to = Nil
  BY DEF Jumps, Held
<1>2. CASE conts' \subseteq conts
  BY <1>1, <1>2
<1>3. CASE LeaveTrace
  <2>1. conts' \subseteq conts \union {run} /\ run # Nil /\ obj[run].to = Nil
    BY <1>3 DEF LeaveTrace
  <2>2. run \in Live
    BY <2>1, GroupMembers DEF Jumps, Running, Enterable
  <2> QED BY <1>1, <2>1, <2>2
<1>4. CASE Run
  BY <1>2, <1>3, <1>4 DEF Run, EnterTrace, JumpOn, lj_trace_exit, trace_hotside, lj_cont_stitch, Unwind
<1>5. CASE ~Run
  <2>1. UNCHANGED conts
    BY <1>5 DEF Next, vars, lj_trace_hot, Compile, trace_start, lj_opt_loop, lj_asm_error, trace_stop, Crash, trace_abort,
                trace_downrec, MCodeFlush, Record, lj_record_ins, lj_record_stop, lj_trace_err, lj_trace_abort,
                rec_func_jit, check_call_unroll, Host, FlushAll, FlushTrace, setptmode, Collect, GCAtomic, lj_trace_free
  <2> QED BY <1>2, <2>1
<1> QED BY <1>4, <1>5

\* Traces in continuation frames stay live, and those without a number have no link.
LEMMA HeldKept ==
  ASSUME TraceInv, Jumps, [Next]_vars
  PROVE  Held'
<1>1. TraceType /\ Numbered /\ PatchPending /\ Held
  BY DEF TraceInv, Table, Compiler, Jumps
<1>2. /\ trace \in [TraceNo -> Tr \union {Nil, Cur}] /\ obj \in [Tr -> Trace \union {Free}]
      /\ Nil \notin Tr /\ Cur \notin Tr
  BY <1>1, TypesOf, ConstantsOK, DistinctOK
<1>3. \A t \in conts' : t \in Live /\ obj[t].to = Nil
  BY FramesKept
<1>4. ASSUME Live \subseteq Live', \A t \in Live : obj'[t].to = obj[t].to,
             \A t \in Tr : obj'[t] # Free /\ obj'[t].no = 0 =>
                obj'[t].link = 0 \/ (obj[t] # Free /\ obj[t].no = 0 /\ obj'[t].link = obj[t].link)
      PROVE  Held'
  BY <1>1, <1>3, <1>4 DEF Held
<1>5. CASE Calm
  <2>1. Live' = Live
    BY <1>5 DEF Calm, Live
  <2> QED BY <1>4, <1>5, <2>1, LiveNumber DEF Calm, SameLinks, SameTrace
<1>6. CASE AllFlushed
  <2>1. /\ \A t \in Tr : /\ obj'[t] = Free <=> obj[t] = Free
                         /\ obj[t] # Free => /\ obj'[t].no = 0 /\ obj'[t].to = obj[t].to
                                             /\ obj'[t].link = IF obj[t].no = 0 THEN obj[t].link ELSE 0
        /\ dead' = dead
    BY <1>1, <1>6, FlushAllEffect DEF AllFlushed, PatchPending
  <2>2. Live' = Live
    BY <2>1 DEF Live
  <2> QED BY <1>4, <2>1, <2>2, LiveNumber
<1>7. CASE Taken
  <2>1. obj' = obj /\ dead' = dead
    BY <1>7 DEF Taken, StartTrace
  <2> QED BY <1>4, <2>1 DEF Live
<1>8. CASE Dropped
  <2>1. /\ \A t \in Tr : /\ obj'[t] = Free <=> obj[t] = Free
                         /\ obj[t] # Free =>
                              /\ obj'[t].no = obj[t].no /\ obj'[t].to = obj[t].to
                              /\ obj'[t].link = obj[t].link \/ (t = trace[exitno] /\ exitno # 0)
        /\ dead' = dead
    BY <1>8, PenalizeEffect DEF Dropped, SameTrace
  <2>2. Live' = Live
    BY <2>1 DEF Live
  <2>3. ASSUME NEW t \in Tr, obj[t] # Free, t = trace[exitno], exitno # 0
        PROVE  obj[t].no # 0
    <3>1. exitno \in 0..maxtrace /\ maxtrace \in Nat
      BY <1>1, TypesOf, ConstantsOK
    <3>2. exitno \in TraceNo
      BY <2>3, <3>1 DEF TraceNo
    <3> QED BY <1>1, <2>3, <3>2 DEF Numbered
  <2> QED BY <1>4, <2>1, <2>2, <2>3, LiveNumber
<1>9. ASSUME NEW o \in Tr, Stores(o)
      PROVE  Held'
  <2>1. /\ obj[o] = Free /\ obj'[o] # Free /\ obj'[o].no # 0 /\ dead' = dead
        /\ cur.kind = "stitch" => Exists(exitno)
        /\ \A t \in Tr \ {o} :
             /\ obj'[t] = Free <=> obj[t] = Free
             /\ obj[t] # Free => /\ obj'[t].no = obj[t].no /\ obj'[t].to = obj[t].to
                                 /\ obj'[t].link = obj[t].link \/ (cur.kind = "stitch" /\ t = trace[exitno])
    BY <1>9, DistinctOK DEF Stores, SameTrace, TraceNo
  <2>2. Live \subseteq Live' /\ \A t \in Live : t # o
    BY <2>1 DEF Live
  <2>3. ASSUME NEW t \in Tr, obj[t] # Free, t = trace[exitno], Exists(exitno)
        PROVE  obj[t].no # 0
    BY <1>1, <2>3 DEF Exists, Numbered, TraceNo
  <2> QED BY <1>4, <2>1, <2>2, <2>3, LiveNumber
<1>10. ASSUME NEW n, Unchained(n)
       PROVE  Held'
  <2>1. Live' = Live
    BY <1>10 DEF Unchained, Live
  <2> QED BY <1>4, <1>10, <2>1, LiveNumber DEF Unchained
<1>11. ASSUME NEW p, NEW mode, setptmode(p, mode)
       PROVE  Held'
  <2>1. obj' = obj /\ dead' = dead
    BY <1>11 DEF setptmode
  <2> QED BY <1>4, <2>1 DEF Live
<1>12. CASE GCAtomic
  <2>1. /\ dead' \in SUBSET Tr /\ MarkedBut(dead') \intersect dead' = {} /\ conts' = conts /\ obj' = obj
    BY <1>12 DEF GCAtomic
  <2>2. \A t \in conts : t \notin dead'
    <3>1. conts \subseteq MarkedBut(dead')
      BY DEF MarkedBut
    <3> QED BY <2>1, <3>1
  <2>3. \A t \in conts' : t \in Live' /\ obj'[t].to = Nil
    BY <1>3, <2>1, <2>2, LiveNumber
  <2> QED BY <1>1, <2>1, <2>3 DEF Held
<1>13. ASSUME NEW t \in Tr, lj_trace_free(t)
       PROVE  Held'
  <2>1. t \in dead /\ obj' = [obj EXCEPT ![t] = Free] /\ dead' = dead \ {t}
    BY <1>13 DEF lj_trace_free
  <2>2. Live \subseteq Live' /\ \A u \in Live : u # t
    BY <1>2, <2>1 DEF Live
  <2> QED BY <1>2, <1>4, <2>1, <2>2, LiveNumber
<1> QED BY <1>5, <1>6, <1>7, <1>8, <1>9, <1>10, <1>11, <1>12, <1>13, Steps

\* A recording goes on: no trace comes in, and its own link, kind and root stay,
\* but that a link to a root may be new.
LEMMA AttachedSame ==
  ASSUME TraceInv, TraceInv', Attached, state \in Busy, state' \in Busy, UNCHANGED <<parent, exitno>>,
         cur'.kind = cur.kind, cur'.root = cur.root, cur'.no = cur.no,
         \A n \in TraceNo : trace'[n] \in Tr => trace'[n] = trace[n],
         \A t \in Tr : obj'[t] # Free => obj[t] # Free /\ obj'[t].root = obj[t].root /\ obj'[t].to = obj[t].to,
         cur'.link \in {0, cur.no, cur.link} \/ obj[trace[cur'.link]].root = 0
  PROVE  Attached'
<1>1. TraceType /\ Numbered /\ LinkKnown'
  BY DEF TraceInv, Table, Compiler
<1>2. /\ trace' \in [TraceNo -> Tr \union {Nil, Cur}] /\ Cur \notin Tr /\ Nil \notin Tr
      /\ obj' \in [Tr -> Trace \union {Free}] /\ Numbered'
  BY ConstantsOK, DistinctOK DEF TraceInv, TraceType, TypeOK, Table
<1>3. ASSUME NEW n, n \in TraceNo, trace'[n] # Nil, trace'[n] # Cur
      PROVE  /\ Saved(n) /\ trace'[n] = trace[n] /\ trace[n] \in Tr
             /\ obj'[trace[n]].root = obj[trace[n]].root /\ obj'[trace[n]].to = obj[trace[n]].to
  <2>1. trace'[n] \in Tr /\ trace'[n] = trace[n]
    BY <1>2, <1>3
  <2>2. obj'[trace[n]] # Free
    BY <1>2, <1>3, <2>1 DEF Numbered
  <2> QED BY <1>2, <1>3, <2>1, <2>2 DEF Saved, Exists
<1>4. \A n : Saved(n)' => /\ n \in TraceNo /\ Saved(n) /\ trace'[n] = trace[n] /\ trace[n] \in Tr
                          /\ obj'[trace[n]].root = obj[trace[n]].root /\ obj'[trace[n]].to = obj[trace[n]].to
  BY <1>3 DEF Saved, Exists
<1>5. cur'.kind = "side" /\ Saved(parent)' => cur'.root = RootOf(parent)'
  <2> SUFFICES ASSUME cur'.kind = "side", Saved(parent)'
               PROVE  cur'.root = RootOf(parent)'
    OBVIOUS
  <2>1. PICK n : n = parent
    OBVIOUS
  <2>2. Saved(n)'
    BY <2>1 DEF Saved, Exists
  <2>3. Saved(parent) /\ trace'[parent] = trace[parent] /\ trace[parent] \in Tr
        /\ obj'[trace[parent]].root = obj[trace[parent]].root
    BY <1>4, <2>1, <2>2
  <2>4. RootOf(parent)' = RootOf(parent)
    BY <1>2, <2>3 DEF RootOf, traceref
  <2> QED BY <2>3, <2>4 DEF Attached
<1>6. ASSUME cur'.kind = "side", Saved(cur.root)'
      PROVE  obj'[trace'[cur'.root]].root = 0
  <2>1. PICK n : n = cur'.root
    OBVIOUS
  <2>2. Saved(n)'
    BY <1>6, <2>1 DEF Saved, Exists
  <2>3. Saved(n) /\ trace'[n] = trace[n] /\ obj'[trace[n]].root = obj[trace[n]].root /\ n = cur.root
    BY <1>4, <2>1, <2>2
  <2> QED BY <1>6, <2>1, <2>3 DEF Attached
<1>7. ASSUME cur'.kind = "stitch", Saved(exitno)'
      PROVE  obj'[trace'[exitno']].to = Nil
  <2>1. PICK n : n = exitno
    OBVIOUS
  <2>2. Saved(n)'
    BY <1>7, <2>1 DEF Saved, Exists
  <2>3. Saved(n) /\ trace'[n] = trace[n] /\ obj'[trace[n]].to = obj[trace[n]].to
    BY <1>4, <2>2
  <2> QED BY <1>7, <2>1, <2>3 DEF Attached
<1>8. ASSUME cur'.link \notin {0, cur'.no}
      PROVE  obj'[trace'[cur'.link]].root = 0
  <2>1. PICK n : n = cur'.link
    OBVIOUS
  <2>2. IsLive(cur.link)'
    BY <1>1, <1>8 DEF LinkKnown
  <2>3. Saved(n)'
    BY <2>1, <2>2 DEF IsLive, Saved, Exists
  <2>4. trace'[n] = trace[n] /\ obj'[trace[n]].root = obj[trace[n]].root
    BY <1>4, <2>3
  <2> QED BY <1>8, <2>1, <2>4 DEF Attached
<1> QED BY <1>5, <1>6, <1>7, <1>8, SMTT(20) DEF Attached, Busy

\* Instructions that are recorded leave the trace where it will be attached.
LEMMA AttachedRecord ==
  ASSUME TraceInv, TraceInv', Attached, Record
  PROVE  Attached'
<1>1. TraceType /\ Numbered /\ Roots /\ PatchPending /\ cur \in Trace
  BY TypesOf DEF TraceInv, Table, Graph, Compiler
<1>2. /\ trace' = trace
      /\ \A t \in Tr : obj'[t] # Free => obj[t] # Free /\ obj'[t].root = obj[t].root /\ obj'[t].to = obj[t].to
      /\ cur'.no = cur.no
  BY CalmRecord DEF Calm, Unchained, SameLinks, SameTrace
<1>3. state = "RECORD" /\ state' \in Busy /\ UNCHANGED <<parent, exitno>>
  BY DEF Record, lj_record_ins, lj_record_stop, lj_trace_err, lj_trace_abort, rec_func_jit, check_call_unroll, Busy
<1>4. CASE cur' = cur
  BY <1>2, <1>3, <1>4, AttachedSame DEF Busy
<1>5. CASE lj_record_stop
  <2>1. PICK l \in StopLinks : cur' = [cur EXCEPT !.ltype = l[1], !.link = l[2]]
    BY <1>5 DEF lj_record_stop
  <2>2. cur'.kind = cur.kind /\ cur'.root = cur.root /\ cur'.link = l[2]
    BY <1>1, <2>1 DEF Trace
  <2>3. l[2] \in {0, cur.no} \/ \E pc \in PC : Pended[pc].op = J /\ l[2] = Pended[pc].d
    BY DEF StopLinks
  <2>4. ASSUME NEW pc \in PC, Pended[pc].op = J, l[2] = Pended[pc].d
        PROVE  obj[trace[l[2]]].root = 0
    <3>1. PICK d \in TraceNo : d = l[2] /\ IsLive(d) /\ RootAt(d, protoOf[pc])
      BY <1>1, <2>4, Bytecode, PatchedRoots
    <3>2. trace[d] \in Tr /\ obj[trace[d]] # Free
      BY <3>1, LiveNumber
    <3> QED BY <1>1, <3>1, <3>2 DEF Roots, RootAt
  <2>5. cur'.link \in {0, cur.no, cur.link} \/ obj[trace[cur'.link]].root = 0
    BY <2>2, <2>3, <2>4
  <2> QED BY <1>2, <1>3, <2>2, <2>5, AttachedSame DEF Busy
<1> QED BY <1>4, <1>5 DEF Record, lj_record_ins, lj_trace_err, lj_trace_abort, rec_func_jit, check_call_unroll

\* The root of a new side trace is the root of its parent.
LEMMA AttachedStart ==
  ASSUME TraceInv, Groups, Attached, NEW x, StartTrace(x), state \in {"START", "DOWNREC"},
         UNCHANGED exitno \/ jpc.kind = "ret", UNCHANGED parent \/ jpc.kind = "ret"
  PROVE  Attached'
<1>1. TraceType /\ Numbered /\ Room /\ Started /\ trace \in [TraceNo -> Tr \union {Nil, Cur}] /\ Cur \notin Tr /\ Nil \notin Tr
      /\ Cur # Nil /\ obj \in [Tr -> Trace \union {Free}] /\ maxtrace \in Nat
  BY TypesOf, ConstantsOK, DistinctOK DEF TraceInv, Table, Compiler
<1>2. PICK f : f = trace_findfree.no
  OBVIOUS
<1>3. /\ f # 0 /\ trace' = [trace EXCEPT ![f] = Cur] /\ obj' = obj
      /\ lj_record_setup(NewTrace(f, jpc.kind, jpc.pt, jpc.pc))
  BY <1>2 DEF StartTrace
<1>4. trace[f] = Nil /\ f \in TraceNo
  BY <1>1, <1>2, <1>3, FreeNumber DEF TraceNo
<1>5. /\ cur'.kind = jpc.kind /\ cur'.link = 0 /\ state' \in {"RECORD", "END", "CRASH"}
      /\ jpc.kind = "side" /\ state' # "CRASH" => cur'.root = RootOf(parent)
  BY <1>3, SetupEffect
<1>6. ASSUME NEW n, Saved(n)'
      PROVE  Saved(n) /\ trace'[n] = trace[n] /\ trace[n] \in Tr /\ n \in TraceNo
  <2>1. n \in TraceNo /\ trace'[n] # Nil /\ trace'[n] # Cur
    BY <1>6 DEF Saved, Exists
  <2> QED BY <1>1, <1>3, <1>4, <2>1 DEF Saved, Exists
<1>7. ASSUME jpc.kind = "side", state' # "CRASH"
      PROVE  /\ Saved(parent)' => cur'.root = RootOf(parent)'
             /\ Saved(cur.root)' => obj'[trace'[cur'.root]].root = 0
  <2>1. state = "START" /\ parent' = parent /\ Saved(parent) /\ Enterable(trace[parent])
    BY <1>1, <1>7 DEF Started, Attached
  <2>2. PICK R \in Tr : Root(R) /\ InGroup(trace[parent], R)
    BY <2>1 DEF Enterable
  <2>3. parent \in TraceNo /\ trace[parent] \in Tr /\ traceref(parent) = obj[trace[parent]]
    BY <1>1, <2>1, SavedNumbers
  <2>4. trace'[parent] = trace[parent] /\ RootOf(parent)' = RootOf(parent)
    <3>1. trace'[parent] = trace[parent]
      BY <1>1, <1>3, <1>4, <2>1, <2>3
    <3> QED BY <1>1, <1>3, <2>1, <2>3, <3>1 DEF RootOf, traceref
  <2>5. trace[RootOf(parent)] = R /\ obj[R].root = 0 /\ R \in Tr
    <3>1. R \in Live /\ obj[R].no # 0 /\ obj[R].root = 0
      BY <2>2 DEF Root
    <3>2. CASE trace[parent] = R
      BY <2>2, <2>3, <3>1, <3>2 DEF RootOf
    <3>3. CASE trace[parent] # R
      <4>1. obj[trace[parent]].root = obj[R].no
        BY <2>2, <2>3, <3>3 DEF Groups
      <4>2. trace[obj[R].no] = R
        BY <1>1, <3>1, OwnNumber
      <4> QED BY <2>2, <2>3, <3>1, <4>1, <4>2 DEF RootOf
    <3> QED BY <3>2, <3>3
  <2>6. ASSUME Saved(cur.root)'
        PROVE  obj'[trace'[cur'.root]].root = 0
    <3>1. PICK n : n = cur'.root
      OBVIOUS
    <3>2. Saved(n)'
      BY <2>6, <3>1 DEF Saved, Exists
    <3>3. trace'[n] = trace[n]
      BY <1>6, <3>2
    <3> QED BY <1>3, <1>5, <1>7, <2>5, <3>1, <3>3
  <2> QED BY <1>5, <1>7, <2>1, <2>4, <2>6
<1>8. ASSUME jpc.kind = "stitch", Saved(exitno)'
      PROVE  obj'[trace'[exitno']].to = Nil
  <2>1. state = "START" /\ exitno' = exitno /\ Saved(exitno) /\ obj[trace[exitno]].to = Nil
    BY <1>1, <1>8 DEF Started, Attached
  <2>2. PICK n : n = exitno
    OBVIOUS
  <2>3. Saved(n)'
    BY <1>8, <2>1, <2>2 DEF Saved, Exists
  <2>4. trace'[n] = trace[n]
    BY <1>6, <2>3
  <2> QED BY <1>3, <2>1, <2>2, <2>4
<1>9. CASE state' = "CRASH"
  BY <1>9 DEF Attached, Busy
<1> QED BY <1>5, <1>7, <1>8, <1>9 DEF Attached, Busy

\* A hot exit and a call that returns to a trace without a link leave what
\* trace_start relies on.
LEMMA AttachedRun ==
  ASSUME TraceInv, TraceInv', Jumps, "throw" \notin Ops, Run, [Next]_vars
  PROVE  Attached'
<1>1. TraceType /\ Numbered /\ PatchPending /\ run \in Tr \union {Nil} /\ obj \in [Tr -> Trace \union {Free}]
      /\ trace \in [TraceNo -> Tr \union {Nil, Cur}] /\ Cur \notin Tr /\ Nil \notin Tr
  BY TypesOf, ConstantsOK, DistinctOK DEF TraceInv, Table, Compiler
<1>2. CASE state' \notin Busy \union {"START"}
  BY <1>2 DEF Attached
<1>3. CASE \E pc \in PC : EnterTrace(pc)
  BY <1>2, <1>3 DEF EnterTrace, Busy
<1>4. CASE JumpOn \/ LeaveTrace \/ lj_trace_exit
  <2>1. state' = "IDLE"
    BY <1>1, <1>4 DEF JumpOn, LeaveTrace, lj_trace_exit, PatchPending
  <2> QED BY <1>2, <2>1 DEF Busy
<1>5. ASSUME NEW p \in Proto, trace_hotside(p)
      PROVE  Attached'
  <2>1. /\ state = "IDLE" /\ run # Nil /\ state' \in {"IDLE", "START"} /\ trace' = trace /\ parent' = obj[run].no
        /\ state' = "START" => jpc'.kind = "side"
    BY <1>1, <1>5 DEF trace_hotside, PatchPending
  <2>2. CASE state' = "IDLE"
    BY <1>2, <2>2 DEF Busy
  <2>3. CASE state' = "START"
    <3>1. PICK t : t = run /\ Enterable(t)
      BY <2>1 DEF Jumps, Running, Enterable
    <3>2. PICK n \in TraceNo : n = obj[t].no /\ trace[n] = t /\ t \in Tr
      BY <3>1, GroupMembers DEF Enterable
    <3>3. ~AllFlushed /\ ~GCAtomic
      BY <2>1, <2>3 DEF AllFlushed, GCAtomic
    <3>4. Enterable(t)'
      BY <3>1, <3>3, GroupsKept DEF Jumps
    <3>5. parent' = n /\ trace'[n] = t
      BY <2>1, <3>1, <3>2
    <3>6. Saved(parent)'
      BY <1>1, <3>2, <3>5 DEF Saved, Exists
    <3>7. Enterable(trace[parent])'
      BY <3>4, <3>5 DEF Enterable
    <3> QED BY <2>1, <2>3, <3>6, <3>7 DEF Attached, Busy
  <2> QED BY <2>1, <2>2, <2>3
<1>6. ASSUME NEW t \in Tr, NEW p \in Proto, lj_cont_stitch(t, p)
      PROVE  Attached'
  <2>1. /\ state = "IDLE" /\ state' \in {"IDLE", "CRASH", "START"} /\ t \in conts
        /\ trace' = trace /\ obj' = obj
        /\ state' = "START" => /\ jpc'.kind = "stitch" /\ exitno' = obj[t].no
                               /\ obj[t].link = 0 /\ obj[t].link # obj[t].no
    BY <1>6 DEF lj_cont_stitch
  <2>2. CASE state' # "START"
    BY <1>2, <2>1, <2>2 DEF Busy
  <2>3. CASE state' = "START"
    <3>1. t \in Live /\ obj[t].to = Nil /\ obj[t].no # 0
      BY <2>1, <2>3 DEF Jumps, Held
    <3>2. PICK n \in TraceNo : n = obj[t].no /\ trace[n] = t /\ t \in Tr
      BY <1>1, <3>1, OwnNumber, LiveNumber
    <3>3. Saved(exitno)' /\ obj'[trace'[exitno']].to = Nil
      BY <1>1, <2>1, <2>3, <3>1, <3>2 DEF Saved, Exists
    <3> QED BY <2>1, <2>3, <3>3 DEF Attached, Busy
  <2> QED BY <2>2, <2>3
<1>7. ASSUME NEW t \in Tr, Unwind(t)
      PROVE  Attached'
  <2>1. UNCHANGED <<obj, trace, cur, state, parent, exitno>> /\ state \in {"IDLE", "ABORTED"}
    BY <1>7 DEF Unwind
  <2>2. CASE state = "IDLE"
    BY <1>2, <2>1, <2>2 DEF Busy
  <2>3. CASE state = "ABORTED"
    BY <2>1, <2>3, AttachedSame DEF Jumps, Busy
  <2> QED BY <2>1, <2>2, <2>3
<1> QED BY <1>3, <1>4, <1>5, <1>6, <1>7 DEF Run

\* Every step leaves the new trace where it will be attached.
LEMMA AttachedKept ==
  ASSUME TraceInv, TraceInv', Jumps, "throw" \notin Ops, [Next]_vars
  PROVE  Attached'
<1>1. TraceType /\ Numbered /\ Started /\ Attached /\ obj \in [Tr -> Trace \union {Free}] /\ cur \in Trace
      /\ trace \in [TraceNo -> Tr \union {Nil, Cur}] /\ Cur \notin Tr /\ Nil \notin Tr
  BY TypesOf, ConstantsOK, DistinctOK DEF TraceInv, Table, Compiler, Jumps
<1>2. CASE state' \notin Busy \union {"START"}
  BY <1>2 DEF Attached
<1>3. CASE UNCHANGED vars
  BY <1>1, <1>3 DEF vars, Attached, Busy, Saved, Exists, Enterable, Root, InGroup, SideClosed, Live, RootOf, traceref
<1>4. ASSUME NEW pc \in PC, lj_trace_hot(pc)
      PROVE  Attached'
  <2>1. state' = "START" /\ jpc'.kind = "root"
    BY <1>4 DEF lj_trace_hot
  <2> QED BY <2>1 DEF Attached, Busy
<1>5. CASE trace_start
  <2>1. CASE state' = "IDLE"
    BY <1>2, <2>1 DEF Busy
  <2>2. ASSUME NEW x, StartTrace(x)
        PROVE  Attached'
    BY <1>1, <1>5, <2>2, AttachedStart DEF trace_start, Jumps
  <2> QED BY <1>5, <2>1, <2>2 DEF trace_start
<1>6. CASE trace_downrec
  <2>1. StartTrace(Nil) /\ state = "DOWNREC" /\ jpc.kind = "ret"
    BY <1>1, <1>6 DEF trace_downrec, Started
  <2> QED BY <1>1, <2>1, AttachedStart DEF Jumps
<1>7. ASSUME UNCHANGED <<obj, trace, parent, exitno>>, state \in Busy, state' \in Busy,
             cur' = cur \/ cur' = [cur EXCEPT !.link = 0, !.ltype = "none"]
      PROVE  Attached'
  <2>1. cur'.kind = cur.kind /\ cur'.root = cur.root /\ cur'.no = cur.no /\ cur'.link \in {0, cur.link}
    BY <1>1, <1>7 DEF Trace
  <2> QED BY <1>1, <1>7, <2>1, AttachedSame
<1>8. CASE lj_opt_loop
  BY <1>7, <1>8 DEF lj_opt_loop, Busy
<1>9. CASE lj_asm_error
  BY <1>7, <1>9 DEF lj_asm_error, Busy
<1>10. CASE trace_abort
  <2>1. CASE state' = "ASM"
    BY <1>2, <1>7, <1>10, <2>1 DEF trace_abort, Busy, Aborted
  <2>2. CASE state' # "ASM"
    BY <1>2, <1>10, <2>2 DEF trace_abort, Busy
  <2> QED BY <2>1, <2>2
<1>11. ASSUME NEW o \in Tr, trace_stop(o)
       PROVE  Attached'
  BY <1>2, <1>11 DEF trace_stop, Crash, Busy
<1>12. CASE MCodeFlush
  BY <1>2, <1>12 DEF MCodeFlush, Busy
<1>13. CASE Host
  <2>1. state' = "IDLE"
    BY <1>13 DEF Host, FlushAll, FlushTrace, setptmode, Calls
  <2> QED BY <1>2, <2>1 DEF Busy
<1>14. CASE Collect
  <2>1. /\ state \in {"IDLE", "RECORD", "ABORTED"} /\ state' = state /\ UNCHANGED <<cur, parent, exitno>>
        /\ \A t \in Tr : obj'[t] = Free \/ obj'[t] = obj[t]
        /\ \A n \in TraceNo : trace'[n] = Nil \/ trace'[n] = trace[n]
    BY <1>1, <1>14 DEF Collect, GCAtomic, lj_trace_free
  <2>2. CASE state = "IDLE"
    BY <1>2, <2>1, <2>2 DEF Busy
  <2>3. CASE state # "IDLE"
    BY <1>1, <2>1, <2>3, AttachedSame DEF Busy
  <2> QED BY <2>2, <2>3
<1>15. CASE Record
  BY <1>1, <1>15, AttachedRecord
<1>16. CASE Run
  BY <1>16, AttachedRun
<1> QED BY <1>3, <1>4, <1>5, <1>6, <1>8, <1>9, <1>10, <1>11, <1>12, <1>13, <1>14, <1>15, <1>16 DEF Next, Compile

\* The jumps hold at first.
LEMMA InitJumps == Init => Jumps
<1> SUFFICES ASSUME Init
             PROVE  Jumps
  OBVIOUS
<1>1. /\ obj = [t \in Tr |-> Free] /\ run = Nil /\ conts = {} /\ state = "IDLE"
      /\ bc = [pc \in PC |-> Plain]
  BY DEF Init
<1>2. Live = {}
  BY <1>1 DEF Live
<1>3. Groups /\ Tails
  BY <1>2 DEF Groups, Tails, Root
<1>4. Held /\ Running /\ Attached
  BY <1>1 DEF Held, Running, Attached, Busy
<1>5. Unpatched
  BY <1>1 DEF Unpatched, Plain
<1> QED BY <1>3, <1>4, <1>5 DEF Jumps

\* Every step keeps the jumps.
LEMMA JumpsKept ==
  ASSUME TraceInv, TraceInv', Jumps, "throw" \notin Ops, [Next]_vars
  PROVE  Jumps'
<1>1. Groups' /\ Tails'
  BY GroupsKept DEF Jumps
<1>2. Unpatched'
  BY UnpatchedKept DEF Jumps
<1> QED BY <1>1, <1>2, HeldKept, RunningKept, AttachedKept DEF Jumps

\* They hold in every state.
LEMMA JumpsHold ==
  ASSUME "throw" \notin Ops
  PROVE  Spec => [](TraceInv /\ Jumps)
<1>1. Init => TraceInv /\ Jumps
  BY InitInv, InitJumps
<1>2. TraceInv /\ Jumps /\ [Next]_vars => (TraceInv /\ Jumps)'
  <2> SUFFICES ASSUME TraceInv, Jumps, [Next]_vars
               PROVE  TraceInv' /\ Jumps'
    OBVIOUS
  <2>1. TraceInv'
    BY InvKept
  <2> QED BY <2>1, JumpsKept
<1> QED BY <1>1, <1>2, PTL DEF Spec

\* Whatever refers to the machine code of a trace can enter it.
LEMMA EntriesEnterable ==
  ASSUME TraceInv, Jumps, NEW t \in Entries \intersect Tr
  PROVE  Enterable(t)
<1>1. Nil \notin Tr
  BY ConstantsOK
<1>2. CASE t = run
  BY <1>1, <1>2 DEF Jumps, Running
<1>3. ASSUME NEW pc \in PC, bc[pc].d # 0, t = trace[bc[pc].d]
      PROVE  Enterable(t)
  BY <1>3, PatchedEnterable DEF Jumps, Unpatched
<1>4. ASSUME NEW u \in conts, obj[u].link # obj[u].no, obj[u].link # 0, t = trace[obj[u].link]
      PROVE  Enterable(t)
  <2>1. u \in Live
    BY DEF Jumps, Held
  <2>2. obj[u].no # 0
    BY <1>4, <2>1, LiveNumber DEF Jumps, Held
  <2> QED BY <1>4, <2>1, <2>2, LinkEnterable DEF Jumps
<1> QED BY <1>2, <1>3, <1>4 DEF Entries

\* What is not Nil in the fields to and branch is an object.
LEMMA JumpsClosed ==
  ASSUME TraceInv, Jumps, NEW S, \A t \in S : Enterable(t), NEW u \in JumpsFrom(S)
  PROVE  Enterable(u)
<1>1. Nil \notin Tr
  BY ConstantsOK
<1>2. PICK t \in S : u \in {obj[t].to, obj[t].branch}
  BY DEF JumpsFrom
<1>3. u \in Tr
  BY Zenon DEF JumpsFrom
<1> QED BY <1>1, <1>2, <1>3, JumpEnterable

\* So all the code that can be reached belongs to traces that are live.
LEMMA ReachedCode ==
  ASSUME TraceInv, Jumps
  PROVE  CodeIsLive
<1> DEFINE n == Cardinality(Tr)
           next(v) == v \union JumpsFrom(v)
           isDef(h) == h = [i \in 0..n |-> IF i = 0 THEN Entries \intersect Tr ELSE h[i - 1] \union JumpsFrom(h[i - 1])]
           F == [x \in (1..n) \X (SUBSET Tr) |-> next(x[2])]
           jumps == CHOOSE h : isDef(h)
<1>1. n \in Nat
  BY ObjectsOK, FS_CardinalityType
<1>2. \A v \in SUBSET Tr : next(v) \in SUBSET Tr
  <2>1. \A v : JumpsFrom(v) \subseteq Tr
    BY Zenon DEF JumpsFrom
  <2> QED BY <2>1
<1>3. F \in [(1..n) \X (SUBSET Tr) -> SUBSET Tr]
  BY <1>2
<1>4. \A i \in 1..n, v \in SUBSET Tr : F[<<i, v>>] = next(v)
  OBVIOUS
<1> HIDE DEF F, next, n
<1>5. PICK f : Accumulates(f, SUBSET Tr, Entries \intersect Tr, n, F)
  BY <1>1, <1>3, AccumulationExists
<1>6. f \in [0..n -> SUBSET Tr] /\ f[0] = Entries \intersect Tr /\ \A i \in 1..n : f[i] = next(f[i - 1])
  <2>1. f \in [0..n -> SUBSET Tr] /\ f[0] = Entries \intersect Tr /\ \A i \in 1..n : f[i] = F[<<i, f[i - 1]>>]
    BY <1>5 DEF Accumulates
  <2>2. \A i \in 1..n : f[i - 1] \in SUBSET Tr
    BY <1>1, <2>1
  <2> QED BY <1>4, <2>1, <2>2
<1>7. isDef(f)
  <2>1. f = [i \in 0..n |-> f[i]]
    BY <1>6
  <2>2. \A i \in 0..n : f[i] = IF i = 0 THEN Entries \intersect Tr ELSE next(f[i - 1])
    BY <1>1, <1>6
  <2> QED BY <2>1, <2>2 DEF next
<1>8. isDef(jumps)
  <2> HIDE DEF isDef
  <2> QED BY <1>7
<1>9. CodeIsLive <=> \A t \in jumps[n] : t \in Live /\ trace[obj[t].no] = t
  BY DEF CodeIsLive, n
<1> HIDE DEF jumps
<1>10. jumps[0] = Entries \intersect Tr /\ \A i \in 1..n : jumps[i] = next(jumps[i - 1])
  <2>1. 0 \in 0..n /\ \A i \in 1..n : i \in 0..n /\ i # 0
    BY <1>1
  <2>2. \A i \in 0..n : jumps[i] = IF i = 0 THEN Entries \intersect Tr ELSE next(jumps[i - 1])
    BY <1>8, Zenon DEF next
  <2> QED BY <2>1, <2>2
<1> DEFINE S == {i \in 0..n : \A t \in jumps[i] : Enterable(t)}
<1>11. 0 \in S
  BY <1>1, <1>10, EntriesEnterable
<1>12. ASSUME NEW i \in 1..n, i - 1 \in S
       PROVE  i \in S
  <2>1. \A t \in jumps[i - 1] : Enterable(t)
    BY <1>12
  <2>2. \A t \in JumpsFrom(jumps[i - 1]) : Enterable(t)
    BY <2>1, JumpsClosed
  <2>3. jumps[i] = jumps[i - 1] \union JumpsFrom(jumps[i - 1])
    BY <1>10 DEF next
  <2>4. i \in 0..n
    BY <1>1
  <2> QED BY <2>1, <2>2, <2>3, <2>4
<1> HIDE DEF S
<1>13. n \in S
  <2>1. 0..n \subseteq S
    BY <1>1, <1>11, <1>12, BoundedInduction
  <2> QED BY <1>1, <2>1
<1>14. \A t \in jumps[n] : Enterable(t)
  BY <1>13 DEF S
<1>15. \A t \in jumps[n] : t \in Live /\ trace[obj[t].no] = t
  BY <1>14, GroupMembers DEF Enterable
<1> QED BY <1>9, <1>15

\* Machine code that runs, that patched bytecode or a continuation frame enters,
\* or that such code jumps to at its tail or at a patched exit, belongs to a
\* trace that lj_trace_free does not get, and lj_trace_exit finds that trace by
\* its number.
THEOREM CodeIsLiveCorrect == "throw" \notin Ops => (Spec => []CodeIsLive)
<1> SUFFICES ASSUME "throw" \notin Ops
             PROVE  Spec => []CodeIsLive
  OBVIOUS
<1>1. TraceInv /\ Jumps => CodeIsLive
  BY ReachedCode
<1> QED BY <1>1, JumpsHold, PTL

-----------------------------------------------------------------------------
(* NULL pointers.  While a trace is recorded, its parent is not in a frame *)
(* and nothing marks J->parent: the collector must find it from elsewhere. *)

\* What the collector marks, from the chains of root traces.
KeptSet(K) ==
  /\ \A p \in Proto : head[p] # 0 => trace[head[p]] \in K
  /\ \A t \in K : obj[t] # Free => Marks(obj[t]) \intersect Tr \subseteq K
Kept(t) == \A K \in SUBSET Tr : KeptSet(K) => t \in K
KeptAt(t) == \E R \in Tr : Root(R) /\ Kept(R) /\ InGroup(t, R)

\* Without "stitch" no trace has a continuation frame.
NoStitch ==
  /\ conts = {} /\ jpc.kind # "stitch" /\ cur.kind # "stitch" /\ cur.ltype # "stitch"
  /\ \A t \in Tr : obj[t] # Free => obj[t].ltype # "stitch"

\* The trace that runs, and then the parent of the new trace, are kept.
Compiling == state \in {"RECORD", "END", "ASM"} \/ (state = "ERR" /\ err = "MCODELM")
ParentKept ==
  /\ run # Nil => KeptAt(run)
  /\ state = "START" /\ jpc.kind = "side" => KeptAt(trace[parent])
  /\ Compiling /\ cur.kind = "side" => KeptAt(trace[parent])

\* What is live and has a number marks only such traces.
LEMMA LiveMarks ==
  ASSUME TraceInv, Tails
  PROVE  \E S \in SUBSET Live : /\ KeptSet(S)
                                /\ \A t \in S : t \in Tr /\ obj[t] \in Trace /\ obj[t] # Free /\ obj[t].no # 0
<1>1. TraceType /\ Numbered /\ Roots /\ LinksLive /\ SidesLive
  BY DEF TraceInv, Table, Graph
<1>2. PICK G \in SUBSET Live : {t \in Live : obj[t].root = 0} \subseteq G /\ Sides(G)
  BY <1>1 DEF SidesLive
<1> DEFINE S == {t \in G : obj[t].no # 0}
<1>3. \A t \in S : t \in Live /\ t \in Tr /\ obj[t] \in Trace /\ obj[t] # Free /\ obj[t].no # 0
  BY <1>1, <1>2, SavedNumbers
<1>4. ASSUME NEW n, IsLive(n), obj[trace[n]].root = 0
      PROVE  trace[n] \in S
  <2>1. trace[n] \in Live /\ obj[trace[n]].no = n /\ n # 0
    BY <1>1, <1>4, SavedNumbers, LiveNumber DEF TraceNo
  <2> QED BY <1>2, <1>4, <2>1
<1>5. ASSUME NEW n, NEW p, RootAt(n, p)
      PROVE  trace[n] \in S
  <2>1. obj[trace[n]].root = 0
    BY <1>1, <1>5, LiveNumber DEF Roots, RootAt
  <2> QED BY <1>4, <1>5, <2>1 DEF RootAt
<1>6. \A p \in Proto : head[p] # 0 => trace[head[p]] \in S
  BY <1>1, <1>5 DEF Roots
<1>7. ASSUME NEW t \in S
      PROVE  Marks(obj[t]) \subseteq S
  <2>1. t \in Live /\ t \in Tr /\ obj[t] \in Trace /\ obj[t].no # 0
    BY <1>3
  <2>2. obj[t].link # 0 => trace[obj[t].link] \in S
    <3>1. CASE obj[t].link = obj[t].no
      BY <1>1, <2>1, <3>1, OwnNumber
    <3>2. CASE obj[t].link \notin {0, obj[t].no}
      BY <1>1, <1>4, <2>1, <3>2 DEF Tails, LinksLive
    <3> QED BY <3>1, <3>2
  <2>3. obj[t].nextroot # 0 => trace[obj[t].nextroot] \in S
    BY <1>1, <1>5, <2>1 DEF Roots
  <2>4. obj[t].nextside # 0 => trace[obj[t].nextside] \in S
    <3> SUFFICES ASSUME obj[t].nextside # 0
                 PROVE  trace[obj[t].nextside] \in S
      OBVIOUS
    <3>1. IsLive(obj[t].nextside) /\ trace[obj[t].nextside] \in G
      BY <1>2, <2>1 DEF Sides
    <3>2. obj[trace[obj[t].nextside]].no # 0
      BY <1>1, <3>1, SavedNumbers DEF TraceNo
    <3> QED BY <3>1, <3>2
  <2>5. head[obj[t].pt] # 0 => trace[head[obj[t].pt]] \in S
    <3>1. obj[t].pt \in Proto
      BY <2>1 DEF Trace
    <3> QED BY <1>6, <3>1
  <2> QED BY <2>2, <2>3, <2>4, <2>5 DEF Marks
<1>8. KeptSet(S)
  <2> HIDE DEF S
  <2> QED BY <1>6, <1>7 DEF KeptSet
<1>9. S \in SUBSET Live
  BY <1>2
<1> QED BY <1>3, <1>8, <1>9

\* What is kept stays so as long as nothing that is live loses a reference to it.
LEMMA KeptGrows ==
  ASSUME TraceInv, Tails,
         \A K \in SUBSET Tr, S \in SUBSET Live : KeptSet(K)' /\ KeptSet(S) =>
            /\ \A p \in Proto : head[p] # 0 => trace[head[p]] \in K
            /\ \A t \in K \intersect S : obj[t] # Free => Marks(obj[t]) \intersect Tr \subseteq K
  PROVE  \A t : Kept(t) => Kept(t)'
<1> SUFFICES ASSUME NEW t, Kept(t), NEW K \in SUBSET Tr, KeptSet(K)'
             PROVE  t \in K
  BY DEF Kept
<1>1. PICK S \in SUBSET Live : KeptSet(S)
  BY LiveMarks
<1>2. KeptSet(K \intersect S)
  BY <1>1 DEF KeptSet
<1>3. K \intersect S \in SUBSET Tr
  OBVIOUS
<1> QED BY <1>2, <1>3 DEF Kept

\* The collector leaves what is kept.
LEMMA KeptLives ==
  ASSUME TraceInv, GCAtomic, NEW t \in Tr, Kept(t)
  PROVE  t \notin dead'
<1>1. dead' \in SUBSET Tr /\ MarkedBut(dead') \intersect dead' = {}
  BY DEF GCAtomic
<1> DEFINE K == Tr \ dead'
<1>2. \A p \in Proto : head[p] # 0 => trace[head[p]] \in K
  <2>1. ASSUME NEW p \in Proto, head[p] # 0
        PROVE  trace[head[p]] \in Tr
    BY <2>1, LiveNumber DEF TraceInv, Graph, Roots, RootAt
  <2>2. ASSUME NEW p \in Proto, head[p] # 0
        PROVE  trace[head[p]] \in MarkedBut(dead')
    BY <2>2 DEF MarkedBut
  <2> QED BY <1>1, <2>1, <2>2
<1>3. \A u \in K : obj[u] # Free => Marks(obj[u]) \intersect Tr \subseteq K
  <2> SUFFICES ASSUME NEW u \in K, obj[u] # Free
               PROVE  Marks(obj[u]) \intersect Tr \subseteq K
    OBVIOUS
  <2>1. Marks(obj[u]) \subseteq MarkedBut(dead')
    BY DEF MarkedBut
  <2> QED BY <1>1, <2>1
<1>4. KeptSet(K) /\ K \in SUBSET Tr
  <2> HIDE DEF K
  <2>1. K \in SUBSET Tr
    BY DEF K
  <2> QED BY <1>2, <1>3, <2>1 DEF KeptSet
<1> QED BY <1>4 DEF Kept

\* What the steps of a recording that goes on, and of the collector, leave as it is.
Leaves ==
  /\ head' = head
  /\ \A n \in TraceNo : trace[n] \in Live => trace'[n] = trace[n]
  /\ \A t \in Live : /\ obj'[t] # Free /\ obj'[t].no = obj[t].no /\ obj'[t].pt = obj[t].pt
                     /\ obj'[t].root = obj[t].root /\ obj'[t].link = obj[t].link
                     /\ obj'[t].nextroot = obj[t].nextroot /\ obj'[t].nextside = obj[t].nextside
  /\ \A t \in Live : Kept(t) => t \in Live'

LEMMA LeavesSteps ==
  ASSUME TraceInv, Calm \/ Taken \/ GCAtomic \/ \E t \in Tr : lj_trace_free(t)
  PROVE  Leaves
<1>1. TraceType /\ Numbered /\ Room
  BY DEF TraceInv, Table
<1>2. /\ trace \in [TraceNo -> Tr \union {Nil, Cur}] /\ obj \in [Tr -> Trace \union {Free}]
      /\ Nil \notin Tr /\ Cur \notin Tr
  BY <1>1, TypesOf, ConstantsOK, DistinctOK
<1>3. CASE Calm
  <2>1. Live' = Live
    BY <1>3 DEF Calm, Live
  <2>2. \A t \in Live : t \in Tr /\ obj[t] # Free
    BY LiveNumber
  <2> QED BY <1>3, <2>1, <2>2 DEF Leaves, Calm, SameLinks, SameTrace
<1>4. CASE Taken
  <2>1. PICK f : /\ obj' = obj /\ head' = head /\ dead' = dead /\ trace' = [trace EXCEPT ![f] = Cur]
                 /\ f = trace_findfree.no /\ f # 0
    BY <1>4 DEF Taken, StartTrace
  <2>2. trace[f] = Nil
    BY <1>1, <2>1, FreeNumber
  <2>3. \A n \in TraceNo : trace[n] \in Live => trace'[n] = trace[n]
    BY <1>2, <2>1, <2>2, LiveNumber
  <2> QED BY <2>1, <2>3, LiveNumber DEF Leaves, Live
<1>5. CASE GCAtomic
  <2>1. obj' = obj /\ head' = head /\ trace' = trace
    BY <1>5 DEF GCAtomic
  <2>2. \A t \in Live : t \in Tr /\ obj[t] # Free /\ (Kept(t) => t \in Live')
    BY <1>5, <2>1, KeptLives, LiveNumber
  <2> QED BY <2>1, <2>2 DEF Leaves
<1>6. ASSUME NEW u \in Tr, lj_trace_free(u)
      PROVE  Leaves
  <2>1. /\ u \in dead /\ obj' = [obj EXCEPT ![u] = Free] /\ dead' = dead \ {u} /\ head' = head
        /\ obj[u].no # 0 => trace' = [trace EXCEPT ![obj[u].no] = Nil]
        /\ obj[u].no = 0 => trace' = trace
    BY <1>6 DEF lj_trace_free, codeVars
  <2>2. \A t \in Live : t \in Tr /\ t # u /\ obj[t] # Free /\ obj'[t] = obj[t] /\ t \notin dead'
    BY <1>2, <2>1, LiveNumber
  <2>3. obj[u] # Free /\ (obj[u].no # 0 => trace[obj[u].no] = u)
    BY <1>1, <2>1 DEF Numbered
  <2>4. \A n \in TraceNo : trace[n] \in Live => trace'[n] = trace[n]
    BY <1>2, <2>1, <2>2, <2>3
  <2> QED BY <2>1, <2>2, <2>4, LiveNumber DEF Leaves
<1> QED BY <1>3, <1>4, <1>5, <1>6

LEMMA KeptStays ==
  ASSUME TraceInv, Tails, Leaves
  PROVE  \A t : Kept(t) => Kept(t)'
<1>1. TraceType /\ Numbered /\ Roots
  BY DEF TraceInv, Table, Graph
<1>2. ASSUME NEW K \in SUBSET Tr, NEW S \in SUBSET Live, KeptSet(K)', KeptSet(S)
      PROVE  /\ \A p \in Proto : head[p] # 0 => trace[head[p]] \in K
             /\ \A t \in K \intersect S : obj[t] # Free => Marks(obj[t]) \intersect Tr \subseteq K
  <2>1. ASSUME NEW p \in Proto, head[p] # 0
        PROVE  trace[head[p]] \in K
    <3>1. head[p] \in TraceNo /\ trace[head[p]] \in Live
      BY <1>1, <2>1, LiveNumber DEF Roots, RootAt
    <3>2. trace'[head'[p]] \in K
      BY <1>2, <2>1 DEF KeptSet, Leaves
    <3> QED BY <3>1, <3>2 DEF Leaves
  <2>2. ASSUME NEW t \in K, t \in S, NEW x \in Marks(obj[t]), x \in Tr
        PROVE  x \in K
    <3>1. t \in Live /\ t \in Tr /\ obj[t] # Free /\ obj[t] \in Trace
      BY <1>1, <2>2, SavedNumbers
    <3>2. x \in Live
      BY <1>2, <2>2, <3>1 DEF KeptSet
    <3>3. PICK n \in {obj[t].link, obj[t].nextroot, obj[t].nextside, head[obj[t].pt]} \ {0} :
            x = trace[n] /\ obj[t].no # 0
      BY <2>2 DEF Marks
    <3>4. n \in TraceNo
      <4>1. head \in [Proto -> 0..maxtrace] /\ maxtrace \in Nat
        BY <1>1, TypesOf, ConstantsOK
      <4>2. n \in 0..maxtrace
        BY <3>1, <3>3, <4>1 DEF Trace
      <4> QED BY <3>3, <4>1, <4>2 DEF TraceNo
    <3>5. trace'[n] = x
      BY <3>2, <3>3, <3>4 DEF Leaves
    <3>6. /\ obj'[t] # Free /\ obj'[t].no # 0
          /\ n \in {obj'[t].link, obj'[t].nextroot, obj'[t].nextside, head'[obj'[t].pt]} \ {0}
      BY <3>1, <3>3 DEF Leaves
    <3>7. x \in Marks(obj[t])'
      BY <3>5, <3>6 DEF Marks
    <3> QED BY <1>2, <2>2, <3>6, <3>7 DEF KeptSet
  <2> QED BY <2>1, <2>2
<1> QED BY <1>2, KeptGrows

LEMMA KeptAtStays ==
  ASSUME TraceInv, Tails, Leaves, NEW t, KeptAt(t)
  PROVE  KeptAt(t)'
<1>1. PICK R \in Tr : Root(R) /\ Kept(R) /\ InGroup(t, R)
  BY DEF KeptAt
<1>2. Kept(R)'
  BY <1>1, KeptStays
<1>3. Root(R)'
  BY <1>1 DEF Root, Leaves
<1>4. ASSUME NEW u, InGroup(u, R)
      PROVE  /\ obj'[u] # Free /\ obj'[u].no = obj[u].no /\ obj'[u].nextside = obj[u].nextside
             /\ obj[u].nextside # 0 => trace'[obj[u].nextside] = trace[obj[u].nextside]
  <2>1. /\ u \in Live
        /\ obj[u].nextside # 0 => obj[u].nextside \in TraceNo /\ trace[obj[u].nextside] \in Live
    BY <1>1, <1>4, GroupMembers, LiveNumber
  <2> QED BY <2>1 DEF Leaves
<1>5. InGroup(t, R)'
  BY <1>1, <1>4, GroupSame
<1> QED BY <1>2, <1>3, <1>5 DEF KeptAt

\* The chains and the groups of what is kept are kept.
LEMMA ChainKeptAt ==
  ASSUME TraceInv, NEW p \in Proto, NEW n, InChain(n, p)
  PROVE  n \in TraceNo /\ trace[n] \in Tr /\ KeptAt(trace[n])
<1>1. TraceType /\ Numbered /\ Roots
  BY DEF TraceInv, Table, Graph
<1>2. RootAt(n, p)
  BY <1>1, ChainRoots
<1>3. n \in TraceNo /\ trace[n] \in Live /\ trace[n] \in Tr /\ Root(trace[n])
  <2>1. n \in TraceNo /\ trace[n] \in Live /\ obj[trace[n]].no = n /\ trace[n] \in Tr /\ obj[trace[n]] # Free
    BY <1>1, <1>2, SavedNumbers, LiveNumber DEF RootAt
  <2> QED BY <1>1, <1>2, <2>1 DEF RootAt, Roots, Root, TraceNo
<1>4. ASSUME NEW K \in SUBSET Tr, KeptSet(K)
      PROVE  trace[n] \in K
  <2> DEFINE N == {k \in TraceNo : RootAt(k, p) /\ trace[k] \in K}
  <2>1. head[p] # 0 => head[p] \in N
    BY <1>1, <1>4, LiveNumber DEF KeptSet, Roots, RootAt
  <2>2. ASSUME NEW k \in N, Saved(k), obj[trace[k]].nextroot # 0
        PROVE  obj[trace[k]].nextroot \in N
    <3>1. /\ trace[k] \in K /\ trace[k] \in Live /\ obj[trace[k]] # Free /\ obj[trace[k]].no # 0
          /\ obj[trace[k]].pt = p
      BY <1>1, <2>2, SavedNumbers, LiveNumber DEF TraceNo, RootAt
    <3>2. RootAt(obj[trace[k]].nextroot, p)
      BY <1>1, <2>2, <3>1 DEF Roots
    <3>3. obj[trace[k]].nextroot \in TraceNo /\ trace[obj[trace[k]].nextroot] \in Tr
      BY <3>2, LiveNumber DEF RootAt
    <3>4. trace[obj[trace[k]].nextroot] \in Marks(obj[trace[k]])
      BY <2>2, <3>1 DEF Marks
    <3>5. trace[obj[trace[k]].nextroot] \in K
      BY <1>4, <3>1, <3>3, <3>4 DEF KeptSet
    <3> QED BY <3>2, <3>3, <3>5
  <2>3. Closed(p, N)
    BY <2>1, <2>2 DEF Closed
  <2> QED BY <2>3 DEF InChain
<1> QED BY <1>3, <1>4, EnterRoot DEF Kept, KeptAt

LEMMA GroupKept ==
  ASSUME TraceInv, NEW R, Root(R), Kept(R), NEW t, InGroup(t, R)
  PROVE  Kept(t)
<1> SUFFICES ASSUME NEW K \in SUBSET Tr, KeptSet(K)
             PROVE  t \in K
  BY DEF Kept
<1> DEFINE G == {u \in K : InGroup(u, R)}
<1>1. R \in G
  BY EnterRoot DEF Kept
<1>2. ASSUME NEW u \in G, obj[u] # Free, obj[u].no # 0, obj[u].nextside # 0
      PROVE  trace[obj[u].nextside] \in G
  <2>1. InGroup(trace[obj[u].nextside], R) /\ trace[obj[u].nextside] \in Tr
    BY <1>2, GroupMembers DEF InGroup
  <2>2. trace[obj[u].nextside] \in Marks(obj[u])
    BY <1>2 DEF Marks
  <2> QED BY <1>2, <2>1, <2>2 DEF KeptSet
<1>3. SideClosed(G) /\ G \in SUBSET Tr
  BY <1>2 DEF SideClosed
<1> QED BY <1>1, <1>3 DEF InGroup

\* Without stitching there are no continuation frames, and nothing that would get one.
LEMMA NoStitchKept ==
  ASSUME TraceInv, NoStitch, "stitch" \notin Ops, [Next]_vars
  PROVE  NoStitch'
<1>1. TraceType /\ obj \in [Tr -> Trace \union {Free}] /\ cur \in Trace /\ Nil \notin Tr /\ Cur \notin Tr
      /\ run \in Tr \union {Nil}
  BY TypesOf, ConstantsOK, DistinctOK DEF TraceInv
<1> DEFINE Same == UNCHANGED <<conts, jpc, cur, obj>>
           SameLtypes == \A t \in Tr : obj'[t] # Free => obj[t] # Free /\ obj'[t].ltype = obj[t].ltype
<1>2. ASSUME UNCHANGED <<conts, jpc>>, cur'.kind # "stitch", cur'.ltype # "stitch", SameLtypes
      PROVE  NoStitch'
  BY <1>2 DEF NoStitch
<1>3. obj' = obj => SameLtypes
  OBVIOUS
<1>4. Same => NoStitch'
  BY <1>2, <1>3 DEF NoStitch
<1>5. CASE UNCHANGED vars
  BY <1>4, <1>5 DEF vars
<1>6. ASSUME NEW pc \in PC, lj_trace_hot(pc)
      PROVE  NoStitch'
  <2>1. UNCHANGED <<conts, cur, obj>> /\ jpc'.kind = "root"
    BY <1>6 DEF lj_trace_hot
  <2> QED BY <2>1 DEF NoStitch
<1>7. ASSUME NEW n, NEW k, NEW p, NEW pc, k # "stitch", lj_record_setup(NewTrace(n, k, p, pc))
      PROVE  cur'.kind # "stitch" /\ cur'.ltype # "stitch"
  <2>1. cur'.kind = k
    BY <1>7, SetupEffect
  <2>2. NewTrace(n, k, p, pc).ltype = "none"
    BY DEF NewTrace
  <2>3. CASE cur' = NewTrace(n, k, p, pc)
    BY <1>7, <2>1, <2>2, <2>3
  <2>4. ASSUME NEW r, NEW l \in {"none", "interp"}, cur' = [NewTrace(n, k, p, pc) EXCEPT !.root = r, !.ltype = l]
        PROVE  cur'.ltype = l
    BY <2>4 DEF NewTrace
  <2>5. \/ cur' = NewTrace(n, k, p, pc)
        \/ \E r : \E l \in {"none", "interp"} : cur' = [NewTrace(n, k, p, pc) EXCEPT !.root = r, !.ltype = l]
    BY <1>7, Zenon DEF lj_record_setup
  <2> QED BY <1>7, <2>1, <2>3, <2>4, <2>5
<1>8. ASSUME NEW x, StartTrace(x), UNCHANGED <<conts, jpc>>
      PROVE  NoStitch'
  <2>1. obj' = obj /\ \E n : lj_record_setup(NewTrace(n, jpc.kind, jpc.pt, jpc.pc))
    BY <1>8 DEF StartTrace
  <2>2. cur'.kind # "stitch" /\ cur'.ltype # "stitch"
    BY <1>7, <2>1 DEF NoStitch
  <2> QED BY <1>2, <1>3, <1>8, <2>1, <2>2
<1>9. ASSUME lj_trace_flushall, UNCHANGED <<conts, jpc>>
      PROVE  NoStitch'
  <2>0. lj_trace_flushall
    BY <1>9
  <2>1. \A t \in Tr : obj'[t] = IF t \in InTable THEN [obj[t] EXCEPT !.no = 0, !.link = 0] ELSE obj[t]
    BY <2>0 DEF lj_trace_flushall
  <2>2. \A t \in InTable \intersect Tr : obj[t] # Free
    BY <1>1 DEF InTable, TraceInv, Table, Numbered
  <2>3. \A t \in Tr : obj[t] # Free => [obj[t] EXCEPT !.no = 0, !.link = 0].ltype = obj[t].ltype
    BY <1>1 DEF Trace
  <2>4. SameLtypes
    <3> SUFFICES ASSUME NEW t \in Tr, obj'[t] # Free
                 PROVE  obj[t] # Free /\ obj'[t].ltype = obj[t].ltype
      OBVIOUS
    <3>1. CASE t \in InTable
      BY <2>1, <2>2, <2>3, <3>1
    <3>2. CASE t \notin InTable
      BY <2>1, <3>2
    <3> QED BY <3>1, <3>2
  <2>5. cur'.kind = cur.kind /\ cur'.ltype = cur.ltype
    <3>1. cur' \in {[cur EXCEPT !.no = 0, !.link = 0], [cur EXCEPT !.no = 0, !.link = cur.link]}
      BY <2>0 DEF lj_trace_flushall
    <3> QED BY <1>1, <3>1 DEF Trace
  <2> QED BY <1>2, <1>9, <2>4, <2>5 DEF NoStitch
<1>10. ASSUME NEW n, Saved(n), lj_trace_flush(n), UNCHANGED <<conts, jpc, cur>>,
              \E k \in TraceNo : Unchained(k)
       PROVE  NoStitch'
  <2>1. \A t \in Tr : obj[t] # Free /\ (obj' = obj \/ \E k \in 0..maxtrace : obj'[t] \in {obj[t], [obj[t] EXCEPT !.nextroot = k]})
                        => obj'[t].ltype = obj[t].ltype
    BY <1>1 DEF Trace
  <2>2. \A t \in Tr : obj'[t] # Free => obj[t] # Free
    BY <1>10 DEF Unchained
  <2>3. traceref(n).nextroot \in 0..maxtrace
    BY <1>1, <1>10, SavedNumbers DEF Trace, TraceInv, Table
  <2>4. SameLtypes
    BY <1>1, <1>10, <2>1, <2>2, <2>3 DEF lj_trace_flush, trace_flushroot
  <2> QED BY <1>2, <1>10, <2>4 DEF NoStitch
<1>11. CASE Run
  <2>1. ASSUME NEW p \in Proto, trace_hotside(p)
        PROVE  NoStitch'
    <3>1. UNCHANGED <<conts, cur>> /\ (jpc' = jpc \/ jpc'.kind = "side") /\ run \in Tr /\ obj[run] # Free
          /\ obj' = [obj EXCEPT ![run].count = @ + 1]
      BY <1>1, <2>1 DEF trace_hotside
    <3>2. SameLtypes
      <4>1. obj[run] \in Trace
        BY <1>1, <3>1
      <4>2. obj'[run].ltype = obj[run].ltype /\ \A t \in Tr \ {run} : obj'[t] = obj[t]
        BY <1>1, <3>1, <4>1 DEF Trace
      <4> QED BY <3>1, <4>2
    <3> QED BY <3>1, <3>2 DEF NoStitch
  <2>2. CASE LeaveTrace
    <3>1. conts' = {} /\ UNCHANGED <<jpc, cur, obj>>
      BY <1>1, <2>2 DEF LeaveTrace, NoStitch
    <3> QED BY <1>4, <3>1 DEF NoStitch
  <2>3. ASSUME NEW t, t \in conts
        PROVE  FALSE
    BY <2>3 DEF NoStitch
  <2> QED BY <1>4, <1>11, <2>1, <2>2, <2>3 DEF Run, EnterTrace, JumpOn, lj_trace_exit, lj_cont_stitch, Unwind
<1>12. CASE lj_record_ins \/ lj_trace_abort \/ \E pc \in Func : rec_func_jit(pc)
  BY <1>4, <1>12 DEF lj_record_ins, lj_trace_abort, rec_func_jit
<1>13. CASE lj_trace_err
  <2>1. UNCHANGED <<conts, cur, obj>> /\ (jpc' = jpc \/ jpc'.kind = "ret")
    BY <1>13 DEF lj_trace_err
  <2> QED BY <2>1 DEF NoStitch
<1>14. CASE lj_record_stop
  <2>0. UNCHANGED <<conts, jpc, obj>>
    BY <1>14 DEF lj_record_stop
  <2>1. PICK l \in StopLinks : cur' = [cur EXCEPT !.ltype = l[1], !.link = l[2]]
    BY <1>14 DEF lj_record_stop
  <2>2. l[1] \in {"return", "loop", "root"}
    BY DEF StopLinks
  <2>3. cur'.kind = cur.kind /\ cur'.ltype \in {"return", "loop", "root"}
    BY <1>1, <2>1, <2>2 DEF Trace
  <2> QED BY <1>2, <1>3, <2>0, <2>3 DEF NoStitch
<1>15. ASSUME NEW pc \in Func, check_call_unroll(pc)
       PROVE  NoStitch'
  <2> DEFINE n == bc[pc].d
  <2>1. pc \in PC /\ bc[pc].op = J /\ patch = Nil /\ lj_trace_flush(n)
        /\ UNCHANGED <<nojit, trace, sizetrace, freetrace, dead, patch, cur, conts, jpc>>
    BY <1>15 DEF check_call_unroll, PC
  <2>2. n \in TraceNo /\ Saved(n)
    BY <2>1, Bytecode, PatchedRoots DEF IsLive, TraceInv, Table, Graph, Compiler
  <2> HIDE DEF n
  <2> QED BY <1>10, <2>1, <2>2, FlushUnchains
<1>16. CASE Host
  <2>1. ASSUME NEW n \in TraceNo, FlushTrace(n)
        PROVE  NoStitch'
    <3>1. lj_trace_flush(n) /\ UNCHANGED <<nojit, trace, sizetrace, freetrace, dead, patch, cur, conts, jpc>>
          /\ patch = Nil /\ Exists(n) /\ state = "IDLE"
      BY <2>1 DEF FlushTrace, lj_trace_flush, Calls, TraceInv, Compiler, PatchPending, Quiet
    <3>2. Saved(n)
      BY <1>1, <3>1, QuietNumbers DEF Quiet, Saved, TraceInv, Table
    <3> QED BY <1>10, <3>1, <3>2, FlushUnchains
  <2> QED BY <1>4, <1>9, <1>16, <2>1 DEF Host, FlushAll, setptmode
<1>17. CASE Collect
  <2>1. UNCHANGED <<conts, jpc, cur>> /\ (obj' = obj \/ \E t \in Tr : obj' = [obj EXCEPT ![t] = Free])
    BY <1>17 DEF Collect, GCAtomic, lj_trace_free
  <2>2. SameLtypes
    BY <1>1, <2>1
  <2> QED BY <1>2, <2>1, <2>2 DEF NoStitch
<1>18. CASE lj_opt_loop
  <2>1. UNCHANGED <<conts, jpc, obj>> /\ cur' \in {cur, [cur EXCEPT !.link = 0, !.ltype = "none"]}
    BY <1>18 DEF lj_opt_loop
  <2>2. cur'.kind = cur.kind /\ cur'.ltype \in {cur.ltype, "none"}
    BY <1>1, <2>1 DEF Trace
  <2> QED BY <1>2, <1>3, <2>1, <2>2 DEF NoStitch
<1>19. CASE trace_abort
  <2>1. UNCHANGED <<conts, jpc>>
    BY <1>19 DEF trace_abort
  <2>2. CASE obj' = obj /\ cur' = cur
    BY <1>4, <2>1, <2>2
  <2>3. CASE Penalize /\ DropCur
    <3>1. cur' = [cur EXCEPT !.no = 0, !.link = 0, !.ltype = "none"]
      BY <2>3 DEF DropCur
    <3>2. cur'.kind = cur.kind /\ cur'.ltype = "none"
      BY <1>1, <3>1 DEF Trace
    <3>3. obj' = obj \/ obj' = [obj EXCEPT ![trace[exitno]].link = exitno]
      BY <2>3 DEF Penalize
    <3>4. \A t \in Tr : (obj'[t] = Free <=> obj[t] = Free)
      BY <2>3, PenalizeEffect
    <3>5. ASSUME NEW t \in Tr, obj[t] # Free
          PROVE  obj'[t].ltype = obj[t].ltype
      <4>1. obj[t] \in Trace
        BY <1>1, <3>5
      <4>2. obj'[t] \in {obj[t], [obj[t] EXCEPT !.link = exitno]}
        BY <1>1, <3>3
      <4> QED BY <4>1, <4>2 DEF Trace
    <3> QED BY <1>2, <2>1, <3>2, <3>4, <3>5 DEF NoStitch
  <2> QED BY <1>19, <2>2, <2>3 DEF trace_abort
<1>20. ASSUME NEW o \in Tr, trace_stop(o)
       PROVE  NoStitch'
  <2>1. CASE Crash
    BY <1>4, <2>1 DEF Crash
  <2>2. CASE ~ Crash
    <3> DEFINE T == [cur EXCEPT !.to = TailOf(o)]
               linked(t) == [obj[t] EXCEPT
                               !.branch = IF t = trace[parent] THEN o ELSE @,
                               !.count = IF t = trace[parent] THEN SNAPCOUNT_DONE ELSE @,
                               !.nextside = IF t = trace[T.root] THEN T.no ELSE @,
                               !.nchild = IF t = trace[T.root] THEN @ + 1 ELSE @]
    <3>1. Stores(o) /\ UNCHANGED <<jpc, conts>> /\ cur.kind # "stitch" /\ cur.ltype # "stitch"
      BY <1>20, <2>2, StopStores DEF Stores, NoStitch
    <3>2. /\ IsRoot(cur) => obj' = [obj EXCEPT ![o] = [T EXCEPT !.nextroot = NextRoot(T)]]
          /\ cur.kind = "side" =>
               obj' = [[t \in Tr |-> IF t \notin {trace[parent], trace[T.root]} THEN obj[t] ELSE linked(t)]
                         EXCEPT ![o] = [T EXCEPT !.nextside = traceref(T.root).nextside]]
      BY <1>20, <2>2 DEF trace_stop, IsRoot
    <3>3. IsRoot(cur) \/ cur.kind = "side"
      BY <3>1 DEF Stores, TraceInv, Compiler, Compiled, Busy, IsRoot
    <3>4. \A t \in Tr : obj[t] # Free => linked(t).ltype = obj[t].ltype
      BY <1>1 DEF Trace
    <3>5. /\ T.ltype = cur.ltype
          /\ [T EXCEPT !.nextroot = NextRoot(T)].ltype = T.ltype
          /\ [T EXCEPT !.nextside = traceref(T.root).nextside].ltype = T.ltype
      BY <1>1 DEF Trace
    <3> HIDE DEF T, linked
    <3>6. obj'[o].ltype = cur.ltype
      BY <1>1, <3>2, <3>3, <3>5
    <3>7. ASSUME NEW t \in Tr \ {o}, obj'[t] # Free
          PROVE  obj[t] # Free /\ obj'[t].ltype = obj[t].ltype
      <4>1. obj[t] # Free
        BY <3>1, <3>7 DEF Stores
      <4>2. obj'[t] = obj[t] \/ obj'[t] = linked(t)
        <5>1. CASE IsRoot(cur)
          <6>1. obj' = [obj EXCEPT ![o] = [T EXCEPT !.nextroot = NextRoot(T)]]
            BY <3>2, <5>1
          <6> QED BY <1>1, <3>7, <6>1
        <5>2. CASE cur.kind = "side"
          <6>1. obj'[t] = IF t \notin {trace[parent], trace[T.root]} THEN obj[t] ELSE linked(t)
            BY <3>2, <3>7, <5>2
          <6> QED BY <6>1
        <5> QED BY <3>3, <5>1, <5>2
      <4> QED BY <3>4, <4>1, <4>2
    <3>8. cur'.kind = cur.kind /\ cur'.ltype = cur.ltype
      BY <1>1, <3>1 DEF Stores, Trace
    <3> QED BY <3>1, <3>6, <3>7, <3>8 DEF NoStitch
  <2> QED BY <2>1, <2>2
<1>21. CASE Compile
  <2>1. CASE trace_start
    <3>1. UNCHANGED <<conts, jpc>>
      BY <2>1 DEF trace_start
    <3>2. CASE NoJIT
      BY <1>4, <3>1, <3>2 DEF NoJIT
    <3>3. CASE NoFreeTrace
      BY <1>9, <3>1, <3>3 DEF NoFreeTrace
    <3> QED BY <1>8, <2>1, <3>1, <3>2, <3>3 DEF trace_start
  <2>2. CASE trace_downrec
    BY <1>8, <2>2 DEF trace_downrec
  <2>3. CASE MCodeFlush
    BY <1>9, <2>3 DEF MCodeFlush
  <2>4. CASE lj_asm_error
    BY <1>4, <2>4 DEF lj_asm_error
  <2> QED BY <1>18, <1>19, <1>20, <1>21, <2>1, <2>2, <2>3, <2>4 DEF Compile
<1> QED BY <1>5, <1>6, <1>11, <1>12, <1>13, <1>14, <1>15, <1>16, <1>17, <1>21 DEF Next, Record

\* Code that jumps from what is kept gets to what is kept.
LEMMA JumpKept ==
  ASSUME TraceInv, Jumps, NEW t, KeptAt(t), NEW u \in {obj[t].to, obj[t].branch}, u # Nil
  PROVE  KeptAt(u)
<1>1. TraceType /\ Numbered /\ LinksLive
  BY DEF TraceInv, Table, Graph
<1>2. PICK R \in Tr : Root(R) /\ Kept(R) /\ InGroup(t, R)
  BY DEF KeptAt
<1>3. t \in Live /\ t \in Tr /\ obj[t] # Free /\ obj[t].no # 0 /\ trace[obj[t].no] = t
  BY <1>2, GroupMembers
<1>4. CASE u = obj[t].branch
  <2>1. InGroup(u, R)
    BY <1>2, <1>3, <1>4 DEF Jumps, Groups
  <2> QED BY <1>2, <2>1 DEF KeptAt
<1>5. CASE u = obj[t].to
  <2>1. obj[t].link # 0 /\ u = trace[obj[t].link]
    BY <1>3, <1>5 DEF Jumps, Tails
  <2>2. CASE obj[t].link = obj[t].no
    BY <1>3, <2>1, <2>2
  <2>3. CASE obj[t].link # obj[t].no
    <3>1. PICK n \in TraceNo : n = obj[t].link /\ trace[n] \in Live /\ obj[trace[n]].no = n /\ n # 0
      <4>1. obj[t].link \in TraceNo /\ trace[obj[t].link] \in Live
        BY <1>1, <1>3, <2>1, LiveNumber DEF LinksLive
      <4>2. obj[trace[obj[t].link]].no = obj[t].link
        BY <1>1, <4>1, SavedNumbers, LiveNumber
      <4> QED BY <2>1, <4>1, <4>2
    <3>2. Root(u)
      BY <1>3, <2>1, <2>3, <3>1 DEF Jumps, Tails, Root
    <3>3. u \in Tr /\ InGroup(u, u)
      BY <3>2, EnterRoot
    <3>4. u \in Marks(obj[t])
      BY <1>3, <2>1 DEF Marks
    <3>5. Kept(t)
      BY <1>2, GroupKept
    <3>6. Kept(u)
      BY <1>3, <3>3, <3>4, <3>5 DEF Kept, KeptSet
    <3> QED BY <3>2, <3>3, <3>6 DEF KeptAt
  <2> QED BY <2>2, <2>3
<1> QED BY <1>4, <1>5

\* The trace that runs is kept.
LEMMA RunKept ==
  ASSUME TraceInv, TraceInv', Jumps, NoStitch, ParentKept, [Next]_vars, run' # Nil
  PROVE  KeptAt(run)'
<1>1. TraceType /\ PatchPending /\ Code
  BY DEF TraceInv, Compiler
<1>2. ASSUME NEW pc \in PC, EnterTrace(pc)
      PROVE  \E t : run' = t /\ KeptAt(t)
  <2>1. /\ state = "IDLE" /\ run = Nil /\ bc[pc].op = J
        /\ run' # run => Exists(bc[pc].d) /\ run' = trace[bc[pc].d]
    BY <1>2 DEF EnterTrace
  <2>2. Repatched[pc] = bc[pc]
    BY <1>1, <2>1 DEF PatchPending, Quiet, Repatched
  <2>3. InChain(bc[pc].d, protoOf[pc]) /\ protoOf[pc] \in Proto
    BY <1>1, <2>1, <2>2, ConstantsOK DEF Code, Patched
  <2>4. KeptAt(trace[bc[pc].d])
    BY <2>3, ChainKeptAt
  <2> QED BY <2>1, <2>4
<1>3. ASSUME JumpOn
      PROVE  \E t : run' = t /\ KeptAt(t)
  <2>1. PICK t : t = run /\ KeptAt(t) /\ run' \in {obj[t].to, obj[t].branch}
    BY <1>3 DEF JumpOn, ParentKept
  <2> QED BY <2>1, JumpKept
<1>4. ASSUME run' = run
      PROVE  \E t : run' = t /\ KeptAt(t)
  BY <1>4 DEF ParentKept
<1>5. (\E t : run' = t /\ KeptAt(t)) /\ Leaves
  <2>1. CASE Run
    <3>1. Calm
      BY <2>1, CalmRun
    <3>2. Leaves
      BY <3>1, LeavesSteps
    <3>3. \A t : t \notin conts
      BY DEF NoStitch
    <3>4. (\E pc \in PC : EnterTrace(pc)) \/ JumpOn
      BY <2>1, <3>3 DEF Run, LeaveTrace, lj_trace_exit, trace_hotside, lj_cont_stitch, Unwind
    <3>5. \E t : run' = t /\ KeptAt(t)
      <4>1. CASE JumpOn
        BY <1>3, <4>1
      <4>2. CASE \E pc \in PC : EnterTrace(pc)
        BY <1>2, <4>2
      <4> QED BY <3>4, <4>1, <4>2
    <3> QED BY <3>2, <3>5
  <2>2. CASE ~Run
    <3>1. run' = run
      BY <2>2 DEF Next, vars, lj_trace_hot, Compile, trace_start, lj_opt_loop, lj_asm_error, trace_stop, Crash, trace_abort,
                  trace_downrec, MCodeFlush, Record, lj_record_ins, lj_record_stop, lj_trace_err, lj_trace_abort,
                  rec_func_jit, check_call_unroll, Host, FlushAll, FlushTrace, setptmode, Collect, GCAtomic, lj_trace_free
    <3>2. state = "IDLE" /\ run # Nil
      BY <1>1, <3>1 DEF PatchPending
    <3>3. UNCHANGED vars \/ \E t \in Tr : lj_trace_free(t)
      BY <2>2, <3>2 DEF Next, lj_trace_hot, Compile, trace_start, lj_opt_loop, lj_asm_error, trace_stop, trace_abort,
                  trace_downrec, MCodeFlush, Record, lj_record_ins, lj_record_stop, lj_trace_err, lj_trace_abort,
                  rec_func_jit, check_call_unroll, Host, FlushAll, FlushTrace, setptmode, Calls, Collect, GCAtomic
    <3>4. UNCHANGED vars => Calm
      BY SameObjects DEF vars, codeVars, tableVars, recVars, Calm
    <3>5. Leaves
      BY <3>3, <3>4, LeavesSteps
    <3> QED BY <1>4, <3>1, <3>5
  <2> QED BY <2>1, <2>2
<1>6. PICK t : run' = t /\ KeptAt(t)
  BY <1>5
<1>7. KeptAt(t)'
  BY <1>5, <1>6, KeptAtStays DEF Jumps
<1>8. PICK R \in Tr : Root(R)' /\ Kept(R)' /\ InGroup(t, R)'
  BY <1>7 DEF KeptAt
<1>9. InGroup(run, R)'
  BY <1>6, <1>8 DEF InGroup
<1> QED BY <1>8, <1>9 DEF KeptAt

\* A trace that was kept before the step is kept as the parent after it.
LEMMA ParentStays ==
  ASSUME NEW t, KeptAt(t)', trace'[parent'] = t
  PROVE  KeptAt(trace[parent])'
<1>1. PICK R \in Tr : Root(R)' /\ Kept(R)' /\ InGroup(t, R)'
  BY DEF KeptAt
<1>2. InGroup(trace[parent], R)'
  BY <1>1 DEF InGroup
<1> QED BY <1>1, <1>2 DEF KeptAt

\* So is the parent of the side trace that is about to start.
LEMMA StartKept ==
  ASSUME TraceInv, Jumps, NoStitch, ParentKept, [Next]_vars, state' = "START", jpc'.kind = "side"
  PROVE  KeptAt(trace[parent])'
<1>1. TraceType /\ PatchPending
  BY DEF TraceInv, Compiler
<1>2. UNCHANGED vars \/ \E p \in Proto : trace_hotside(p)
  <2>1. \A t : t \notin conts
    BY DEF NoStitch
  <2>2. ~Compile
    BY <1>1 DEF Compile, trace_start, StartTrace, lj_record_setup, lj_opt_loop, lj_asm_error, trace_stop, Crash, trace_abort,
                trace_downrec, MCodeFlush
  <2>3. ~Record /\ ~Host /\ ~Collect
    BY DEF Record, lj_record_ins, lj_record_stop, lj_trace_err, lj_trace_abort, rec_func_jit, check_call_unroll,
           Host, FlushAll, FlushTrace, setptmode, Calls, Collect, GCAtomic, lj_trace_free
  <2>4. Run => \E p \in Proto : trace_hotside(p)
    BY <1>1, <2>1 DEF Run, EnterTrace, JumpOn, LeaveTrace, lj_trace_exit, lj_cont_stitch, Unwind, PatchPending
  <2>5. \A pc : ~lj_trace_hot(pc)
    BY DEF lj_trace_hot
  <2> QED BY <2>2, <2>3, <2>4, <2>5 DEF Next
<1>3. CASE UNCHANGED vars
  <2>1. PICK t : t = trace[parent] /\ KeptAt(t)
    BY <1>3 DEF vars, recVars, ParentKept
  <2>2. Calm
    BY <1>3, SameObjects DEF vars, codeVars, tableVars, recVars, Calm
  <2>3. KeptAt(t)'
    BY <2>1, <2>2, LeavesSteps, KeptAtStays DEF Jumps
  <2>4. trace'[parent'] = t
    BY <1>3, <2>1 DEF vars, tableVars, recVars
  <2> QED BY <2>3, <2>4, ParentStays
<1>4. ASSUME NEW p \in Proto, trace_hotside(p)
      PROVE  KeptAt(trace[parent])'
  <2>1. run # Nil /\ trace' = trace /\ parent' = obj[run].no
    BY <1>4 DEF trace_hotside
  <2>2. PICK t : t = run /\ KeptAt(t)
    BY <2>1 DEF ParentKept
  <2>3. trace[obj[t].no] = t
    BY <2>2, GroupMembers DEF KeptAt
  <2>4. Calm
    BY <1>4, CalmRun DEF Run
  <2>5. KeptAt(t)'
    BY <2>2, <2>4, LeavesSteps, KeptAtStays DEF Jumps
  <2> QED BY <2>1, <2>2, <2>3, <2>5, ParentStays
<1> QED BY <1>2, <1>3, <1>4

\* And the parent of the side trace that is compiled.
LEMMA CompilingKept ==
  ASSUME TraceInv, Jumps, NoStitch, ParentKept, [Next]_vars, Compiling', cur'.kind = "side"
  PROVE  KeptAt(trace[parent])'
<1>1. TraceType /\ PatchPending /\ Compiled /\ Started /\ parent \in 0..maxtrace /\ maxtrace \in Nat /\ cur \in Trace
  BY TypesOf, ConstantsOK DEF TraceInv, Compiler
<1>2. ASSUME Leaves, parent' = parent, parent \in TraceNo, KeptAt(trace[parent])
      PROVE  KeptAt(trace[parent])'
  <2>1. PICK t : t = trace[parent] /\ KeptAt(t)
    BY <1>2
  <2>2. t \in Live
    BY <2>1, GroupMembers DEF KeptAt
  <2>3. trace'[parent'] = t
    BY <1>2, <2>1, <2>2 DEF Leaves
  <2>4. KeptAt(t)'
    BY <1>2, <2>1, KeptAtStays DEF Jumps
  <2> QED BY <2>3, <2>4, ParentStays
<1>3. ASSUME Compiling, cur.kind = "side", Leaves, parent' = parent
      PROVE  KeptAt(trace[parent])'
  <2>1. parent # 0 /\ KeptAt(trace[parent])
    BY <1>1, <1>3 DEF Compiling, Compiled, Busy, ParentKept
  <2> QED BY <1>1, <1>2, <1>3, <2>1 DEF TraceNo
<1>4. state' \in {"RECORD", "END", "ASM"} \/ (state' = "ERR" /\ err' = "MCODELM")
  BY DEF Compiling
<1>5. CASE UNCHANGED vars
  <2>1. Leaves /\ parent' = parent /\ Compiling /\ cur.kind = "side"
    <3>1. Calm
      BY <1>5, SameObjects DEF vars, codeVars, tableVars, recVars, Calm
    <3>2. Compiling /\ cur.kind = "side" /\ parent' = parent
      BY <1>4, <1>5 DEF vars, recVars, Compiling
    <3> QED BY <3>1, <3>2, LeavesSteps
  <2> QED BY <1>3, <2>1
<1>6. ASSUME NEW x, StartTrace(x), Taken, UNCHANGED parent \/ jpc.kind = "ret", state = "START" \/ jpc.kind = "ret"
      PROVE  KeptAt(trace[parent])'
  <2>1. cur'.kind = jpc.kind
    BY <1>6, SetupEffect DEF StartTrace
  <2>2. state = "START" /\ jpc.kind = "side" /\ parent' = parent
    BY <1>6, <2>1
  <2>3. KeptAt(trace[parent]) /\ Saved(parent)
    BY <2>2 DEF ParentKept, Jumps, Attached
  <2>4. parent \in TraceNo
    BY <2>3 DEF Saved, Exists
  <2> QED BY <1>2, <1>6, <2>2, <2>3, <2>4, LeavesSteps
<1>7. CASE Compile
  <2>1. CASE trace_start
    <3>1. PICK x \in {Nil} \union Ret : StartTrace(x)
      BY <1>4, <2>1 DEF trace_start
    <3>2. Taken /\ parent' = parent /\ state = "START"
      BY <2>1, <3>1 DEF Taken, trace_start
    <3> QED BY <1>6, <3>1, <3>2
  <2>2. CASE trace_downrec
    <3>1. Taken /\ StartTrace(Nil) /\ jpc.kind = "ret"
      BY <1>1, <2>2 DEF trace_downrec, Taken, Started
    <3> QED BY <1>6, <3>1
  <2>3. CASE lj_opt_loop \/ lj_asm_error
    <3>1. /\ UNCHANGED <<trace, sizetrace, freetrace, head, nojit, dead, obj, parent>> /\ state \in {"END", "ASM"}
          /\ cur' \in {cur, [cur EXCEPT !.link = 0, !.ltype = "none"]}
      BY <2>3 DEF lj_opt_loop, lj_asm_error
    <3>2. cur'.no = cur.no /\ cur'.kind = cur.kind
      BY <1>1, <3>1 DEF Trace
    <3>3. Calm
      BY <3>1, <3>2, SameObjects DEF Calm
    <3> QED BY <1>3, <3>1, <3>2, <3>3, LeavesSteps DEF Compiling
  <2>4. CASE trace_abort
    <3>1. /\ UNCHANGED <<trace, sizetrace, freetrace, head, nojit, dead, obj, cur, parent>>
          /\ state = "ERR" /\ err = "MCODELM"
      BY <1>4, <2>4 DEF trace_abort, Aborted
    <3>2. Calm
      BY <3>1, SameObjects DEF Calm
    <3> QED BY <1>3, <3>1, <3>2, LeavesSteps DEF Compiling
  <2>5. ~MCodeFlush /\ \A o \in Tr : ~trace_stop(o)
    BY <1>4 DEF MCodeFlush, trace_stop, Crash
  <2> QED BY <1>7, <2>1, <2>2, <2>3, <2>4, <2>5 DEF Compile
<1>8. CASE Record
  <2>1. state = "RECORD" /\ parent' = parent
    BY <1>8 DEF Record, lj_record_ins, lj_record_stop, lj_trace_err, lj_trace_abort, rec_func_jit, check_call_unroll
  <2>2. lj_record_ins \/ lj_record_stop \/ \E pc \in Func : rec_func_jit(pc)
    BY <1>4, <1>8 DEF Record, lj_trace_err, lj_trace_abort, check_call_unroll
  <2>3. UNCHANGED <<trace, sizetrace, freetrace, head, nojit, dead, obj>> /\ cur'.no = cur.no /\ cur'.kind = cur.kind
    BY <1>1, <2>2 DEF lj_record_ins, lj_record_stop, rec_func_jit, Trace
  <2>4. Calm
    BY <2>3, SameObjects DEF Calm
  <2> QED BY <1>3, <2>1, <2>3, <2>4, LeavesSteps DEF Compiling
<1>9. CASE Collect
  <2>1. state = "RECORD" /\ UNCHANGED <<state, cur, parent>>
    BY <1>4, <1>9 DEF Collect, GCAtomic, lj_trace_free
  <2> QED BY <1>3, <1>9, <2>1, LeavesSteps DEF Compiling, Collect
<1>10. ~Run /\ ~Host /\ \A pc : ~lj_trace_hot(pc)
  <2>1. \A t : t \notin conts
    BY DEF NoStitch
  <2>2. ~Run
    BY <1>1, <1>4, <2>1 DEF Run, EnterTrace, JumpOn, LeaveTrace, lj_trace_exit, trace_hotside, lj_cont_stitch, Unwind, PatchPending
  <2>3. ~Host /\ \A pc : ~lj_trace_hot(pc)
    BY <1>4 DEF Host, FlushAll, FlushTrace, setptmode, Calls, lj_trace_hot
  <2> QED BY <2>2, <2>3
<1> QED BY <1>5, <1>7, <1>8, <1>9, <1>10 DEF Next

\* A trace that can be entered and the root of its group have their numbers.
LEMMA RootKnown ==
  ASSUME TraceInv, Groups, parent \in TraceNo, trace[parent] \in Tr, Enterable(trace[parent])
  PROVE  Exists(parent) /\ Exists(RootOf(parent))
<1>1. TraceType /\ Numbered /\ Nil \notin Tr /\ Cur \notin Tr
  BY ConstantsOK, DistinctOK DEF TraceInv, Table
<1>2. PICK R \in Tr : Root(R) /\ InGroup(trace[parent], R)
  BY DEF Enterable
<1>3. obj[R].no \in TraceNo /\ trace[obj[R].no] = R
  BY <1>1, <1>2, OwnNumber DEF Root
<1>4. Exists(parent) /\ traceref(parent) = obj[trace[parent]] /\ Exists(obj[R].no)
  BY <1>1, <1>3 DEF Exists, traceref
<1>5. CASE trace[parent] = R
  BY <1>2, <1>4, <1>5 DEF RootOf, Root
<1>6. CASE trace[parent] # R
  <2>1. obj[trace[parent]].root = obj[R].no
    BY <1>2, <1>6 DEF Groups
  <2> QED BY <1>2, <1>4, <2>1 DEF RootOf, Root
<1> QED BY <1>5, <1>6

\* No step follows a NULL pointer.
LEMMA NoCrashKept ==
  ASSUME TraceInv, Jumps, NoStitch, ParentKept, NoCrash, [Next]_vars
  PROVE  NoCrash'
<1> SUFFICES ASSUME state' = "CRASH"
             PROVE  FALSE
  BY DEF NoCrash
<1>1. TraceType /\ Numbered /\ Compiled /\ PatchPending /\ Started /\ parent \in 0..maxtrace /\ maxtrace \in Nat
      /\ state # "CRASH" /\ Nil \notin Tr /\ Cur \notin Tr
  BY TypesOf, ConstantsOK, DistinctOK DEF TraceInv, Table, Compiler, NoCrash
<1>2. ASSUME NEW x, StartTrace(x), state = "START" \/ jpc.kind = "ret"
      PROVE  FALSE
  <2>1. lj_record_setup(NewTrace(trace_findfree.no, jpc.kind, jpc.pt, jpc.pc))
    BY <1>2 DEF StartTrace
  <2>2. jpc.kind = "side" /\ (~Exists(parent) \/ ~Exists(RootOf(parent)))
    BY <2>1 DEF lj_record_setup, NewTrace
  <2>3. Saved(parent) /\ Enterable(trace[parent])
    BY <1>2, <2>2 DEF Jumps, Attached
  <2>4. parent \in TraceNo /\ trace[parent] \in Tr
    BY <1>1, <2>3, SavedNumbers
  <2> QED BY <2>2, <2>3, <2>4, RootKnown DEF Jumps
<1>3. ASSUME NEW o \in Tr, trace_stop(o)
      PROVE  FALSE
  <2>1. state = "ASM" /\ \/ cur.kind = "side" /\ ~(Exists(parent) /\ Exists(cur.root))
                         \/ cur.kind = "stitch"
    <3>1. [cur EXCEPT !.to = TailOf(o)].root = cur.root
      BY <1>1, TypesOf DEF Trace
    <3> QED BY <1>3, <3>1 DEF trace_stop
  <2>2. cur.kind = "side" /\ KeptAt(trace[parent]) /\ parent # 0
    BY <1>1, <2>1 DEF NoStitch, ParentKept, Compiling, Compiled, Busy
  <2>3. parent \in TraceNo /\ Enterable(trace[parent]) /\ trace[parent] \in Tr
    BY <1>1, <2>2 DEF TraceNo, KeptAt, Enterable, InGroup
  <2>4. Exists(parent) /\ Exists(RootOf(parent))
    BY <2>3, RootKnown DEF Jumps
  <2>5. cur.root = RootOf(parent)
    BY <1>1, <2>1, <2>2, <2>3, <2>4 DEF Jumps, Attached, Busy, Saved
  <2> QED BY <2>1, <2>2, <2>4, <2>5
<1>4. ASSUME NEW pc \in PC, EnterTrace(pc)
      PROVE  FALSE
  <2>1. bc[pc].op = J /\ ~Exists(bc[pc].d)
    BY <1>1, <1>4 DEF EnterTrace
  <2>2. bc[pc].d \in TraceNo /\ Enterable(trace[bc[pc].d])
    BY <2>1, PatchedEnterable
  <2> QED BY <1>1, <2>1, <2>2 DEF Exists, Enterable, InGroup
<1>5. ~Run
  <2>1. \A t : t \notin conts
    BY DEF NoStitch
  <2> QED BY <1>1, <1>4, <2>1 DEF Run, JumpOn, LeaveTrace, lj_trace_exit, trace_hotside, lj_cont_stitch, Unwind
<1>6. ~trace_abort
  <2>1. ASSUME trace_abort
        PROVE  FALSE
    <3>1. state \in Busy /\ parent = 0 /\ cur.kind # "ret" /\ exitno # 0
      BY <2>1 DEF trace_abort, Aborted, Busy
    <3> QED BY <1>1, <3>1 DEF Compiled, NoStitch
  <2> QED BY <2>1
<1>7. ~trace_start /\ ~trace_downrec
  <2>1. \A x : trace_downrec => StartTrace(Nil) /\ jpc.kind = "ret"
    BY <1>1 DEF trace_downrec, Started
  <2>2. trace_start => \E x : StartTrace(x) /\ state = "START"
    BY DEF trace_start
  <2> QED BY <1>2, <2>1, <2>2
<1>8. ~Compile
  BY <1>3, <1>6, <1>7 DEF Compile, lj_opt_loop, lj_asm_error, MCodeFlush
<1>9. ~Record /\ ~Host /\ ~Collect /\ \A pc : ~lj_trace_hot(pc)
  BY <1>1 DEF Record, lj_record_ins, lj_record_stop, lj_trace_err, lj_trace_abort, rec_func_jit, check_call_unroll,
              Host, FlushAll, FlushTrace, setptmode, Calls, Collect, GCAtomic, lj_trace_free, lj_trace_hot
<1>10. UNCHANGED vars => state' = state
  BY DEF vars
<1> QED BY <1>1, <1>5, <1>8, <1>9, <1>10 DEF Next

\* No step of the compiler, of patched bytecode or of an exit looks up a trace
\* that is gone: the numbers in J->parent, in cur.root and in a patched
\* instruction name traces in the table, whatever is flushed, switched off or
\* collected meanwhile.  Nothing marks J->parent, but the chain of root traces
\* still leads to the parent.  With stitched traces this fails: J->exitno is
\* not such a number.
THEOREM NoCrashCorrect == "throw" \notin Ops /\ "stitch" \notin Ops => (Spec => []NoCrash)
<1> SUFFICES ASSUME "throw" \notin Ops, "stitch" \notin Ops
             PROVE  Spec => []NoCrash
  OBVIOUS
<1> DEFINE Parents == NoStitch /\ ParentKept /\ NoCrash
<1>1. Init => Parents
  <2> SUFFICES ASSUME Init
               PROVE  Parents
    OBVIOUS
  <2>1. /\ state = "IDLE" /\ run = Nil /\ conts = {} /\ jpc.kind = "root" /\ obj = [t \in Tr |-> Free]
        /\ cur = NewTrace(0, "root", CHOOSE p \in Proto : TRUE, Nil)
    BY DEF Init
  <2>2. cur.kind = "root" /\ cur.ltype = "none"
    BY <2>1 DEF NewTrace
  <2>3. NoStitch
    BY <2>1, <2>2 DEF NoStitch
  <2> QED BY <2>1, <2>3 DEF ParentKept, Compiling, NoCrash
<1>2. TraceInv /\ Jumps /\ TraceInv' /\ Parents /\ [Next]_vars => Parents'
  <2> SUFFICES ASSUME TraceInv, Jumps, TraceInv', Parents, [Next]_vars
               PROVE  Parents'
    OBVIOUS
  <2>1. NoStitch'
    BY NoStitchKept
  <2>2. NoCrash'
    BY NoCrashKept
  <2>3. ParentKept'
    BY RunKept, StartKept, CompilingKept DEF ParentKept
  <2> QED BY <2>1, <2>2, <2>3
<1>3. Parents => NoCrash
  OBVIOUS
<1> QED BY <1>1, <1>2, <1>3, JumpsHold, PTL DEF Spec
=============================================================================
