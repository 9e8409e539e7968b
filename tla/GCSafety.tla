------------------------------ MODULE GCSafety ------------------------------
(***************************************************************************)
(* What the collector is for, proved for every value of the constants:     *)
(* nothing that can be reached is freed, no black object refers to a white *)
(* one while marking, and a sweep leaves nothing but white objects.        *)
(***************************************************************************)
EXTENDS GCProofs

(***************************************************************************)
(* The invariant.                                                          *)
(***************************************************************************)
\* The heap as allocation leaves it: where no object is, nothing is held; only
\* threads have stacks, only tables and userdata metatables, only tables keys;
\* strings hold nothing, and an open upvalue has no value of its own.
Shape ==
  /\ \A o \in Obj : kind[o] = "free" => ent[o] = {} /\ meta[o] = Nil
  /\ \A o \in Obj : kind[o] # "thread" => SlotRefs(o, Slots) = {}
  /\ \A o \in Obj : meta[o] # Nil => kind[o] \in {"tab", "udata"}
  /\ \A o \in Obj : kind[o] # "tab" => \A e \in ent[o] : e[1] = Nil
  /\ \A o \in Obj : kind[o] = "str" => ent[o] = {}
  /\ \A o \in Obj : open[o] # <<>> =>
       kind[o] = "upval" /\ ent[o] = {} /\ kind[open[o][1]] = "thread"
  /\ kind[Main] = "thread" /\ kind[curL] = "thread"
  /\ ~jitbase => reg = Nil
  /\ \A u \in finalized : kind[u] = "udata"

\* What o may refer to: userdata hold tables, and no upvalue is a value.
Fine(o, v) ==
  /\ v \in Live
  /\ kind[o] \in {"upval", "thread"} => kind[v] # "upval"
  /\ kind[o] = "udata" => kind[v] = "tab"

\* Live objects are closed under references, and the roots are among them.
Closed ==
  /\ \A o \in Live : \A v \in Refs(o) : Fine(o, v)
  /\ Roots \cup mmudata \subseteq Live
  /\ reg # Nil => kind[reg] # "upval"

\* Which colours the kinds of objects have; only a sweep knows dead objects.
Colours ==
  /\ gcstate \notin Sweeps => Alloc = Live
  /\ \A o \in Alloc : isblack(o) => kind[o] \notin {"thread", "str"} /\ open[o] = <<>>
  /\ \A o \in Alloc : isgray(o) => kind[o] # "udata"

\* What the sweep has passed is white; a thread passes its open upvalues.
Passed(o) == o \notin sweeping /\ (open[o] # <<>> => open[o][1] \notin sweeping)
Swept ==
  gcstate \notin Marking =>
    \A o \in Alloc \ mmudata : Passed(o) => color[o] = currentwhite

\* While marking: a black object refers to no white one, a gray one is still to
\* be traversed, or is a string, or an open upvalue, which is always gray.
Marked(S) == \A o \in S : ~iswhite(o)
Listed(o) == o \in gray \cup grayagain \cup weak \/ kind[o] = "str" \/ open[o] # <<>>
Marks ==
  gcstate \in Marking =>
    /\ ~iswhite(Main)
    /\ \A o \in Alloc : isblack(o) /\ (o \in mmudata => atomicpc = "udata") => Marked(Refs(o))
    /\ \A o \in Alloc : isgray(o) => Listed(o)
    /\ \A t \in weak : kind[t] = "tab"

\* What the stages of atomic() have achieved: the values of open upvalues, the
\* roots, the strong entries of weak tables, the stacks, and mmudata are marked.
Atomic ==
  /\ atomicpc # "none" => /\ ~jitbase
                          /\ \A u \in GrayOpenUV : Marked(uvval(u))
  /\ atomicpc \in {"weak", "again", "udata"} =>
       /\ Marked(AtomicRoots)
       /\ \A t \in weak : Marked(gc_traverse_tab(t))
  /\ atomicpc \in {"again", "udata"} =>
       \A th \in grayagain : /\ kind[th] = "thread" /\ Marked(Refs(th))
                             /\ th = curL => Marked(FinArgs)
  /\ atomicpc = "udata" => Marked(mmudata)

SafeInv == Shape /\ Closed /\ Colours /\ Swept /\ Marks /\ Atomic

-----------------------------------------------------------------------------
(* References.                                                             *)

\* The references of an object by where they are.
LEMMA RefsOf ==
  ASSUME TypeOK, Shape, NEW o \in Obj
  PROVE  /\ Refs(o) \subseteq Obj /\ Kids(o) \subseteq Refs(o) \cup FinArgs
         /\ Values(o) \subseteq Refs(o) /\ MetaOf(o) \subseteq Refs(o) /\ uvval(o) \subseteq Refs(o)
         /\ kind[o] # "tab" => Keys(o) = {}
         /\ kind[o] # "thread" => Refs(o) = Keys(o) \cup MetaOf(o) \cup uvval(o)
         /\ kind[o] \notin {"tab", "udata"} => MetaOf(o) = {}
         /\ kind[o] # "upval" => open[o] = <<>> /\ uvval(o) = Values(o)
         /\ kind[o] \in {"str", "free"} => Refs(o) = {}
         /\ open[o] # <<>> => /\ Values(o) = {} /\ Refs(o) = uvval(o)
                              /\ open[o] \in Obj \X Slots
                              /\ uvval(o) = {stk[open[o][1]][open[o][2]]} \ {Nil}
<1>1. open[o] # <<>> => open[o] \in Obj \X Slots
  BY DEF TypeOK
<1>2. /\ kind[o] # "upval" => open[o] = <<>> /\ uvval(o) = Values(o)
      /\ open[o] # <<>> => uvval(o) = {stk[open[o][1]][open[o][2]]} \ {Nil}
  BY DEF Shape, uvval
<1>3. /\ Values(o) \subseteq Refs(o) /\ MetaOf(o) \subseteq Refs(o) /\ uvval(o) \subseteq Refs(o)
      /\ Keys(o) \subseteq Refs(o) /\ SlotRefs(o, Slots) \subseteq Refs(o)
  BY DEF Refs
<1>4. Refs(o) \subseteq Obj
  BY RefsAreObjects DEF Refs
<1>5. /\ kind[o] # "tab" => Keys(o) = {}
      /\ kind[o] \notin {"tab", "udata"} => MetaOf(o) = {}
      /\ ent[o] = {} => Values(o) = {} /\ Keys(o) = {}
      /\ meta[o] = Nil => MetaOf(o) = {}
  BY DEF Shape, Keys, Values, Nodes, MetaOf
<1>6. open[o] = <<>> => uvval(o) = Values(o)
  BY DEF uvval
<1>7. kind[o] # "thread" => Refs(o) = Keys(o) \cup MetaOf(o) \cup uvval(o)
  <2>1. CASE open[o] = <<>>
    BY <1>6, <2>1 DEF Shape, Refs
  <2>2. CASE open[o] # <<>>
    <3>1. ent[o] = {}
      BY <2>2 DEF Shape
    <3> QED BY <1>5, <3>1 DEF Shape, Refs
  <2> QED BY <2>1, <2>2
<1>8. Kids(o) \subseteq Refs(o) \cup FinArgs
  <2>1. gc_traverse_tab(o) \subseteq Refs(o)
    BY <1>3 DEF gc_traverse_tab
  <2>2. SlotRefs(o, 1 .. top[o]) \subseteq SlotRefs(o, Slots)
    BY GCAssumption DEF SlotRefs, TypeOK, Slots
  <2>3. gc_traverse_thread(o) \subseteq Refs(o) \cup FinArgs
    BY <1>3, <2>2 DEF gc_traverse_thread
  <2> QED BY <1>3, <2>1, <2>3 DEF Kids
<1>9. kind[o] \in {"str", "free"} => Refs(o) = {}
  BY <1>2, <1>5, <1>7 DEF Shape
<1>10. open[o] # <<>> => Values(o) = {} /\ Refs(o) = uvval(o)
  BY <1>5, <1>7 DEF Shape
<1> QED BY <1>1, <1>2, <1>3, <1>4, <1>5, <1>7, <1>8, <1>9, <1>10

\* What the program can name, or a pending finalizer, is live.
LEMMA ReachIsLive ==
  ASSUME TypeOK, Closed
  PROVE  Named \subseteq Reach /\ Reach \subseteq Live
<1>1. Live \subseteq Obj
  BY DEF Live, Alloc
<1>2. \A o \in Live : Refs(o) \subseteq Live
  BY DEF Closed, Fine
<1>3. Live \in {S \in SUBSET Obj : Roots \cup mmudata \subseteq S /\ \A o \in S : Refs(o) \subseteq S}
  BY <1>1, <1>2 DEF Closed
<1>4. Reach \subseteq Live
  BY <1>3 DEF Reach, ReachFrom
<1>5. Named \subseteq Reach
  BY DEF Named, Reach, ReachFrom
<1> QED BY <1>4, <1>5

\* References change where entries, metatables and stack slots do.
LEMMA RefsChange ==
  ASSUME NEW o \in Obj, NEW V, open'[o] = open[o],
         \A e \in ent'[o] : e \in ent[o] \/ {e[1], e[2]} \subseteq V \cup {Nil},
         meta'[o] \in {meta[o], Nil} \cup V,
         \A i \in Slots : stk'[o][i] \in {stk[o][i], Nil} \cup V,
         open[o] # <<>> => stk'[open[o][1]][open[o][2]] \in {stk[open[o][1]][open[o][2]], Nil} \cup V
  PROVE  Refs(o)' \subseteq Refs(o) \cup (V \ {Nil})
<1>1. Values(o)' \subseteq Values(o) \cup (V \ {Nil}) /\ Keys(o)' \subseteq Keys(o) \cup (V \ {Nil})
  BY DEF Values, Keys, Nodes
<1>2. MetaOf(o)' \subseteq MetaOf(o) \cup (V \ {Nil})
  BY DEF MetaOf
<1>3. SlotRefs(o, Slots)' \subseteq SlotRefs(o, Slots) \cup (V \ {Nil})
  BY DEF SlotRefs
<1>4. uvval(o)' \subseteq uvval(o) \cup (V \ {Nil})
  BY <1>1 DEF uvval
<1> QED BY <1>1, <1>2, <1>3, <1>4 DEF Refs

-----------------------------------------------------------------------------
(* Marking.                                                                *)

\* What gc_mark() promises when no object is dead: the members of S are marked, and
\* what it marks on the way is black with marked references, or listed, or a string,
\* or an open upvalue whose value is marked.
MarkedBy(c, S) ==
  /\ color' \in [Obj -> Colors]
  /\ \A o \in Obj : c[o] \notin Whites => color'[o] = c[o]
  /\ \A o \in Obj : c[o] \in Whites => color'[o] \in {c[o], "gray", "black"}
  /\ \A o \in S : color'[o] \notin Whites
  /\ \A o \in Obj : c[o] \in Whites /\ color'[o] = "black" =>
       /\ kind[o] = "udata" \/ (kind[o] = "upval" /\ open[o] = <<>>)
       /\ \A v \in Refs(o) : color'[v] \notin Whites
  /\ \A o \in Obj : c[o] \in Whites /\ color'[o] = "gray" =>
       /\ kind[o] # "udata"
       /\ o \in Alloc => o \in gray' \/ kind[o] = "str" \/ open[o] # <<>>
       /\ open[o] # <<>> => \A v \in uvval(o) : color'[v] \notin Whites

LEMMA MarkEffect ==
  ASSUME TypeOK, Shape, Closed, Alloc = Live, NEW c \in [Obj -> Colors], NEW l \in SUBSET Obj,
         NEW S \in SUBSET Live, gc_mark(c, l, S)
  PROVE  MarkedBy(c, S) /\ l \subseteq gray'
<1> DEFINE white(T) == {o \in T : c[o] \in Whites}
           w1 == white(S)
           w2 == w1 \cup white(UNION {uvval(u) : u \in {x \in w1 : kind[x] = "upval"}})
           w3 == w2 \cup white(UNION {Values(u) \cup MetaOf(u) :
                                        u \in {x \in w2 : kind[x] = "udata"}})
<1>1. MarkSet(c, S) = w3
  BY DEF MarkSet
<1>2. S \subseteq Obj /\ Live \subseteq Obj
  BY DEF Live, Alloc
<1>3. \A o \in Live : \A v \in Refs(o) : Fine(o, v)
  BY DEF Closed
<1>4. w1 \subseteq Live /\ \A o \in w1 : c[o] \in Whites
  OBVIOUS
<1>5. \A u \in w1 : kind[u] = "upval" => uvval(u) \subseteq Live /\ \A v \in uvval(u) : kind[v] # "upval"
  BY <1>2, <1>3, <1>4, RefsOf DEF Fine
<1> HIDE DEF w1
<1>6. /\ w1 \subseteq w2 /\ w2 \subseteq Live
      /\ \A o \in w2 : c[o] \in Whites /\ (kind[o] = "upval" => o \in w1)
  BY <1>4, <1>5
<1>7. \A u \in w1 : kind[u] = "upval" => \A v \in uvval(u) : c[v] \in Whites => v \in w2
  OBVIOUS
<1> HIDE DEF w2
<1>8. \A u \in w2 : kind[u] = "udata" =>
        /\ Values(u) \cup MetaOf(u) \subseteq Live
        /\ \A v \in Values(u) \cup MetaOf(u) : kind[v] = "tab"
        /\ Refs(u) = Values(u) \cup MetaOf(u)
  <2> SUFFICES ASSUME NEW u \in w2, kind[u] = "udata"
               PROVE  /\ Values(u) \cup MetaOf(u) \subseteq Live
                      /\ \A v \in Values(u) \cup MetaOf(u) : kind[v] = "tab"
                      /\ Refs(u) = Values(u) \cup MetaOf(u)
    OBVIOUS
  <2>1. u \in Live /\ u \in Obj
    BY <1>2, <1>6
  <2>2. Refs(u) = Values(u) \cup MetaOf(u)
    BY <2>1, RefsOf
  <2> QED BY <1>3, <2>1, <2>2 DEF Fine
<1>9. /\ w2 \subseteq w3 /\ w3 \subseteq Live
      /\ \A o \in w3 : /\ c[o] \in Whites
                       /\ kind[o] \in {"upval", "udata"} => o \in w2
                       /\ kind[o] = "upval" => o \in w1
  BY <1>6, <1>8
<1>10. \A u \in w2 : kind[u] = "udata" =>
         \A v \in Values(u) \cup MetaOf(u) : c[v] \in Whites => v \in w3
  OBVIOUS
<1> HIDE DEF w3
<1>11. color' = [o \in Obj |-> IF o \in w3 THEN MarkColor(o) ELSE c[o]] /\ gray' = l \cup GrayListed(w3)
  BY <1>1 DEF gc_mark, Painted
<1>12. \A o \in Obj : MarkColor(o) \in {"gray", "black"}
  BY DEF MarkColor
<1>13. \A v \in Live : v \in w3 \/ c[v] \notin Whites => color'[v] \notin Whites
  BY <1>2, <1>11, <1>12 DEF Whites
<1>14. \A o \in w3 : kind[o] = "upval" => \A v \in uvval(o) : color'[v] \notin Whites
  BY <1>5, <1>7, <1>9, <1>13
<1>15. \A o \in w3 : kind[o] = "udata" => \A v \in Refs(o) : color'[v] \notin Whites
  BY <1>8, <1>9, <1>10, <1>13
<1>16. color' \in [Obj -> Colors]
  BY <1>11, <1>12 DEF Colors
<1>17. \A o \in Obj : c[o] \notin Whites => color'[o] = c[o]
  BY <1>9, <1>11
<1>18. \A o \in Obj : c[o] \in Whites => color'[o] \in {c[o], "gray", "black"}
  BY <1>11, <1>12
<1>19. \A o \in S : color'[o] \notin Whites
  BY <1>6, <1>9, <1>13 DEF w1
<1>20. ASSUME NEW o \in Obj, c[o] \in Whites, color'[o] = "black"
       PROVE  /\ kind[o] = "udata" \/ (kind[o] = "upval" /\ open[o] = <<>>)
              /\ \A v \in Refs(o) : color'[v] \notin Whites
  <2>1. o \in w3 /\ MarkColor(o) = "black"
    BY <1>11, <1>20 DEF Whites
  <2>2. kind[o] = "udata" \/ (kind[o] = "upval" /\ open[o] = <<>>)
    BY <2>1 DEF MarkColor
  <2>3. kind[o] = "upval" => Refs(o) = uvval(o)
    BY RefsOf
  <2> QED BY <1>14, <1>15, <2>1, <2>2, <2>3
<1>21. ASSUME NEW o \in Obj, c[o] \in Whites, color'[o] = "gray"
       PROVE  /\ kind[o] # "udata"
              /\ o \in Alloc => o \in gray' \/ kind[o] = "str" \/ open[o] # <<>>
              /\ open[o] # <<>> => \A v \in uvval(o) : color'[v] \notin Whites
  <2>1. o \in w3 /\ MarkColor(o) = "gray"
    BY <1>11, <1>21 DEF Whites
  <2>2. kind[o] # "udata" /\ (kind[o] = "upval" => open[o] # <<>>)
    BY <2>1 DEF MarkColor
  <2>3. open[o] # <<>> => kind[o] = "upval"
    BY DEF Shape
  <2>4. ASSUME o \in Alloc
        PROVE  o \in gray' \/ kind[o] = "str" \/ open[o] # <<>>
    <3>1. kind[o] \in Kinds
      BY <2>4 DEF TypeOK, Alloc
    <3> QED BY <1>11, <2>1, <2>2, <3>1 DEF GrayListed, Kinds
  <2> QED BY <1>14, <2>1, <2>2, <2>3, <2>4
<1>22. l \subseteq gray'
  BY <1>11
<1> QED BY <1>16, <1>17, <1>18, <1>19, <1>20, <1>21, <1>22 DEF MarkedBy

\* A step of gc_mark() while marking: what is black afterwards has marked
\* references, what is gray is listed.  It may start with lists l and c.
LEMMA MarkKeeps ==
  ASSUME TypeOK, Shape, Colours, Marks, gcstate \in Marking, gcstate' \in Marking,
         UNCHANGED <<kind, open, currentwhite>>,
         NEW S, MarkedBy(color, S),
         gray \cup grayagain \cup weak \subseteq gray' \cup grayagain' \cup weak',
         \A t \in weak' : kind[t] = "tab"
  PROVE  /\ Alloc' = Alloc /\ Live' = Live
         /\ \A o \in Obj : ~iswhite(o) => ~iswhite(o)'
         /\ Colours'
         /\ ~iswhite(Main)'
         /\ \A o \in Alloc : isgray(o)' => Listed(o)'
         /\ \A o \in Alloc : isblack(o)' /\ ~isblack(o) => iswhite(o) /\ \A v \in Refs(o) : color'[v] \notin Whites
<1>1. Alloc' = Alloc /\ gcstate \notin Sweeps /\ gcstate' \notin Sweeps /\ currentwhite \in Whites
  BY DEF Alloc, Marking, Sweeps, TypeOK
<1>2. \A o \in Obj : color[o] \in Colors /\ color'[o] \in Colors
  BY DEF MarkedBy, TypeOK
<1>3. \A o \in Obj : ~iswhite(o) => ~iswhite(o)'
  BY DEF MarkedBy, iswhite
<1>4. \A o \in Alloc : ~isdead(o)' /\ o \in Obj
  BY <1>1 DEF Colours, Live, isdead, otherwhite, MarkedBy, Alloc, Whites, TypeOK
<1>5. Live' = Live
  BY <1>1, <1>4 DEF Live, Colours
<1>6. ASSUME NEW o \in Alloc, isblack(o)'
      PROVE  /\ kind[o] \notin {"thread", "str"} /\ open[o] = <<>>
             /\ ~isblack(o) => iswhite(o) /\ \A v \in Refs(o) : color'[v] \notin Whites
  <2>0. o \in Obj
    BY <1>4
  <2>1. CASE isblack(o)
    BY <2>1 DEF Colours
  <2>2. CASE ~isblack(o)
    <3>1. color[o] \in Whites
      BY <1>6, <2>0, <2>2 DEF MarkedBy, isblack
    <3>2. /\ kind[o] = "udata" \/ (kind[o] = "upval" /\ open[o] = <<>>)
          /\ \A v \in Refs(o) : color'[v] \notin Whites
      BY <1>6, <2>0, <3>1 DEF MarkedBy, isblack
    <3>3. open[o] = <<>>
      BY <2>0, <3>2, RefsOf
    <3> QED BY <3>1, <3>2, <3>3 DEF iswhite
  <2> QED BY <2>1, <2>2
<1>7. ASSUME NEW o \in Alloc, isgray(o)'
      PROVE  kind[o] # "udata" /\ Listed(o)'
  <2>0. o \in Obj
    BY <1>4
  <2>1. CASE isgray(o)
    BY <2>1 DEF Colours, Marks, Listed
  <2>2. CASE ~isgray(o)
    <3>1. color[o] \in Whites
      BY <1>7, <2>0, <2>2 DEF MarkedBy, isgray
    <3>2. kind[o] # "udata" /\ (o \in gray' \/ kind[o] = "str" \/ open[o] # <<>>)
      BY <1>7, <2>0, <3>1 DEF MarkedBy, isgray
    <3> QED BY <3>2 DEF Listed
  <2> QED BY <2>1, <2>2
<1>8. Colours'
  BY <1>1, <1>5, <1>6, <1>7 DEF Colours
<1>9. ~iswhite(Main)'
  BY <1>3, GCAssumption DEF Marks
<1>10. \A o \in Alloc : isblack(o)' /\ ~isblack(o) => iswhite(o) /\ \A v \in Refs(o) : color'[v] \notin Whites
  BY <1>6
<1> QED BY <1>1, <1>3, <1>5, <1>7, <1>8, <1>9, <1>10

\* Without a barrier nothing changes as long as black objects get no references.
LEMMA NoBarrierStep ==
  ASSUME TypeOK, Colours, Swept, Marks, Atomic, Mutating,
         UNCHANGED <<kind, open, color, listVars, phaseVars>>,
         \A o \in Alloc : isblack(o) => Refs(o)' \subseteq Refs(o)
  PROVE  Live' = Live /\ Colours' /\ Swept' /\ Marks' /\ Atomic'
<1> USE DEF listVars, phaseVars
<1>1. Alloc' = Alloc /\ Live' = Live
  BY DEF Alloc, Live, isdead, otherwhite
<1>2. Colours' /\ Swept'
  BY <1>1 DEF Colours, Swept, Passed, isblack, isgray
<1>3. \A o \in Alloc : isblack(o)' = isblack(o) /\ isgray(o)' = isgray(o) /\ Listed(o)' = Listed(o)
  BY DEF isblack, isgray, Listed
<1>4. \A o \in Alloc : isblack(o) /\ Marked(Refs(o)) => Marked(Refs(o))'
  BY DEF Marked, iswhite
<1>5. Marks'
  BY <1>1, <1>3, <1>4 DEF Marks, iswhite
<1>6. atomicpc' = "none"
  BY DEF Mutating
<1>7. Atomic'
  BY <1>6 DEF Atomic
<1> QED BY <1>1, <1>2, <1>5, <1>7

\* With a barrier an object t may get a reference to v.
LEMMA BarrierStep ==
  ASSUME TypeOK, ListsInv, Shape, Closed, Colours, Swept, Marks, Atomic, Mutating,
         UNCHANGED <<kind, open, phaseVars>>,
         NEW t \in Live, NEW v \in Live \cup {Nil}, NEW V, V \subseteq Obj,
         \A o \in Alloc \ {t} : Refs(o)' \subseteq Refs(o),
         Refs(t)' \subseteq Refs(t) \cup V,
         \/ kind[t] = "tab" /\ lj_gc_anybarriert(t)
         \/ kind[t] = "tab" /\ lj_gc_objbarriert(t, v) /\ V \subseteq {v}
         \/ lj_gc_objbarrier(t, v) /\ V \subseteq {v}
  PROVE  Live' = Live /\ Colours' /\ Swept' /\ Marks' /\ Atomic'
<1> USE DEF phaseVars
<1>1. t \in Alloc /\ t \in Obj /\ ~isdead(t) /\ atomicpc = "none" /\ atomicpc' = "none" /\ Atomic'
  BY DEF Live, Alloc, Mutating, Atomic
<1>2. Alloc' = Alloc /\ Alloc \subseteq Obj
  BY DEF Alloc
<1>3. color \in [Obj -> Colors] /\ currentwhite \in Whites
  BY DEF TypeOK
<1>4. CASE NoBarrier /\ (isblack(t) => \A x \in V : ~iswhite(x))
  <2>1. UNCHANGED <<color, listVars>>
    BY <1>4 DEF NoBarrier
  <2>2. Live' = Live
    BY <1>2, <2>1 DEF Live, isdead, otherwhite
  <2>3. Colours' /\ Swept'
    BY <1>2, <2>1, <2>2 DEF Colours, Swept, Passed, isblack, isgray
  <2>4. \A o \in Alloc : isblack(o)' = isblack(o) /\ isgray(o)' = isgray(o) /\ Listed(o)' = Listed(o)
    BY <2>1 DEF isblack, isgray, Listed, listVars
  <2>5. \A o \in Alloc : isblack(o) /\ Marked(Refs(o)) => Marked(Refs(o))'
    BY <1>4, <2>1 DEF Marked, iswhite
  <2>6. Marks'
    BY <1>2, <2>1, <2>4, <2>5 DEF Marks, iswhite, listVars
  <2> QED BY <1>1, <2>2, <2>3, <2>6
<1>5. CASE isblack(t) /\ kind[t] = "tab" /\ lj_gc_barrierback(t)
  <2>1. /\ \A o \in Obj : color'[o] = IF o = t THEN "gray" ELSE color[o]
        /\ grayagain' = grayagain \cup {t} /\ UNCHANGED <<gray, weak>>
    BY <1>3, <1>5 DEF lj_gc_barrierback
  <2>2. \A o \in Obj : /\ iswhite(o)' = iswhite(o) /\ isdead(o)' = isdead(o)
                       /\ isblack(o)' = (isblack(o) /\ o # t) /\ isgray(o)' = (isgray(o) \/ o = t)
    BY <1>3, <1>5, <2>1 DEF iswhite, isdead, otherwhite, isblack, isgray, Whites
  <2>3. Live' = Live
    BY <1>2, <2>2 DEF Live
  <2>4. Colours'
    BY <1>2, <1>5, <2>2, <2>3 DEF Colours
  <2>5. color[t] # currentwhite
    BY <1>3, <1>5 DEF isblack, Whites
  <2>6. Swept'
    BY <1>2, <2>1, <2>5 DEF Swept, Passed
  <2>7. \A o \in Alloc : isblack(o)' /\ Marked(Refs(o)) => Marked(Refs(o))'
    <3> SUFFICES ASSUME NEW o \in Alloc, isblack(o)', Marked(Refs(o)), NEW x \in Refs(o)'
                 PROVE  ~iswhite(x)'
      BY DEF Marked
    <3>1. o # t /\ x \in Refs(o) /\ o \in Obj
      BY <1>2, <2>2
    <3>2. x \in Obj
      BY <3>1, RefsOf
    <3> QED BY <2>2, <3>1, <3>2 DEF Marked
  <2>8. \A o \in Alloc : isgray(o)' => Listed(o)' \/ gcstate \notin Marking
    BY <1>2, <2>1, <2>2 DEF Marks, Listed
  <2>9. Marks'
    BY <1>2, <2>1, <2>2, <2>7, <2>8, GCAssumption DEF Marks
  <2> QED BY <1>1, <2>3, <2>4, <2>6, <2>9
<1>6. CASE isblack(t) /\ v \in Live /\ V \subseteq {v} /\ lj_gc_barrierf(t, v)
  <2>1. CASE gcstate \in Marking
    <3>1. gc_mark(color, gray, {v}) /\ UNCHANGED <<grayagain, weak>>
      BY <1>6, <2>1 DEF lj_gc_barrierf
    <3>2. Alloc = Live /\ gray \in SUBSET Obj
      BY <2>1 DEF Colours, Marking, Sweeps, TypeOK
    <3>3. MarkedBy(color, {v}) /\ gray \subseteq gray'
      BY <1>3, <1>6, <3>1, <3>2, MarkEffect
    <3>4. \A x \in weak' : kind[x] = "tab"
      BY <2>1, <3>1 DEF Marks
    <3>5. /\ Live' = Live /\ Colours' /\ ~iswhite(Main)'
          /\ \A o \in Obj : ~iswhite(o) => ~iswhite(o)'
          /\ \A o \in Alloc : isgray(o)' => Listed(o)'
          /\ \A o \in Alloc : isblack(o)' /\ ~isblack(o) => iswhite(o) /\ \A x \in Refs(o) : color'[x] \notin Whites
      BY <2>1, <3>1, <3>3, <3>4, MarkKeeps
    <3>6. ~iswhite(v)'
      BY <3>3 DEF MarkedBy, iswhite
    <3>7. ASSUME NEW o \in Alloc, isblack(o)', o \in mmudata => FALSE, NEW x \in Refs(o)'
          PROVE  ~iswhite(x)'
      <4>0. o \in Obj
        BY <1>2
      <4>1. CASE isblack(o)
        <5>1. Marked(Refs(o)) /\ (x \in Refs(o) \/ x = v)
          BY <1>6, <2>1, <3>7, <4>1 DEF Marks
        <5>2. x \in Refs(o) => x \in Obj /\ ~iswhite(x)
          BY <4>0, <5>1, RefsOf DEF Marked
        <5> QED BY <3>5, <3>6, <5>1, <5>2
      <4>2. CASE ~isblack(o)
        <5>1. o # t /\ x \in Refs(o)
          BY <1>6, <3>7, <4>2
        <5> QED BY <3>5, <3>7, <4>2, <5>1 DEF iswhite
      <4> QED BY <4>1, <4>2
    <3>8. \A o \in Alloc : isblack(o)' /\ (o \in mmudata => FALSE) => Marked(Refs(o))'
      BY <3>7 DEF Marked
    <3>9. Marks' /\ Swept'
      BY <1>1, <1>2, <2>1, <3>4, <3>5, <3>8 DEF Marks, Swept
    <3> QED BY <1>1, <3>5, <3>9
  <2>2. CASE gcstate \notin Marking
    <3>1. /\ \A o \in Obj : color'[o] = IF o = t THEN currentwhite ELSE color[o]
      BY <1>3, <1>6, <2>2 DEF lj_gc_barrierf
    <3>2. \A o \in Obj : isdead(o)' = isdead(o)
      BY <1>3, <1>6, <3>1 DEF isdead, otherwhite, isblack, Whites
    <3>3. Live' = Live
      BY <1>2, <3>2 DEF Live
    <3>4. \A o \in Obj : (isblack(o)' => isblack(o)) /\ (isgray(o)' => isgray(o))
      BY <1>3, <3>1 DEF isblack, isgray, Whites
    <3>5. Colours' /\ Swept' /\ Marks'
      BY <1>2, <2>2, <3>1, <3>3, <3>4 DEF Colours, Swept, Passed, Marks
    <3> QED BY <1>1, <3>3, <3>5
  <2> QED BY <2>1, <2>2
<1>7. \/ NoBarrier /\ (isblack(t) => \A x \in V : ~iswhite(x))
      \/ isblack(t) /\ kind[t] = "tab" /\ lj_gc_barrierback(t)
      \/ isblack(t) /\ v \in Live /\ V \subseteq {v} /\ lj_gc_barrierf(t, v)
  <2>0. v = Nil /\ V \subseteq {v} => V = {}
    BY GCAssumption
  <2> QED BY <2>0 DEF lj_gc_anybarriert, lj_gc_objbarriert, lj_gc_objbarrier
<1> QED BY <1>4, <1>5, <1>6, <1>7

-----------------------------------------------------------------------------
(* The program.                                                            *)

GCInv == TypeOK /\ ListsInv /\ FinInv /\ SafeInv

\* Closed is kept by any step that leaves live objects alive and only makes
\* references of the right kind to live objects.
LEMMA ClosedStep ==
  ASSUME Closed, \A o \in Live : kind'[o] = kind[o], Live \subseteq Live',
         \A o \in Live' : \A v \in Refs(o)' : (o \in Live /\ v \in Refs(o)) \/ Fine(o, v)',
         Roots' \cup mmudata' \subseteq Live', reg' # Nil => kind'[reg'] # "upval"
  PROVE  Closed'
<1>1. ASSUME NEW o \in Live', NEW v \in Refs(o)', o \in Live, v \in Refs(o)
      PROVE  Fine(o, v)'
  <2>1. Fine(o, v) /\ v \in Live
    BY <1>1 DEF Closed, Fine
  <2> QED BY <1>1, <2>1 DEF Fine
<1> QED BY <1>1 DEF Closed

\* Roots change, the heap does not.
LEMMA RootStep ==
  ASSUME GCInv, Mutating,
         UNCHANGED <<kind, finalized, ent, meta, stk, open, color, listVars, phaseVars>>,
         Roots' \subseteq Live, kind[curL'] = "thread", reg' \in {reg, Nil}, ~jitbase' => reg' = Nil
  PROVE  SafeInv'
<1> USE DEF GCInv, SafeInv
<1>1. \A o \in Obj : Refs(o)' = Refs(o)
  BY DEF Refs, Keys, Values, Nodes, MetaOf, SlotRefs, uvval
<1>2. Alloc \subseteq Obj
  BY DEF Alloc
<1>3. Live' = Live /\ Colours' /\ Swept' /\ Marks' /\ Atomic'
  BY <1>1, <1>2, NoBarrierStep
<1>4. \A o \in Obj : SlotRefs(o, Slots)' = SlotRefs(o, Slots)
  BY DEF SlotRefs
<1>5. Shape'
  BY <1>4 DEF Shape
<1>6. Live \subseteq Obj /\ mmudata' \subseteq Live'
  BY <1>2, <1>3 DEF Live, Closed, phaseVars
<1>7. reg' # Nil => kind'[reg'] # "upval"
  BY DEF Closed
<1>8. Closed'
  BY <1>1, <1>3, <1>6, <1>7, ClosedStep
<1> QED BY <1>3, <1>5, <1>8

\* A stack slot is written: no barrier, since neither threads nor open upvalues
\* are ever black.
LEMMA SlotStep ==
  ASSUME GCInv, Mutating,
         UNCHANGED <<kind, finalized, ent, meta, open, color, listVars, phaseVars, curL, cur, groot, cstack>>,
         NEW v \in Live \cup {Nil}, v # Nil => kind[v] # "upval",
         stk' = stk \/ \E th \in Obj, i \in Slots : kind[th] = "thread" /\ stk' = [stk EXCEPT ![th][i] = v],
         reg' \in {reg, v, Nil}, ~jitbase' => reg' = Nil
  PROVE  SafeInv'
<1> USE DEF GCInv, SafeInv
<1>1. Alloc \subseteq Obj /\ Live \subseteq Alloc
  BY DEF Alloc, Live
<1>2. ASSUME NEW o \in Obj
      PROVE  /\ Refs(o)' \subseteq Refs(o) \cup ({v} \ {Nil})
             /\ kind[o] # "thread" /\ open[o] = <<>> => Refs(o)' \subseteq Refs(o)
             /\ kind[o] # "thread" => SlotRefs(o, Slots)' = {}
  <2>1. ent'[o] = ent[o] /\ meta'[o] = meta[o] /\ open'[o] = open[o]
    OBVIOUS
  <2>2. \A p \in Obj, i \in Slots :
          stk'[p][i] \in {stk[p][i], v} /\ (kind[p] # "thread" => stk'[p][i] = stk[p][i])
    <3>1. CASE stk' = stk
      BY <3>1
    <3>2. CASE \E th \in Obj, i \in Slots : kind[th] = "thread" /\ stk' = [stk EXCEPT ![th][i] = v]
      BY <3>2 DEF TypeOK
    <3> QED BY <3>1, <3>2
  <2>3. open[o] # <<>> => open[o][1] \in Obj /\ open[o][2] \in Slots
    BY RefsOf
  <2>4. Refs(o)' \subseteq Refs(o) \cup ({v} \ {Nil})
    BY <2>1, <2>2, <2>3, RefsChange
  <2>5. ASSUME kind[o] # "thread", open[o] = <<>>
        PROVE  Refs(o)' \subseteq Refs(o)
    <3>1. Refs(o)' \subseteq Refs(o) \cup ({} \ {Nil})
      BY <2>1, <2>2, <2>5, RefsChange
    <3> QED BY <3>1
  <2>6. kind[o] # "thread" => SlotRefs(o, Slots)' = {}
    BY <2>2 DEF SlotRefs, Shape
  <2> QED BY <2>4, <2>5, <2>6
<1>3. \A o \in Alloc : isblack(o) => Refs(o)' \subseteq Refs(o)
  BY <1>1, <1>2 DEF Colours
<1>4. Live' = Live /\ Colours' /\ Swept' /\ Marks' /\ Atomic'
  BY <1>3, NoBarrierStep
<1>5. Shape'
  BY <1>2 DEF Shape
<1>6. ASSUME NEW o \in Live', NEW x \in Refs(o)'
      PROVE  (o \in Live /\ x \in Refs(o)) \/ Fine(o, x)'
  <2>1. o \in Live /\ o \in Obj /\ o \in Alloc
    BY <1>1, <1>4
  <2>2. x \in Refs(o) \/ (x = v /\ v # Nil /\ (kind[o] = "thread" \/ open[o] # <<>>))
    BY <1>2, <2>1
  <2>3. kind[o] = "thread" \/ open[o] # <<>> => kind[o] # "udata"
    BY <2>1 DEF Shape
  <2> QED BY <1>4, <2>1, <2>2, <2>3 DEF Fine
<1>7. reg' # Nil => kind'[reg'] # "upval" /\ reg' \in Live
  BY DEF Closed, Roots
<1>8. Roots' \cup mmudata' \subseteq Live'
  <2>1. Main \in Live /\ curL \in Live /\ cur \subseteq Live /\ FinArgs \subseteq Live /\ {groot} \ {Nil} \subseteq Live
    BY DEF Closed, Roots
  <2>2. FinArgs' = FinArgs
    BY DEF FinArgs
  <2>3. mmudata' \subseteq Live
    BY DEF Closed, phaseVars
  <2>4. Roots' \subseteq Live
    BY <1>7, <2>1, <2>2 DEF Roots
  <2> QED BY <1>4, <2>3, <2>4
<1>9. Closed'
  BY <1>4, <1>6, <1>7, <1>8, ClosedStep
<1> QED BY <1>4, <1>5, <1>9

\* References to members of V are stored into t, with the barrier that the code calls
\* for it: for the value v, or for any.
Store(t, v, V) ==
  /\ Mutating
  /\ UNCHANGED <<kind, finalized, stk, open, rootVars, cstack, phaseVars>>
  /\ \A x \in V : Fine(t, x)
  /\ \A o \in Obj \ {t} : ent'[o] = ent[o] /\ meta'[o] = meta[o]
  /\ \A e \in ent'[t] : e \in ent[t] \/ {e[1], e[2]} \subseteq V \cup {Nil}
  /\ meta'[t] \in {meta[t], Nil} \cup V
  /\ meta'[t] # Nil => kind[t] \in {"tab", "udata"}
  /\ kind[t] # "tab" => \A e \in ent'[t] : e[1] = Nil
  /\ kind[t] # "str" /\ open[t] = <<>>
  /\ \/ kind[t] = "tab" /\ lj_gc_anybarriert(t)
     \/ kind[t] = "tab" /\ lj_gc_objbarriert(t, v) /\ V \subseteq {v}
     \/ lj_gc_objbarrier(t, v) /\ V \subseteq {v}

LEMMA StoreStep ==
  ASSUME GCInv, NEW t \in Live, NEW v \in Live \cup {Nil}, NEW V \in SUBSET Live, Store(t, v, V)
  PROVE  SafeInv'
<1> USE DEF GCInv, SafeInv, Store
<1>1. Alloc \subseteq Obj /\ Live \subseteq Alloc
  BY DEF Alloc, Live
<1>2. ASSUME NEW o \in Obj
      PROVE  Refs(o)' \subseteq Refs(o) \cup V /\ (o # t => Refs(o)' \subseteq Refs(o))
  <2>1. stk'[o] = stk[o] /\ open'[o] = open[o] /\ stk' = stk
    OBVIOUS
  <2>2. o # t => Refs(o)' \subseteq Refs(o) \cup ({} \ {Nil})
    BY <2>1, RefsChange
  <2>3. o = t => Refs(o)' \subseteq Refs(o) \cup (V \ {Nil})
    BY <2>1, RefsChange
  <2> QED BY <2>2, <2>3
<1>3. V \subseteq Obj /\ t \in Obj
  BY <1>1
<1>4. Live' = Live /\ Colours' /\ Swept' /\ Marks' /\ Atomic'
  BY <1>1, <1>2, <1>3, BarrierStep
<1>5. Shape'
  <2>1. \A o \in Obj : SlotRefs(o, Slots)' = SlotRefs(o, Slots)
    BY DEF SlotRefs
  <2>2. kind[t] # "free"
    BY <1>1 DEF Alloc
  <2> QED BY <1>3, <2>1, <2>2 DEF Shape, rootVars, jitVars
<1>6. \A o \in Live' : \A x \in Refs(o)' : (o \in Live /\ x \in Refs(o)) \/ Fine(o, x)'
  BY <1>1, <1>2, <1>4 DEF Fine
<1>7. Roots' \cup mmudata' \subseteq Live' /\ (reg' # Nil => kind'[reg'] # "upval")
  <2>1. Roots' = Roots /\ mmudata' = mmudata /\ reg' = reg
    BY DEF Roots, FinArgs, rootVars, jitVars, phaseVars
  <2> QED BY <1>4, <2>1 DEF Closed
<1>8. Closed'
  BY <1>4, <1>6, <1>7, ClosedStep
<1> QED BY <1>4, <1>5, <1>8

\* References go away.
LEMMA ShrinkStep ==
  ASSUME GCInv, Mutating,
         UNCHANGED <<kind, finalized, meta, stk, open, color, listVars, phaseVars, curL, cstack, reg, jitbase>>,
         \A o \in Obj : ent'[o] \subseteq ent[o], Roots' \subseteq Live
  PROVE  SafeInv'
<1> USE DEF GCInv, SafeInv
<1>1. Alloc \subseteq Obj /\ Live \subseteq Alloc
  BY DEF Alloc, Live
<1>2. ASSUME NEW o \in Obj
      PROVE  Refs(o)' \subseteq Refs(o)
  <2>1. Refs(o)' \subseteq Refs(o) \cup ({} \ {Nil})
    BY RefsChange
  <2> QED BY <2>1
<1>3. Live' = Live /\ Colours' /\ Swept' /\ Marks' /\ Atomic'
  BY <1>1, <1>2, NoBarrierStep
<1>4. \A o \in Obj : ent[o] = {} => ent'[o] = {}
  OBVIOUS
<1>5. Shape'
  <2>1. \A o \in Obj : SlotRefs(o, Slots)' = SlotRefs(o, Slots)
    BY DEF SlotRefs
  <2> QED BY <1>4, <2>1 DEF Shape
<1>6. \A o \in Live' : \A x \in Refs(o)' : o \in Live /\ x \in Refs(o)
  BY <1>1, <1>2, <1>3
<1>7. Roots' \cup mmudata' \subseteq Live' /\ (reg' # Nil => kind'[reg'] # "upval")
  BY <1>3 DEF Closed, phaseVars
<1>8. Closed'
  BY <1>3, <1>6, <1>7, ClosedStep
<1> QED BY <1>3, <1>5, <1>8

\* The activations that end take their arguments along.
LEMMA FinArgsTail ==
  ASSUME TypeOK, \/ cstack' = cstack
                 \/ cstack # <<>> /\ cstack' = Tail(cstack)
                 \/ Len(cstack) > 1 /\ cstack' = Tail(Tail(cstack))
  PROVE  FinArgs' \subseteq FinArgs
<1>1. cstack \in Seq(Frame)
  BY DEF TypeOK
<1>2. \A s \in Seq(Frame) : s # <<>> =>
        /\ Tail(s) \in Seq(Frame) /\ Len(Tail(s)) = Len(s) - 1
        /\ \A i \in DOMAIN Tail(s) : i + 1 \in DOMAIN s /\ Tail(s)[i] = s[i + 1]
  OBVIOUS
<1>3. \A i \in DOMAIN cstack' : \E j \in DOMAIN cstack : cstack'[i] = cstack[j]
  <2>1. CASE cstack' = cstack
    BY <2>1
  <2>2. CASE cstack # <<>> /\ cstack' = Tail(cstack)
    BY <1>1, <1>2, <2>2
  <2>3. CASE Len(cstack) > 1 /\ cstack' = Tail(Tail(cstack))
    <3>0. cstack # <<>>
      BY <2>3
    <3>1. Tail(cstack) \in Seq(Frame) /\ Tail(cstack) # <<>>
      <4>1. Tail(cstack) \in Seq(Frame) /\ Len(Tail(cstack)) = Len(cstack) - 1 /\ Len(cstack) \in Nat
        BY <1>1, <1>2, <3>0
      <4>2. \A n \in Nat : n > 1 => n - 1 # 0
        OBVIOUS
      <4>3. Len(Tail(cstack)) # 0
        BY <2>3, <4>1, <4>2, Zenon
      <4>4. Len(<<>>) = 0
        OBVIOUS
      <4> QED BY <4>1, <4>3, <4>4, Zenon
    <3>2. \A i \in DOMAIN cstack' : i + 1 \in DOMAIN Tail(cstack) /\ cstack'[i] = Tail(cstack)[i + 1]
      BY <1>2, <2>3, <3>1
    <3>3. \A i \in DOMAIN Tail(cstack) : i + 1 \in DOMAIN cstack /\ Tail(cstack)[i] = cstack[i + 1]
      BY <1>1, <1>2, <3>0
    <3> QED BY <3>2, <3>3
  <2> QED BY <2>1, <2>2, <2>3
<1> QED BY <1>3 DEF FinArgs

\* The operations that change roots only.
LEMMA RootOps ==
  ASSUME GCInv, NEW R \in SUBSET Live,
         \/ \E n \in Slots : SetTop(n)
         \/ \E th \in R : kind[th] = "thread" /\ Resume(th)
         \/ \E p \in R : trace_start(p) \/ RecordKGC(p)
         \/ trace_abort
         \/ \E T \in Obj : EnterTrace(T)
         \/ FinReturn \/ FinError \/ lua_gc_stop \/ lua_gc_restart
  PROVE  SafeInv'
<1> USE DEF GCInv, SafeInv, objVars, heapVars, jitVars, rootVars, ctrlVars
<1>1. /\ Mutating /\ ~jitbase
      /\ UNCHANGED <<kind, finalized, ent, meta, stk, open, color, listVars, phaseVars, reg, groot>>
      /\ curL' = curL \/ (curL' \in R /\ kind[curL'] = "thread")
      /\ cur' \subseteq cur \cup R
      /\ \/ cstack' = cstack
         \/ cstack # <<>> /\ cstack' = Tail(cstack)
         \/ Len(cstack) > 1 /\ cstack' = Tail(Tail(cstack))
  BY DEF SetTop, Resume, trace_start, RecordKGC, trace_abort, EnterTrace, FinReturn, FinError,
         lua_gc_stop, lua_gc_restart, Interp
<1>2. FinArgs' \subseteq FinArgs
  BY <1>1, FinArgsTail
<1>3. Roots \subseteq Live
  BY DEF Closed
<1>4. Roots' \subseteq Live
  BY <1>1, <1>2, <1>3 DEF Roots
<1>5. reg = Nil /\ kind[curL'] = "thread"
  BY <1>1 DEF Shape
<1> HIDE DEF SafeInv
<1> QED BY <1>1, <1>4, <1>5, RootStep

\* The operations that store to the stack.
LEMMA SlotOps ==
  ASSUME GCInv, NEW v \in Live \cup {Nil}, v # Nil => kind[v] # "upval",
         \/ Move(v)
         \/ lj_trace_exit
         \/ \E u \in Live : open[u] # <<>> /\ SetUpvalue(u, v)
  PROVE  SafeInv'
<1> USE DEF objVars, heapVars, jitVars, rootVars, ctrlVars
<1>1. curL \in Obj /\ kind[curL] = "thread" /\ 1 .. top[curL] \subseteq Slots
  BY GCAssumption DEF GCInv, SafeInv, Shape, TypeOK, Slots
<1>2. CASE Move(v)
  <2>1. /\ stk' = stk \/ \E th \in Obj, i \in Slots : kind[th] = "thread" /\ stk' = [stk EXCEPT ![th][i] = v]
        /\ reg' \in {reg, v} /\ (~jitbase' => reg' = reg)
    BY <1>1, <1>2 DEF Move, Held
  <2>2. ~jitbase => reg = Nil
    BY DEF GCInv, SafeInv, Shape
  <2> QED BY <1>2, <2>1, <2>2, SlotStep DEF Move
<1>3. CASE lj_trace_exit
  <2>1. reg \in Live \cup {Nil} /\ (reg # Nil => kind[reg] # "upval")
    BY DEF GCInv, SafeInv, Closed, Roots
  <2>2. stk' = stk \/ \E th \in Obj, i \in Slots : kind[th] = "thread" /\ stk' = [stk EXCEPT ![th][i] = reg]
    BY <1>1, <1>3 DEF lj_trace_exit
  <2>3. /\ Mutating /\ reg' = Nil
        /\ UNCHANGED <<kind, finalized, ent, meta, open, color, listVars, phaseVars, curL, cur, groot, cstack>>
    BY <1>3 DEF lj_trace_exit
  <2> QED BY <2>1, <2>2, <2>3, SlotStep
<1>4. CASE \E u \in Live : open[u] # <<>> /\ SetUpvalue(u, v)
  <2>1. PICK u \in Live : open[u] # <<>> /\ SetUpvalue(u, v)
    BY <1>4
  <2>2. u \in Obj
    BY DEF Live, Alloc
  <2>3. open[u][1] \in Obj /\ open[u][2] \in Slots /\ kind[open[u][1]] = "thread"
    BY <2>1, <2>2, RefsOf DEF GCInv, SafeInv, Shape
  <2>4. /\ Mutating /\ stk' = [stk EXCEPT ![open[u][1]][open[u][2]] = v]
        /\ UNCHANGED <<kind, finalized, ent, meta, open, color, listVars, phaseVars, curL, cur, groot, cstack, reg, jitbase>>
    BY <2>1 DEF SetUpvalue, NoBarrier
  <2>5. ~jitbase => reg = Nil
    BY DEF GCInv, SafeInv, Shape
  <2> QED BY <2>3, <2>4, <2>5, SlotStep
<1> QED BY <1>2, <1>3, <1>4

\* The operations that take references away.
LEMMA ShrinkOps ==
  ASSUME GCInv, \/ \E v \in Live \cup {Nil} : SetBaseMeta(v)
                \/ \E p \in Obj : lj_trace_flushproto(p)
  PROVE  SafeInv'
<1> USE DEF objVars, heapVars, jitVars, rootVars, ctrlVars
<1>1. \A o \in Obj : Flushed(o) \subseteq ent[o]
  BY DEF Flushed
<1>2. Roots \subseteq Live
  BY DEF GCInv, SafeInv, Closed
<1>3. CASE \E v \in Live \cup {Nil} : SetBaseMeta(v)
  <2>1. /\ Mutating /\ groot' \in Live \cup {Nil} /\ cur' = {}
        /\ UNCHANGED <<kind, finalized, meta, stk, open, color, listVars, phaseVars, curL, cstack, reg, jitbase>>
        /\ \A o \in Obj : ent'[o] \subseteq ent[o]
    BY <1>1, <1>3 DEF SetBaseMeta, Interp
  <2>2. FinArgs' = FinArgs
    BY <2>1 DEF FinArgs
  <2>3. Roots' \subseteq Live
    BY <1>2, <2>1, <2>2 DEF Roots
  <2> QED BY <2>1, <2>3, ShrinkStep
<1>4. CASE \E p \in Obj : lj_trace_flushproto(p)
  <2>1. /\ Mutating
        /\ UNCHANGED <<kind, finalized, meta, stk, open, color, listVars, phaseVars, rootVars, cstack>>
        /\ \A o \in Obj : ent'[o] \subseteq ent[o]
    BY <1>1, <1>4 DEF lj_trace_flushproto, Interp, GCInv, TypeOK
  <2>2. Roots' = Roots
    BY <2>1 DEF Roots, FinArgs
  <2> QED BY <1>2, <2>1, <2>2, ShrinkStep
<1> QED BY <1>3, <1>4

\* The operations that store to an object.
LEMMA StoreOps ==
  ASSUME GCInv, NEW t \in Live, NEW k \in Live \cup {Nil}, NEW v \in Live \cup {Nil},
         v # Nil => kind[v] # "upval" \/ kind[t] = "func", NEW e \in ent[t] \cup {<<Nil, Nil>>},
         \/ kind[t] = "tab" /\ v # Nil /\ \E drop \in BOOLEAN : lj_tab_newkey(t, k, v, drop)
         \/ kind[t] = "tab" /\ e[1] \in Live \cup {Nil} /\ lj_tab_set(t, e, v)
         \/ kind[t] = "tab" /\ lua_rawseti(t, e, v)
         \/ kind[t] = "tab" /\ \E F \in Metas : SetField(t, F)
         \/ kind[t] \in {"tab", "udata"} /\ (v # Nil => kind[v] = "tab") /\ lua_setmetatable(t, v)
         \/ kind[t] \in {"func", "udata", "thread"} /\ v # Nil /\ lua_setfenv(t, e, v)
         \/ kind[t] = "upval" /\ open[t] = <<>> /\ SetUpvalue(t, v)
  PROVE  SafeInv'
<1> USE DEF phaseVars, ctrlVars
<1>1. t \in Obj /\ kind[t] # "free" /\ Live \subseteq Obj /\ Nil \notin Live
  BY GCAssumption DEF Live, Alloc
<1>2. /\ ent[t] \in SUBSET (Val \X Val) /\ (kind[t] # "upval" => open[t] = <<>>)
      /\ kind[t] # "tab" => \A x \in ent[t] : x[1] = Nil
      /\ meta[t] # Nil => kind[t] \in {"tab", "udata"}
      /\ ent \in [Obj -> SUBSET (Val \X Val)] /\ meta \in [Obj -> Val]
  BY <1>1 DEF GCInv, SafeInv, Shape, TypeOK
<1>3. ASSUME kind[t] = "tab", v # Nil, NEW drop \in BOOLEAN, lj_tab_newkey(t, k, v, drop)
      PROVE  SafeInv'
  <2>1. {k, v} \ {Nil} \in SUBSET Live /\ \A x \in {k, v} \ {Nil} : Fine(t, x)
    BY <1>3 DEF Fine
  <2>2. /\ \A x \in ent'[t] : x \in ent[t] \/ {x[1], x[2]} \subseteq ({k, v} \ {Nil}) \cup {Nil}
        /\ \A o \in Obj \ {t} : ent'[o] = ent[o]
    BY <1>1, <1>2, <1>3 DEF lj_tab_newkey, Nodes
  <2>3. Mutating /\ lj_gc_anybarriert(t) /\ meta' = meta
        /\ UNCHANGED <<kind, finalized, stk, open, rootVars, cstack, phaseVars>>
    BY <1>3 DEF lj_tab_newkey
  <2>4. Store(t, v, {k, v} \ {Nil})
    BY <1>2, <1>3, <2>1, <2>2, <2>3 DEF Store
  <2> QED BY <2>1, <2>4, StoreStep
<1>4. ASSUME kind[t] = "tab", e[1] \in Live \cup {Nil}, lj_tab_set(t, e, v)
      PROVE  SafeInv'
  <2>1. {e[1], v} \ {Nil} \in SUBSET Live /\ \A x \in {e[1], v} \ {Nil} : Fine(t, x)
    BY <1>4 DEF Fine
  <2>2. /\ \A x \in ent'[t] : x \in ent[t] \/ {x[1], x[2]} \subseteq ({e[1], v} \ {Nil}) \cup {Nil}
        /\ \A o \in Obj \ {t} : ent'[o] = ent[o]
    BY <1>1, <1>2, <1>4 DEF lj_tab_set
  <2>3. Mutating /\ lj_gc_anybarriert(t) /\ meta' = meta
        /\ UNCHANGED <<kind, finalized, stk, open, rootVars, cstack, phaseVars>>
    BY <1>4 DEF lj_tab_set
  <2>4. Store(t, v, {e[1], v} \ {Nil})
    BY <1>2, <1>4, <2>1, <2>2, <2>3 DEF Store
  <2> QED BY <2>1, <2>4, StoreStep
<1>5. ASSUME kind[t] = "tab", lua_rawseti(t, e, v)
      PROVE  SafeInv'
  <2>1. {v} \ {Nil} \in SUBSET Live /\ \A x \in {v} \ {Nil} : Fine(t, x)
    BY <1>5 DEF Fine
  <2>2. /\ \A x \in ent'[t] : x \in ent[t] \/ {x[1], x[2]} \subseteq ({v} \ {Nil}) \cup {Nil}
        /\ \A o \in Obj \ {t} : ent'[o] = ent[o]
    BY <1>1, <1>2, <1>5 DEF lua_rawseti
  <2>3. Mutating /\ lj_gc_objbarriert(t, v) /\ meta' = meta
        /\ UNCHANGED <<kind, finalized, stk, open, rootVars, cstack, phaseVars>>
    BY <1>5 DEF lua_rawseti
  <2>4. Store(t, v, {v} \ {Nil})
    BY <1>2, <1>5, <2>1, <2>2, <2>3 DEF Store
  <2> QED BY <2>1, <2>4, StoreStep
<1>6. ASSUME kind[t] = "tab", NEW F \in Metas, SetField(t, F)
      PROVE  SafeInv'
  <2>1. {} \in SUBSET Live /\ \A x \in {} : Fine(t, x)
    OBVIOUS
  <2>2. /\ Mutating /\ lj_gc_anybarriert(t) /\ meta'[t] = meta[t] /\ ent'[t] = ent[t]
        /\ UNCHANGED <<kind, finalized, stk, open, rootVars, cstack, phaseVars, ent, meta>>
    BY <1>6 DEF SetField
  <2>3. \A o \in Obj \ {t} : ent'[o] = ent[o] /\ meta'[o] = meta[o]
    BY <2>2
  <2>4. kind[t] # "str" /\ open[t] = <<>>
    BY <1>2, <1>6
  <2>5. Store(t, v, {})
    BY <1>2, <1>6, <2>1, <2>2, <2>3, <2>4 DEF Store
  <2> QED BY <2>1, <2>5, StoreStep
<1>7. ASSUME kind[t] \in {"tab", "udata"}, v # Nil => kind[v] = "tab", lua_setmetatable(t, v)
      PROVE  SafeInv'
  <2>1. {v} \ {Nil} \in SUBSET Live /\ \A x \in {v} \ {Nil} : Fine(t, x)
    BY <1>7 DEF Fine
  <2>2. /\ meta'[t] \in {meta[t], Nil} \cup ({v} \ {Nil})
        /\ \A o \in Obj \ {t} : meta'[o] = meta[o]
    BY <1>1, <1>2, <1>7 DEF lua_setmetatable
  <2>3. \/ kind[t] = "tab" /\ lj_gc_objbarriert(t, v)
        \/ lj_gc_objbarrier(t, v)
    BY <1>7 DEF lua_setmetatable
  <2>4. /\ Mutating
        /\ UNCHANGED <<kind, finalized, stk, open, rootVars, cstack, phaseVars, ent>>
    BY <1>7 DEF lua_setmetatable
  <2>5. {v} \ {Nil} \subseteq {v} /\ kind[t] # "str" /\ open[t] = <<>>
    BY <1>2, <1>7
  <2>6. Store(t, v, {v} \ {Nil})
    BY <1>2, <1>7, <2>1, <2>2, <2>3, <2>4, <2>5 DEF Store
  <2> QED BY <2>1, <2>6, StoreStep
<1>8. ASSUME kind[t] \in {"func", "udata", "thread"}, v # Nil, lua_setfenv(t, e, v)
      PROVE  SafeInv'
  <2>1. {v} \ {Nil} \in SUBSET Live /\ \A x \in {v} \ {Nil} : Fine(t, x)
    BY <1>8 DEF Fine, lua_setfenv, Holds
  <2>2. /\ \A x \in ent'[t] : x \in ent[t] \/ {x[1], x[2]} \subseteq ({v} \ {Nil}) \cup {Nil}
        /\ \A x \in ent'[t] : x[1] = Nil
        /\ \A o \in Obj \ {t} : ent'[o] = ent[o]
    BY <1>1, <1>2, <1>8 DEF lua_setfenv
  <2>3. {v} \ {Nil} \subseteq {v} /\ kind[t] # "str" /\ open[t] = <<>> /\ lj_gc_objbarrier(t, v)
    BY <1>2, <1>8 DEF lua_setfenv
  <2>4. /\ Mutating
        /\ UNCHANGED <<kind, finalized, stk, open, rootVars, cstack, phaseVars, meta>>
    BY <1>8 DEF lua_setfenv, Interp
  <2>5. Store(t, v, {v} \ {Nil})
    BY <1>2, <1>8, <2>1, <2>2, <2>3, <2>4 DEF Store
  <2> QED BY <2>1, <2>5, StoreStep
<1>9. ASSUME kind[t] = "upval", open[t] = <<>>, SetUpvalue(t, v)
      PROVE  SafeInv'
  <2>1. {v} \ {Nil} \in SUBSET Live /\ \A x \in {v} \ {Nil} : Fine(t, x)
    BY <1>9 DEF Fine
  <2>2. /\ \A x \in ent'[t] : {x[1], x[2]} \subseteq ({v} \ {Nil}) \cup {Nil} /\ x[1] = Nil
        /\ \A o \in Obj \ {t} : ent'[o] = ent[o]
    BY <1>1, <1>2, <1>9 DEF SetUpvalue
  <2>3. {v} \ {Nil} \subseteq {v} /\ lj_gc_objbarrier(t, v)
    BY <1>9 DEF SetUpvalue
  <2>4. /\ Mutating
        /\ UNCHANGED <<kind, finalized, stk, open, rootVars, cstack, phaseVars, meta>>
    BY <1>9 DEF SetUpvalue
  <2>5. Store(t, v, {v} \ {Nil})
    BY <1>2, <1>9, <2>1, <2>2, <2>3, <2>4 DEF Store
  <2> QED BY <2>1, <2>5, StoreStep
<1> QED BY <1>3, <1>4, <1>5, <1>6, <1>7, <1>8, <1>9

\* The objects of N are new, or are strings and open upvalues that are revived;
\* w, one of them or a live object, goes to a register or to the stack.
Birth(N, w) ==
  /\ Mutating
  /\ N \in SUBSET (Obj \ Live)
  /\ UNCHANGED <<finalized, meta, curL, cur, groot, cstack, jitbase, listVars, phaseVars>>
  /\ \A o \in Obj \ N :
       kind'[o] = kind[o] /\ color'[o] = color[o] /\ ent'[o] = ent[o] /\ open'[o] = open[o]
  /\ \A o \in N :
       /\ color'[o] = currentwhite /\ kind'[o] \in Kinds
       /\ kind[o] \in {"free", "str", "upval"} /\ kind[o] \in {"free", kind'[o]}
       /\ \A e \in ent'[o] : /\ e[1] = Nil /\ e[2] \in Live \cup N
                             /\ kind'[o] \notin {"str", "upval"}
                             /\ kind'[o] = "thread" => kind'[e[2]] # "upval"
                             /\ kind'[o] = "udata" => kind'[e[2]] = "tab"
       /\ open'[o] # <<>> =>
            kind'[o] = "upval" /\ open'[o][1] = curL /\ open'[o][2] \in Slots
  /\ w \in Live \cup N /\ kind'[w] # "upval"
  /\ stk' = stk \/ \E i \in Slots : stk' = [stk EXCEPT ![curL][i] = w]
  /\ reg' \in {reg, w} /\ (~jitbase => reg' = reg)

LEMMA BirthStep ==
  ASSUME GCInv, NEW N, NEW w, Birth(N, w)
  PROVE  SafeInv'
<1> USE DEF GCInv, SafeInv, Birth
<1>1. /\ Alloc \subseteq Obj /\ Live \subseteq Alloc /\ Nil \notin Obj
      /\ color \in [Obj -> Colors] /\ currentwhite \in Whites /\ currentwhite' = currentwhite
  BY GCAssumption DEF Alloc, Live, TypeOK, phaseVars
<1>2. Main \in Live /\ curL \in Live /\ curL \notin N /\ Main \notin N
  BY DEF Closed, Roots
<1>3. \A o \in Obj \ N : (o \in Alloc' <=> o \in Alloc) /\ (o \in Live' <=> o \in Live)
  BY <1>1 DEF Alloc, Live, isdead, otherwhite
<1>4. \A o \in N : o \in Alloc' /\ o \in Live' /\ ~isblack(o)' /\ ~isgray(o)' /\ iswhite(o)'
  BY <1>1 DEF Alloc, Live, isdead, otherwhite, isblack, isgray, iswhite, Kinds, Whites
<1>5. Alloc' = Alloc \cup N /\ Live' = Live \cup N
  <2>1. Alloc' \subseteq Obj /\ Live' \subseteq Obj
    BY DEF Alloc, Live
  <2> QED BY <1>1, <1>3, <1>4, <2>1
<1>6. \A o \in Obj : o # curL => stk'[o] = stk[o]
  BY DEF TypeOK
<1>7. \A i \in Slots : stk'[curL][i] \in {stk[curL][i], w}
  BY <1>1, <1>2 DEF TypeOK
<1>8. ASSUME NEW o \in Live
      PROVE  /\ Refs(o)' \subseteq Refs(o) \cup {w}
             /\ kind[o] # "thread" /\ open[o] = <<>> => Refs(o)' \subseteq Refs(o)
  <2>1. o \in Obj /\ o \notin N /\ open'[o] = open[o] /\ ent'[o] = ent[o] /\ meta'[o] = meta[o]
    BY <1>1
  <2>2. \A p \in Obj, i \in Slots : stk'[p][i] \in {stk[p][i], Nil} \cup {w}
    BY <1>6, <1>7
  <2>3. open[o] # <<>> => open[o][1] \in Obj /\ open[o][2] \in Slots
    BY <2>1, RefsOf
  <2>6. /\ \A i \in Slots : stk'[o][i] \in {stk[o][i], Nil} \cup {w}
        /\ open[o] # <<>> => stk'[open[o][1]][open[o][2]] \in {stk[open[o][1]][open[o][2]], Nil} \cup {w}
    BY <2>1, <2>2, <2>3
  <2>7. /\ \A e \in ent'[o] : e \in ent[o] \/ {e[1], e[2]} \subseteq {w} \cup {Nil}
        /\ meta'[o] \in {meta[o], Nil} \cup {w}
    BY <2>1
  <2>4. Refs(o)' \subseteq Refs(o) \cup ({w} \ {Nil})
    BY <2>1, <2>6, <2>7, RefsChange
  <2>5. ASSUME kind[o] # "thread", open[o] = <<>>
        PROVE  Refs(o)' \subseteq Refs(o)
    <3>1. stk'[o] = stk[o]
      BY <1>6, <2>1, <2>5 DEF Shape
    <3>2. Refs(o)' \subseteq Refs(o) \cup ({} \ {Nil})
      BY <2>1, <2>5, <3>1, RefsChange
    <3> QED BY <3>2
  <2> QED BY <2>4, <2>5
<1>9. ASSUME NEW o \in N
      PROVE  \A v \in Refs(o)' : /\ v \in Live \cup N
                                 /\ kind'[o] \in {"thread", "upval"} => kind'[v] # "upval"
                                 /\ kind'[o] = "udata" => kind'[v] = "tab"
  <2>1. meta'[o] = Nil /\ SlotRefs(o, Slots) = {} /\ o # curL
    BY <1>2 DEF Shape
  <2>2. MetaOf(o)' = {} /\ SlotRefs(o, Slots)' = {}
    BY <1>6, <2>1 DEF MetaOf, SlotRefs
  <2>3. Keys(o)' = {} /\ Values(o)' = {e[2] : e \in ent'[o]} \ {Nil}
    BY DEF Keys, Values, Nodes
  <2>4. open'[o] = <<>> => uvval(o)' = Values(o)'
    BY DEF uvval
  <2>5. CASE open'[o] = <<>>
    <3>1. Refs(o)' = Values(o)'
      BY <2>2, <2>3, <2>4, <2>5 DEF Refs
    <3> QED BY <2>3, <3>1
  <2>6. CASE open'[o] # <<>>
    <3>1. kind'[o] = "upval" /\ open'[o][1] = curL /\ open'[o][2] \in Slots /\ ent'[o] = {}
      BY <2>6
    <3>2. uvval(o)' = {stk'[curL][open'[o][2]]} \ {Nil}
      BY <2>6, <3>1 DEF uvval
    <3>3. Refs(o)' \subseteq {stk[curL][open'[o][2]], w} \ {Nil}
      BY <1>7, <2>2, <2>3, <3>1, <3>2 DEF Refs
    <3>4. {stk[curL][open'[o][2]]} \ {Nil} \subseteq Refs(curL)
      BY <3>1 DEF Refs, SlotRefs
    <3>5. \A v \in Refs(curL) : v \in Live /\ kind[v] # "upval"
      BY <1>2 DEF Closed, Fine, Shape
    <3>6. \A v \in Refs(o)' : v = w \/ (v \in Live /\ kind[v] # "upval" /\ v \notin N)
      BY <3>3, <3>4, <3>5
    <3> QED BY <1>1, <3>1, <3>6
  <2> QED BY <2>5, <2>6
<1>10. Shape'
  <2>1. \A o \in Obj : kind'[o] = "free" => ent'[o] = {} /\ meta'[o] = Nil
    BY DEF Shape, Kinds
  <2>2. \A o \in Obj : kind'[o] # "thread" => SlotRefs(o, Slots)' = {}
    <3> SUFFICES ASSUME NEW o \in Obj, kind'[o] # "thread"
                 PROVE  SlotRefs(o, Slots)' = {}
      OBVIOUS
    <3>1. kind[o] # "thread" /\ o # curL
      BY <1>2 DEF Shape
    <3> QED BY <1>6, <3>1 DEF Shape, SlotRefs
  <2>3. \A o \in Obj : meta'[o] # Nil => kind'[o] \in {"tab", "udata"}
    BY DEF Shape
  <2>4. /\ \A o \in Obj : kind'[o] # "tab" => \A e \in ent'[o] : e[1] = Nil
        /\ \A o \in Obj : kind'[o] = "str" => ent'[o] = {}
    BY DEF Shape
  <2>5. \A o \in Obj : kind[o] = "thread" => kind'[o] = "thread"
    OBVIOUS
  <2>6. \A o \in Obj : open[o] # <<>> => open[o][1] \in Obj
    BY RefsOf
  <2>7. \A o \in Obj : open'[o] # <<>> =>
          kind'[o] = "upval" /\ ent'[o] = {} /\ kind'[open'[o][1]] = "thread"
    <3> SUFFICES ASSUME NEW o \in Obj, open'[o] # <<>>
                 PROVE  kind'[o] = "upval" /\ ent'[o] = {} /\ kind'[open'[o][1]] = "thread"
      OBVIOUS
    <3>1. CASE o \in N
      <4>1. open'[o][1] = curL /\ kind'[o] = "upval" /\ ent'[o] = {}
        BY <3>1
      <4>2. kind'[curL] = "thread"
        BY <1>1, <1>2 DEF Shape
      <4> QED BY <4>1, <4>2
    <3>2. CASE o \notin N
      BY <2>5, <2>6, <3>2 DEF Shape
    <3> QED BY <3>1, <3>2
  <2>8. kind'[Main] = "thread" /\ kind'[curL'] = "thread"
    BY <1>1, <1>2 DEF Shape
  <2>9. /\ ~jitbase' => reg' = Nil
        /\ \A u \in finalized' : kind'[u] = "udata"
    BY DEF Shape, TypeOK
  <2> QED BY <2>1, <2>2, <2>3, <2>4, <2>7, <2>8, <2>9 DEF Shape
<1>11. ASSUME NEW o \in Live', NEW v \in Refs(o)'
       PROVE  (o \in Live /\ v \in Refs(o)) \/ Fine(o, v)'
  <2>1. CASE o \in N
    BY <1>5, <1>9, <2>1 DEF Fine
  <2>2. CASE o \in Live
    <3>1. v \in Refs(o) \/ (v = w /\ (kind[o] = "thread" \/ open[o] # <<>>))
      BY <1>8, <2>2
    <3>2. kind'[o] = kind[o] /\ (open[o] # <<>> => kind[o] = "upval")
      BY <1>1, <2>2 DEF Shape
    <3> QED BY <1>5, <2>2, <3>1, <3>2 DEF Fine
  <2> QED BY <1>5, <2>1, <2>2
<1>12. Closed'
  <2>1. \A o \in Live : kind'[o] = kind[o]
    BY <1>1
  <2>2. reg # Nil => reg \in Live /\ kind[reg] # "upval"
    BY DEF Closed, Roots
  <2>3. reg' # Nil => reg' \in Live' /\ kind'[reg'] # "upval"
    BY <1>5, <2>1, <2>2
  <2>4. Roots' \subseteq Roots \cup ({reg'} \ {Nil}) /\ mmudata' = mmudata
    BY DEF Roots, FinArgs, phaseVars
  <2>5. Roots' \cup mmudata' \subseteq Live'
    BY <1>5, <2>3, <2>4 DEF Closed
  <2> QED BY <1>5, <1>11, <2>1, <2>3, <2>5, ClosedStep
<1>13. Colours'
  <2>1. gcstate' \notin Sweeps => Alloc' = Live'
    BY <1>5 DEF Colours, phaseVars
  <2>2. ASSUME NEW o \in Alloc', isblack(o)' \/ isgray(o)'
        PROVE  /\ isblack(o)' => kind'[o] \notin {"thread", "str"} /\ open'[o] = <<>>
               /\ isgray(o)' => kind'[o] # "udata"
    <3>1. o \notin N /\ o \in Alloc /\ o \in Obj
      BY <1>1, <1>4, <1>5, <2>2
    <3> QED BY <2>2, <3>1 DEF Colours, isblack, isgray
  <2> QED BY <2>1, <2>2 DEF Colours
<1>14. Swept'
  <2>1. ASSUME gcstate \notin Marking, NEW o \in Alloc' \ mmudata, Passed(o)'
        PROVE  color'[o] = currentwhite
    <3>1. CASE o \in N
      BY <3>1
    <3>2. CASE o \notin N
      <4>1. o \in Alloc /\ o \in Obj /\ Passed(o)
        BY <1>1, <1>5, <2>1, <3>2 DEF Passed, phaseVars
      <4> QED BY <2>1, <3>2, <4>1 DEF Swept
    <3> QED BY <3>1, <3>2
  <2> QED BY <1>1, <2>1 DEF Swept, phaseVars
<1>15. Marks'
  <2> SUFFICES ASSUME gcstate \in Marking
               PROVE  /\ ~iswhite(Main)'
                      /\ \A o \in Alloc' : isblack(o)' /\ (o \in mmudata => atomicpc = "udata") => Marked(Refs(o))'
                      /\ \A o \in Alloc' : isgray(o)' => Listed(o)'
                      /\ \A t \in weak : kind'[t] = "tab"
    BY DEF Marks, phaseVars, listVars
  <2>1. ~iswhite(Main)'
    BY <1>1, <1>2 DEF Marks, iswhite
  <2>2. ASSUME NEW o \in Alloc', isblack(o)' \/ isgray(o)'
        PROVE  o \in Alloc /\ o \in Obj /\ o \notin N /\ isblack(o)' = isblack(o) /\ isgray(o)' = isgray(o)
    BY <1>1, <1>4, <1>5, <2>2 DEF isblack, isgray
  <2>3. Alloc = Live
    BY DEF Colours, Marking, Sweeps
  <2>4. ASSUME NEW o \in Alloc', isblack(o)', o \in mmudata => atomicpc = "udata", NEW v \in Refs(o)'
        PROVE  ~iswhite(v)'
    <3>1. o \in Live /\ isblack(o) /\ kind[o] # "thread" /\ open[o] = <<>>
      BY <2>2, <2>3, <2>4 DEF Colours
    <3>2. v \in Refs(o)
      BY <1>8, <2>4, <3>1
    <3>3. v \in Live
      BY <3>1, <3>2 DEF Closed, Fine
    <3>4. ~iswhite(v)
      BY <2>3, <2>4, <3>1, <3>2 DEF Marks, Marked
    <3> QED BY <1>1, <3>3, <3>4 DEF iswhite
  <2>5. ASSUME NEW o \in Alloc', isgray(o)'
        PROVE  Listed(o)'
    <3>1. Listed(o) /\ o \notin N /\ o \in Obj
      BY <2>2, <2>5 DEF Marks
    <3> QED BY <3>1 DEF Listed, listVars
  <2>6. ASSUME NEW t \in weak
        PROVE  kind'[t] = "tab"
    <3>1. kind[t] = "tab" /\ t \in Obj
      BY <2>6 DEF Marks, TypeOK
    <3> QED BY <3>1
  <2> QED BY <2>1, <2>4, <2>5, <2>6 DEF Marked
<1>16. Atomic'
  BY DEF Atomic, Mutating, phaseVars
<1> QED BY <1>10, <1>12, <1>13, <1>14, <1>15, <1>16

\* The operations that create or find objects.
LEMMA BirthOps ==
  ASSUME GCInv,
         \/ \E o \in Obj, k \in NewKinds, v \in Live \cup {Nil} : lj_mem_newgco(o, k, v)
         \/ \E s \in Obj : lj_str_new(s)
         \/ \E f, u \in Obj, i \in Slots : lj_func_newL_gc(f, u, i)
  PROVE  SafeInv'
<1> USE DEF GCInv, SafeInv, objVars, ctrlVars
<1>1. /\ TypeOK /\ Live \subseteq Alloc /\ Alloc \subseteq Obj /\ Nil \notin Obj
      /\ curL \in Obj /\ 1 .. top[curL] \subseteq Slots
  BY GCAssumption DEF TypeOK, Slots, Live, Alloc
<1>2. \A o \in Obj : o \notin Live <=> kind[o] = "free" \/ isdead(o)
  BY DEF Live, Alloc
<1>3. ASSUME NEW o \in Obj, NEW k \in NewKinds, NEW v \in Live \cup {Nil}, lj_mem_newgco(o, k, v)
      PROVE  SafeInv'
  <2>1. k \in Kinds \ {"upval", "trace"} /\ kind[o] = "free" /\ o \notin Live
    BY <1>2, <1>3, GCAssumption DEF lj_mem_newgco
  <2>2. /\ Mutating
        /\ UNCHANGED <<finalized, meta, open, curL, groot, cur, jitbase, listVars, phaseVars, cstack>>
        /\ \A p \in Obj \ {o} : kind'[p] = kind[p] /\ color'[p] = color[p] /\ ent'[p] = ent[p]
        /\ kind'[o] = k /\ color'[o] = currentwhite
        /\ ent'[o] = IF v = Nil THEN {} ELSE {<<Nil, v>>}
    BY <1>1, <1>3 DEF lj_mem_newgco, TypeOK
  <2>3. open[o] = <<>>
    BY <2>1 DEF Shape
  <2>4. ASSUME v # Nil
        PROVE  /\ k \notin {"str", "upval"}
               /\ k = "thread" => kind[v] # "upval"
               /\ k = "udata" => kind[v] = "tab"
    BY <1>3, <2>4 DEF lj_mem_newgco, Holds
  <2>5. v # Nil => v \in Live /\ v # o /\ v \in Obj
    BY <1>1, <2>1
  <2>6. \A e \in ent'[o] : /\ e[1] = Nil /\ e[2] \in Live \cup {o}
                           /\ kind'[o] \notin {"str", "upval"}
                           /\ kind'[o] = "thread" => kind'[e[2]] # "upval"
                           /\ kind'[o] = "udata" => kind'[e[2]] = "tab"
    BY <2>2, <2>4, <2>5
  <2>7. /\ stk' = stk \/ \E i \in Slots : stk' = [stk EXCEPT ![curL][i] = o]
        /\ reg' \in {reg, o} /\ (~jitbase => reg' = reg)
    BY <1>1, <1>3 DEF lj_mem_newgco, Held
  <2> DEFINE N == {o}
  <2>8. /\ N \in SUBSET (Obj \ Live) /\ o \in Live \cup N
        /\ \A p \in N : /\ color'[p] = currentwhite /\ kind'[p] \in Kinds
                        /\ kind[p] \in {"free", "str", "upval"} /\ kind[p] \in {"free", kind'[p]}
        /\ \A p \in N : \A e \in ent'[p] : /\ e[1] = Nil /\ e[2] \in Live \cup N
                                           /\ kind'[p] \notin {"str", "upval"}
                                           /\ kind'[p] = "thread" => kind'[e[2]] # "upval"
                                           /\ kind'[p] = "udata" => kind'[e[2]] = "tab"
        /\ \A p \in N : open'[p] # <<>> =>
             kind'[p] = "upval" /\ open'[p][1] = curL /\ open'[p][2] \in Slots
    BY <2>1, <2>2, <2>3, <2>6
  <2>9. \A p \in Obj \ N :
           kind'[p] = kind[p] /\ color'[p] = color[p] /\ ent'[p] = ent[p] /\ open'[p] = open[p]
    BY <2>2
  <2>10. kind'[o] # "upval"
    BY <2>1, <2>2
  <2> HIDE DEF N, GCInv, SafeInv
  <2>11. Birth(N, o)
    BY <2>2, <2>7, <2>8, <2>9, <2>10 DEF Birth
  <2> QED BY <2>11, BirthStep
<1>4. ASSUME NEW s \in Obj, lj_str_new(s)
      PROVE  SafeInv'
  <2> DEFINE N == IF isdead(s) THEN {s} ELSE {}
  <2>1. kind[s] = "str" /\ ent[s] = {} /\ open[s] = <<>>
    BY <1>4 DEF lj_str_new, Shape
  <2>2. /\ Mutating
        /\ UNCHANGED <<kind, ent, finalized, meta, open, curL, groot, cur, jitbase, listVars, phaseVars, cstack>>
        /\ \A p \in Obj \ {s} : color'[p] = color[p]
        /\ color'[s] = IF isdead(s) THEN currentwhite ELSE color[s]
    BY <1>1, <1>4 DEF lj_str_new, ResurrectStr, TypeOK
  <2>3. /\ N \in SUBSET (Obj \ Live) /\ s \in Live \cup N
        /\ \A p \in N : /\ color'[p] = currentwhite /\ kind'[p] \in Kinds
                        /\ kind[p] \in {"free", "str", "upval"} /\ kind[p] \in {"free", kind'[p]}
    BY <1>2, <2>1, <2>2 DEF Kinds
  <2>4. /\ stk' = stk \/ \E i \in Slots : stk' = [stk EXCEPT ![curL][i] = s]
        /\ reg' \in {reg, s} /\ (~jitbase => reg' = reg)
    BY <1>1, <1>4 DEF lj_str_new, Held
  <2>5. \A p \in N : ent'[p] = {} /\ open'[p] = <<>>
    BY <2>1, <2>2
  <2>6. \A p \in Obj \ N :
           kind'[p] = kind[p] /\ color'[p] = color[p] /\ ent'[p] = ent[p] /\ open'[p] = open[p]
    BY <2>2
  <2>7. kind'[s] # "upval"
    BY <2>1, <2>2
  <2>8. /\ \A p \in N : \A e \in ent'[p] : /\ e[1] = Nil /\ e[2] \in Live \cup N
                                           /\ kind'[p] \notin {"str", "upval"}
                                           /\ kind'[p] = "thread" => kind'[e[2]] # "upval"
                                           /\ kind'[p] = "udata" => kind'[e[2]] = "tab"
        /\ \A p \in N : open'[p] # <<>> =>
             kind'[p] = "upval" /\ open'[p][1] = curL /\ open'[p][2] \in Slots
    BY <2>5
  <2> HIDE DEF N, GCInv, SafeInv
  <2>11. Birth(N, s)
    BY <2>2, <2>3, <2>4, <2>6, <2>7, <2>8 DEF Birth
  <2> QED BY <2>11, BirthStep
<1>5. ASSUME NEW f \in Obj, NEW u \in Obj, NEW i \in Slots, lj_func_newL_gc(f, u, i)
      PROVE  SafeInv'
  <2> DEFINE N == {f} \cup (IF kind[u] = "free" \/ isdead(u) THEN {u} ELSE {})
  <2>1. /\ kind[f] = "free" /\ f # u /\ Mutating
        /\ kind[u] = "free" \/ open[u] = <<curL, i>>
    BY <1>5 DEF lj_func_newL_gc, Interp, func_finduv, OpenUV
  <2>2. kind[u] \in {"free", "upval"} /\ ent[u] = {} /\ open[f] = <<>> /\ (kind[u] = "free" => open[u] = <<>>)
    <3> HIDE DEF N
    <3>1. kind[u] = "free" => ent[u] = {} /\ open[u] = <<>>
      BY DEF Shape
    <3>2. open[u] = <<curL, i>> => ent[u] = {} /\ kind[u] = "upval"
      BY DEF Shape
    <3>3. open[f] = <<>>
      BY <2>1 DEF Shape
    <3> QED BY <2>1, <3>1, <3>2, <3>3
  <2>3. /\ UNCHANGED <<finalized, meta, curL, groot, cur, jitbase, reg, listVars, phaseVars, cstack>>
        /\ \A p \in Obj \ {f, u} :
             kind'[p] = kind[p] /\ color'[p] = color[p] /\ ent'[p] = ent[p] /\ open'[p] = open[p]
        /\ kind'[f] = "func" /\ color'[f] = currentwhite /\ ent'[f] = {<<Nil, u>>} /\ open'[f] = <<>>
        /\ kind'[u] = "upval" /\ ent'[u] = {} /\ open'[u] = <<curL, i>>
        /\ color'[u] = IF kind[u] = "free" \/ isdead(u) THEN currentwhite ELSE color[u]
    <3> HIDE DEF N, GCInv, SafeInv
    <3>1. /\ kind' = [kind EXCEPT ![f] = "func", ![u] = "upval"]
          /\ color' = [color EXCEPT ![f] = currentwhite, ![u] = FoundColor(u)]
          /\ open' = [open EXCEPT ![u] = <<curL, i>>]
          /\ ent' = [ent EXCEPT ![f] = {<<Nil, u>>}]
          /\ UNCHANGED <<finalized, meta, rootVars, listVars, phaseVars, ctrlVars>>
      BY <1>5 DEF lj_func_newL_gc
    <3>2. UNCHANGED <<finalized, meta, curL, groot, cur, jitbase, reg, listVars, phaseVars, cstack>>
      BY <3>1 DEF rootVars, jitVars, ctrlVars
    <3>3. DOMAIN kind = Obj /\ DOMAIN color = Obj /\ DOMAIN open = Obj /\ DOMAIN ent = Obj
      BY DEF GCInv, TypeOK
    <3>4. \A p \in Obj \ {f, u} :
             kind'[p] = kind[p] /\ color'[p] = color[p] /\ ent'[p] = ent[p] /\ open'[p] = open[p]
      BY <3>1, <3>3
    <3>5. kind'[f] = "func" /\ color'[f] = currentwhite /\ ent'[f] = {<<Nil, u>>} /\ open'[f] = <<>>
      BY <2>1, <2>2, <3>1, <3>3
    <3>6. /\ kind'[u] = "upval" /\ ent'[u] = {} /\ open'[u] = <<curL, i>>
          /\ color'[u] = FoundColor(u)
      BY <2>1, <2>2, <3>1, <3>3
    <3> QED BY <3>2, <3>4, <3>5, <3>6 DEF FoundColor
  <2>4. f \in Live \cup N /\ u \in Live \cup N /\ N \in SUBSET (Obj \ Live)
    BY <1>2, <2>1
  <2>5. \A p \in Obj \ N :
           kind'[p] = kind[p] /\ color'[p] = color[p] /\ ent'[p] = ent[p] /\ open'[p] = open[p]
    BY <2>1, <2>2, <2>3
  <2>6. \A p \in N : p \in {f, u}
    OBVIOUS
  <2>7. /\ \A p \in N : /\ color'[p] = currentwhite /\ kind'[p] \in Kinds
                        /\ kind[p] \in {"free", "str", "upval"} /\ kind[p] \in {"free", kind'[p]}
        /\ \A p \in N : open'[p] # <<>> =>
             kind'[p] = "upval" /\ open'[p][1] = curL /\ open'[p][2] \in Slots
    BY <2>1, <2>2, <2>3 DEF Kinds
  <2>8. \A p \in N : \A e \in ent'[p] : /\ e[1] = Nil /\ e[2] \in Live \cup N
                                        /\ kind'[p] \notin {"str", "upval"}
                                        /\ kind'[p] = "thread" => kind'[e[2]] # "upval"
                                        /\ kind'[p] = "udata" => kind'[e[2]] = "tab"
    BY <2>3, <2>4, <2>6
  <2>9. \E j \in Slots : stk' = [stk EXCEPT ![curL][j] = f]
    BY <1>1, <1>5 DEF lj_func_newL_gc
  <2>10. kind'[f] # "upval" /\ reg' \in {reg, f}
    BY <2>3
  <2> HIDE DEF N, GCInv, SafeInv
  <2>11. Birth(N, f)
    BY <2>1, <2>3, <2>4, <2>5, <2>7, <2>8, <2>9, <2>10 DEF Birth
  <2> QED BY <2>11, BirthStep
<1> QED BY <1>3, <1>4, <1>5

\* A finished trace is saved; its prototype, or the parent it is linked to, may
\* be black, so lj_gc_barriertrace() makes the new trace gray.
LEMMA TraceStopSafe ==
  ASSUME GCInv, NEW T \in Obj, NEW p \in Live, kind[p] \in {"proto", "trace"}, trace_stop(T, p)
  PROVE  SafeInv'
<1> USE DEF GCInv, SafeInv
<1>1. /\ Alloc \subseteq Obj /\ Live \subseteq Alloc /\ Nil \notin Obj /\ Main \in Obj
      /\ color \in [Obj -> Colors] /\ currentwhite \in Whites
      /\ kind[T] = "free" /\ T \notin Alloc /\ p # T /\ p \in Obj
  BY GCAssumption DEF Alloc, Live, TypeOK, trace_stop
<1>2. /\ Mutating
      /\ UNCHANGED <<finalized, meta, open, stk, curL, groot, jitbase, reg, grayagain, weak, phaseVars, cstack>>
      /\ currentwhite' = currentwhite /\ gcstate' = gcstate /\ atomicpc = "none" /\ atomicpc' = "none"
      /\ cur' = {}
      /\ \A o \in Obj \ {T} : kind'[o] = kind[o] /\ color'[o] = color[o]
      /\ kind'[T] = "trace" /\ color'[T] = SavedColor
      /\ \A o \in Obj \ {T, p} : ent'[o] = ent[o]
      /\ gray' = IF gcstate \in Marking THEN gray \cup {T} ELSE gray
  BY <1>1 DEF trace_stop, Interp, Mutating, TypeOK, ctrlVars, phaseVars
<1>3. /\ \A e \in ent'[p] : e \in ent[p] \/ e = <<Nil, T>>
      /\ \A e \in ent'[T] : e \in ent[p] \/ (e[1] = Nil /\ e[2] \in cur)
  BY <1>1 DEF trace_stop, TypeOK
<1>4. cur \subseteq Live /\ T \notin Live /\ Main \in Live
  BY <1>1 DEF Closed, Roots
<1>5. SavedColor \in {"gray", currentwhite} /\ (gcstate \notin Marking => SavedColor = currentwhite)
      /\ (gcstate \in Marking => SavedColor = "gray")
  BY DEF SavedColor
<1>6. \A e \in ent[p] : e[1] = Nil
  BY <1>1 DEF Shape
<1>7. open[T] = <<>> /\ open[p] = <<>> /\ meta[T] = Nil /\ SlotRefs(T, Slots) = {}
  BY <1>1 DEF Shape
<1>8. ASSUME NEW o \in Live
      PROVE  Refs(o)' \subseteq Refs(o) \cup {T} /\ (o # p => Refs(o)' \subseteq Refs(o))
  <2>1. o \in Obj /\ o # T
    BY <1>1
  <2>2. o # p => Refs(o)' \subseteq Refs(o) \cup ({} \ {Nil})
    BY <1>2, <2>1, RefsChange
  <2>3. \A e \in ent'[p] : e \in ent[p] \/ {e[1], e[2]} \subseteq {T} \cup {Nil}
    BY <1>3
  <2>4. Refs(p)' \subseteq Refs(p) \cup ({T} \ {Nil})
    <3>1. /\ p \in Obj /\ open'[p] = open[p] /\ open[p] = <<>>
          /\ meta'[p] \in {meta[p], Nil} \cup {T}
          /\ \A i \in Slots : stk'[p][i] \in {stk[p][i], Nil} \cup {T}
      BY <1>1, <1>2, <1>7
    <3> HIDE DEF GCInv, SafeInv
    <3> QED BY <2>3, <3>1, RefsChange
  <2> QED BY <2>2, <2>4
<1>9. Refs(T)' \subseteq Live
  <2>1. Values(p) \subseteq Live
    BY <1>1, RefsOf DEF Closed, Fine
  <2>2. Values(T)' \subseteq Values(p) \cup cur /\ Keys(T)' = {}
    BY <1>3, <1>6 DEF Values, Keys, Nodes
  <2>3. MetaOf(T)' = {} /\ SlotRefs(T, Slots)' = {} /\ uvval(T)' = Values(T)'
    BY <1>2, <1>7 DEF MetaOf, SlotRefs, uvval
  <2> QED BY <1>4, <2>1, <2>2, <2>3 DEF Refs
<1>10. Alloc' = Alloc \cup {T} /\ Live' = Live \cup {T}
  <2>1. \A o \in Obj \ {T} : (o \in Alloc' <=> o \in Alloc) /\ (o \in Live' <=> o \in Live)
    BY <1>2 DEF Alloc, Live, isdead, otherwhite
  <2>2. T \in Alloc' /\ T \in Live'
    BY <1>1, <1>2, <1>5 DEF Alloc, Live, isdead, otherwhite, Whites
  <2>3. Alloc' \subseteq Obj /\ Live' \subseteq Obj
    BY DEF Alloc, Live
  <2> QED BY <1>1, <2>1, <2>2, <2>3
<1>11. Shape'
  <2>1. /\ \A o \in Obj : kind'[o] = "free" => ent'[o] = {} /\ meta'[o] = Nil
        /\ \A o \in Obj : meta'[o] # Nil => kind'[o] \in {"tab", "udata"}
        /\ \A u \in finalized' : kind'[u] = "udata"
        /\ kind'[Main] = "thread" /\ kind'[curL'] = "thread"
        /\ ~jitbase' => reg' = Nil
    <3>1. \A o \in Obj : kind'[o] = "free" => o \notin {T, p} /\ kind[o] = "free"
      BY <1>1, <1>2
    <3>2. \A u \in finalized : u \in Obj /\ u # T
      BY <1>1 DEF Shape, TypeOK
    <3>3. kind'[Main] = "thread" /\ kind'[curL] = "thread"
      BY <1>1, <1>2 DEF Shape, TypeOK
    <3> QED BY <1>1, <1>2, <1>7, <3>1, <3>2, <3>3 DEF Shape
  <2>2. /\ \A o \in Obj : kind'[o] # "tab" => \A e \in ent'[o] : e[1] = Nil
        /\ \A o \in Obj : kind'[o] = "str" => ent'[o] = {}
    BY <1>1, <1>2, <1>3, <1>6 DEF Shape
  <2>3. \A o \in Obj : kind'[o] # "thread" => SlotRefs(o, Slots)' = {}
    BY <1>2, <1>7 DEF Shape, SlotRefs
  <2>4. \A o \in Obj : open[o] # <<>> => open[o][1] \in Obj
    BY RefsOf
  <2>5. \A o \in Obj : open'[o] # <<>> =>
          kind'[o] = "upval" /\ ent'[o] = {} /\ kind'[open'[o][1]] = "thread"
    BY <1>1, <1>2, <1>7, <2>4 DEF Shape
  <2> QED BY <2>1, <2>2, <2>3, <2>5 DEF Shape
<1>12. Closed'
  <2>1. \A o \in Live : kind'[o] = kind[o]
    BY <1>1, <1>2
  <2>2. ASSUME NEW o \in Live', NEW v \in Refs(o)'
        PROVE  (o \in Live /\ v \in Refs(o)) \/ Fine(o, v)'
    <3>1. CASE o = T
      BY <1>2, <1>9, <1>10, <3>1 DEF Fine
    <3>2. CASE o \in Live
      BY <1>1, <1>2, <1>8, <1>10, <3>2 DEF Fine
    <3> QED BY <1>10, <3>1, <3>2
  <2>3. Roots' \subseteq Roots /\ mmudata' = mmudata
    BY <1>2 DEF Roots, FinArgs, phaseVars
  <2>4. reg' # Nil => reg \in Live /\ kind'[reg'] # "upval"
    BY <1>2, <2>1 DEF Closed, Roots
  <2>5. Roots' \cup mmudata' \subseteq Live'
    BY <1>10, <2>3 DEF Closed
  <2> QED BY <1>10, <2>1, <2>2, <2>4, <2>5, ClosedStep
<1>13. ASSUME NEW o \in Alloc', o # T
       PROVE  o \in Alloc /\ o \in Obj /\ isblack(o)' = isblack(o) /\ isgray(o)' = isgray(o)
  BY <1>1, <1>2, <1>10, <1>13 DEF isblack, isgray
<1>14. Colours'
  <2>1. gcstate' \notin Sweeps => Alloc' = Live'
    BY <1>2, <1>10 DEF Colours
  <2>2. \A o \in Alloc' : o # T => /\ isblack(o)' => kind'[o] \notin {"thread", "str"} /\ open'[o] = <<>>
                                   /\ isgray(o)' => kind'[o] # "udata"
    BY <1>2, <1>13 DEF Colours
  <2>3. ~isblack(T)'
    BY <1>1, <1>2, <1>5 DEF isblack, Whites
  <2> QED BY <1>2, <2>1, <2>2, <2>3 DEF Colours
<1>15. Swept'
  BY <1>1, <1>2, <1>5, <1>10 DEF Swept, Passed, phaseVars
<1>16. Marks'
  <2> SUFFICES ASSUME gcstate \in Marking
               PROVE  /\ ~iswhite(Main)'
                      /\ \A o \in Alloc' : isblack(o)' /\ o \notin mmudata => Marked(Refs(o))'
                      /\ \A o \in Alloc' : isgray(o)' => Listed(o)'
                      /\ \A t \in weak : kind'[t] = "tab"
    BY <1>2 DEF Marks, phaseVars
  <2>1. ~iswhite(Main)'
    BY <1>1, <1>2, <1>4 DEF Marks, iswhite
  <2>2. Alloc = Live
    BY DEF Colours, Marking, Sweeps
  <2>3. ~iswhite(T)' /\ Listed(T)' /\ ~isblack(T)'
    BY <1>2, <1>5 DEF iswhite, Listed, isblack, Whites
  <2>4. ASSUME NEW o \in Alloc', isblack(o)', o \notin mmudata, NEW v \in Refs(o)'
        PROVE  ~iswhite(v)'
    <3>1. o \in Live /\ isblack(o)
      BY <1>13, <2>2, <2>3, <2>4
    <3>2. CASE v \in Refs(o)
      <4>1. v \in Live /\ ~iswhite(v)
        BY <2>2, <2>4, <3>1, <3>2 DEF Marks, Marked, Closed, Fine
      <4> QED BY <1>1, <1>2, <4>1 DEF iswhite
    <3>3. CASE v = T
      BY <2>3, <3>3
    <3> QED BY <1>8, <3>1, <3>2, <3>3
  <2>5. ASSUME NEW o \in Alloc', isgray(o)', o # T
        PROVE  Listed(o)'
    BY <1>2, <1>13, <2>5 DEF Marks, Listed
  <2>6. \A t \in weak : t \in Obj /\ kind'[t] = "tab"
    BY <1>1, <1>2 DEF Marks, TypeOK
  <2> QED BY <2>1, <2>3, <2>4, <2>5, <2>6 DEF Marked
<1>17. Atomic'
  BY <1>2 DEF Atomic
<1> QED BY <1>11, <1>12, <1>14, <1>15, <1>16, <1>17

-----------------------------------------------------------------------------
(* Freeing objects and closing upvalues.                                   *)

\* Closing an upvalue keeps what it refers to.
LEMMA FreeEffect ==
  ASSUME TypeOK, Shape, NEW F \in SUBSET Obj, NEW C \in SUBSET {o \in Obj \ F : open[o] # <<>>},
         FreeAndClose(F, C), UNCHANGED <<curL, reg, jitbase>>, Main \notin F, curL \notin F,
         \A o \in Obj \ (F \cup C) : open[o] # <<>> => open[o][1] \notin F
  PROVE  /\ Shape' /\ Alloc' = Alloc \ F
         /\ \A o \in Obj \ F : Refs(o)' = Refs(o) /\ kind'[o] = kind[o]
         /\ \A o \in F \cup C : open'[o] = <<>>
         /\ \A o \in Obj \ (F \cup C) : open'[o] = open[o]
<1>1. /\ \A o \in F : /\ kind'[o] = "free" /\ ent'[o] = {} /\ open'[o] = <<>> /\ meta'[o] = Nil
                      /\ stk'[o] = [i \in Slots |-> Nil]
      /\ \A o \in Obj \ F : kind'[o] = kind[o] /\ meta'[o] = meta[o] /\ stk'[o] = stk[o]
      /\ \A o \in C : open'[o] = <<>> /\ ent'[o] = {<<Nil, v>> : v \in uvval(o)}
      /\ \A o \in Obj \ (F \cup C) : open'[o] = open[o] /\ ent'[o] = ent[o]
      /\ finalized' = finalized \ F
  BY DEF FreeAndClose
<1>2. \A o \in C : kind[o] = "upval" /\ o \in Obj \ F
  BY DEF Shape
<1>3. \A o \in F : SlotRefs(o, Slots)' = {}
  BY <1>1 DEF SlotRefs
<1>4. \A o \in Obj \ F : SlotRefs(o, Slots)' = SlotRefs(o, Slots)
  BY <1>1 DEF SlotRefs
<1>5. \A o \in Obj : open[o] # <<>> => open[o] \in Obj \X Slots
  BY DEF TypeOK
<1>6. Shape'
  <2>1. /\ \A o \in Obj : kind'[o] = "free" => ent'[o] = {} /\ meta'[o] = Nil
        /\ \A o \in Obj : meta'[o] # Nil => kind'[o] \in {"tab", "udata"}
        /\ \A o \in Obj : kind'[o] = "str" => ent'[o] = {}
    BY <1>1, <1>2 DEF Shape
  <2>2. \A o \in Obj : kind'[o] # "tab" => \A e \in ent'[o] : e[1] = Nil
    BY <1>1, <1>2 DEF Shape
  <2>3. \A o \in Obj : kind'[o] # "thread" => SlotRefs(o, Slots)' = {}
    BY <1>1, <1>3, <1>4 DEF Shape
  <2>4. \A o \in Obj : open'[o] # <<>> =>
          kind'[o] = "upval" /\ ent'[o] = {} /\ kind'[open'[o][1]] = "thread"
    <3> SUFFICES ASSUME NEW o \in Obj, open'[o] # <<>>
                 PROVE  kind'[o] = "upval" /\ ent'[o] = {} /\ kind'[open'[o][1]] = "thread"
      OBVIOUS
    <3>1. o \in Obj \ (F \cup C) /\ open'[o] = open[o] /\ ent'[o] = ent[o]
      BY <1>1
    <3>2. open[o][1] \in Obj \ F
      BY <1>5, <3>1
    <3> QED BY <1>1, <3>1, <3>2 DEF Shape
  <2>5. kind'[Main] = "thread" /\ kind'[curL'] = "thread" /\ (~jitbase' => reg' = Nil)
    BY <1>1, GCAssumption DEF Shape, TypeOK
  <2>6. \A u \in finalized' : kind'[u] = "udata"
    BY <1>1 DEF Shape, TypeOK
  <2> QED BY <2>1, <2>2, <2>3, <2>4, <2>5, <2>6 DEF Shape
<1>7. ASSUME NEW o \in Obj \ F
      PROVE  Refs(o)' = Refs(o)
  <2>1. CASE o \in C
    <3>1. open[o] # <<>> /\ ent[o] = {} /\ Keys(o) = {} /\ MetaOf(o) = {} /\ SlotRefs(o, Slots) = {}
          /\ Values(o) = {} /\ meta[o] = Nil
      BY <1>2, <2>1 DEF Shape, Keys, Values, Nodes, MetaOf
    <3>2. Refs(o) = uvval(o) /\ Nil \notin uvval(o)
      BY <3>1 DEF Refs, uvval
    <3>3. Values(o)' = uvval(o) /\ Keys(o)' = {}
      <4>1. ent'[o] = {<<Nil, v>> : v \in uvval(o)}
        BY <1>1, <2>1
      <4>2. \A e \in ent'[o] : e[1] = Nil /\ e[2] \in uvval(o)
        BY <4>1
      <4>3. \A v \in uvval(o) : \E e \in ent'[o] : e[2] = v /\ v # Nil
        <5> TAKE v \in uvval(o)
        <5>1. <<Nil, v>> \in ent'[o] /\ <<Nil, v>>[2] = v
          BY <4>1
        <5>2. v # Nil
          BY <3>2
        <5> QED BY <5>1, <5>2
      <4> QED BY <4>2, <4>3 DEF Values, Keys, Nodes
    <3>4. uvval(o)' = Values(o)' /\ MetaOf(o)' = {}
      BY <1>1, <2>1, <3>1 DEF uvval, MetaOf
    <3> QED BY <1>4, <3>1, <3>2, <3>3, <3>4 DEF Refs
  <2>2. CASE o \notin C
    <3>1. open'[o] = open[o] /\ ent'[o] = ent[o] /\ meta'[o] = meta[o]
      BY <1>1, <2>2
    <3>2. Values(o)' = Values(o) /\ Keys(o)' = Keys(o) /\ MetaOf(o)' = MetaOf(o)
      BY <3>1 DEF Values, Keys, Nodes, MetaOf
    <3>3. open[o] # <<>> => stk'[open[o][1]] = stk[open[o][1]]
      BY <1>1, <1>5, <2>2
    <3>4. uvval(o)' = uvval(o)
      BY <3>1, <3>2, <3>3 DEF uvval
    <3> QED BY <1>4, <3>2, <3>4 DEF Refs
  <2> QED BY <2>1, <2>2
<1>8. Alloc' = Alloc \ F
  BY <1>1 DEF Alloc
<1> QED BY <1>1, <1>6, <1>7, <1>8

\* gc_mark() of objects that are no upvalues marks no upvalue.
LEMMA MarkNoUpval ==
  ASSUME TypeOK, Shape, Closed, NEW c \in [Obj -> Colors], NEW S \in SUBSET Live,
         \A s \in S : kind[s] # "upval"
  PROVE  \A o \in MarkSet(c, S) : kind[o] # "upval"
<1> DEFINE white(T) == {o \in T : c[o] \in Whites}
           w1 == white(S)
           w2 == w1 \cup white(UNION {uvval(u) : u \in {x \in w1 : kind[x] = "upval"}})
<1>1. w2 = w1 /\ w1 \subseteq S
  OBVIOUS
<1>2. MarkSet(c, S) = w1 \cup white(UNION {Values(u) \cup MetaOf(u) : u \in {x \in w1 : kind[x] = "udata"}})
  BY <1>1 DEF MarkSet
<1>3. \A u \in S : kind[u] = "udata" => \A v \in Values(u) \cup MetaOf(u) : kind[v] = "tab"
  <2>1. \A u \in S : u \in Obj /\ Values(u) \cup MetaOf(u) \subseteq Refs(u)
    BY DEF Live, Alloc, Refs
  <2> QED BY <2>1 DEF Closed, Fine
<1> HIDE DEF w1
<1> QED BY <1>1, <1>2, <1>3

\* lj_func_closeuv(): dead upvalues are freed; of the others, a gray one turns
\* black and has its value marked, or is made white while the sweep is under way.
LEMMA CloseUVSafe ==
  ASSUME GCInv, NEW level \in Slots, lj_func_closeuv(level)
  PROVE  SafeInv'
<1> USE DEF GCInv, SafeInv
<1> DEFINE U == OpenUV(curL, level .. NSlots)
           D == {u \in U : isdead(u)}
           G == {u \in U : isgray(u)}
           C == U \ D
<1>1. /\ Mutating /\ FreeAndClose(D, C) /\ lj_gc_closeuv(D, G)
      /\ UNCHANGED <<grayagain, weak, rootVars, phaseVars, cstack>>
      /\ currentwhite' = currentwhite /\ gcstate' = gcstate /\ mmudata' = mmudata /\ sweeping' = sweeping
      /\ UNCHANGED <<curL, reg, jitbase, cur, groot>>
      /\ atomicpc = "none" /\ atomicpc' = "none"
  BY DEF lj_func_closeuv, Interp, Mutating, rootVars, jitVars, phaseVars, ctrlVars
<1>2. /\ Alloc \subseteq Obj /\ Live \subseteq Alloc /\ Nil \notin Obj /\ Main \in Obj /\ curL \in Obj
      /\ color \in [Obj -> Colors] /\ currentwhite \in Whites
      /\ level .. NSlots \subseteq Slots
  BY GCAssumption DEF Alloc, Live, TypeOK, Slots
<1>3. /\ \A u \in U : /\ u \in Obj /\ open[u] # <<>> /\ open[u][1] = curL /\ kind[u] = "upval"
                      /\ u \in Alloc /\ ~isblack(u)
  BY <1>2 DEF OpenUV, Shape, Colours, Alloc
<1>4. /\ D \in SUBSET Obj /\ C \in SUBSET {o \in Obj \ D : open[o] # <<>>}
      /\ \A o \in C : o \in U /\ o \in Live
      /\ \A o \in D : o \in U /\ o \notin Live
      /\ \A o \in G : o \in C
      /\ D \cup C = U
  BY <1>2, <1>3 DEF Live, isdead, isgray, otherwhite, Whites
<1>5. \A o \in Obj \ U : open[o] # <<>> => open[o][1] \notin D
  <2>1. \A o \in D : kind[o] = "upval"
    BY <1>3, <1>4
  <2> QED BY <2>1 DEF Shape
<1>6. Main \notin D /\ curL \notin D
  BY <1>3, <1>4 DEF Shape
<1>7. \A u \in G : /\ uvval(u) \subseteq Live /\ uvval(u) = Refs(u)
                   /\ \A v \in uvval(u) : kind[v] # "upval"
  <2>1. \A u \in G : u \in Live /\ u \in Obj /\ kind[u] = "upval" /\ open[u] # <<>>
    BY <1>3, <1>4
  <2> QED BY <2>1, RefsOf DEF Closed, Fine
<1> HIDE DEF U, C
<1>8. /\ Shape' /\ Alloc' = Alloc \ D
      /\ \A o \in Obj \ D : Refs(o)' = Refs(o) /\ kind'[o] = kind[o]
      /\ \A o \in U : open'[o] = <<>>
      /\ \A o \in Obj \ U : open'[o] = open[o]
  <2>1. /\ Shape' /\ Alloc' = Alloc \ D
        /\ \A o \in Obj \ D : Refs(o)' = Refs(o) /\ kind'[o] = kind[o]
        /\ \A o \in D \cup C : open'[o] = <<>>
        /\ \A o \in Obj \ (D \cup C) : open'[o] = open[o]
    <3> HIDE DEF D
    <3> QED BY <1>1, <1>4, <1>5, <1>6, FreeEffect
  <2> QED BY <1>4, <2>1
<1>9. /\ \A o \in Live : Refs(o) \subseteq Live
      /\ \A o \in Live : kind'[o] = kind[o] /\ o \notin D /\ o \in Obj
      /\ Live \cap D = {}
  BY <1>2, <1>4, <1>8 DEF Closed, Fine
<1>10. Roots' = Roots /\ Roots \cup mmudata \subseteq Live
  BY <1>1 DEF Roots, FinArgs, Closed
<1>11. ASSUME Live' = Live
       PROVE  Closed'
  <2>1. \A o \in Live' : \A v \in Refs(o)' : o \in Live /\ v \in Refs(o)
    BY <1>8, <1>9, <1>11
  <2>2. reg' # Nil => kind'[reg'] # "upval"
    BY <1>1, <1>9 DEF Closed, Roots
  <2> QED BY <1>1, <1>9, <1>10, <1>11, <2>1, <2>2, ClosedStep
<1>12. CASE gcstate \notin Marking
  <2>1. color' = Recolored(D, G, currentwhite)
    BY <1>1, <1>12 DEF lj_gc_closeuv
  <2>2. \A o \in Obj \ D : color'[o] = IF o \in G THEN currentwhite ELSE color[o]
    BY <2>1 DEF Recolored
  <2>3. \A o \in Obj \ D : /\ isdead(o)' <=> isdead(o)
                           /\ isblack(o)' => isblack(o)
                           /\ isgray(o)' => isgray(o)
    BY <1>1, <1>2, <2>2 DEF isdead, isblack, isgray, otherwhite, Whites
  <2>4. Live' = Live
    <3>1. Live' \subseteq Obj
      BY DEF Live, Alloc
    <3> QED BY <1>2, <1>8, <1>9, <2>3, <3>1 DEF Live
  <2>5. Colours'
    <3>1. gcstate' \notin Sweeps => Alloc' = Live'
      BY <1>1, <1>8, <1>9, <2>4 DEF Colours
    <3>2. ASSUME NEW o \in Alloc'
          PROVE  /\ isblack(o)' => kind'[o] \notin {"thread", "str"} /\ open'[o] = <<>>
                 /\ isgray(o)' => kind'[o] # "udata"
      <4>1. o \in Alloc /\ o \in Obj \ D
        BY <1>2, <1>8
      <4> QED BY <1>8, <2>3, <4>1 DEF Colours
    <3> QED BY <3>1, <3>2 DEF Colours
  <2>6. Swept'
    <3> SUFFICES ASSUME NEW o \in Alloc' \ mmudata, Passed(o)'
                 PROVE  color'[o] = currentwhite
      BY <1>1 DEF Swept
    <3>1. o \in Alloc /\ o \in Obj \ D
      BY <1>2, <1>8
    <3>2. CASE o \in U
      <4>1. ~isdead(o) /\ ~isblack(o)
        BY <1>3, <3>1, <3>2
      <4>2. color[o] = currentwhite \/ o \in G
        <5>1. color[o] \in {"white0", "white1", "gray", "black"}
          BY <1>2, <3>1 DEF Colors, Whites
        <5>2. color[o] # "gray" => color[o] = currentwhite
          BY <1>2, <4>1, <5>1 DEF isdead, isblack, otherwhite, Whites
        <5>3. color[o] = "gray" => o \in G
          BY <3>2 DEF isgray
        <5> QED BY <5>2, <5>3
      <4> QED BY <2>2, <3>1, <4>2
    <3>3. CASE o \notin U
      <4>1. Passed(o)
        BY <1>1, <1>8, <3>1, <3>3 DEF Passed
      <4>2. color[o] = currentwhite
        BY <1>12, <3>1, <4>1 DEF Swept
      <4> QED BY <2>2, <3>1, <4>2
    <3> QED BY <3>2, <3>3
  <2>7. Marks' /\ Atomic'
    BY <1>1, <1>12 DEF Marks, Atomic
  <2> QED BY <1>8, <1>11, <2>4, <2>5, <2>6, <2>7
<1>13. CASE gcstate \in Marking
  <2> DEFINE c == Recolored(D, G, "black")
             S == UNION {uvval(u) : u \in G}
  <2>1. Alloc = Live /\ D = {} /\ gcstate \notin Sweeps
    BY <1>3, <1>4, <1>13 DEF Colours, Marking, Sweeps
  <2>2. gc_mark(c, gray, S)
    BY <1>1, <1>13 DEF lj_gc_closeuv
  <2>3. c = [o \in Obj |-> IF o \in G THEN "black" ELSE color[o]]
    BY <2>1 DEF Recolored
  <2>4. c \in [Obj -> Colors] /\ gray \in SUBSET Obj
    BY <1>2, <2>3 DEF Colors, TypeOK
  <2>5. S \in SUBSET Live /\ \A s \in S : kind[s] # "upval"
    BY <1>7
  <2> HIDE DEF c, S
  <2>6. MarkedBy(c, S) /\ gray \subseteq gray'
    BY <2>1, <2>2, <2>4, <2>5, MarkEffect
  <2>7. \A o \in Obj : kind[o] = "upval" => color'[o] = c[o]
    BY <2>2, <2>4, <2>5, MarkNoUpval DEF gc_mark, Painted
  <2>8. color' \in [Obj -> Colors]
    BY <2>6 DEF MarkedBy
  <2>9. \A o \in Obj : ~iswhite(o) => ~iswhite(o)'
    <3>1. \A o \in Obj : ~iswhite(o) => c[o] \notin Whites
      BY <2>3 DEF iswhite, Whites
    <3> QED BY <2>6, <3>1 DEF MarkedBy, iswhite
  <2>10. \A o \in Alloc : ~isdead(o)'
    <3> SUFFICES ASSUME NEW o \in Alloc, isdead(o)'
                 PROVE  FALSE
      OBVIOUS
    <3>1. o \in Obj /\ ~isdead(o) /\ color'[o] = otherwhite /\ otherwhite \in Whites
      BY <1>1, <1>2, <2>1 DEF Live, isdead, otherwhite, Whites
    <3>2. c[o] = color'[o]
      BY <2>6, <3>1 DEF MarkedBy, Whites
    <3>3. o \notin G
      BY <2>3, <3>1, <3>2 DEF Whites
    <3> QED BY <2>3, <3>1, <3>2, <3>3 DEF isdead
  <2>11. Alloc' = Alloc /\ Live' = Live
    BY <1>2, <1>8, <2>1, <2>10 DEF Live
  <2>12. ASSUME NEW o \in Alloc, isblack(o)', o \in mmudata => atomicpc = "udata"
         PROVE  /\ kind[o] \notin {"thread", "str"} /\ open'[o] = <<>>
                /\ \A v \in Refs(o) : color'[v] \notin Whites
    <3>0. o \in Obj
      BY <1>2
    <3>1. CASE isblack(o)
      <4>1. open[o] = <<>> /\ kind[o] \notin {"thread", "str"} /\ Marked(Refs(o)) /\ Refs(o) \subseteq Obj
        BY <1>13, <2>12, <3>0, <3>1, RefsOf DEF Colours, Marks
      <4>2. open'[o] = <<>>
        BY <1>3, <1>8, <3>0, <4>1
      <4> QED BY <2>9, <4>1, <4>2 DEF Marked, iswhite
    <3>2. CASE o \in G
      <4>1. kind[o] = "upval" /\ open'[o] = <<>>
        BY <1>3, <1>4, <1>8, <3>2
      <4>2. \A v \in Refs(o) : v \in S
        BY <1>7, <3>2 DEF S
      <4> QED BY <2>6, <4>1, <4>2 DEF MarkedBy
    <3>3. CASE ~isblack(o) /\ o \notin G
      <4>1. c[o] = color[o] /\ c[o] # "black"
        BY <2>3, <3>0, <3>3 DEF isblack
      <4>2. c[o] \in Whites
        BY <2>6, <2>12, <3>0, <4>1 DEF MarkedBy, isblack
      <4>3. /\ kind[o] = "udata" \/ (kind[o] = "upval" /\ open[o] = <<>>)
            /\ \A v \in Refs(o) : color'[v] \notin Whites
        BY <2>6, <2>12, <3>0, <4>2 DEF MarkedBy, isblack
      <4>4. open[o] = <<>>
        BY <3>0, <4>3, RefsOf
      <4>5. open'[o] = <<>>
        BY <1>3, <1>8, <3>0, <4>4
      <4> QED BY <4>3, <4>5
    <3> QED BY <3>1, <3>2, <3>3
  <2>13. ASSUME NEW o \in Alloc, isgray(o)'
         PROVE  kind[o] # "udata" /\ Listed(o)'
    <3>0. o \in Obj
      BY <1>2
    <3>1. CASE isgray(o) /\ o \notin G
      <4>1. Listed(o) /\ kind[o] # "udata" /\ o \notin U
        BY <1>13, <3>1 DEF Colours, Marks
      <4> QED BY <1>1, <1>8, <2>1, <2>6, <3>0, <4>1 DEF Listed
    <3>2. CASE o \in G
      <4>1. c[o] = "black"
        BY <2>3, <3>0, <3>2
      <4> QED BY <2>6, <2>13, <3>0, <4>1 DEF MarkedBy, isgray, Whites
    <3>3. CASE ~isgray(o) /\ o \notin G
      <4>1. c[o] = color[o]
        BY <2>3, <3>0, <3>3
      <4>2. c[o] \in Whites
        BY <2>6, <2>13, <3>0, <3>3, <4>1 DEF MarkedBy, isgray
      <4>3. kind[o] # "udata" /\ (o \in gray' \/ kind[o] = "str" \/ open[o] # <<>>)
        BY <2>6, <2>13, <3>0, <4>2 DEF MarkedBy, isgray
      <4>4. kind[o] # "upval"
        BY <2>7, <2>13, <3>0, <4>2 DEF isgray, Whites
      <4>5. open[o] = <<>> /\ kind'[o] = kind[o]
        BY <1>8, <2>1, <3>0, <4>4 DEF Shape
      <4> QED BY <4>3, <4>5 DEF Listed
    <3> QED BY <3>1, <3>2, <3>3
  <2>14. Colours'
    <3>1. ASSUME NEW o \in Alloc, isblack(o)'
          PROVE  kind'[o] \notin {"thread", "str"} /\ open'[o] = <<>>
      <4>0. o \in Obj /\ kind'[o] = kind[o]
        BY <1>2, <1>8, <2>1
      <4>1. CASE o \in mmudata
        <5>1. kind[o] = "udata"
          BY <4>1 DEF ListsInv
        <5>2. open[o] = <<>>
          BY <4>0, <5>1, RefsOf
        <5> QED BY <1>3, <1>8, <4>0, <5>1, <5>2
      <4>2. CASE o \notin mmudata
        BY <2>12, <3>1, <4>0, <4>2
      <4> QED BY <4>1, <4>2
    <3>2. \A o \in Alloc : isgray(o)' => kind'[o] # "udata"
      BY <1>2, <1>8, <2>1, <2>13
    <3> QED BY <2>1, <2>11, <3>1, <3>2 DEF Colours
  <2>15. ~iswhite(Main)'
    BY <1>2, <1>13, <2>9 DEF Marks
  <2>16. Marks'
    <3>1. \A o \in Alloc' : isblack(o)' /\ (o \in mmudata' => atomicpc' = "udata") => Marked(Refs(o))'
      <4> SUFFICES ASSUME NEW o \in Alloc, isblack(o)', o \in mmudata => atomicpc = "udata"
                   PROVE  Marked(Refs(o))'
        BY <1>1, <2>11
      <4>1. Refs(o)' = Refs(o)
        BY <1>2, <1>8, <2>1
      <4> QED BY <2>12, <4>1 DEF Marked, iswhite
    <3>2. \A t \in weak' : kind'[t] = "tab"
      BY <1>1, <1>8, <1>13, <2>1 DEF Marks, TypeOK
    <3> QED BY <2>11, <2>13, <2>15, <3>1, <3>2 DEF Marks
  <2>17. Swept' /\ Atomic'
    BY <1>1, <1>13 DEF Swept, Atomic
  <2> QED BY <1>8, <1>11, <2>11, <2>14, <2>16, <2>17
<1> QED BY <1>12, <1>13

\* An activation that begins brings an argument along.
LEMMA FinArgsPush ==
  ASSUME TypeOK, NEW f \in Frame, NEW s, s = cstack \/ (cstack # <<>> /\ s = Tail(cstack)),
         cstack' = <<f>> \o s
  PROVE  FinArgs' \subseteq FinArgs \cup ({f.arg} \ {Nil})
<1>1. cstack \in Seq(Frame)
  BY DEF TypeOK
<1>2. \A q \in Seq(Frame) : q # <<>> =>
        /\ Tail(q) \in Seq(Frame)
        /\ \A i \in DOMAIN Tail(q) : i + 1 \in DOMAIN q /\ Tail(q)[i] = q[i + 1]
  OBVIOUS
<1>3. s \in Seq(Frame)
  BY <1>1, <1>2
<1>4. \A i \in DOMAIN s : \E j \in DOMAIN cstack : s[i] = cstack[j]
  BY <1>1, <1>2
<1>5. \A q \in Seq(Frame) : \A i \in DOMAIN (<<f>> \o q) :
        (<<f>> \o q)[i] = f \/ (i - 1 \in DOMAIN q /\ (<<f>> \o q)[i] = q[i - 1])
  OBVIOUS
<1>6. \A i \in DOMAIN cstack' : cstack'[i] = f \/ \E j \in DOMAIN cstack : cstack'[i] = cstack[j]
  BY <1>3, <1>4, <1>5
<1> QED BY <1>6 DEF FinArgs

\* The sweep list has every object but open upvalues, whose threads it has, and
\* mmudata.
LEMMA AllListsPassed ==
  ASSUME TypeOK, ListsInv, Shape, NEW o \in Alloc \ mmudata
  PROVE  o \in AllLists(mmudata) \/ (open[o] # <<>> /\ open[o][1] \in AllLists(mmudata))
<1>1. o \in Obj
  BY DEF Alloc
<1>2. CASE open[o] = <<>>
  BY <1>2 DEF AllLists
<1>3. CASE open[o] # <<>>
  <2>1. open[o][1] \in Obj /\ kind[open[o][1]] = "thread"
    BY <1>1, <1>3, RefsOf DEF Shape
  <2>2. open[open[o][1]] = <<>> /\ open[o][1] \notin mmudata /\ open[o][1] \in Alloc
    BY <2>1, RefsOf DEF ListsInv, Alloc
  <2> QED BY <1>3, <2>2 DEF AllLists
<1> QED BY <1>2, <1>3

\* lj_gc_fullgc() drops a cycle that is marking and sweeps all there is.
LEMMA FullGCSafe ==
  ASSUME GCInv, lj_gc_fullgc
  PROVE  SafeInv'
<1> USE DEF GCInv, SafeInv
<1> DEFINE f == [act |-> "full1", arg |-> Nil, stop |-> gcstop]
<1>1. /\ Mutating /\ cstack' = <<f>> \o cstack
      /\ UNCHANGED <<kind, finalized, ent, meta, stk, open, color, rootVars, atomicpc, currentwhite, mmudata>>
      /\ UNCHANGED <<curL, groot, cur, jitbase, reg>>
      /\ \/ /\ gcstate \in {"pause", "propagate", "atomic"}
            /\ sweeping' = AllLists(mmudata) /\ gcstate' = "sweepstring"
         \/ UNCHANGED <<sweeping, listVars, gcstate>>
  BY DEF lj_gc_fullgc, Interp, heapVars, objVars, rootVars, jitVars
<1>2. f \in Frame /\ f.arg = Nil
  BY DEF Frame, Val, TypeOK
<1>3. FinArgs' \subseteq FinArgs
  <2> HIDE DEF f
  <2>1. FinArgs' \subseteq FinArgs \cup ({f.arg} \ {Nil})
    BY <1>1, <1>2, FinArgsPush
  <2> QED BY <1>2, <2>1
<1>4. \A o \in Obj : Refs(o)' = Refs(o)
  BY <1>1 DEF Refs, Keys, Values, Nodes, MetaOf, SlotRefs, uvval
<1>5. Alloc \subseteq Obj /\ Live \subseteq Obj
  BY DEF Alloc, Live
<1>6. Live' = Live /\ Alloc' = Alloc
  BY <1>1 DEF Live, Alloc, isdead, otherwhite
<1>7. Shape'
  <2>1. \A o \in Obj : SlotRefs(o, Slots)' = SlotRefs(o, Slots)
    BY <1>1 DEF SlotRefs
  <2> QED BY <1>1, <2>1 DEF Shape
<1>8. Closed'
  <2>1. Roots' \cup mmudata' \subseteq Live'
    BY <1>1, <1>3, <1>6 DEF Roots, Closed
  <2>2. reg' # Nil => kind'[reg'] # "upval"
    BY <1>1 DEF Closed
  <2> QED BY <1>1, <1>4, <1>5, <1>6, <2>1, <2>2, ClosedStep
<1>9. CASE UNCHANGED <<sweeping, listVars, gcstate>>
  <2>1. UNCHANGED <<listVars, phaseVars>>
    BY <1>1, <1>9 DEF phaseVars
  <2> QED BY <1>1, <1>4, <1>5, <1>7, <1>8, <2>1, NoBarrierStep
<1>10. CASE /\ gcstate \in {"pause", "propagate", "atomic"}
            /\ sweeping' = AllLists(mmudata) /\ gcstate' = "sweepstring"
  <2>1. Colours'
    BY <1>1, <1>6, <1>10 DEF Colours, Sweeps, isblack, isgray
  <2>2. Swept'
    BY <1>1, <1>6, <1>10, AllListsPassed DEF Swept, Passed
  <2>3. Marks' /\ Atomic'
    BY <1>1, <1>10 DEF Marks, Atomic, Marking, Mutating
  <2> QED BY <1>7, <1>8, <2>1, <2>2, <2>3
<1> QED BY <1>1, <1>9, <1>10

\* Every operation of the program keeps the invariant.
LEMMA MutateSafe ==
  ASSUME GCInv, NEW R \in SUBSET Live, Mutate(R)
  PROVE  SafeInv'
<1> DEFINE Of(K) == {v \in R : kind[v] \in K}
           Lua == Of(LuaKinds) \ {Main}
           Tab == Of({"tab"})
<1>1. /\ \A v \in Lua : v \in Live /\ kind[v] # "upval"
      /\ \A v \in Tab : v \in Live /\ kind[v] = "tab"
      /\ \A K : \A v \in Of(K) : v \in R /\ v \in Live /\ kind[v] \in K
  BY DEF LuaKinds
<1>2. ASSUME \/ \E o \in Obj, k \in NewKinds, v \in R \cup {Nil} : lj_mem_newgco(o, k, v)
             \/ \E s \in Obj : lj_str_new(s)
             \/ \E f, u \in Obj, i \in Slots : lj_func_newL_gc(f, u, i)
      PROVE  SafeInv'
  BY <1>2, BirthOps
<1>3. ASSUME \/ \E n \in Slots : SetTop(n)
             \/ \E th \in Of({"thread"}) : Resume(th)
             \/ \E p \in Of({"proto"}) : trace_start(p)
             \/ \E v \in Of(LuaKinds \cup {"proto"}) : RecordKGC(v)
             \/ trace_abort
             \/ \E T \in Of({"trace"}) : EnterTrace(T)
             \/ FinReturn \/ FinError \/ lua_gc_stop \/ lua_gc_restart
      PROVE  SafeInv'
  <2>1. Live \subseteq Obj
    BY DEF Live, Alloc
  <2>2. \/ \E n \in Slots : SetTop(n)
        \/ \E th \in R : kind[th] = "thread" /\ Resume(th)
        \/ \E p \in R : trace_start(p) \/ RecordKGC(p)
        \/ trace_abort
        \/ \E T \in Obj : EnterTrace(T)
        \/ FinReturn \/ FinError \/ lua_gc_stop \/ lua_gc_restart
    BY <1>3, <2>1
  <2> QED BY <2>2, RootOps
<1>4. ASSUME \/ \E v \in Lua \cup {Nil} : Move(v)
             \/ lj_trace_exit
             \/ \E u \in Of({"upval"}), v \in Lua : open[u] # <<>> /\ SetUpvalue(u, v)
      PROVE  SafeInv'
  <2>1. Nil \notin Lua
    BY GCAssumption DEF Live, Alloc
  <2>2. ASSUME NEW v \in Lua \cup {Nil}, Move(v)
        PROVE  SafeInv'
    <3>1. v \in Live \cup {Nil} /\ (v # Nil => kind[v] # "upval")
      BY <1>1
    <3> QED BY <2>2, <3>1, SlotOps
  <2>3. ASSUME NEW u \in Of({"upval"}), NEW v \in Lua, open[u] # <<>>, SetUpvalue(u, v)
        PROVE  SafeInv'
    <3>1. v \in Live \cup {Nil} /\ (v # Nil => kind[v] # "upval") /\ u \in Live
      BY <1>1
    <3> QED BY <2>3, <3>1, SlotOps
  <2>4. ASSUME lj_trace_exit
        PROVE  SafeInv'
    BY <2>4, SlotOps
  <2> QED BY <1>4, <2>2, <2>3, <2>4
<1>5. ASSUME \/ \E v \in Tab \cup {Nil} : SetBaseMeta(v)
             \/ \E p \in Of({"proto"}) : lj_trace_flushproto(p)
      PROVE  SafeInv'
  <2>1. Live \subseteq Obj
    BY DEF Live, Alloc
  <2> QED BY <1>1, <1>5, <2>1, ShrinkOps
<1>6. ASSUME NEW t \in Tab, NEW k \in Lua \cup {Nil}, NEW v \in Lua, NEW drop \in BOOLEAN,
             lj_tab_newkey(t, k, v, drop)
      PROVE  SafeInv'
  <2>1. /\ t \in Live /\ kind[t] = "tab" /\ k \in Live \cup {Nil} /\ v \in Live /\ kind[v] # "upval"
        /\ v # Nil /\ <<Nil, Nil>> \in ent[t] \cup {<<Nil, Nil>>}
    BY <1>1, GCAssumption DEF Live, Alloc
  <2>2. kind[t] = "tab" /\ v # Nil /\ \E d \in BOOLEAN : lj_tab_newkey(t, k, v, d)
    BY <1>6, <2>1
  <2>3. v # Nil => kind[v] # "upval" \/ kind[t] = "func"
    BY <2>1
  <2> QED BY <2>1, <2>2, <2>3, StoreOps
<1>7. ASSUME NEW t \in Tab, NEW v \in Lua \cup {Nil}, NEW e \in {x \in ent[t] : x[1] \in Lua \cup {Nil}},
             lj_tab_set(t, e, v)
      PROVE  SafeInv'
  <2>1. /\ t \in Live /\ kind[t] = "tab" /\ v \in Live \cup {Nil} /\ (v # Nil => kind[v] # "upval")
        /\ e \in ent[t] \cup {<<Nil, Nil>>} /\ e[1] \in Live \cup {Nil} /\ Nil \in Live \cup {Nil}
    BY <1>1
  <2> QED BY <1>7, <2>1, StoreOps
<1>8. ASSUME NEW t \in Tab, NEW v \in Lua \cup {Nil}, NEW e \in ent[t], lua_rawseti(t, e, v)
      PROVE  SafeInv'
  <2>1. /\ t \in Live /\ kind[t] = "tab" /\ v \in Live \cup {Nil} /\ (v # Nil => kind[v] # "upval")
        /\ e \in ent[t] \cup {<<Nil, Nil>>} /\ Nil \in Live \cup {Nil}
    BY <1>1
  <2> QED BY <1>8, <2>1, StoreOps
<1>9. ASSUME NEW t \in Tab, NEW F \in Metas, SetField(t, F)
      PROVE  SafeInv'
  <2>1. /\ t \in Live /\ kind[t] = "tab" /\ Nil \in Live \cup {Nil}
        /\ <<Nil, Nil>> \in ent[t] \cup {<<Nil, Nil>>}
    BY <1>1
  <2> QED BY <1>9, <2>1, StoreOps
<1>10. ASSUME NEW o \in Of({"tab", "udata"}), NEW v \in Tab \cup {Nil}, lua_setmetatable(o, v)
       PROVE  SafeInv'
  <2>1. /\ o \in Live /\ kind[o] \in {"tab", "udata"} /\ v \in Live \cup {Nil} /\ (v # Nil => kind[v] = "tab")
        /\ <<Nil, Nil>> \in ent[o] \cup {<<Nil, Nil>>} /\ Nil \in Live \cup {Nil}
    BY <1>1
  <2>2. v # Nil => kind[v] # "upval"
    BY <2>1
  <2> QED BY <1>10, <2>1, <2>2, StoreOps
<1>11. ASSUME NEW o \in Of({"func", "udata", "thread"}), NEW v \in R,
              NEW e \in ent[o] \cup {<<Nil, Nil>>}, lua_setfenv(o, e, v)
       PROVE  SafeInv'
  <2>1. /\ o \in Live /\ kind[o] \in {"func", "udata", "thread"} /\ v \in Live
        /\ Nil \in Live \cup {Nil} /\ v # Nil
    BY <1>1, GCAssumption DEF Live, Alloc
  <2>2. v # Nil => kind[v] # "upval" \/ kind[o] = "func"
    BY <1>11, <2>1 DEF lua_setfenv, Holds
  <2> QED BY <1>11, <2>1, <2>2, StoreOps
<1>12. ASSUME NEW u \in Of({"upval"}), NEW v \in Lua, open[u] = <<>>, SetUpvalue(u, v)
       PROVE  SafeInv'
  <2>1. /\ u \in Live /\ kind[u] = "upval" /\ v \in Live /\ kind[v] # "upval"
        /\ Nil \in Live \cup {Nil} /\ <<Nil, Nil>> \in ent[u] \cup {<<Nil, Nil>>}
    BY <1>1
  <2> QED BY <1>12, <2>1, StoreOps
<1>13. ASSUME NEW T \in Obj, NEW p \in Of({"proto", "trace"}), trace_stop(T, p)
       PROVE  SafeInv'
  BY <1>1, <1>13, TraceStopSafe
<1>14. ASSUME \E level \in Slots : lj_func_closeuv(level)
       PROVE  SafeInv'
  BY <1>14, CloseUVSafe
<1>15. ASSUME lj_gc_fullgc
       PROVE  SafeInv'
  BY <1>15, FullGCSafe
<1> HIDE DEF Lua, Tab, Of
<1>16. \/ \E o \in Obj, k \in NewKinds, v \in R \cup {Nil} : lj_mem_newgco(o, k, v)
       \/ \E s \in Obj : lj_str_new(s)
       \/ \E f, u \in Obj, i \in Slots : lj_func_newL_gc(f, u, i)
       \/ \E v \in Lua \cup {Nil} : Move(v)
       \/ \E n \in Slots : SetTop(n)
       \/ \E th \in Of({"thread"}) : Resume(th)
       \/ \E t \in Tab, k \in Lua \cup {Nil}, v \in Lua, drop \in BOOLEAN :
            lj_tab_newkey(t, k, v, drop)
       \/ \E t \in Tab, v \in Lua \cup {Nil} :
            \E e \in {x \in ent[t] : x[1] \in Lua \cup {Nil}} : lj_tab_set(t, e, v)
       \/ \E t \in Tab, v \in Lua \cup {Nil} : \E e \in ent[t] : lua_rawseti(t, e, v)
       \/ \E t \in Tab, F \in Metas : SetField(t, F)
       \/ \E v \in Tab \cup {Nil} : SetBaseMeta(v)
       \/ \E o \in Of({"tab", "udata"}), v \in Tab \cup {Nil} : lua_setmetatable(o, v)
       \/ \E o \in Of({"func", "udata", "thread"}), v \in R :
            \E e \in ent[o] \cup {<<Nil, Nil>>} : lua_setfenv(o, e, v)
       \/ \E u \in Of({"upval"}), v \in Lua : SetUpvalue(u, v)
       \/ \E level \in Slots : lj_func_closeuv(level)
       \/ \E p \in Of({"proto"}) : trace_start(p)
       \/ \E v \in Of(LuaKinds \cup {"proto"}) : RecordKGC(v)
       \/ \E T \in Obj, p \in Of({"proto", "trace"}) : trace_stop(T, p)
       \/ trace_abort
       \/ \E p \in Of({"proto"}) : lj_trace_flushproto(p)
       \/ \E T \in Of({"trace"}) : EnterTrace(T)
       \/ lj_trace_exit \/ FinReturn \/ FinError \/ lj_gc_fullgc \/ lua_gc_stop \/ lua_gc_restart
  BY DEF Mutate, Lua, Tab, Of
<1> QED BY <1>2, <1>3, <1>4, <1>5, <1>6, <1>7, <1>8, <1>9, <1>10, <1>11, <1>12, <1>13, <1>14,
           <1>15, <1>16

-----------------------------------------------------------------------------
(* The collector.                                                          *)

\* The collector changes no reference; the roots stay live.
LEMMA SameHeap ==
  ASSUME TypeOK, Shape, Closed,
         UNCHANGED <<kind, ent, meta, open, stk, curL, groot, jitbase, reg>>,
         cur' \subseteq cur, FinArgs' \subseteq Live, mmudata' \subseteq Live, Live' = Live,
         \A u \in finalized' : kind[u] = "udata"
  PROVE  Shape' /\ Closed' /\ \A o \in Obj : Refs(o)' = Refs(o)
<1>1. \A o \in Obj : Refs(o)' = Refs(o)
  BY DEF Refs, Keys, Values, Nodes, MetaOf, SlotRefs, uvval
<1>2. \A o \in Obj : SlotRefs(o, Slots)' = SlotRefs(o, Slots)
  BY DEF SlotRefs
<1>3. Shape'
  BY <1>2 DEF Shape
<1>4. Live \subseteq Obj
  BY DEF Live, Alloc
<1>5. Roots' \subseteq Live
  BY DEF Roots, Closed
<1>6. reg' # Nil => kind'[reg'] # "upval"
  BY DEF Closed
<1>7. Closed'
  BY <1>1, <1>4, <1>5, <1>6, ClosedStep
<1> QED BY <1>1, <1>3, <1>7

\* gc_mark_start(): before, all but mmudata is white.
LEMMA StartSafe ==
  ASSUME GCInv, StartCycle \/ FullStart
  PROVE  SafeInv'
<1> USE DEF GCInv, SafeInv
<1>1. /\ gc_mark(color, {}, StartRoots) /\ weak' = {} /\ grayagain' = {}
      /\ gcstate' = "propagate" /\ gcstate \in {"pause", "finalize"}
      /\ UNCHANGED <<kind, finalized, ent, meta, open, stk, curL, groot, cur, jitbase, reg>>
      /\ UNCHANGED <<atomicpc, currentwhite, mmudata, sweeping>>
  BY DEF StartCycle, FullStart, OneStep, gc_mark_start, heapVars, objVars, rootVars, jitVars
<1>2. Alloc = Live /\ sweeping = {} /\ atomicpc = "none" /\ Alloc \subseteq Obj /\ Alloc' = Alloc
  BY <1>1 DEF Colours, ListsInv, Sweeps, TypeOK, AtomicPCs, Alloc
<1>3. \A o \in Alloc \ mmudata : color[o] = currentwhite
  BY <1>1, <1>2 DEF Swept, Passed, Marking
<1>4. FinArgs' \subseteq FinArgs
  <2>1. CASE StartCycle
    BY <2>1 DEF StartCycle, ctrlVars, FinArgs
  <2>2. CASE FullStart
    <3> DEFINE f == [Head(cstack) EXCEPT !.act = "full2"]
    <3>1. cstack \in Seq(Frame) /\ cstack # <<>> /\ cstack' = <<f>> \o Tail(cstack)
      BY <2>2 DEF TypeOK, FullStart, InFull
    <3>2. Head(cstack) \in Frame /\ 1 \in DOMAIN cstack /\ Head(cstack) = cstack[1]
      BY <3>1
    <3>3. f \in Frame /\ f.arg = cstack[1].arg
      BY <3>2 DEF Frame
    <3> HIDE DEF f
    <3>4. FinArgs' \subseteq FinArgs \cup ({f.arg} \ {Nil})
      BY <3>1, <3>3, FinArgsPush
    <3> QED BY <3>2, <3>3, <3>4 DEF FinArgs
  <2> QED BY <2>1, <2>2
<1>5. StartRoots \in SUBSET Live
  <2>1. Main \in Live /\ {groot} \ {Nil} \subseteq Live
    BY DEF Closed, Roots
  <2>2. Values(Main) \subseteq Live
    BY <2>1, RefsOf, GCAssumption DEF Closed, Fine
  <2> QED BY <2>1, <2>2 DEF StartRoots
<1>6. MarkedBy(color, StartRoots)
  BY <1>1, <1>2, <1>5, MarkEffect DEF TypeOK
<1>7. currentwhite \in Whites /\ color \in [Obj -> Colors]
  BY DEF TypeOK
<1>8. \A o \in Alloc : ~isdead(o)'
  <2> SUFFICES ASSUME NEW o \in Alloc, isdead(o)'
               PROVE  FALSE
    OBVIOUS
  <2>1. o \in Obj /\ ~isdead(o) /\ color'[o] = otherwhite /\ otherwhite \in Whites
    BY <1>1, <1>2 DEF Live, isdead, otherwhite, Whites
  <2>2. color[o] = color'[o]
    BY <1>6, <2>1 DEF MarkedBy, Whites
  <2> QED BY <2>1, <2>2 DEF isdead
<1>9. Live' = Live
  BY <1>2, <1>8 DEF Live
<1>10. Shape' /\ Closed' /\ \A o \in Obj : Refs(o)' = Refs(o)
  <2>1. FinArgs' \subseteq Live /\ mmudata' \subseteq Live
    BY <1>1, <1>4 DEF Closed, Roots
  <2>2. \A u \in finalized' : kind[u] = "udata"
    BY <1>1 DEF Shape
  <2> QED BY <1>1, <1>9, <2>1, <2>2, SameHeap
<1>11. ASSUME NEW o \in Alloc, isblack(o)'
       PROVE  /\ kind[o] \notin {"thread", "str"} /\ open[o] = <<>>
              /\ o \notin mmudata => Marked(Refs(o))'
  <2>0. o \in Obj
    BY <1>2
  <2>1. CASE o \in mmudata
    BY <2>0, <2>1, RefsOf DEF ListsInv
  <2>2. CASE o \notin mmudata
    <3>1. color[o] \in Whites
      BY <1>3, <1>7, <2>2
    <3>2. /\ kind[o] = "udata" \/ (kind[o] = "upval" /\ open[o] = <<>>)
          /\ \A v \in Refs(o) : color'[v] \notin Whites
      BY <1>6, <1>11, <2>0, <3>1 DEF MarkedBy, isblack
    <3> QED BY <1>10, <2>0, <3>2, RefsOf DEF Marked, iswhite
  <2> QED BY <2>1, <2>2
<1>12. ASSUME NEW o \in Alloc, isgray(o)'
       PROVE  kind[o] # "udata" /\ Listed(o)'
  <2>0. o \in Obj
    BY <1>2
  <2>1. color[o] \in Whites
    <3>1. CASE o \in mmudata
      <4>1. kind[o] = "udata" /\ color[o] # "gray"
        BY <3>1 DEF ListsInv, Colours, isgray
      <4>2. color[o] \notin Whites => color'[o] = color[o]
        BY <1>6, <2>0 DEF MarkedBy
      <4> QED BY <1>12, <4>1, <4>2 DEF isgray
    <3>2. CASE o \notin mmudata
      BY <1>3, <1>7, <3>2
    <3> QED BY <3>1, <3>2
  <2>2. kind[o] # "udata" /\ (o \in gray' \/ kind[o] = "str" \/ open[o] # <<>>)
    BY <1>6, <1>12, <2>0, <2>1 DEF MarkedBy, isgray
  <2> QED BY <1>1, <2>2 DEF Listed
<1>13. Colours'
  BY <1>1, <1>2, <1>9, <1>11, <1>12 DEF Colours
<1>14. ~iswhite(Main)'
  BY <1>6 DEF MarkedBy, StartRoots, iswhite
<1>15. Marks'
  BY <1>1, <1>2, <1>11, <1>12, <1>14 DEF Marks
<1>16. Swept' /\ Atomic'
  BY <1>1, <1>2 DEF Swept, Atomic, Marking
<1> QED BY <1>10, <1>13, <1>15, <1>16

\* Steps that mark, list again, or only go on, before mmudata is separated.
LEMMA MarkStepSafe ==
  ASSUME GCInv, EndPropagate \/ gc_mark_uv \/ AtomicWeak \/ AtomicAgain
  PROVE  SafeInv'
<1> USE DEF GCInv, SafeInv
<1>1. /\ gcstate \in Marking /\ gcstate' \in Marking
      /\ atomicpc # "udata" /\ atomicpc' # "udata"
      /\ UNCHANGED <<kind, finalized, ent, meta, open, stk, curL, groot, cur, jitbase, reg>>
      /\ UNCHANGED <<currentwhite, mmudata, sweeping, cstack, mm>>
      /\ gray \cup grayagain \cup weak \subseteq gray' \cup grayagain' \cup weak'
      /\ weak' \subseteq weak
  BY DEF EndPropagate, gc_mark_uv, AtomicWeak, AtomicAgain, OneStep, heapVars, objVars, rootVars,
         jitVars, listVars, ctrlVars, gc_mark, Marking, ListsInv, WeakAgain
<1>2. Alloc = Live /\ Alloc \subseteq Obj /\ color \in [Obj -> Colors] /\ gray \in SUBSET Obj
      /\ currentwhite \in Whites /\ weak \in SUBSET Obj
  BY <1>1 DEF Colours, Marking, Sweeps, Alloc, TypeOK
<1>3. AtomicRoots \in SUBSET Live
  BY DEF AtomicRoots, Roots, Closed
<1>4. UNION {uvval(u) : u \in GrayOpenUV} \in SUBSET Live
  <2>1. \A u \in GrayOpenUV : u \in Live /\ uvval(u) \subseteq Refs(u)
    BY <1>2, RefsOf DEF GrayOpenUV, Shape, Alloc
  <2> QED BY <2>1 DEF Closed, Fine
<1>5. \E S \in SUBSET Live :
        /\ MarkedBy(color, S)
        /\ gc_mark_uv => S = UNION {uvval(u) : u \in GrayOpenUV}
        /\ AtomicWeak => S = AtomicRoots
  <2>1. CASE gc_mark_uv
    <3>1. gc_mark(color, gray, UNION {uvval(u) : u \in GrayOpenUV}) /\ atomicpc = "none"
      BY <2>1 DEF gc_mark_uv, OneStep
    <3>2. MarkedBy(color, UNION {uvval(u) : u \in GrayOpenUV})
      BY <1>2, <1>4, <3>1, MarkEffect
    <3> QED BY <1>4, <3>1, <3>2 DEF AtomicWeak
  <2>2. CASE AtomicWeak
    <3>1. gc_mark(color, weak, AtomicRoots) /\ atomicpc = "uv"
      BY <2>2 DEF AtomicWeak, WeakAgain
    <3>2. MarkedBy(color, AtomicRoots)
      BY <1>2, <1>3, <3>1, MarkEffect
    <3> QED BY <1>3, <3>1, <3>2 DEF gc_mark_uv, OneStep
  <2>3. CASE ~gc_mark_uv /\ ~AtomicWeak
    <3>1. color' = color
      BY <2>3 DEF EndPropagate, AtomicAgain
    <3>2. MarkedBy(color, {})
      BY <1>2, <3>1 DEF MarkedBy, Whites
    <3> QED BY <2>3, <3>2
  <2> QED BY <2>1, <2>2, <2>3
<1>6. PICK S \in SUBSET Live :
        /\ MarkedBy(color, S)
        /\ gc_mark_uv => S = UNION {uvval(u) : u \in GrayOpenUV}
        /\ AtomicWeak => S = AtomicRoots
  BY <1>5
<1>7. /\ Alloc' = Alloc /\ Live' = Live /\ Colours' /\ ~iswhite(Main)'
      /\ \A o \in Obj : ~iswhite(o) => ~iswhite(o)'
      /\ \A o \in Alloc : isgray(o)' => Listed(o)'
      /\ \A o \in Alloc : isblack(o)' /\ ~isblack(o) => iswhite(o) /\ \A v \in Refs(o) : color'[v] \notin Whites
  <2>1. \A t \in weak' : kind[t] = "tab"
    BY <1>1 DEF Marks
  <2> QED BY <1>1, <1>6, <2>1, MarkKeeps
<1>8. Shape' /\ Closed' /\ \A o \in Obj : Refs(o)' = Refs(o)
  <2>1. FinArgs' \subseteq Live /\ mmudata' \subseteq Live
    BY <1>1 DEF Closed, Roots, FinArgs
  <2>2. \A u \in finalized' : kind[u] = "udata"
    BY <1>1 DEF Shape
  <2> QED BY <1>1, <1>7, <2>1, <2>2, SameHeap
<1>9. \A T \in SUBSET Obj : Marked(T) => Marked(T)'
  BY <1>7 DEF Marked
<1>10. ASSUME NEW o \in Alloc, isblack(o)', o \notin mmudata
       PROVE  Marked(Refs(o))'
  <2>1. o \in Obj /\ Refs(o) \in SUBSET Obj /\ Refs(o)' = Refs(o)
    BY <1>2, <1>8, RefsOf
  <2>2. CASE isblack(o)
    <3>1. Marked(Refs(o))
      BY <1>1, <1>10, <2>2 DEF Marks
    <3> QED BY <1>9, <2>1, <3>1 DEF Marked
  <2>3. CASE ~isblack(o)
    BY <1>7, <1>10, <2>1, <2>3 DEF Marked, iswhite
  <2> QED BY <2>2, <2>3
<1>11. Marks'
  BY <1>1, <1>7, <1>10 DEF Marks
<1>12. Swept'
  BY <1>1 DEF Swept
<1>13. atomicpc' # "none" => ~jitbase' /\ \A u \in GrayOpenUV' : Marked(uvval(u))'
  <2> SUFFICES ASSUME atomicpc' # "none"
               PROVE  ~jitbase' /\ \A u \in GrayOpenUV' : Marked(uvval(u))'
    OBVIOUS
  <2>1. ~EndPropagate
    BY DEF EndPropagate, OneStep
  <2>2. ~jitbase'
    BY <1>1, <2>1 DEF gc_mark_uv, OffTrace, AtomicWeak, AtomicAgain, Atomic
  <2>3. ASSUME NEW u \in GrayOpenUV'
        PROVE  Marked(uvval(u))'
    <3>1. u \in Obj /\ open[u] # <<>> /\ color'[u] = "gray" /\ uvval(u)' = uvval(u)
      BY <1>1 DEF GrayOpenUV, isgray, uvval, Values, Nodes
    <3>2. uvval(u) \in SUBSET Obj
      BY <3>1, RefsOf
    <3>3. CASE color[u] \in Whites
      BY <1>6, <3>1, <3>3 DEF MarkedBy, Marked, iswhite
    <3>4. CASE color[u] \notin Whites
      <4>1. u \in GrayOpenUV
        BY <1>6, <3>1, <3>4 DEF MarkedBy, GrayOpenUV, isgray
      <4>2. CASE gc_mark_uv
        <5>1. uvval(u) \subseteq S
          BY <1>6, <4>1, <4>2
        <5> QED BY <1>6, <3>1, <5>1 DEF MarkedBy, Marked, iswhite
      <4>3. CASE ~gc_mark_uv
        <5>1. atomicpc # "none"
          BY <2>1, <4>3 DEF AtomicWeak, AtomicAgain
        <5>2. Marked(uvval(u))
          BY <4>1, <5>1 DEF Atomic
        <5> QED BY <1>9, <3>1, <3>2, <5>2 DEF Marked
      <4> QED BY <4>2, <4>3
    <3> QED BY <3>3, <3>4
  <2> QED BY <2>2, <2>3
<1>14. CASE atomicpc' \in {"weak", "again"}
  <2>1. AtomicRoots' = AtomicRoots /\ AtomicRoots \in SUBSET Obj
    BY <1>1, <1>2, <1>3 DEF AtomicRoots
  <2>2. AtomicWeak \/ AtomicAgain
    BY <1>14 DEF gc_mark_uv, EndPropagate, OneStep
  <2>3. Marked(AtomicRoots)'
    <3>1. CASE AtomicWeak
      BY <1>6, <2>1, <3>1 DEF MarkedBy, Marked, iswhite
    <3>2. CASE AtomicAgain
      <4>1. Marked(AtomicRoots)
        BY <3>2 DEF AtomicAgain, Atomic
      <4> QED BY <1>9, <2>1, <4>1 DEF Marked
    <3> QED BY <2>2, <3>1, <3>2
  <2>4. \A t \in weak' : Marked(gc_traverse_tab(t))'
    <3>1. CASE AtomicWeak
      BY <3>1 DEF AtomicWeak
    <3>2. CASE AtomicAgain
      <4> SUFFICES ASSUME NEW t \in weak'
                   PROVE  Marked(gc_traverse_tab(t))'
        OBVIOUS
      <4>1. t \in weak /\ t \in Obj
        BY <1>1, <1>2
      <4>2. gc_traverse_tab(t)' = gc_traverse_tab(t)
        BY <1>1 DEF gc_traverse_tab, MetaOf, Values, Keys, Nodes, Mode
      <4>3. gc_traverse_tab(t) \in SUBSET Obj
        <5>1. gc_traverse_tab(t) \subseteq Values(t) \cup MetaOf(t) \cup Keys(t)
          BY DEF gc_traverse_tab
        <5>2. Values(t) \cup MetaOf(t) \cup Keys(t) \subseteq Refs(t)
          BY DEF Refs
        <5> QED BY <4>1, <5>1, <5>2, RefsOf
      <4>4. Marked(gc_traverse_tab(t))
        BY <3>2, <4>1 DEF AtomicAgain, Atomic
      <4> QED BY <1>9, <4>2, <4>3, <4>4 DEF Marked
    <3> QED BY <2>2, <3>1, <3>2
  <2>5. atomicpc' = "again" => grayagain' = {}
    BY DEF AtomicAgain, AtomicWeak, gc_mark_uv, EndPropagate, OneStep
  <2>6. Atomic'
    BY <1>1, <1>13, <2>3, <2>4, <2>5 DEF Atomic
  <2> QED BY <1>7, <1>8, <1>11, <1>12, <2>6
<1>15. CASE atomicpc' \notin {"weak", "again"}
  <2>1. Atomic'
    BY <1>1, <1>13, <1>15 DEF Atomic
  <2> QED BY <1>7, <1>8, <1>11, <1>12, <2>1
<1> QED BY <1>14, <1>15

\* Userdata that are due for finalization are marked, whatever colour they had.
LEMMA AtomicUdataSafe ==
  ASSUME GCInv, AtomicUdata
  PROVE  SafeInv'
<1> USE DEF GCInv, SafeInv
<1> DEFINE c == MmudataWhite(mmudata')
<1>1. /\ gc_mark(c, gray, mmudata') /\ gray = {}
      /\ atomicpc = "again" /\ atomicpc' = "udata"
      /\ mmudata \subseteq mmudata' /\ mmudata' \subseteq mmudata \cup Unmarked
      /\ finalized' = finalized \cup Unmarked
      /\ UNCHANGED <<kind, ent, meta, mm, open, stk, curL, groot, cur, jitbase, reg, cstack>>
      /\ UNCHANGED <<grayagain, weak, gcstate, currentwhite, sweeping>>
  BY DEF AtomicUdata, rootVars, jitVars, ctrlVars
<1>2. gcstate = "atomic" /\ gcstate \in Marking /\ gcstate \notin Sweeps
  BY <1>1 DEF ListsInv, Marking, Sweeps
<1>3. Alloc = Live /\ Alloc \subseteq Obj /\ Alloc' = Alloc /\ currentwhite \in Whites
      /\ color \in [Obj -> Colors] /\ Main \in Obj
  BY <1>1, <1>2, GCAssumption DEF Colours, Alloc, TypeOK
<1>4. mmudata' \in SUBSET Live /\ \A u \in mmudata' : kind[u] = "udata"
  BY <1>1, <1>3 DEF Unmarked, ListsInv, Closed, Alloc
<1>5. \A o \in Obj : c[o] = IF o \in mmudata' THEN currentwhite ELSE color[o]
  BY DEF MmudataWhite
<1>6. c \in [Obj -> Colors]
  BY <1>3 DEF MmudataWhite, Colors
<1> HIDE DEF c
<1>7. MarkedBy(c, mmudata')
  BY <1>1, <1>3, <1>4, <1>6, MarkEffect
<1>8. \A o \in mmudata' : o \in Obj /\ color'[o] = "black" /\ \A v \in Refs(o) : color'[v] \notin Whites
  <2> SUFFICES ASSUME NEW o \in mmudata'
               PROVE  o \in Obj /\ color'[o] = "black" /\ \A v \in Refs(o) : color'[v] \notin Whites
    OBVIOUS
  <2>1. o \in Obj /\ c[o] \in Whites /\ kind[o] = "udata" /\ color'[o] \notin Whites
    BY <1>3, <1>4, <1>5, <1>7 DEF MarkedBy
  <2>2. color'[o] # "gray"
    BY <1>7, <2>1 DEF MarkedBy
  <2>3. color'[o] = "black"
    BY <1>7, <2>1, <2>2 DEF MarkedBy
  <2> QED BY <1>7, <2>1, <2>3 DEF MarkedBy
<1>9. \A o \in Obj : ~iswhite(o) => ~iswhite(o)'
  <2> SUFFICES ASSUME NEW o \in Obj, ~iswhite(o)
               PROVE  ~iswhite(o)'
    OBVIOUS
  <2>1. CASE o \in mmudata'
    BY <1>8, <2>1 DEF iswhite, Whites
  <2>2. CASE o \notin mmudata'
    BY <1>5, <1>7, <2>2 DEF MarkedBy, iswhite
  <2> QED BY <2>1, <2>2
<1>10. \A o \in Alloc : ~isdead(o)'
  <2> SUFFICES ASSUME NEW o \in Alloc, isdead(o)'
               PROVE  FALSE
    OBVIOUS
  <2>1. o \in Obj /\ ~isdead(o) /\ color'[o] = otherwhite /\ otherwhite \in Whites
    BY <1>1, <1>3 DEF Live, isdead, otherwhite, Whites
  <2>2. o \notin mmudata'
    BY <1>8, <2>1 DEF Whites
  <2>3. c[o] = color'[o]
    BY <1>7, <2>1 DEF MarkedBy, Whites
  <2> QED BY <1>5, <2>1, <2>2, <2>3 DEF isdead
<1>11. Live' = Live
  BY <1>3, <1>10 DEF Live
<1>12. Shape' /\ Closed' /\ \A o \in Obj : Refs(o)' = Refs(o)
  <2>1. FinArgs' \subseteq Live
    BY <1>1 DEF Closed, Roots, FinArgs
  <2>2. \A u \in finalized' : kind[u] = "udata"
    BY <1>1 DEF Shape, Unmarked
  <2> QED BY <1>1, <1>4, <1>11, <2>1, <2>2, SameHeap
<1>13. ASSUME NEW o \in Alloc, isblack(o)'
       PROVE  kind[o] \notin {"thread", "str"} /\ open[o] = <<>> /\ Marked(Refs(o))'
  <2>0. o \in Obj /\ Refs(o)' = Refs(o)
    BY <1>3, <1>12
  <2>1. CASE o \in mmudata'
    BY <1>4, <1>8, <2>0, <2>1, RefsOf DEF Marked, iswhite
  <2>2. CASE o \notin mmudata' /\ isblack(o)
    <3>1. kind[o] \notin {"thread", "str"} /\ open[o] = <<>> /\ Marked(Refs(o)) /\ Refs(o) \subseteq Obj
      BY <1>1, <1>2, <2>0, <2>2, RefsOf DEF Colours, Marks
    <3> QED BY <1>9, <2>0, <3>1 DEF Marked
  <2>3. CASE o \notin mmudata' /\ ~isblack(o)
    <3>1. c[o] = color[o] /\ c[o] # "black"
      BY <1>5, <2>0, <2>3 DEF isblack
    <3>2. c[o] \in Whites
      BY <1>7, <1>13, <2>0, <3>1 DEF MarkedBy, isblack
    <3>3. /\ kind[o] = "udata" \/ (kind[o] = "upval" /\ open[o] = <<>>)
          /\ \A v \in Refs(o) : color'[v] \notin Whites
      BY <1>7, <1>13, <2>0, <3>2 DEF MarkedBy, isblack
    <3> QED BY <2>0, <3>3, RefsOf DEF Marked, iswhite
  <2> QED BY <2>1, <2>2, <2>3
<1>14. ASSUME NEW o \in Alloc, isgray(o)'
       PROVE  /\ kind[o] # "udata" /\ Listed(o)'
              /\ open[o] # <<>> => Marked(uvval(o))'
  <2>0. o \in Obj /\ o \notin mmudata' /\ c[o] = color[o] /\ uvval(o)' = uvval(o)
    BY <1>1, <1>3, <1>5, <1>8, <1>14 DEF isgray, uvval, Values, Nodes
  <2>1. CASE isgray(o)
    <3>1. kind[o] # "udata" /\ Listed(o)
      BY <1>2, <2>1 DEF Colours, Marks
    <3>2. Listed(o)'
      BY <1>1, <3>1 DEF Listed
    <3>3. ASSUME open[o] # <<>>
          PROVE  Marked(uvval(o))'
      <4>1. Marked(uvval(o)) /\ uvval(o) \subseteq Obj
        BY <1>1, <2>0, <2>1, <3>3, RefsOf DEF Atomic, GrayOpenUV
      <4> QED BY <1>9, <2>0, <4>1 DEF Marked
    <3> QED BY <3>1, <3>2, <3>3
  <2>2. CASE ~isgray(o)
    <3>1. c[o] \in Whites
      BY <1>7, <1>14, <2>0, <2>2 DEF MarkedBy, isgray
    <3>2. /\ kind[o] # "udata" /\ (o \in gray' \/ kind[o] = "str" \/ open[o] # <<>>)
          /\ open[o] # <<>> => \A v \in uvval(o) : color'[v] \notin Whites
      BY <1>7, <1>14, <2>0, <3>1 DEF MarkedBy, isgray
    <3> QED BY <1>1, <2>0, <3>2 DEF Listed, Marked, iswhite
  <2> QED BY <2>1, <2>2
<1>15. Colours'
  BY <1>1, <1>3, <1>11, <1>13, <1>14 DEF Colours
<1>16. Marks'
  <2>1. ~iswhite(Main)'
    BY <1>2, <1>3, <1>9 DEF Marks
  <2>2. \A t \in weak' : kind'[t] = "tab"
    BY <1>1, <1>2 DEF Marks
  <2> QED BY <1>3, <1>13, <1>14, <2>1, <2>2 DEF Marks
<1>17. Swept'
  BY <1>1, <1>2 DEF Swept
<1>18. Atomic'
  <2>1. \A T \in SUBSET Obj : Marked(T) => Marked(T)'
    BY <1>9 DEF Marked
  <2>2. ~jitbase'
    BY <1>1 DEF Atomic
  <2>3. \A u \in GrayOpenUV' : Marked(uvval(u))'
    <3> SUFFICES ASSUME NEW u \in GrayOpenUV'
                 PROVE  Marked(uvval(u))'
      OBVIOUS
    <3>1. u \in Obj /\ open[u] # <<>> /\ isgray(u)'
      BY <1>1 DEF GrayOpenUV
    <3>2. u \in Alloc
      BY <3>1 DEF Alloc, Shape
    <3> QED BY <1>14, <3>1, <3>2
  <2>4. Marked(AtomicRoots)'
    <3>1. AtomicRoots' = AtomicRoots /\ AtomicRoots \in SUBSET Obj /\ Marked(AtomicRoots)
      BY <1>1, <1>3 DEF AtomicRoots, Roots, Closed, Atomic
    <3> QED BY <2>1, <3>1 DEF Marked
  <2>5. ASSUME NEW t \in weak'
        PROVE  Marked(gc_traverse_tab(t))'
    <3>1. t \in weak /\ t \in Obj
      BY <1>1 DEF TypeOK
    <3>2. gc_traverse_tab(t)' = gc_traverse_tab(t)
      BY <1>1 DEF gc_traverse_tab, MetaOf, Values, Keys, Nodes, Mode
    <3>3. gc_traverse_tab(t) \in SUBSET Obj
      <4>1. gc_traverse_tab(t) \subseteq Values(t) \cup MetaOf(t) \cup Keys(t)
        BY DEF gc_traverse_tab
      <4>2. Values(t) \cup MetaOf(t) \cup Keys(t) \subseteq Refs(t)
        BY DEF Refs
      <4> QED BY <3>1, <4>1, <4>2, RefsOf
    <3>4. Marked(gc_traverse_tab(t))
      BY <1>1, <3>1 DEF Atomic
    <3> QED BY <2>1, <3>2, <3>3, <3>4 DEF Marked
  <2>6. ASSUME NEW th \in grayagain'
        PROVE  kind'[th] = "thread" /\ Marked(Refs(th))' /\ (th = curL' => Marked(FinArgs)')
    <3>1. th \in grayagain /\ th \in Obj /\ Refs(th)' = Refs(th) /\ Refs(th) \in SUBSET Obj
      BY <1>1, <1>12, RefsOf DEF TypeOK
    <3>2. kind[th] = "thread" /\ Marked(Refs(th)) /\ (th = curL => Marked(FinArgs))
      BY <1>1, <3>1 DEF Atomic
    <3>3. FinArgs' = FinArgs /\ FinArgs \in SUBSET Obj
      BY <1>1, <1>3 DEF FinArgs, Roots, Closed
    <3> QED BY <1>1, <2>1, <3>1, <3>2, <3>3 DEF Marked
  <2>7. Marked(mmudata)'
    BY <1>8 DEF Marked, iswhite, Whites
  <2> QED BY <2>2, <2>3, <2>4, <2>5, <2>6, <2>7 DEF Atomic
<1> QED BY <1>12, <1>15, <1>16, <1>17, <1>18

\* What gc_clearweak() leaves in a weak table is marked, or is a string that it marks.
LEMMA ClearedWeak ==
  ASSUME GCInv, atomicpc = "udata", NEW t \in weak, NEW e \in gc_clearweak(t), e[2] # Nil
  PROVE  /\ e \in Nodes(t) /\ (e[1] # Nil => ~iswhite(e[1]) \/ e[1] \in WeakStrings)
         /\ ~iswhite(e[2]) \/ e[2] \in WeakStrings
         /\ "v" \in Mode(t) => e[2] \notin finalized
<1> USE DEF GCInv, SafeInv
<1>1. e \in ent[t] \ Cleared(t) /\ e \in Nodes(t)
  BY DEF gc_clearweak, Nodes
<1>2. t \in Obj /\ kind[t] = "tab" /\ Marked(gc_traverse_tab(t))
  BY DEF Atomic, Marks, ListsInv, Marking, TypeOK
<1>3. e[1] \in Val /\ e[2] \in Obj
  BY <1>1, <1>2 DEF TypeOK, Val
<1>5. CASE e[1] = Nil /\ "v" \notin Mode(t)
  <2>1. e[2] \in gc_traverse_tab(t)
    BY <1>1, <1>5 DEF gc_traverse_tab, Values
  <2> QED BY <1>1, <1>2, <1>5, <2>1 DEF Marked
<1>6. CASE e[1] = Nil => "v" \in Mode(t)
  <2>1. ~gc_mayclear(e[1], FALSE) /\ ~gc_mayclear(e[2], TRUE)
    BY <1>1, <1>6 DEF Cleared
  <2>2. e[2] \in finalized => kind[e[2]] = "udata"
    BY DEF Shape
  <2>3. \A v \in {e[1], e[2]} : v \in Obj /\ iswhite(v) /\ kind[v] = "str" => v \in WeakStrings
    BY <1>1, <2>1 DEF WeakStrings
  <2> QED BY <1>1, <1>3, <2>1, <2>2, <2>3 DEF gc_mayclear, Val
<1> QED BY <1>5, <1>6

\* When atomic() has flipped the whites, what was left white is dead, and nothing that
\* was marked refers to it.
LEMMA AtomicEndSafe ==
  ASSUME GCInv, AtomicEnd
  PROVE  /\ SafeInv'
         /\ Live' = {o \in Alloc : ~iswhite(o) \/ o \in WeakStrings}
         /\ \A o \in Obj \ weak : Refs(o)' = Refs(o)
<1> USE DEF GCInv, SafeInv
<1>1. /\ atomicpc = "udata" /\ gray = {} /\ atomicpc' = "none" /\ gcstate' = "sweepstring"
      /\ UNCHANGED <<kind, finalized, meta, open, stk, curL, groot, cur, jitbase, reg, cstack, mmudata>>
      /\ currentwhite' = otherwhite /\ sweeping' = AllLists(mmudata)
      /\ \A o \in Obj : ent'[o] = IF o \in weak THEN gc_clearweak(o) ELSE ent[o]
      /\ \A o \in Obj : color'[o] = IF o \in WeakStrings THEN "gray" ELSE color[o]
  BY DEF AtomicEnd, rootVars, jitVars, ctrlVars
<1>2. gcstate \in Marking /\ gcstate \notin Sweeps
  BY <1>1 DEF ListsInv, Marking, Sweeps
<1>3. Alloc = Live /\ Alloc \subseteq Obj /\ Alloc' = Alloc /\ currentwhite \in Whites
      /\ color \in [Obj -> Colors] /\ Main \in Obj /\ Nil \notin Obj
  BY <1>1, <1>2, GCAssumption DEF Colours, Alloc, TypeOK
<1>4. \A o \in Alloc : iswhite(o) => color[o] = currentwhite
  BY <1>3 DEF Live, isdead, iswhite, otherwhite, Whites
<1>5. otherwhite' = currentwhite
  BY <1>1, <1>3 DEF otherwhite, Whites
<1>6. \A o \in WeakStrings : o \in Obj /\ kind[o] = "str" /\ o \in Alloc /\ color'[o] = "gray"
  BY <1>1 DEF WeakStrings, Alloc
<1>7. Live' = {o \in Alloc : ~iswhite(o) \/ o \in WeakStrings}
  <2>1. Live' = {o \in Alloc : color'[o] # currentwhite}
    BY <1>3, <1>5 DEF Live, isdead
  <2>2. \A o \in Alloc : color'[o] # currentwhite <=> ~iswhite(o) \/ o \in WeakStrings
    BY <1>1, <1>3, <1>4, <1>6 DEF iswhite, Whites
  <2> QED BY <2>1, <2>2
<1>8. ASSUME NEW o \in Obj, o \notin weak
      PROVE  Refs(o)' = Refs(o)
  <2>1. ent'[o] = ent[o] /\ meta'[o] = meta[o] /\ open' = open /\ stk' = stk
    BY <1>1, <1>8
  <2> QED BY <2>1 DEF Refs, Keys, Values, Nodes, MetaOf, SlotRefs, uvval
<1>9. ASSUME NEW t \in weak
      PROVE  Refs(t)' \subseteq Refs(t) /\ Refs(t)' \subseteq Live'
  <2>1. t \in Obj /\ kind[t] = "tab" /\ ent'[t] = gc_clearweak(t) /\ Marked(gc_traverse_tab(t))
    BY <1>1, <1>2 DEF TypeOK, Marks, Atomic
  <2>2. t \in Alloc
    BY <2>1 DEF Alloc
  <2>3. \A e \in ent'[t] : e[2] # Nil => e \in Nodes(t)
    BY <1>1, <2>1, ClearedWeak
  <2>4. /\ Keys(t)' = {e[1] : e \in {x \in ent'[t] : x[2] # Nil}} \ {Nil}
        /\ Values(t)' = {e[2] : e \in {x \in ent'[t] : x[2] # Nil}}
        /\ MetaOf(t)' = MetaOf(t) /\ SlotRefs(t, Slots)' = SlotRefs(t, Slots)
    BY <1>1 DEF Keys, Values, Nodes, MetaOf, SlotRefs
  <2>5. SlotRefs(t, Slots) = {} /\ open[t] = <<>> /\ uvval(t)' = Values(t)'
    BY <1>1, <2>1 DEF Shape, uvval
  <2>6. Refs(t)' = Keys(t)' \cup Values(t)' \cup MetaOf(t)
    BY <2>4, <2>5 DEF Refs
  <2>7. Keys(t)' \subseteq Keys(t) /\ Values(t)' \subseteq Values(t)
    BY <2>3, <2>4 DEF Keys, Values
  <2>8. Refs(t)' \subseteq Refs(t)
    BY <2>6, <2>7 DEF Refs
  <2>9. Refs(t) \subseteq Alloc
    BY <1>3, <2>2 DEF Closed, Fine
  <2>10. \A v \in MetaOf(t) : ~iswhite(v)
    BY <2>1 DEF Marked, gc_traverse_tab
  <2>11. \A e \in ent'[t] : e[2] # Nil =>
           /\ e[1] # Nil => ~iswhite(e[1]) \/ e[1] \in WeakStrings
           /\ ~iswhite(e[2]) \/ e[2] \in WeakStrings
    BY <1>1, <2>1, ClearedWeak
  <2>12. \A v \in Keys(t)' \cup Values(t)' : ~iswhite(v) \/ v \in WeakStrings
    BY <2>4, <2>11
  <2>13. \A v \in Refs(t)' : v \in Alloc /\ (~iswhite(v) \/ v \in WeakStrings)
    BY <2>6, <2>8, <2>9, <2>10, <2>12
  <2> QED BY <1>7, <2>8, <2>13
<1>10. ASSUME NEW o \in Live', o \notin weak
       PROVE  Refs(o) \subseteq Live'
  <2>0. o \in Alloc /\ o \in Obj /\ Refs(o) \subseteq Alloc
    BY <1>3, <1>7 DEF Closed, Fine
  <2>1. CASE o \in WeakStrings
    BY <1>6, <2>0, <2>1, RefsOf
  <2>2. CASE isblack(o)
    <3>1. Marked(Refs(o))
      BY <1>1, <1>2, <2>0, <2>2 DEF Marks
    <3> QED BY <1>7, <2>0, <3>1 DEF Marked
  <2>3. CASE o \notin WeakStrings /\ ~isblack(o)
    <3>1. isgray(o)
      <4>1. ~iswhite(o)
        BY <1>7, <2>3
      <4>2. color[o] \in Colors
        BY <1>3, <2>0
      <4> QED BY <2>3, <4>1, <4>2 DEF iswhite, isblack, isgray, Colors
    <3>2. Listed(o)
      BY <1>2, <2>0, <3>1 DEF Marks
    <3>3. CASE o \in grayagain
      <4>1. Marked(Refs(o))
        BY <1>1, <3>3 DEF Atomic
      <4> QED BY <1>7, <2>0, <4>1 DEF Marked
    <3>4. CASE kind[o] = "str"
      BY <2>0, <3>4, RefsOf
    <3>5. CASE open[o] # <<>>
      <4>1. Refs(o) = uvval(o)
        BY <2>0, <3>5, RefsOf
      <4>2. Marked(uvval(o))
        BY <1>1, <2>0, <3>1, <3>5 DEF Atomic, GrayOpenUV
      <4> QED BY <1>7, <2>0, <4>1, <4>2 DEF Marked
    <3> QED BY <1>1, <1>10, <3>2, <3>3, <3>4, <3>5 DEF Listed
  <2> QED BY <2>1, <2>2, <2>3
<1>11. Live' \subseteq Live
  BY <1>3, <1>7
<1>12. Roots' \cup mmudata' \subseteq Live'
  <2>1. Marked(mmudata) /\ mmudata \subseteq Alloc
    BY <1>1, <1>3 DEF Atomic, Closed
  <2>2. Marked(AtomicRoots) /\ AtomicRoots \subseteq Alloc
    BY <1>1, <1>3 DEF Atomic, AtomicRoots, Roots, Closed
  <2>3. reg = Nil
    BY <1>1 DEF Atomic, Shape
  <2>4. ~iswhite(Main) /\ Main \in Alloc
    BY <1>2, <1>3 DEF Marks, Closed, Roots
  <2>5. Marked(FinArgs) /\ FinArgs \subseteq Alloc
    <3>1. curL \in Alloc /\ curL \in Obj /\ kind[curL] = "thread" /\ ~iswhite(curL) /\ open[curL] = <<>>
      BY <1>3, <2>2, RefsOf DEF Shape, AtomicRoots, Marked
    <3>2. ~isblack(curL)
      BY <3>1 DEF Colours
    <3>3. color[curL] \in Colors
      BY <1>3, <3>1
    <3>4. isgray(curL)
      BY <3>1, <3>2, <3>3 DEF iswhite, isblack, isgray, Colors
    <3>5. Listed(curL) /\ curL \notin weak
      BY <1>2, <3>1, <3>4 DEF Marks
    <3>6. curL \in grayagain
      BY <1>1, <3>1, <3>5 DEF Listed
    <3> QED BY <1>1, <1>3, <3>6 DEF Atomic, Roots, Closed
  <2>6. Roots' = Roots /\ mmudata' = mmudata
    BY <1>1 DEF Roots, FinArgs
  <2>7. \A r \in Roots \cup mmudata : r \in Alloc /\ ~iswhite(r)
    BY <2>1, <2>2, <2>3, <2>4, <2>5 DEF Roots, AtomicRoots, Marked
  <2> QED BY <1>7, <2>6, <2>7
<1>13. Closed'
  <2>1. ASSUME NEW o \in Live', NEW v \in Refs(o)'
        PROVE  Fine(o, v)'
    <3>1. o \in Live /\ o \in Obj /\ v \in Live' /\ v \in Refs(o)
      BY <1>3, <1>8, <1>9, <1>10, <1>11
    <3>2. Fine(o, v)
      BY <3>1 DEF Closed
    <3> QED BY <1>1, <3>1, <3>2 DEF Fine
  <2>2. reg' # Nil => kind'[reg'] # "upval"
    BY <1>1 DEF Closed
  <2> QED BY <1>12, <2>1, <2>2 DEF Closed
<1>14. Shape'
  <2>1. \A o \in Obj : SlotRefs(o, Slots)' = SlotRefs(o, Slots)
    BY <1>1 DEF SlotRefs
  <2>2. \A t \in weak : kind[t] = "tab"
    BY <1>2 DEF Marks
  <2>3. \A o \in Obj : kind[o] # "tab" => ent'[o] = ent[o]
    BY <1>1, <2>2
  <2> QED BY <1>1, <2>1, <2>3 DEF Shape
<1>15. Colours'
  <2>1. gcstate' \in Sweeps
    BY <1>1 DEF Sweeps
  <2>2. ASSUME NEW o \in Alloc
        PROVE  /\ isblack(o)' => kind[o] \notin {"thread", "str"} /\ open[o] = <<>>
               /\ isgray(o)' => kind[o] # "udata"
    BY <1>1, <1>3, <1>6 DEF Colours, isblack, isgray
  <2> QED BY <1>1, <1>3, <2>1, <2>2 DEF Colours
<1>16. Swept'
  BY <1>1, <1>3, AllListsPassed DEF Swept, Passed
<1>17. Marks' /\ Atomic'
  BY <1>1 DEF Marks, Atomic, Marking
<1> QED BY <1>7, <1>8, <1>13, <1>14, <1>15, <1>16, <1>17

\* gc_sweep() frees dead objects only; a live open upvalue of a thread that is freed
\* is closed.
LEMMA SweepSafe ==
  ASSUME GCInv, NEW S \in SUBSET sweeping, gc_sweep(S),
         gcstate \in Sweeps, gcstate' \in Sweeps \cup {"pause", "finalize"},
         gcstate' \in Sweeps \/ S = sweeping,
         UNCHANGED <<rootVars, currentwhite, mmudata, cstack>>, atomicpc = "none", atomicpc' = "none"
  PROVE  /\ SafeInv' /\ Live' = Live /\ \A o \in Live : Refs(o)' = Refs(o) /\ Mode(o)' = Mode(o)
         /\ \A o \in Alloc : kind'[o] = "free" => isdead(o)
<1> USE DEF GCInv, SafeInv
<1> DEFINE X == S \cup UVsOf(S)
           D == {o \in X : isdead(o) /\ o # Main}
           C == ClosedByFree(S \cap D) \ D
<1>1. /\ FreeAndClose(D, C) /\ color' = Recolored(D, X \ D, currentwhite) /\ sweeping' = sweeping \ S
      /\ UNCHANGED <<curL, groot, cur, jitbase, reg>>
      /\ gcstate \notin Marking /\ gcstate' \notin Marking
  BY DEF gc_sweep, rootVars, jitVars, Marking, Sweeps
<1>2. /\ Alloc \subseteq Obj /\ Live \subseteq Alloc /\ Main \in Obj /\ curL \in Obj
      /\ color \in [Obj -> Colors] /\ currentwhite \in Whites /\ sweeping \subseteq Obj
  BY GCAssumption DEF Alloc, Live, TypeOK
<1>3. /\ X \subseteq Obj /\ S \subseteq X
      /\ \A o \in UVsOf(S) : kind[o] = "upval"
      /\ \A o \in Obj : open[o] # <<>> /\ open[o][1] \in S => o \in X
  <2>1. \A o \in UVsOf(S) : o \in Obj /\ open[o] # <<>>
    <3> HIDE DEF GCInv, SafeInv, X, D, C
    <3>0. \A th, i : <<th, i>> # <<>>
      OBVIOUS
    <3>1. \A th : \A o \in OpenUV(th, Slots) : o \in Obj /\ open[o] # <<>>
      BY <3>0, Zenon DEF OpenUV
    <3> QED BY <3>1 DEF UVsOf
  <2>2. ASSUME NEW o \in Obj, open[o] # <<>>, open[o][1] \in S
        PROVE  o \in UVsOf(S)
    <3>1. open[o] \in Obj \X Slots /\ kind[open[o][1]] = "thread"
      BY <2>2, RefsOf DEF Shape
    <3>2. o \in OpenUV(open[o][1], Slots)
      BY <3>1 DEF OpenUV
    <3> QED BY <2>2, <3>1, <3>2 DEF UVsOf
  <2> QED BY <1>2, <2>1, <2>2 DEF Shape
<1>4. \A o \in Obj \ D : open[o] # <<>> /\ open[o][1] \in D => o \in C
  <2> SUFFICES ASSUME NEW o \in Obj \ D, open[o] # <<>>, open[o][1] \in D
               PROVE  o \in C
    OBVIOUS
  <2>1. open[o] \in Obj \X Slots /\ kind[open[o][1]] = "thread"
    BY RefsOf DEF Shape
  <2>2. open[o][1] \in S \cap D
    BY <1>3, <2>1
  <2>3. o \in OpenUV(open[o][1], Slots)
    BY <2>1 DEF OpenUV
  <2> HIDE DEF D
  <2> QED BY <2>1, <2>2, <2>3 DEF ClosedByFree, UVsOf
<1>5. /\ C \in SUBSET {o \in Obj \ D : open[o] # <<>>}
      /\ C \subseteq X
  <2> HIDE DEF GCInv, SafeInv, D
  <2>0. \A th, i : <<th, i>> # <<>>
    OBVIOUS
  <2>1. \A th : \A o \in OpenUV(th, Slots) : o \in Obj /\ open[o] # <<>>
    BY <2>0, Zenon DEF OpenUV
  <2>2. UVsOf(S \cap D) \subseteq UVsOf(S) /\ \A o \in UVsOf(S \cap D) : o \in Obj /\ open[o] # <<>>
    BY <2>1 DEF UVsOf
  <2> QED BY <2>2 DEF ClosedByFree
<1>6. /\ D \in SUBSET Obj /\ Main \notin D /\ curL \notin D /\ D \cap Live = {}
      /\ \A o \in D : isdead(o)
      /\ \A o \in X \ D : o \in Alloc => o \in Live
  BY <1>2, <1>3 DEF Live, Closed, Roots
<1>7. \A o \in Obj \ D : color'[o] = IF o \in X THEN currentwhite ELSE color[o]
  BY <1>1 DEF Recolored
<1> HIDE DEF X, D, C
<1>8. /\ Shape' /\ Alloc' = Alloc \ D
      /\ \A o \in Obj \ D : Refs(o)' = Refs(o) /\ kind'[o] = kind[o]
      /\ \A o \in D \cup C : open'[o] = <<>>
      /\ \A o \in Obj \ (D \cup C) : open'[o] = open[o]
  BY <1>1, <1>4, <1>5, <1>6, FreeEffect
<1>9. Live' = Live
  <2>1. ASSUME NEW o \in Obj
        PROVE  o \in Live' <=> o \in Live
    <3>1. CASE o \in D
      BY <1>6, <1>8, <3>1 DEF Live
    <3>2. CASE o \in X \ D
      <4>1. ~isdead(o)'
        BY <1>2, <1>7, <3>2 DEF isdead, otherwhite, Whites
      <4> QED BY <1>2, <1>6, <1>8, <3>2, <4>1 DEF Live
    <3>3. CASE o \notin X /\ o \notin D
      <4>1. isdead(o)' = isdead(o)
        BY <1>7, <3>3 DEF isdead, otherwhite
      <4> QED BY <1>8, <3>3, <4>1 DEF Live
    <3> QED BY <3>1, <3>2, <3>3
  <2>2. Live' \subseteq Obj /\ Live \subseteq Obj
    BY DEF Live, Alloc
  <2> QED BY <2>1, <2>2
<1>10. Closed'
  <2>1. \A o \in Live : o \in Obj \ D /\ kind'[o] = kind[o] /\ Refs(o)' = Refs(o)
    BY <1>2, <1>6, <1>8
  <2>2. Roots' = Roots /\ mmudata' = mmudata /\ reg' = reg
    BY <1>1 DEF Roots, FinArgs
  <2>3. reg' # Nil => kind'[reg'] # "upval"
    BY <2>1, <2>2 DEF Closed, Roots
  <2> QED BY <1>9, <2>1, <2>2, <2>3, ClosedStep DEF Closed
<1>11. Swept'
  <2> SUFFICES ASSUME NEW o \in Alloc' \ mmudata, Passed(o)'
               PROVE  color'[o] = currentwhite
    BY DEF Swept
  <2>1. o \in Alloc \ mmudata /\ o \in Obj \ D
    BY <1>2, <1>8
  <2>2. CASE o \in X
    BY <1>7, <2>1, <2>2
  <2>3. CASE o \notin X
    <3>1. open'[o] = open[o]
      BY <1>5, <1>8, <2>1, <2>3
    <3>2. o \notin sweeping /\ (open[o] # <<>> => open[o][1] \notin sweeping)
      BY <1>1, <1>3, <2>1, <2>3, <3>1 DEF Passed
    <3>3. color[o] = currentwhite
      BY <1>1, <2>1, <3>2 DEF Swept, Passed
    <3> QED BY <1>7, <2>1, <2>3, <3>3
  <2> QED BY <2>2, <2>3
<1>12. Colours'
  <2>1. ASSUME gcstate' \notin Sweeps
        PROVE  Alloc' = Live'
    <3>1. sweeping' = {}
      BY <1>1, <2>1
    <3>2. \A o \in Alloc' : Passed(o)'
      BY <3>1 DEF Passed
    <3>3. \A o \in Alloc' \ mmudata : color'[o] = currentwhite
      BY <1>1, <1>11, <3>2 DEF Swept
    <3>4. \A o \in Alloc' \ mmudata : ~isdead(o)'
      BY <1>2, <3>3 DEF isdead, otherwhite, Whites
    <3>5. mmudata \subseteq Live'
      BY <1>9 DEF Closed
    <3> QED BY <3>4, <3>5 DEF Live
  <2>2. ASSUME NEW o \in Alloc', isblack(o)' \/ isgray(o)'
        PROVE  /\ isblack(o)' => kind'[o] \notin {"thread", "str"} /\ open'[o] = <<>>
               /\ isgray(o)' => kind'[o] # "udata"
    <3>1. o \in Alloc /\ o \in Obj \ D
      BY <1>2, <1>8
    <3>2. o \notin X
      BY <1>2, <1>7, <2>2, <3>1 DEF isblack, isgray, Whites
    <3>3. open'[o] = open[o] /\ kind'[o] = kind[o] /\ isblack(o)' = isblack(o) /\ isgray(o)' = isgray(o)
      BY <1>5, <1>7, <1>8, <3>1, <3>2 DEF isblack, isgray
    <3> QED BY <3>1, <3>3 DEF Colours
  <2> QED BY <2>1, <2>2 DEF Colours
<1>13. Marks' /\ Atomic'
  BY <1>1 DEF Marks, Atomic
<1>14. \A o \in Alloc : kind'[o] = "free" => isdead(o)
  <2>1. \A o \in Alloc : kind[o] # "free" /\ o \in Obj
    BY DEF Alloc
  <2> QED BY <1>6, <1>8, <2>1
<1>15. ASSUME NEW o \in Live
       PROVE  Refs(o)' = Refs(o) /\ Mode(o)' = Mode(o)
  <2>1. \A x \in Live : x \in Obj \ D
    BY <1>2, <1>6
  <2>2. \A x \in Obj \ D : meta'[x] = meta[x] /\ mm'[x] = mm[x]
    BY <1>1 DEF FreeAndClose
  <2>3. meta[o] # Nil => meta[o] \in Live
    <3>1. MetaOf(o) \subseteq Live
      BY <2>1, RefsOf DEF Closed, Fine
    <3> QED BY <3>1 DEF MetaOf
  <2>4. Mode(o)' = Mode(o)
    BY <2>1, <2>2, <2>3 DEF Mode
  <2> QED BY <1>8, <2>1, <2>4
<1> QED BY <1>8, <1>9, <1>10, <1>11, <1>12, <1>13, <1>14, <1>15

\* What gc_mark() marks depends on what is white only.
LEMMA MarkSetSame ==
  ASSUME TypeOK, NEW c \in [Obj -> Colors], NEW d \in [Obj -> Colors], NEW S \in SUBSET Obj,
         \A o \in Obj : c[o] \in Whites <=> d[o] \in Whites
  PROVE  MarkSet(c, S) = MarkSet(d, S)
<1> DEFINE wh(f, T) == {o \in T : f[o] \in Whites}
           w1(f) == wh(f, S)
           w2(f) == w1(f) \cup wh(f, UNION {uvval(u) : u \in {x \in w1(f) : kind[x] = "upval"}})
           w3(f) == w2(f) \cup wh(f, UNION {Values(u) \cup MetaOf(u) :
                                              u \in {x \in w2(f) : kind[x] = "udata"}})
<1>1. MarkSet(c, S) = w3(c) /\ MarkSet(d, S) = w3(d)
  BY DEF MarkSet
<1>2. \A T \in SUBSET Obj : wh(c, T) = wh(d, T)
  OBVIOUS
<1>3. w1(c) = w1(d) /\ w1(c) \subseteq Obj
  OBVIOUS
<1>4. \A u \in Obj : uvval(u) \subseteq Obj /\ Values(u) \cup MetaOf(u) \subseteq Obj
  BY RefsAreObjects DEF Refs
<1> HIDE DEF w1
<1>5. UNION {uvval(u) : u \in {x \in w1(c) : kind[x] = "upval"}} \in SUBSET Obj
  BY <1>3, <1>4
<1> HIDE DEF wh
<1>6. w2(c) = w2(d)
  BY <1>2, <1>3, <1>5
<1>7. w2(c) \subseteq Obj
  BY <1>3, <1>5 DEF wh
<1> HIDE DEF w2
<1>8. UNION {Values(u) \cup MetaOf(u) : u \in {x \in w2(c) : kind[x] = "udata"}} \in SUBSET Obj
  BY <1>4, <1>7
<1>9. w3(c) = w3(d)
  BY <1>2, <1>6, <1>8
<1> QED BY <1>1, <1>9

\* propagatemark(): a black object has been traversed in full; weak tables and
\* threads stay gray and are listed again.
LEMMA PropagateSafe ==
  ASSUME GCInv, NEW o \in Obj, propagatemark(o)
  PROVE  SafeInv'
<1> USE DEF GCInv, SafeInv
<1> DEFINE M == MarkSet(color, Kids(o))
           weaktab == kind[o] = "tab" /\ Mode(o) # {}
           again == kind[o] = "thread"
           last == IF weaktab \/ again THEN "gray" ELSE "black"
           c == [color EXCEPT ![o] = last]
<1>1. /\ o \in gray /\ color' = [Painted(color, M) EXCEPT ![o] = last]
      /\ gray' = (gray \ {o}) \cup GrayListed(M)
      /\ weak' = IF weaktab THEN weak \cup {o} ELSE weak
      /\ grayagain' = IF again THEN grayagain \cup {o} ELSE grayagain
      /\ stk' = IF again THEN [stk EXCEPT ![o] = ClearUnmarked(o)] ELSE stk
      /\ UNCHANGED <<kind, finalized, ent, meta, mm, top, open, curL, groot, cur, jitbase, reg>>
      /\ UNCHANGED <<gcstate, atomicpc, currentwhite, mmudata, sweeping, cstack>>
      /\ gcstate \in Marking /\ (atomicpc # "none" => gcstate = "atomic")
  BY DEF propagatemark, OneStep, Marking, ListsInv, objVars, rootVars, jitVars, phaseVars, ctrlVars
<1>2. /\ Alloc = Live /\ Alloc \subseteq Obj /\ Alloc' = Alloc /\ currentwhite \in Whites
      /\ color \in [Obj -> Colors] /\ Main \in Obj /\ gray \subseteq Obj /\ gcstate \notin Sweeps
  BY <1>1, GCAssumption DEF Colours, Alloc, TypeOK, Marking, Sweeps
<1>3. color[o] = "gray" /\ kind[o] \in ListKinds /\ o \in Alloc /\ open[o] = <<>>
  <2>1. color[o] = "gray" /\ kind[o] \in ListKinds
    BY <1>1 DEF ListsInv
  <2> QED BY <2>1, RefsOf DEF ListKinds, Alloc
<1>4. Kids(o) \in SUBSET Live
  <2>1. Refs(o) \subseteq Live /\ FinArgs \subseteq Live
    BY <1>2, <1>3 DEF Closed, Fine, Roots
  <2> QED BY <2>1, RefsOf
<1>5. last \in {"gray", "black"} /\ c \in [Obj -> Colors]
      /\ \A x \in Obj : c[x] = IF x = o THEN last ELSE color[x]
  BY <1>2 DEF Colors
<1>6. gc_mark(c, gray \ {o}, Kids(o))
  <2>1. Kids(o) \in SUBSET Obj
    BY <1>2, <1>4
  <2>2. \A x \in Obj : color[x] \in Whites <=> c[x] \in Whites
    BY <1>3, <1>5 DEF Whites
  <2> HIDE DEF c, last
  <2>3. MarkSet(c, Kids(o)) = M
    BY <1>2, <1>5, <2>1, <2>2, MarkSetSame
  <2>4. M \subseteq {x \in Obj : color[x] \in Whites}
    BY <1>2, <2>1, MarkSetIsWhite
  <2>5. o \notin M
    BY <1>3, <2>4 DEF Whites
  <2> HIDE DEF M
  <2>6. color' = Painted(c, M)
    <3>1. Painted(color, M) = [x \in Obj |-> IF x \in M THEN MarkColor(x) ELSE color[x]]
      BY DEF Painted
    <3>2. color' = [x \in Obj |-> IF x = o THEN last ELSE IF x \in M THEN MarkColor(x) ELSE color[x]]
      BY <1>1, <3>1
    <3> QED BY <1>5, <2>5, <3>2 DEF Painted
  <2> QED BY <1>1, <2>3, <2>6 DEF gc_mark
<1> HIDE DEF M, c
<1>7. MarkedBy(c, Kids(o)) /\ gray \ {o} \subseteq gray'
  <2>1. gray \ {o} \in SUBSET Obj
    BY <1>2
  <2> QED BY <1>2, <1>4, <1>5, <1>6, <2>1, MarkEffect
<1>8. color' \in [Obj -> Colors] /\ color'[o] = last
      /\ \A x \in Obj : ~iswhite(x) => ~iswhite(x)'
  <2>1. \A x \in Obj : ~iswhite(x) => c[x] \notin Whites
    BY <1>5 DEF iswhite, Whites
  <2>2. c[o] \notin Whites
    BY <1>5 DEF Whites
  <2> QED BY <1>5, <1>7, <2>1, <2>2 DEF MarkedBy, iswhite
<1>9. \A T \in SUBSET Obj : Marked(T) => Marked(T)'
  BY <1>8 DEF Marked
<1>10. \A x \in Alloc : ~isdead(x)'
  <2> SUFFICES ASSUME NEW x \in Alloc, isdead(x)'
               PROVE  FALSE
    OBVIOUS
  <2>1. x \in Obj /\ ~isdead(x) /\ color'[x] = otherwhite /\ otherwhite \in Whites
    BY <1>1, <1>2 DEF Live, isdead, otherwhite, Whites
  <2>2. x # o
    BY <1>5, <1>8, <2>1 DEF Whites
  <2>3. c[x] = color'[x]
    BY <1>7, <2>1 DEF MarkedBy, Whites
  <2> QED BY <1>5, <2>1, <2>2, <2>3 DEF isdead
<1>11. Live' = Live
  BY <1>2, <1>10 DEF Live
<1>12. \A x \in Obj, i \in Slots : stk'[x][i] \in {stk[x][i], Nil}
  <2>1. CASE again
    <3>1. stk \in [Obj -> [Slots -> Val]]
      BY DEF TypeOK
    <3>2. \A i \in Slots : ClearUnmarked(o)[i] \in {stk[o][i], Nil}
      BY DEF ClearUnmarked
    <3> QED BY <1>1, <2>1, <3>1, <3>2
  <2>2. CASE ~again
    BY <1>1, <2>2
  <2> QED BY <2>1, <2>2
<1>13. ASSUME NEW x \in Obj
       PROVE  Refs(x)' \subseteq Refs(x) /\ uvval(x)' \subseteq uvval(x) /\ Refs(x) \subseteq Obj
  <2>1. ent'[x] = ent[x] /\ meta'[x] = meta[x] /\ open'[x] = open[x]
    BY <1>1
  <2>2. open[x] # <<>> => open[x][1] \in Obj /\ open[x][2] \in Slots
    BY RefsOf
  <2>3. Refs(x)' \subseteq Refs(x) \cup ({} \ {Nil})
    BY <1>12, <2>1, <2>2, RefsChange
  <2>4. uvval(x)' \subseteq uvval(x)
    <3>1. Values(x)' = Values(x)
      BY <2>1 DEF Values, Nodes
    <3> QED BY <1>12, <2>1, <2>2, <3>1 DEF uvval
  <2> QED BY <2>3, <2>4, RefsOf
<1>14. Shape'
  <2>1. \A x \in Obj : SlotRefs(x, Slots)' \subseteq SlotRefs(x, Slots)
    BY <1>12 DEF SlotRefs
  <2> QED BY <1>1, <2>1 DEF Shape
<1>15. Closed'
  <2>1. \A x \in Live' : \A v \in Refs(x)' : x \in Live /\ v \in Refs(x)
    BY <1>2, <1>11, <1>13
  <2>2. Roots' \cup mmudata' \subseteq Live'
    BY <1>1, <1>11 DEF Closed, Roots, FinArgs
  <2>3. reg' # Nil => kind'[reg'] # "upval"
    BY <1>1 DEF Closed
  <2> QED BY <1>1, <1>11, <2>1, <2>2, <2>3, ClosedStep
<1>16. ASSUME NEW x \in Alloc, isblack(x)', x \in mmudata => atomicpc = "udata"
       PROVE  kind[x] \notin {"thread", "str"} /\ open[x] = <<>> /\ Marked(Refs(x))'
  <2>0. x \in Obj /\ Refs(x)' \subseteq Refs(x) /\ Refs(x) \in SUBSET Obj
    BY <1>2, <1>13
  <2>1. CASE x = o
    <3>1. ~weaktab /\ ~again
      BY <1>8, <1>16, <2>1 DEF isblack
    <3>2. kind[o] \in {"tab", "func", "proto", "trace"}
      BY <1>3, <3>1 DEF ListKinds
    <3>3. Refs(o) = Keys(o) \cup MetaOf(o) \cup Values(o)
      BY <3>2, RefsOf
    <3>4. CASE kind[o] = "tab"
      <4>1. Kids(o) = gc_traverse_tab(o) /\ Mode(o) = {}
        BY <3>1, <3>4 DEF Kids
      <4> QED BY <1>3, <1>7, <2>0, <2>1, <3>3, <3>4, <4>1
              DEF MarkedBy, gc_traverse_tab, Marked, iswhite
    <3>5. CASE kind[o] # "tab"
      <4>1. Kids(o) = Values(o)
        BY <3>2, <3>5 DEF Kids
      <4>2. Keys(o) = {} /\ MetaOf(o) = {}
        BY <3>2, <3>5, RefsOf
      <4> QED BY <1>3, <1>7, <2>0, <2>1, <3>2, <3>3, <4>1, <4>2 DEF MarkedBy, Marked, iswhite
    <3> QED BY <3>4, <3>5
  <2>2. CASE x # o /\ isblack(x)
    <3>1. kind[x] \notin {"thread", "str"} /\ open[x] = <<>> /\ Marked(Refs(x))
      BY <1>1, <1>16, <2>2 DEF Colours, Marks
    <3> QED BY <1>9, <2>0, <3>1 DEF Marked
  <2>3. CASE x # o /\ ~isblack(x)
    <3>1. c[x] = color[x] /\ c[x] # "black"
      BY <1>5, <2>0, <2>3 DEF isblack
    <3>2. c[x] \in Whites
      BY <1>7, <1>16, <2>0, <3>1 DEF MarkedBy, isblack
    <3>3. /\ kind[x] = "udata" \/ (kind[x] = "upval" /\ open[x] = <<>>)
          /\ \A v \in Refs(x) : color'[v] \notin Whites
      BY <1>7, <1>16, <2>0, <3>2 DEF MarkedBy, isblack
    <3> QED BY <2>0, <3>3, RefsOf DEF Marked, iswhite
  <2> QED BY <2>1, <2>2, <2>3
<1>17. ASSUME NEW x \in Alloc, isgray(x)'
       PROVE  /\ kind[x] # "udata" /\ Listed(x)'
              /\ open[x] # <<>> /\ atomicpc # "none" => Marked(uvval(x))'
  <2>0. x \in Obj /\ uvval(x)' \subseteq uvval(x) /\ uvval(x) \in SUBSET Obj
    BY <1>2, <1>13, RefsOf
  <2>1. CASE x = o
    <3>1. weaktab \/ again
      BY <1>8, <1>17, <2>1 DEF isgray
    <3> QED BY <1>1, <1>3, <2>1, <3>1 DEF Listed, ListKinds
  <2>2. CASE x # o /\ isgray(x)
    <3>1. kind[x] # "udata" /\ Listed(x)
      BY <1>1, <2>2 DEF Colours, Marks
    <3>2. Listed(x)'
      BY <1>1, <1>7, <2>2, <3>1 DEF Listed
    <3>3. ASSUME open[x] # <<>>, atomicpc # "none"
          PROVE  Marked(uvval(x))'
      <4>1. Marked(uvval(x))
        BY <2>0, <2>2, <3>3 DEF Atomic, GrayOpenUV
      <4> QED BY <1>9, <2>0, <4>1 DEF Marked
    <3> QED BY <3>1, <3>2, <3>3
  <2>3. CASE x # o /\ ~isgray(x)
    <3>1. c[x] = color[x] /\ c[x] # "gray"
      BY <1>5, <2>0, <2>3 DEF isgray
    <3>2. c[x] \in Whites
      BY <1>7, <1>17, <2>0, <3>1 DEF MarkedBy, isgray
    <3>3. /\ kind[x] # "udata" /\ (x \in gray' \/ kind[x] = "str" \/ open[x] # <<>>)
          /\ open[x] # <<>> => \A v \in uvval(x) : color'[v] \notin Whites
      BY <1>7, <1>17, <2>0, <3>2 DEF MarkedBy, isgray
    <3> QED BY <1>1, <2>0, <3>3 DEF Listed, Marked, iswhite
  <2> QED BY <2>1, <2>2, <2>3
<1>18. Colours'
  <2>1. ASSUME NEW x \in Alloc, isblack(x)'
        PROVE  kind[x] \notin {"thread", "str"} /\ open[x] = <<>>
    <3>1. CASE x \in mmudata
      BY <1>2, <3>1, RefsOf DEF ListsInv
    <3> QED BY <1>16, <2>1, <3>1
  <2> QED BY <1>1, <1>2, <1>11, <1>17, <2>1 DEF Colours
<1>19. Marks'
  <2>1. ~iswhite(Main)'
    BY <1>1, <1>2, <1>8 DEF Marks
  <2>2. \A t \in weak' : kind'[t] = "tab"
    BY <1>1 DEF Marks
  <2> QED BY <1>1, <1>2, <1>16, <1>17, <2>1, <2>2 DEF Marks
<1>20. Swept'
  BY <1>1 DEF Swept
<1>21. Atomic'
  <2>1. ASSUME atomicpc # "none"
        PROVE  ~jitbase' /\ \A u \in GrayOpenUV' : Marked(uvval(u))'
    <3>1. ~jitbase'
      BY <1>1, <2>1 DEF Atomic
    <3>2. ASSUME NEW u \in GrayOpenUV'
          PROVE  Marked(uvval(u))'
      <4>1. u \in Obj /\ open[u] # <<>> /\ isgray(u)'
        BY <1>1 DEF GrayOpenUV
      <4>2. u \in Alloc
        BY <4>1 DEF Alloc, Shape
      <4> QED BY <1>17, <2>1, <4>1, <4>2
    <3> QED BY <3>1, <3>2
  <2>2. ASSUME atomicpc \in {"weak", "again", "udata"}
        PROVE  Marked(AtomicRoots)' /\ \A t \in weak' : Marked(gc_traverse_tab(t))'
    <3>1. AtomicRoots' = AtomicRoots /\ AtomicRoots \in SUBSET Obj /\ Marked(AtomicRoots)
      BY <1>1, <1>2, <2>2 DEF AtomicRoots, Roots, Closed, Atomic
    <3>2. ASSUME NEW t \in weak'
          PROVE  Marked(gc_traverse_tab(t))'
      <4>1. t \in Obj /\ gc_traverse_tab(t)' = gc_traverse_tab(t)
        <5>1. t \in Obj
          BY <1>1 DEF TypeOK
        <5> QED BY <1>1, <5>1 DEF gc_traverse_tab, MetaOf, Values, Keys, Nodes, Mode
      <4>2. gc_traverse_tab(t) \in SUBSET Obj
        <5>1. gc_traverse_tab(t) \subseteq Values(t) \cup MetaOf(t) \cup Keys(t)
          BY DEF gc_traverse_tab
        <5>2. Values(t) \cup MetaOf(t) \cup Keys(t) \subseteq Refs(t)
          BY DEF Refs
        <5> QED BY <4>1, <5>1, <5>2, RefsOf
      <4>3. CASE t \in weak
        <5>1. Marked(gc_traverse_tab(t))
          BY <2>2, <4>3 DEF Atomic
        <5> QED BY <1>9, <4>1, <4>2, <5>1 DEF Marked
      <4>4. CASE t \notin weak
        <5>1. t = o /\ weaktab
          BY <1>1, <4>4
        <5>2. Kids(t) = gc_traverse_tab(t)
          BY <5>1 DEF Kids
        <5> QED BY <1>7, <4>1, <5>1, <5>2 DEF MarkedBy, Marked, iswhite
      <4> QED BY <4>3, <4>4
    <3> QED BY <1>9, <3>1, <3>2 DEF Marked
  <2>3. ASSUME atomicpc \in {"again", "udata"}, NEW th \in grayagain'
        PROVE  kind'[th] = "thread" /\ Marked(Refs(th))' /\ (th = curL' => Marked(FinArgs)')
    <3>0. th \in Obj /\ Refs(th)' \subseteq Refs(th) /\ Refs(th) \in SUBSET Obj /\ FinArgs' = FinArgs
      BY <1>1, <1>13 DEF TypeOK, FinArgs
    <3>1. FinArgs \in SUBSET Obj
      BY <1>2 DEF Closed, Roots
    <3>2. CASE th \in grayagain
      <4>1. kind[th] = "thread" /\ Marked(Refs(th)) /\ (th = curL => Marked(FinArgs))
        BY <2>3, <3>2 DEF Atomic
      <4> QED BY <1>1, <1>9, <3>0, <3>1, <4>1 DEF Marked
    <3>3. CASE th \notin grayagain
      <4>1. th = o /\ kind[o] = "thread" /\ gcstate = "atomic" /\ stk' = [stk EXCEPT ![o] = ClearUnmarked(o)]
        BY <1>1, <2>3, <3>3
      <4>2. Kids(o) = Values(o) \cup SlotRefs(o, 1 .. top[o]) \cup (IF o = curL THEN FinArgs ELSE {})
        BY <4>1 DEF Kids, gc_traverse_thread
      <4>3. \A i \in Slots : stk'[o][i] = IF i > top[o] THEN Nil ELSE stk[o][i]
        BY <4>1 DEF TypeOK, ClearUnmarked
      <4>4. SlotRefs(o, Slots)' \subseteq SlotRefs(o, 1 .. top[o])
        <5>1. \A i \in Slots : i > top[o] \/ i \in 1 .. top[o]
          BY GCAssumption DEF TypeOK, Slots
        <5> QED BY <4>3, <5>1 DEF SlotRefs
      <4>5. Keys(o)' = {} /\ MetaOf(o)' = {} /\ Values(o)' = Values(o) /\ uvval(o)' = Values(o)
        <5>1. ent' = ent /\ meta' = meta /\ open' = open
          BY <1>1
        <5>2. Keys(o)' = Keys(o) /\ MetaOf(o)' = MetaOf(o) /\ Values(o)' = Values(o)
          BY <5>1 DEF Keys, MetaOf, Values, Nodes
        <5>3. Keys(o) = {} /\ MetaOf(o) = {}
          BY <4>1, RefsOf
        <5>4. uvval(o)' = Values(o)'
          BY <1>3, <5>1 DEF uvval
        <5> QED BY <5>2, <5>3, <5>4
      <4>6. Refs(o)' \subseteq Kids(o)
        BY <4>2, <4>4, <4>5 DEF Refs
      <4> QED BY <1>1, <1>7, <3>0, <4>1, <4>2, <4>6 DEF MarkedBy, Marked, iswhite
    <3> QED BY <3>2, <3>3
  <2>4. ASSUME atomicpc = "udata"
        PROVE  Marked(mmudata)'
    <3>1. Marked(mmudata) /\ mmudata \in SUBSET Obj
      BY <2>4 DEF Atomic, TypeOK
    <3> QED BY <1>1, <1>9, <3>1 DEF Marked
  <2> QED BY <1>1, <2>1, <2>2, <2>3, <2>4 DEF Atomic
<1> QED BY <1>14, <1>15, <1>18, <1>19, <1>20, <1>21

\* Finalizers get their userdata as an argument; the cycle ends.
LEMMA FinalizeSafe ==
  ASSUME GCInv, (\E u \in Obj : gc_finalize(u)) \/ EndFinalize \/ FullEnd
  PROVE  SafeInv'
<1> USE DEF GCInv, SafeInv
<1>1. /\ gcstate \in {"pause", "finalize"} /\ gcstate' \in {"pause", "finalize"}
      /\ UNCHANGED <<kind, finalized, ent, meta, mm, open, stk, curL, groot, jitbase, reg>>
      /\ UNCHANGED <<currentwhite, sweeping>>
      /\ cur' \subseteq cur /\ mmudata' \subseteq mmudata
      /\ atomicpc = "none" /\ atomicpc' = "none"
      /\ \A o \in mmudata \ mmudata' : color'[o] = currentwhite
      /\ \A o \in Obj : color'[o] \in {color[o], currentwhite}
  <2>1. ASSUME NEW u \in Obj, gc_finalize(u)
        PROVE  /\ mmudata' = mmudata \ {u} /\ color' = [color EXCEPT ![u] = currentwhite]
               /\ cur' \subseteq cur
    BY <2>1 DEF gc_finalize
  <2>2. color \in [Obj -> Colors] /\ mmudata \subseteq Obj /\ atomicpc \in AtomicPCs
    BY DEF TypeOK
  <2>3. gcstate \notin Marking => atomicpc = "none"
    BY <2>2 DEF ListsInv, Marking, AtomicPCs
  <2> QED BY <2>1, <2>2, <2>3 DEF gc_finalize, EndFinalize, FullEnd, OneStep, heapVars, objVars,
             rootVars, jitVars, phaseVars, Marking
<1>2. /\ Alloc = Live /\ Alloc \subseteq Obj /\ Alloc' = Alloc /\ currentwhite \in Whites
      /\ color \in [Obj -> Colors] /\ gcstate \notin Marking /\ gcstate' \notin Marking
      /\ gcstate' \notin Sweeps
  BY <1>1 DEF Colours, Alloc, TypeOK, Marking, Sweeps
<1>3. \A o \in Alloc : ~isdead(o)'
  <2>1. \A o \in Alloc : color[o] # otherwhite /\ o \in Obj
    BY <1>2 DEF Live, isdead
  <2>2. currentwhite # otherwhite /\ otherwhite' = otherwhite
    BY <1>1, <1>2 DEF otherwhite, Whites
  <2> QED BY <1>1, <2>1, <2>2 DEF isdead
<1>4. Live' = Live
  BY <1>2, <1>3 DEF Live
<1>5. FinArgs' \subseteq Live
  <2>1. FinArgs \subseteq Live /\ mmudata \subseteq Live
    BY DEF Closed, Roots
  <2>2. CASE cstack' = cstack
    BY <2>1, <2>2 DEF FinArgs
  <2>3. CASE \E u \in Obj : gc_finalize(u) /\ cstack' # cstack
    <3>1. PICK u \in mmudata : cstack' = <<[act |-> "fin", arg |-> u, stop |-> gcstop]>> \o cstack
      BY <2>3 DEF gc_finalize
    <3>2. [act |-> "fin", arg |-> u, stop |-> gcstop] \in Frame
      BY <3>1 DEF Frame, TypeOK, Val
    <3> DEFINE f == [act |-> "fin", arg |-> u, stop |-> gcstop]
    <3>3. f \in Frame /\ f.arg = u /\ cstack' = <<f>> \o cstack
      BY <3>1, <3>2
    <3> HIDE DEF f
    <3>4. FinArgs' \subseteq FinArgs \cup ({f.arg} \ {Nil})
      BY <3>3, FinArgsPush
    <3> QED BY <2>1, <3>3, <3>4
  <2>4. CASE cstack # <<>> /\ cstack' = Tail(cstack)
    BY <2>1, <2>4, FinArgsTail
  <2> QED BY <2>2, <2>3, <2>4 DEF EndFinalize, FullEnd, InFull, ctrlVars
<1>6. Shape' /\ Closed'
  <2>1. mmudata' \subseteq Live
    BY <1>1 DEF Closed
  <2>2. \A u \in finalized' : kind[u] = "udata"
    BY <1>1 DEF Shape
  <2> QED BY <1>1, <1>4, <1>5, <2>1, <2>2, SameHeap
<1>7. Colours'
  <2>1. \A o \in Alloc : (isblack(o)' => isblack(o)) /\ (isgray(o)' => isgray(o))
    BY <1>1, <1>2 DEF isblack, isgray, Whites
  <2> QED BY <1>1, <1>2, <1>4, <2>1 DEF Colours
<1>8. Swept'
  <2>1. \A o \in Alloc \ mmudata : Passed(o) => color[o] = currentwhite
    BY <1>2 DEF Swept
  <2>2. \A o \in Alloc : Passed(o)' = Passed(o)
    BY <1>1 DEF Passed
  <2>3. \A o \in Alloc \ mmudata' : Passed(o)' => color'[o] = currentwhite
    BY <1>1, <1>2, <2>1, <2>2
  <2> QED BY <1>1, <1>2, <2>3 DEF Swept
<1>9. Marks' /\ Atomic'
  BY <1>1, <1>2 DEF Marks, Atomic
<1> QED BY <1>6, <1>7, <1>8, <1>9

\* What a step of a sweep does.
LEMMA SweepOps ==
  ASSUME GCInv, SweepString \/ Sweep
  PROVE  /\ SafeInv' /\ Live' = Live /\ \A o \in Live : Refs(o)' = Refs(o) /\ Mode(o)' = Mode(o)
         /\ \A o \in Alloc : kind'[o] = "free" => isdead(o)
<1>1. PICK S \in SUBSET sweeping :
        gc_sweep(S) /\ gcstate' \in Sweeps \cup {"pause", "finalize"} /\ (gcstate' \in Sweeps \/ S = sweeping)
  <2>1. CASE SweepString
    <3>1. PICK S \in SUBSET {o \in sweeping : kind[o] = "str"} :
            gc_sweep(S) /\ gcstate' \in {"sweep", "sweepstring"}
      BY <2>1 DEF SweepString
    <3> QED BY <3>1 DEF Sweeps
  <2>2. CASE Sweep
    <3>1. PICK S \in SUBSET sweeping :
            gc_sweep(S) /\ gcstate' = IF S # sweeping THEN "sweep" ELSE AfterSweep
      BY <2>2 DEF Sweep
    <3> QED BY <3>1 DEF AfterSweep, Sweeps
  <2> QED BY <2>1, <2>2
<1>2. /\ gcstate \in Sweeps /\ atomicpc = "none" /\ atomicpc' = "none"
      /\ UNCHANGED <<rootVars, currentwhite, mmudata, cstack>>
  BY DEF SweepString, Sweep, OneStep, Sweeps, ctrlVars
<1> QED BY <1>1, <1>2, SweepSafe

\* The collector keeps the heap safe.
LEMMA CollectSafe ==
  ASSUME GCInv, Collect
  PROVE  SafeInv'
<1>1. CASE StartCycle \/ FullStart
  BY <1>1, StartSafe
<1>2. CASE \E o \in Obj : propagatemark(o)
  BY <1>2, PropagateSafe
<1>3. CASE EndPropagate \/ gc_mark_uv \/ AtomicWeak \/ AtomicAgain
  BY <1>3, MarkStepSafe
<1>4. CASE AtomicUdata
  BY <1>4, AtomicUdataSafe
<1>5. CASE AtomicEnd
  BY <1>5, AtomicEndSafe
<1>6. CASE SweepString \/ Sweep
  BY <1>6, SweepOps
<1>7. CASE (\E u \in Obj : gc_finalize(u)) \/ EndFinalize \/ FullEnd
  BY <1>7, FinalizeSafe
<1> QED BY <1>1, <1>2, <1>3, <1>4, <1>5, <1>6, <1>7 DEF Collect

-----------------------------------------------------------------------------
(* The invariant holds, and what follows from it.                          *)

\* The main thread alone is a safe heap.
LEMMA InitSafe == Init => SafeInv
<1> SUFFICES ASSUME Init PROVE SafeInv
  OBVIOUS
<1>1. /\ Main \in Obj /\ Nil \notin Obj
      /\ \A o \in Obj : kind[o] = IF o = Main THEN "thread" ELSE "free"
      /\ \A o \in Obj : /\ color[o] = "white0" /\ ent[o] = {} /\ meta[o] = Nil
                        /\ open[o] = <<>> /\ \A i \in Slots : stk[o][i] = Nil
      /\ curL = Main /\ groot = Nil /\ cur = {} /\ jitbase = FALSE /\ reg = Nil
      /\ gcstate = "pause" /\ atomicpc = "none" /\ currentwhite = "white0"
      /\ weak = {} /\ mmudata = {} /\ finalized = {} /\ cstack = <<>>
  BY GCAssumption DEF Init, NoColor
<1>2. Alloc = {Main} /\ Live = {Main}
  BY <1>1 DEF Alloc, Live, isdead, otherwhite
<1>3. \A o \in Obj : SlotRefs(o, Slots) = {}
  BY <1>1 DEF SlotRefs
<1>4. \A o \in Obj : Refs(o) = {}
  BY <1>1, <1>3 DEF Refs, Keys, Values, Nodes, MetaOf, uvval
<1>5. FinArgs = {}
  BY <1>1 DEF FinArgs
<1>6. Shape
  BY <1>1, <1>3 DEF Shape
<1>7. Closed
  BY <1>1, <1>2, <1>4, <1>5 DEF Closed, Roots
<1>8. Colours /\ Swept /\ Marks /\ Atomic
  BY <1>1, <1>2 DEF Colours, Swept, Marks, Atomic, Sweeps, Marking, isblack, isgray
<1> QED BY <1>6, <1>7, <1>8 DEF SafeInv

\* The invariant depends on the variables of the specification only.
LEMMA SafeFrame ==
  ASSUME SafeInv, UNCHANGED vars
  PROVE  SafeInv'
<1>1. /\ UNCHANGED <<kind, finalized, ent, meta, mm, top, open, stk, color, curL, groot, cur, jitbase, reg>>
      /\ UNCHANGED <<gray, grayagain, weak, gcstate, atomicpc, currentwhite, mmudata, sweeping, gcstop, cstack>>
  BY DEF vars, heapVars, objVars, rootVars, jitVars, listVars, phaseVars, ctrlVars
<1>2. /\ Alloc' = Alloc /\ Live' = Live /\ Roots' = Roots /\ AtomicRoots' = AtomicRoots
      /\ FinArgs' = FinArgs /\ GrayOpenUV' = GrayOpenUV
  BY <1>1 DEF Alloc, Live, isdead, otherwhite, FinArgs, Roots, AtomicRoots, GrayOpenUV, isgray
<1>3. \A o : Refs(o)' = Refs(o) /\ uvval(o)' = uvval(o) /\ gc_traverse_tab(o)' = gc_traverse_tab(o)
              /\ SlotRefs(o, Slots)' = SlotRefs(o, Slots)
  BY <1>1 DEF Refs, uvval, gc_traverse_tab, Mode, Keys, Values, MetaOf, Nodes, SlotRefs
<1>4. Shape' /\ Closed' /\ Colours' /\ Swept'
  BY <1>1, <1>2, <1>3 DEF SafeInv, Shape, Closed, Fine, Colours, Swept, Passed, isblack, isgray
<1>5. Marks' /\ Atomic'
  BY <1>1, <1>2, <1>3 DEF SafeInv, Marks, Atomic, Marked, Listed, iswhite, isblack, isgray
<1> QED BY <1>4, <1>5 DEF SafeInv

\* Every step keeps it.
LEMMA NextSafe ==
  ASSUME GCInv, [Next]_vars
  PROVE  SafeInv'
<1>1. Named \in SUBSET Live
  BY ReachIsLive DEF GCInv, SafeInv
<1>2. CASE Next
  BY <1>1, <1>2, MutateSafe, CollectSafe DEF Next
<1>3. CASE UNCHANGED vars
  BY <1>3, SafeFrame DEF GCInv
<1> QED BY <1>2, <1>3

\* GCInv holds in every state.
LEMMA GCInvariant == Spec => []GCInv
<1>1. Init => FinInv /\ SafeInv
  BY InitSafe DEF Init, FinInv, Marking
<1>2. ASSUME TypeOK, ListsInv, FinInv, SafeInv, [Next]_vars
      PROVE  FinInv' /\ SafeInv'
  <2>1. CASE Next
    <3>1. Named \in SUBSET Obj
      BY DEF Named, ReachFrom
    <3>2. FinInv'
      BY <1>2, <2>1, <3>1, MutateFin, CollectFin DEF Next
    <3> QED BY <1>2, <3>2, NextSafe DEF GCInv
  <2>2. CASE UNCHANGED vars
    <3>1. FinInv'
      BY <1>2, <2>2, FinFrame DEF vars, phaseVars, ctrlVars
    <3> QED BY <1>2, <2>2, <3>1, SafeFrame
  <2> QED BY <1>2, <2>1, <2>2
<1> QED BY <1>1, <1>2, ListsInvariant, TypeCorrect, PTL DEF Spec, GCInv

\* Nothing that the program or a pending finalizer can name is freed, or is left for
\* the sweep under way to free: the write barriers, the marking of atomic(), the
\* clearing of weak tables and the revival of dead strings and upvalues see to it.
THEOREM NoDanglingCorrect == Spec => []NoDangling
<1>1. GCInv => NoDangling
  BY ReachIsLive DEF GCInv, SafeInv, NoDangling
<1> QED BY <1>1, GCInvariant, PTL

\* "A black object never points to a white object": no store, no closing of an
\* upvalue, no saved trace and no step of atomic() breaks what gc_mark() and the write
\* barriers maintain while the collector marks.
THEOREM TriColorCorrect == Spec => []TriColor
<1>1. GCInv => TriColor
  BY DEF GCInv, SafeInv, Marks, Marked, TriColor
<1> QED BY <1>1, GCInvariant, PTL

\* When gc_sweep() has passed all lists, everything that is left is current white: the
\* next cycle finds no object that an earlier one has marked, mmudata excepted.
THEOREM AllWhiteCorrect == Spec => []AllWhite
<1>1. GCInv => AllWhite
  BY DEF GCInv, SafeInv, ListsInv, Swept, Passed, AllWhite, Sweeps, Marking
<1> QED BY <1>1, GCInvariant, PTL

\* Only gc_sweep() and lj_func_closeuv() free an object, and only a dead one.
LEMMA FreesDead ==
  ASSUME GCInv, [Next]_vars, NEW o \in Alloc, kind'[o] = "free"
  PROVE  isdead(o)
<1> USE DEF objVars, heapVars
<1>1. /\ o \in Obj /\ kind[o] # "free" /\ kind \in [Obj -> Kinds \cup {"free"}]
      /\ "free" \notin NewKinds
  BY GCAssumption DEF Alloc, GCInv, TypeOK, Kinds
<1>2. ASSUME NEW level \in Slots, lj_func_closeuv(level)
      PROVE  isdead(o)
  BY <1>1, <1>2 DEF lj_func_closeuv, FreeAndClose
<1>3. ASSUME NEW p \in Obj, NEW k \in NewKinds, NEW v, lj_mem_newgco(p, k, v)
      PROVE  FALSE
  BY <1>1, <1>3 DEF lj_mem_newgco
<1>4. ASSUME NEW f \in Obj, NEW u \in Obj, NEW i \in Slots, lj_func_newL_gc(f, u, i)
      PROVE  FALSE
  BY <1>1, <1>4 DEF lj_func_newL_gc
<1>5. ASSUME NEW T \in Obj, NEW p, trace_stop(T, p)
      PROVE  FALSE
  BY <1>1, <1>5 DEF trace_stop
<1>6. ASSUME NEW R \in SUBSET Obj, Mutate(R)
      PROVE  isdead(o)
  <2>1. CASE \/ \E p \in Obj, k \in NewKinds, v \in R \cup {Nil} : lj_mem_newgco(p, k, v)
             \/ \E f, u \in Obj, i \in Slots : lj_func_newL_gc(f, u, i)
             \/ \E T \in Obj, p \in R : trace_stop(T, p)
    BY <1>3, <1>4, <1>5, <2>1
  <2>2. CASE \E level \in Slots : lj_func_closeuv(level)
    BY <1>2, <2>2
  <2>3. CASE kind' = kind
    BY <1>1, <2>3
  <2>4. \/ \E p \in Obj, k \in NewKinds, v \in R \cup {Nil} : lj_mem_newgco(p, k, v)
        \/ \E f, u \in Obj, i \in Slots : lj_func_newL_gc(f, u, i)
        \/ \E T \in Obj, p \in R : trace_stop(T, p)
        \/ \E level \in Slots : lj_func_closeuv(level)
        \/ kind' = kind
    BY <1>6 DEF Mutate, lj_str_new, Move, SetTop, Resume,
                lj_tab_newkey, lj_tab_set, lua_rawseti, SetField, SetBaseMeta,
                lua_setmetatable, lua_setfenv, SetUpvalue, trace_start,
                RecordKGC, trace_abort, lj_trace_flushproto, EnterTrace,
                lj_trace_exit, FinReturn, FinError, lj_gc_fullgc, lua_gc_stop,
                lua_gc_restart
  <2> QED BY <2>1, <2>2, <2>3, <2>4
<1>7. ASSUME Collect
      PROVE  isdead(o)
  <2>1. CASE SweepString \/ Sweep
    BY <2>1, SweepOps
  <2>2. CASE kind' = kind
    BY <1>1, <2>2
  <2>3. (SweepString \/ Sweep) \/ kind' = kind
    BY <1>7 DEF Collect, StartCycle, propagatemark, EndPropagate, gc_mark_uv, AtomicWeak,
                AtomicAgain, AtomicUdata, AtomicEnd, gc_finalize, EndFinalize, FullStart, FullEnd
  <2> QED BY <2>1, <2>2, <2>3
<1>8. Named \in SUBSET Obj
  BY DEF Named, ReachFrom
<1>9. CASE UNCHANGED vars
  BY <1>1, <1>9 DEF vars
<1> QED BY <1>6, <1>7, <1>8, <1>9 DEF Next

\* No step frees what the program could reach before it: an interned string or an open
\* upvalue that is found again is revived before gc_sweep() or lj_func_closeuv() gets
\* to it, and everything else was marked in time.
THEOREM FreeUnreachableCorrect == Spec => FreeUnreachable
<1>1. ASSUME GCInv, [Next]_vars
      PROVE  \A o \in Alloc : kind'[o] = "free" => o \notin Reach
  BY <1>1, FreesDead, ReachIsLive DEF GCInv, SafeInv, Live
<1> QED BY <1>1, GCInvariant, PTL DEF Spec, FreeUnreachable

\* atomic() leaves no entry of a weak table that names an object the sweep will free,
\* and no finalized userdata as a weak value: gc_clearweak() clears the entries of
\* white objects, and marks the strings of the entries it keeps.
THEOREM WeakClearedCorrect == Spec => WeakCleared
<1> DEFINE Kept(t) == \A e \in ent'[t] : e[2] # Nil =>
                        /\ e[1] # Nil => color'[e[1]] # currentwhite
                        /\ color'[e[2]] # currentwhite
                        /\ "v" \in Mode(t) => e[2] \notin finalized
<1>1. ASSUME GCInv, [Next]_vars, atomicpc = "udata", atomicpc' = "none"
      PROVE  \A t \in weak : Kept(t)
  <2>1. AtomicEnd
    <3> USE DEF objVars, heapVars, phaseVars
    <3>1. ASSUME NEW R \in SUBSET Obj, Mutate(R)
          PROVE  FALSE
      BY <1>1, <3>1 DEF Mutate, Mutating, Interp, lj_mem_newgco, lj_str_new, lj_func_newL_gc, Move, SetTop, Resume,
                  lj_tab_newkey, lj_tab_set, lua_rawseti, SetField, SetBaseMeta,
                  lua_setmetatable, lua_setfenv, SetUpvalue, lj_func_closeuv, trace_start,
                  RecordKGC, trace_stop, trace_abort, lj_trace_flushproto, EnterTrace,
                  lj_trace_exit, FinReturn, FinError, lj_gc_fullgc, lua_gc_stop,
                  lua_gc_restart
    <3>2. ASSUME Collect
          PROVE  AtomicEnd
      BY <1>1, <3>2 DEF Collect, OneStep, StartCycle, propagatemark, EndPropagate, gc_mark_uv, AtomicWeak,
                  AtomicAgain, AtomicUdata, SweepString, Sweep, gc_finalize, EndFinalize, FullStart, FullEnd
    <3>3. Named \in SUBSET Obj
      BY DEF Named, ReachFrom
    <3>4. ~UNCHANGED vars
      BY <1>1 DEF vars
    <3> QED BY <1>1, <3>1, <3>2, <3>3, <3>4 DEF Next
  <2>2. /\ weak \subseteq Obj /\ ent \in [Obj -> SUBSET (Val \X Val)] /\ currentwhite \in Whites
        /\ \A t \in weak : ent'[t] = gc_clearweak(t)
        /\ \A o \in Obj : color'[o] = IF o \in WeakStrings THEN "gray" ELSE color[o]
    BY <1>1, <2>1 DEF GCInv, TypeOK, AtomicEnd
  <2>3. \A o \in Obj : ~iswhite(o) \/ o \in WeakStrings => color'[o] # currentwhite
    BY <2>2 DEF iswhite, Whites
  <2>4. ASSUME NEW t \in weak, NEW e \in ent'[t], e[2] # Nil
        PROVE  /\ e[1] # Nil => color'[e[1]] # currentwhite
               /\ color'[e[2]] # currentwhite
               /\ "v" \in Mode(t) => e[2] \notin finalized
    <3>1. e \in gc_clearweak(t)
      BY <2>2, <2>4
    <3>2. /\ e \in Nodes(t) /\ (e[1] # Nil => ~iswhite(e[1]) \/ e[1] \in WeakStrings)
          /\ ~iswhite(e[2]) \/ e[2] \in WeakStrings
          /\ "v" \in Mode(t) => e[2] \notin finalized
      BY <1>1, <2>4, <3>1, ClearedWeak
    <3>3. e \in Val \X Val
      BY <2>2, <3>2 DEF Nodes
    <3>4. (e[1] # Nil => e[1] \in Obj) /\ e[2] \in Obj
      BY <2>4, <3>3 DEF Val
    <3> QED BY <2>3, <3>2, <3>4
  <2> QED BY <2>4
<1> QED BY <1>1, GCInvariant, PTL DEF Spec, WeakCleared

(***************************************************************************)
(* A full collection is complete.  Its second cycle starts from a white    *)
(* heap and nothing but the collector runs in it, as long as there is no   *)
(* userdata with a finalizer: what is marked then is reachable.            *)
(***************************************************************************)
\* Frames are left after their upvalues are closed, and stacks are freed with theirs:
\* an open upvalue never refers to a stale slot.
OpenBelowTop == \A u \in Obj : open[u] # <<>> => open[u][2] <= top[open[u][1]]

\* Without userdata no finalizer runs, and lj_gc_fullgc() is not nested.
NoUdata ==
  /\ \A o \in Obj : kind[o] # "udata"
  /\ mmudata = {}
  /\ cstack # <<>> => Len(cstack) = 1 /\ Head(cstack).act # "fin"

\* What the collector marks for o, and the sets that have all it may mark.
Strong(o) == IF kind[o] = "upval" THEN uvval(o) ELSE Kids(o)
StrongSet(S) == Roots \subseteq S /\ \A o \in S : Strong(o) \subseteq S

\* In the second cycle of lj_gc_fullgc() only what strong references reach is marked,
\* and after atomic() has cleared the weak tables all that is live is reachable, or is
\* the string key of a node that was cleared.
MarkedIn(S) == \A o \in Alloc : ~iswhite(o) => o \in S
WeakInFull == \A t \in Live : Mode(t) \in {{}, {"k", "v"}}
NoWaste ==
  Full2 =>
    /\ gcstate \in Marking => \A S \in SUBSET Obj : StrongSet(S) => MarkedIn(S)
    /\ gcstate \notin Marking /\ WeakInFull => Live \subseteq Reach \cup DeadKeys

\* Without userdata gc_mark() stays inside a set that is closed under strong references.
LEMMA MarkSetInside ==
  ASSUME TypeOK, NoUdata, NEW c, NEW S \in SUBSET Obj, NEW T \in SUBSET Obj, S \subseteq T,
         \A u \in T : kind[u] = "upval" => uvval(u) \subseteq T
  PROVE  MarkSet(c, S) \subseteq T
<1> DEFINE white(U) == {o \in U : c[o] \in Whites}
           w1 == white(S)
           w2 == w1 \cup white(UNION {uvval(u) : u \in {x \in w1 : kind[x] = "upval"}})
           w3 == w2 \cup white(UNION {Values(u) \cup MetaOf(u) :
                                        u \in {x \in w2 : kind[x] = "udata"}})
<1>1. MarkSet(c, S) = w3
  BY DEF MarkSet
<1>2. w1 \subseteq T
  OBVIOUS
<1>3. w2 \subseteq T
  BY <1>2
<1> HIDE DEF w2
<1>4. {x \in w2 : kind[x] = "udata"} = {}
  BY <1>3 DEF NoUdata
<1>5. w3 = w2
  BY <1>4
<1> QED BY <1>1, <1>3, <1>5

\* gc_mark(S) paints nothing outside a strong set around S.
LEMMA MarkInside ==
  ASSUME TypeOK, NoUdata, NEW S \in SUBSET Obj, NEW T \in SUBSET Obj, S \subseteq T,
         \A u \in T : kind[u] = "upval" => uvval(u) \subseteq T,
         NEW c \in [Obj -> Colors], NEW l, gc_mark(c, l, S), NEW o \in Obj, color'[o] \notin Whites
  PROVE  c[o] \notin Whites \/ o \in T
<1>1. color'[o] = IF o \in MarkSet(c, S) THEN MarkColor(o) ELSE c[o]
  BY DEF gc_mark, Painted
<1>2. MarkSet(c, S) \subseteq T
  BY MarkSetInside
<1> QED BY <1>1, <1>2

\* A strong set has the values of its upvalues.
LEMMA StrongUpvalues ==
  ASSUME NEW S, StrongSet(S)
  PROVE  \A u \in S : kind[u] = "upval" => uvval(u) \subseteq S
BY DEF StrongSet, Strong

\* The traversal of an object marks its strong references, and these are references.
LEMMA StrongKids ==
  ASSUME TypeOK, Shape, NEW o \in Obj
  PROVE  Kids(o) \subseteq Strong(o) /\ Strong(o) \subseteq Refs(o) \cup FinArgs
<1>1. Kids(o) \subseteq Refs(o) \cup FinArgs /\ uvval(o) \subseteq Refs(o)
  BY RefsOf
<1>2. kind[o] = "upval" => Kids(o) \subseteq uvval(o)
  <2>1. kind[o] = "upval" => Kids(o) = Values(o)
    BY DEF Kids
  <2>2. Values(o) \subseteq uvval(o)
    <3>1. open[o] # <<>> => Values(o) = {}
      BY RefsOf
    <3>2. open[o] = <<>> => uvval(o) = Values(o)
      BY DEF uvval
    <3> QED BY <3>1, <3>2
  <2> QED BY <2>1, <2>2
<1> QED BY <1>1, <1>2 DEF Strong

\* Roots and strong references depend on these variables only.
LEMMA StrongFrame ==
  ASSUME UNCHANGED <<kind, ent, meta, mm, top, open, stk, rootVars, cstack>>
  PROVE  /\ Roots' = Roots /\ Alloc' = Alloc /\ \A o : Strong(o)' = Strong(o)
         /\ \A S : StrongSet(S)' <=> StrongSet(S)
<1> USE DEF rootVars, jitVars
<1>1. FinArgs' = FinArgs
  BY DEF FinArgs
<1>2. Roots' = Roots /\ Alloc' = Alloc
  BY <1>1 DEF Roots, Alloc
<1>3. ASSUME NEW o
      PROVE  Strong(o)' = Strong(o)
  <2>1. Values(o)' = Values(o) /\ Keys(o)' = Keys(o) /\ MetaOf(o)' = MetaOf(o) /\ Mode(o)' = Mode(o)
    BY DEF Values, Keys, Nodes, MetaOf, Mode
  <2>2. uvval(o)' = uvval(o)
    BY <2>1 DEF uvval
  <2>3. gc_traverse_tab(o)' = gc_traverse_tab(o)
    BY <2>1 DEF gc_traverse_tab
  <2>4. gc_traverse_thread(o)' = gc_traverse_thread(o)
    BY <1>1, <2>1 DEF gc_traverse_thread, SlotRefs
  <2> QED BY <2>1, <2>2, <2>3, <2>4 DEF Strong, Kids
<1> QED BY <1>2, <1>3 DEF StrongSet

\* Steps that mark roots and open upvalues mark nothing else.
LEMMA MarkStepInside ==
  ASSUME GCInv, NoUdata, NoWaste, Full2,
         EndPropagate \/ gc_mark_uv \/ AtomicWeak \/ AtomicAgain \/ AtomicUdata
  PROVE  NoWaste'
<1> USE DEF GCInv, SafeInv
<1>1. /\ UNCHANGED <<kind, ent, meta, mm, top, open, stk, rootVars, cstack>>
      /\ gcstate \in Marking /\ gcstate' \in Marking
  <2> USE DEF heapVars, objVars, ctrlVars, Marking
  <2>1. CASE EndPropagate
    BY <2>1 DEF EndPropagate, OneStep
  <2>2. CASE gc_mark_uv
    BY <2>2 DEF gc_mark_uv, OneStep
  <2>3. CASE AtomicWeak \/ AtomicAgain \/ AtomicUdata
    BY <2>3 DEF AtomicWeak, AtomicAgain, AtomicUdata, ListsInv
  <2> QED BY <2>1, <2>2, <2>3
<1> SUFFICES ASSUME NEW S \in SUBSET Obj, StrongSet(S)', NEW o \in Alloc', ~iswhite(o)'
             PROVE  o \in S
  BY <1>1 DEF NoWaste, MarkedIn
<1>2. StrongSet(S) /\ o \in Alloc /\ o \in Obj
  BY <1>1, StrongFrame DEF Alloc
<1>3. \A x \in Alloc : ~iswhite(x) => x \in S
  BY <1>1, <1>2 DEF NoWaste, MarkedIn
<1>4. \A u \in S : kind[u] = "upval" => uvval(u) \subseteq S
  BY <1>2, StrongUpvalues
<1>5. ASSUME NEW l, NEW X \in SUBSET S, gc_mark(color, l, X)
      PROVE  o \in S
  <2>1. color[o] \notin Whites \/ o \in S
    BY <1>2, <1>4, <1>5, MarkInside DEF TypeOK, iswhite
  <2> QED BY <1>2, <1>3, <2>1 DEF iswhite
<1>6. CASE EndPropagate \/ AtomicAgain
  <2>1. color' = color
    BY <1>6 DEF EndPropagate, AtomicAgain
  <2> QED BY <1>2, <1>3, <2>1 DEF iswhite
<1>7. CASE gc_mark_uv
  <2>1. \A u \in GrayOpenUV : u \in S /\ kind[u] = "upval"
    BY <1>3 DEF GrayOpenUV, ListsInv, Alloc, isgray, iswhite, Whites
  <2>2. UNION {uvval(u) : u \in GrayOpenUV} \in SUBSET S
    BY <1>4, <2>1
  <2> QED BY <1>5, <1>7, <2>2 DEF gc_mark_uv
<1>8. CASE AtomicWeak
  <2>1. AtomicRoots \in SUBSET S
    BY <1>2 DEF StrongSet, Roots, AtomicRoots
  <2> QED BY <1>5, <1>8, <2>1 DEF AtomicWeak
<1>9. CASE AtomicUdata
  <2>1. Unmarked = {}
    BY DEF Unmarked, NoUdata
  <2>2. mmudata' = {}
    BY <1>9, <2>1 DEF AtomicUdata, NoUdata
  <2>3. MmudataWhite(mmudata') = color
    BY <2>2 DEF MmudataWhite, TypeOK
  <2>4. gc_mark(color, gray, {})
    BY <1>9, <2>2, <2>3 DEF AtomicUdata
  <2> QED BY <1>5, <2>4
<1> QED BY <1>6, <1>7, <1>8, <1>9

\* The traversal of a gray object marks what it refers to strongly.  The slots above
\* top that atomic() clears are referred to by no open upvalue.
LEMMA PropagateInside ==
  ASSUME GCInv, NoUdata, OpenBelowTop, NoWaste, Full2, NEW p \in Obj, propagatemark(p)
  PROVE  NoWaste'
<1> USE DEF GCInv, SafeInv
<1> DEFINE M == MarkSet(color, Kids(p))
           weaktab == kind[p] = "tab" /\ Mode(p) # {}
           again == kind[p] = "thread"
<1>1. /\ UNCHANGED <<kind, ent, meta, mm, top, open, gcstate, curL, groot, cur, reg, cstack>>
      /\ p \in gray /\ gcstate \in Marking
      /\ color' = [Painted(color, M) EXCEPT ![p] = IF weaktab \/ again THEN "gray" ELSE "black"]
      /\ stk' = IF again THEN [stk EXCEPT ![p] = ClearUnmarked(p)] ELSE stk
  BY DEF propagatemark, OneStep, ListsInv, Marking, objVars, rootVars, jitVars, phaseVars, ctrlVars
<1> SUFFICES ASSUME NEW S \in SUBSET Obj, StrongSet(S)', NEW o \in Alloc', ~iswhite(o)'
             PROVE  o \in S
  BY <1>1 DEF NoWaste, MarkedIn
<1>2. \A x \in Obj : \A i \in 1 .. top[x] : stk'[x][i] = stk[x][i]
  <2> SUFFICES ASSUME NEW x \in Obj, NEW i \in 1 .. top[x], again
               PROVE  stk'[x][i] = stk[x][i]
    BY <1>1
  <2>1. top[x] \in Slots /\ stk \in [Obj -> [Slots -> Val]]
    BY DEF TypeOK
  <2>2. i \in Slots /\ ~(i > top[x])
    BY <2>1, GCAssumption DEF Slots
  <2>3. CASE x = p
    BY <1>1, <2>1, <2>2, <2>3 DEF ClearUnmarked
  <2>4. CASE x # p
    BY <1>1, <2>1, <2>4
  <2> QED BY <2>3, <2>4
<1>3. ASSUME NEW x \in Obj
      PROVE  Strong(x)' = Strong(x)
  <2>1. Values(x)' = Values(x) /\ Keys(x)' = Keys(x) /\ MetaOf(x)' = MetaOf(x) /\ Mode(x)' = Mode(x) /\ FinArgs' = FinArgs
    BY <1>1 DEF Values, Keys, Nodes, MetaOf, Mode, FinArgs
  <2>2. uvval(x)' = uvval(x)
    <3>1. CASE open[x] = <<>>
      BY <1>1, <2>1, <3>1 DEF uvval
    <3>2. CASE open[x] # <<>>
      <4>1. open[x][1] \in Obj /\ open[x][2] \in 1 .. top[open[x][1]]
        <5>1. open[x] \in Obj \X Slots /\ open[x][2] <= top[open[x][1]]
          BY <3>2, RefsOf DEF OpenBelowTop
        <5>2. top[open[x][1]] \in Slots
          BY <5>1 DEF TypeOK
        <5> QED BY <5>1, <5>2, GCAssumption DEF Slots
      <4> QED BY <1>1, <1>2, <3>2, <4>1 DEF uvval
    <3> QED BY <3>1, <3>2
  <2>3. SlotRefs(x, 1 .. top[x])' = SlotRefs(x, 1 .. top[x])
    BY <1>1, <1>2 DEF SlotRefs
  <2>4. gc_traverse_thread(x)' = gc_traverse_thread(x)
    BY <1>1, <2>1, <2>3 DEF gc_traverse_thread
  <2>5. gc_traverse_tab(x)' = gc_traverse_tab(x)
    BY <2>1 DEF gc_traverse_tab
  <2> QED BY <1>1, <2>1, <2>2, <2>4, <2>5 DEF Strong, Kids
<1>4. StrongSet(S) /\ o \in Alloc /\ o \in Obj
  <2>1. Roots' = Roots
    BY <1>1 DEF Roots, FinArgs
  <2> QED BY <1>1, <1>3, <2>1 DEF StrongSet, Alloc
<1>5. \A x \in Alloc : ~iswhite(x) => x \in S
  BY <1>1, <1>4 DEF NoWaste, MarkedIn
<1>6. p \in S
  <2>1. kind[p] \in ListKinds /\ color[p] = "gray"
    BY <1>1 DEF ListsInv
  <2> QED BY <1>5, <2>1 DEF Alloc, ListKinds, iswhite, Whites
<1>7. M \subseteq S
  <2>1. Kids(p) \subseteq S
    BY <1>4, <1>6, StrongKids DEF StrongSet
  <2> QED BY <1>4, <2>1, StrongUpvalues, MarkSetInside
<1> HIDE DEF M
<1>8. o = p \/ o \in M \/ color'[o] = color[o]
  BY <1>1, <1>4 DEF Painted
<1> QED BY <1>4, <1>5, <1>6, <1>7, <1>8 DEF iswhite

\* gc_clearweak() clears nothing in a table in the list that is no longer weak: all it
\* refers to has been marked.
LEMMA NotCleared ==
  ASSUME GCInv, NoUdata, atomicpc = "udata", NEW t \in weak, Mode(t) = {}, NEW e \in Nodes(t)
  PROVE  e \notin Cleared(t)
<1> USE DEF GCInv, SafeInv
<1>1. t \in Obj /\ kind[t] = "tab" /\ Marked(gc_traverse_tab(t))
  BY DEF ListsInv, Marking, TypeOK, Marks, Atomic
<1>2. gc_traverse_tab(t) = MetaOf(t) \cup Values(t) \cup Keys(t)
  BY DEF gc_traverse_tab
<1>3. e[2] # Nil /\ e \in ent[t] /\ e \in Val \X Val
  BY <1>1 DEF Nodes, TypeOK
<1>4. ~iswhite(e[2])
  BY <1>1, <1>2 DEF Marked, Values
<1>5. e[1] # Nil => ~iswhite(e[1])
  BY <1>1, <1>2 DEF Marked, Keys
<1>6. kind[e[2]] # "udata"
  BY <1>3 DEF NoUdata, Val
<1> QED BY <1>3, <1>4, <1>5, <1>6 DEF Cleared, gc_mayclear

\* What a weak table loses when gc_clearweak() is done with it is in a dead entry; what
\* it refers to strongly stays, unless it is weak in one way only.
LEMMA ClearedKeepsStrong ==
  ASSUME GCInv, NoUdata, AtomicEnd, NEW t \in weak, Mode(t) \in {{}, {"k", "v"}}
  PROVE  Strong(t) \subseteq Refs(t)'
<1> USE DEF GCInv, SafeInv
<1>1. /\ atomicpc = "udata" /\ gcstate \in Marking
      /\ UNCHANGED <<kind, meta, mm, open, stk>>
      /\ t \in Obj /\ kind[t] = "tab" /\ ent'[t] = gc_clearweak(t) /\ Marked(gc_traverse_tab(t))
  BY DEF AtomicEnd, ListsInv, Marking, TypeOK, Marks, Atomic
<1>2. Strong(t) = gc_traverse_tab(t)
  BY <1>1 DEF Strong, Kids
<1>3. MetaOf(t) \subseteq Refs(t)'
  BY <1>1 DEF MetaOf, Refs
<1>4. CASE Mode(t) = {"k", "v"}
  BY <1>2, <1>3, <1>4 DEF gc_traverse_tab
<1>5. CASE Mode(t) = {}
  <2>1. gc_traverse_tab(t) = MetaOf(t) \cup Values(t) \cup Keys(t)
    BY <1>5 DEF gc_traverse_tab
  <2>2. ASSUME NEW e \in Nodes(t)
        PROVE  e \in Nodes(t)'
    <3>1. e[2] # Nil /\ e \in ent[t] /\ e \notin Cleared(t)
      BY <1>1, <1>5, NotCleared DEF Nodes
    <3>2. e \in ent'[t]
      BY <1>1, <3>1 DEF gc_clearweak
    <3> QED BY <3>1, <3>2 DEF Nodes
  <2>3. Values(t) \subseteq Values(t)' /\ Keys(t) \subseteq Keys(t)'
    BY <2>2 DEF Values, Keys
  <2> QED BY <1>2, <1>3, <2>1, <2>3 DEF Refs
<1> QED BY <1>4, <1>5

\* All that is live when atomic() is over is reachable, or a string that gc_mayclear()
\* has marked although it then cleared the node.
LEMMA AtomicEndInside ==
  ASSUME GCInv, NoUdata, NoWaste, Full2, AtomicEnd
  PROVE  NoWaste'
<1> USE DEF GCInv, SafeInv
<1>1. /\ gcstate \in Marking /\ gcstate' \notin Marking
      /\ UNCHANGED <<kind, meta, mm, open, stk, curL, groot, cur, reg, cstack, mmudata>>
      /\ \A o \in Obj : ent'[o] = IF o \in weak THEN gc_clearweak(o) ELSE ent[o]
      /\ weak \subseteq Obj /\ Live' \subseteq Obj
  BY DEF AtomicEnd, ListsInv, Marking, rootVars, jitVars, ctrlVars, TypeOK, Live, Alloc
<1>2. /\ Live' = {o \in Alloc : ~iswhite(o) \/ o \in WeakStrings}
      /\ \A o \in Obj \ weak : Refs(o)' = Refs(o)
  BY AtomicEndSafe
<1>3. Roots' = Roots /\ FinArgs' = FinArgs /\ FinArgs \subseteq Roots
  BY <1>1 DEF Roots, FinArgs
<1> SUFFICES ASSUME WeakInFull', NEW S \in SUBSET Obj, Roots' \cup mmudata' \subseteq S,
                    \A o \in S : Refs(o)' \subseteq S, NEW x \in Live', x \notin DeadKeys'
             PROVE  x \in S
  BY <1>1 DEF NoWaste, Reach, ReachFrom
<1>4. \A t \in weak : t \in Alloc /\ ~iswhite(t) /\ kind[t] = "tab"
  BY <1>1 DEF ListsInv, Marks, Alloc, iswhite, Whites
<1>5. \A t \in weak : Mode(t) \in {{}, {"k", "v"}}
  BY <1>1, <1>2, <1>4 DEF WeakInFull, Mode
<1>6. StrongSet(S)
  <2>1. ASSUME NEW o \in S
        PROVE  Strong(o) \subseteq S
    <3>1. CASE o \in weak
      BY <1>5, <2>1, <3>1, ClearedKeepsStrong
    <3>2. CASE o \notin weak
      BY <1>2, <1>3, <2>1, <3>2, StrongKids
    <3> QED BY <3>1, <3>2
  <2> QED BY <1>3, <2>1 DEF StrongSet
<1>7. \A o \in Alloc : ~iswhite(o) => o \in S
  BY <1>1, <1>6 DEF NoWaste, MarkedIn
<1>9. atomicpc = "udata"
  BY DEF AtomicEnd
<1>8. CASE x \in WeakStrings
  <2>0. PICK t \in weak : \E e \in Nodes(t) : x = e[1] \/ (x = e[2] /\ ~gc_mayclear(e[1], FALSE))
    BY <1>8 DEF WeakStrings
  <2> PICK e \in Nodes(t) : x = e[1] \/ (x = e[2] /\ ~gc_mayclear(e[1], FALSE))
    BY <2>0
  <2>1. x # Nil /\ kind[x] = "str" /\ e \in Val \X Val /\ e \in ent[t]
    BY <1>1, <1>8, GCAssumption DEF WeakStrings, Nodes, TypeOK
  <2>2. e \notin Cleared(t)
    <3> SUFFICES ASSUME e \in Cleared(t)
                 PROVE  FALSE
      OBVIOUS
    <3>1. CASE x = e[1]
      <4>1. <<x, Nil>> \in ent'[t]
        BY <1>1, <2>1, <3>1 DEF gc_clearweak
      <4>2. t \in Live' /\ kind'[t] = "tab" /\ Mode(t)' = Mode(t)
        BY <1>1, <1>2, <1>4 DEF Mode
      <4>3. Mode(t) # {}
        BY <1>9, NotCleared
      <4>4. x \in Alloc' /\ kind'[x] = "str"
        BY <1>1, <2>1 DEF Live
      <4> QED BY <4>1, <4>2, <4>3, <4>4 DEF DeadKeys
    <3>2. CASE x = e[2] /\ ~gc_mayclear(e[1], FALSE)
      BY <2>1, <3>2 DEF Cleared, gc_mayclear
    <3> QED BY <3>1, <3>2
  <2>3. e \in ent'[t] /\ e[2] # Nil
    BY <1>1, <2>1, <2>2 DEF gc_clearweak, Nodes
  <2>4. x \in Refs(t)'
    BY <2>1, <2>3 DEF Refs, Keys, Values, Nodes
  <2> QED BY <1>4, <1>7, <2>4
<1> QED BY <1>2, <1>7, <1>8

\* The sweep leaves the nodes of live tables alone.
LEMMA SweepDeadKeys ==
  ASSUME GCInv, SweepString \/ Sweep
  PROVE  DeadKeys \cap Live \subseteq DeadKeys'
<1> USE DEF GCInv, SafeInv
<1>1. PICK S \in SUBSET sweeping : gc_sweep(S)
  BY DEF SweepString, Sweep
<1> DEFINE D == {o \in S \cup UVsOf(S) : isdead(o) /\ o # Main}
           C == ClosedByFree(S \cap D) \ D
<1>2. FreeAndClose(D, C)
  BY <1>1 DEF gc_sweep
<1>3. \A o \in C : o \in Obj /\ open[o] # <<>>
  <2> HIDE DEF GCInv, SafeInv, D
  <2>1. \A th, i : <<th, i>> # <<>>
    OBVIOUS
  <2>2. \A th : \A o \in OpenUV(th, Slots) : o \in Obj /\ open[o] # <<>>
    BY <2>1, Zenon DEF OpenUV
  <2>3. \A o \in UVsOf(S \cap D) : o \in Obj /\ open[o] # <<>>
    BY <2>2 DEF UVsOf
  <2> QED BY <2>3 DEF ClosedByFree
<1>4. \A o \in C : kind[o] = "upval"
  BY <1>3 DEF Shape
<1>5. \A o \in Live : o \in Obj /\ o \notin D
  BY DEF Live, Alloc
<1> HIDE DEF C, D
<1>6. \A o \in Live : kind'[o] = kind[o] /\ (kind[o] = "tab" => ent'[o] = ent[o] /\ meta'[o] = meta[o])
  BY <1>2, <1>4, <1>5 DEF FreeAndClose
<1>7. Live' = Live /\ \A o \in Live : Mode(o)' = Mode(o)
  BY SweepOps
<1> SUFFICES ASSUME NEW s \in DeadKeys \cap Live
             PROVE  s \in DeadKeys'
  OBVIOUS
<1>8. PICK t \in Live : kind[t] = "tab" /\ Mode(t) # {} /\ <<s, Nil>> \in ent[t]
  BY DEF DeadKeys
<1>9. kind'[s] = "str" /\ s \in Alloc'
  BY <1>6, <1>7 DEF DeadKeys, Live
<1> QED BY <1>6, <1>7, <1>8, <1>9 DEF DeadKeys

\* The sweep changes nothing about what is live.
LEMMA SweepInside ==
  ASSUME GCInv, NoUdata, NoWaste, Full2, SweepString \/ Sweep
  PROVE  NoWaste'
<1>1. Live' = Live /\ \A o \in Live : Refs(o)' = Refs(o) /\ Mode(o)' = Mode(o)
  BY SweepOps
<1>2. /\ gcstate \notin Marking /\ gcstate' \notin Marking
      /\ UNCHANGED <<curL, groot, cur, reg, cstack, mmudata>>
  BY DEF SweepString, Sweep, OneStep, AfterSweep, Marking, rootVars, jitVars, ctrlVars
<1>3. Roots' = Roots
  BY <1>2 DEF Roots, FinArgs
<1> SUFFICES ASSUME WeakInFull', NEW S \in SUBSET Obj, Roots' \cup mmudata' \subseteq S,
                    \A o \in S : Refs(o)' \subseteq S, NEW x \in Live, x \notin DeadKeys'
             PROVE  x \in S
  <2>1. Live \subseteq Obj
    BY DEF Live, Alloc
  <2> QED BY <1>1, <1>2, <2>1 DEF NoWaste, Reach, ReachFrom
<1>4. Live \subseteq Reach \cup DeadKeys
  BY <1>1, <1>2 DEF NoWaste, WeakInFull
<1>5. Roots \cup mmudata \subseteq Live /\ \A o \in Live : Refs(o) \subseteq Live
  BY DEF GCInv, SafeInv, Closed, Fine
<1>6. Roots \cup mmudata \subseteq S \cap Live /\ \A o \in S \cap Live : Refs(o) \subseteq S \cap Live
  BY <1>1, <1>2, <1>3, <1>5
<1>7. S \cap Live \in {T \in SUBSET Obj : Roots \cup mmudata \subseteq T /\ \A o \in T : Refs(o) \subseteq T}
  BY <1>6
<1>8. x \in Reach
  BY <1>4, SweepDeadKeys
<1> QED BY <1>7, <1>8 DEF Reach, ReachFrom

\* The second cycle starts from a heap in which everything is white.
LEMMA FullStartInside ==
  ASSUME GCInv, NoUdata, FullStart
  PROVE  NoWaste'
<1> USE DEF GCInv, SafeInv
<1>1. /\ gc_mark(color, {}, StartRoots) /\ gcstate' \in Marking /\ gcstate \in {"pause", "finalize"}
      /\ UNCHANGED <<kind, ent, meta, mm, open, stk, groot, mmudata>>
  BY DEF FullStart, gc_mark_start, Marking, heapVars, objVars, rootVars, jitVars
<1> SUFFICES ASSUME NEW S \in SUBSET Obj, StrongSet(S)', NEW o \in Alloc', ~iswhite(o)'
             PROVE  o \in S
  BY <1>1 DEF NoWaste, MarkedIn
<1>2. o \in Alloc /\ o \in Obj
  BY <1>1 DEF Alloc
<1>3. color[o] = currentwhite /\ currentwhite \in Whites
  BY <1>1, <1>2 DEF Swept, Passed, Marking, NoUdata, ListsInv, Sweeps, TypeOK
<1>4. StartRoots \subseteq S
  <2>1. Main \in S /\ {groot} \ {Nil} \subseteq S
    BY <1>1 DEF StrongSet, Roots
  <2>2. kind'[Main] = "thread" /\ Values(Main)' = Values(Main)
    BY <1>1 DEF Shape, Values, Nodes
  <2>3. Values(Main) \subseteq Strong(Main)'
    BY <2>2 DEF Strong, Kids, gc_traverse_thread
  <2> QED BY <2>1, <2>3 DEF StartRoots, StrongSet
<1>5. ASSUME NEW u \in S, kind[u] = "upval"
      PROVE  uvval(u) \subseteq S
  <2>1. uvval(u)' = uvval(u)
    BY <1>1 DEF uvval, Values, Nodes
  <2>2. Strong(u)' = uvval(u)'
    BY <1>1, <1>5 DEF Strong
  <2> QED BY <2>1, <2>2 DEF StrongSet
<1>6. color[o] \notin Whites \/ o \in S
  BY <1>1, <1>2, <1>4, <1>5, MarkInside DEF iswhite, TypeOK
<1> QED BY <1>3, <1>6

\* The operations of the program open upvalues below top, and lower top only to where
\* none is open.
LEMMA MutateOpen ==
  ASSUME GCInv, OpenBelowTop, NEW R \in SUBSET Obj, Mutate(R)
  PROVE  OpenBelowTop'
<1> USE DEF GCInv, SafeInv, objVars, heapVars
<1>0. open \in [Obj -> {<<>>} \cup (Obj \X Slots)] /\ top \in [Obj -> Slots] /\ curL \in Obj
  BY DEF TypeOK
<1>1. CASE UNCHANGED <<open, top>>
  BY <1>1 DEF OpenBelowTop
<1>2. ASSUME NEW f \in Obj, NEW u \in Obj, NEW i \in Slots, lj_func_newL_gc(f, u, i)
      PROVE  OpenBelowTop'
  <2>1. open' = [open EXCEPT ![u] = <<curL, i>>] /\ top' = top /\ i \in 1 .. top[curL]
    BY <1>2 DEF lj_func_newL_gc
  <2>2. \A x \in Obj : open'[x] = IF x = u THEN <<curL, i>> ELSE open[x]
    BY <1>0, <2>1
  <2>3. i <= top[curL]
    BY <1>0, <2>1, GCAssumption DEF Slots
  <2> QED BY <2>1, <2>2, <2>3 DEF OpenBelowTop
<1>3. ASSUME NEW n \in Slots, SetTop(n)
      PROVE  OpenBelowTop'
  <2>1. top' = [top EXCEPT ![curL] = n] /\ open' = open /\ OpenUV(curL, n + 1 .. NSlots) = {}
    BY <1>3 DEF SetTop
  <2> SUFFICES ASSUME NEW x \in Obj, open[x] # <<>>
               PROVE  open[x][2] <= top'[open[x][1]]
    BY <2>1 DEF OpenBelowTop
  <2>2. open[x] \in Obj \X Slots /\ open[x][2] <= top[open[x][1]]
    BY <1>0 DEF OpenBelowTop
  <2>3. CASE open[x][1] = curL
    <3>1. open[x] = <<curL, open[x][2]>> /\ open[x][2] \in Slots
      BY <2>2, <2>3
    <3>2. open[x][2] \notin n + 1 .. NSlots
      BY <2>1, <3>1 DEF OpenUV
    <3>3. open[x][2] <= n
      BY <3>1, <3>2, GCAssumption DEF Slots
    <3> QED BY <1>0, <2>1, <2>3, <3>3
  <2>4. CASE open[x][1] # curL
    BY <1>0, <2>1, <2>2, <2>4
  <2> QED BY <2>3, <2>4
<1>4. ASSUME NEW level \in Slots, lj_func_closeuv(level)
      PROVE  OpenBelowTop'
  <2> DEFINE U == OpenUV(curL, level .. NSlots)
             D == {u \in U : isdead(u)}
  <2>1. FreeAndClose(D, U \ D)
    BY <1>4 DEF lj_func_closeuv
  <2>2. \A x \in D : kind[x] = "upval"
    <3>1. \A u \in U : u \in Obj /\ open[u] # <<>>
      BY DEF OpenUV
    <3> QED BY <3>1 DEF Shape
  <2> HIDE DEF D, U
  <2>3. \A x \in Obj : open'[x] \in {<<>>, open[x]} /\ (x \notin D => top'[x] = top[x])
    BY <2>1 DEF FreeAndClose
  <2>4. ASSUME NEW x \in Obj, open'[x] # <<>>
        PROVE  open'[x][2] <= top'[open'[x][1]]
    <3>1. open'[x] = open[x] /\ open[x] # <<>> /\ open[x] \in Obj \X Slots
      BY <1>0, <2>3, <2>4
    <3>2. kind[open[x][1]] = "thread" /\ open[x][2] <= top[open[x][1]]
      BY <3>1 DEF Shape, OpenBelowTop
    <3>3. open[x][1] \in Obj \ D
      BY <2>2, <3>1, <3>2
    <3> QED BY <2>3, <3>1, <3>2, <3>3
  <2> QED BY <2>4 DEF OpenBelowTop
<1>5. \/ UNCHANGED <<open, top>>
      \/ \E f, u \in Obj, i \in Slots : lj_func_newL_gc(f, u, i)
      \/ \E n \in Slots : SetTop(n)
      \/ \E level \in Slots : lj_func_closeuv(level)
  BY DEF Mutate, lj_mem_newgco, lj_str_new, Move, Resume,
         lj_tab_newkey, lj_tab_set, lua_rawseti, SetField, SetBaseMeta,
         lua_setmetatable, lua_setfenv, SetUpvalue, trace_start,
         RecordKGC, trace_stop, trace_abort, lj_trace_flushproto, EnterTrace,
         lj_trace_exit, FinReturn, FinError, lj_gc_fullgc, lua_gc_stop,
         lua_gc_restart
<1> QED BY <1>1, <1>2, <1>3, <1>4, <1>5

\* A thread that is freed takes its open upvalues with it, or closes them.
LEMMA CollectOpen ==
  ASSUME GCInv, OpenBelowTop, Collect
  PROVE  OpenBelowTop'
<1> USE DEF GCInv, SafeInv, objVars, heapVars
<1>0. open \in [Obj -> {<<>>} \cup (Obj \X Slots)] /\ top \in [Obj -> Slots]
  BY DEF TypeOK
<1>1. CASE UNCHANGED <<open, top>>
  BY <1>1 DEF OpenBelowTop
<1>2. ASSUME NEW S \in SUBSET Obj, gc_sweep(S)
      PROVE  OpenBelowTop'
  <2> DEFINE X == S \cup UVsOf(S)
             D == {o \in X : isdead(o) /\ o # Main}
             C == ClosedByFree(S \cap D) \ D
  <2>1. FreeAndClose(D, C)
    BY <1>2 DEF gc_sweep
  <2>2. \A x \in Obj : /\ open'[x] = IF x \in D \cup C THEN <<>> ELSE open[x]
                       /\ x \notin D => top'[x] = top[x]
    <3> HIDE DEF D, C
    <3> QED BY <2>1 DEF FreeAndClose
  <2>3. ASSUME NEW x \in Obj, open'[x] # <<>>
        PROVE  open'[x][2] <= top'[open'[x][1]]
    <3>1. /\ open'[x] = open[x] /\ open[x] # <<>> /\ open[x] \in Obj \X Slots
          /\ x \notin D /\ x \notin C
      BY <1>0, <2>2, <2>3
    <3>2. kind[open[x][1]] = "thread" /\ open[x][2] <= top[open[x][1]]
      BY <3>1 DEF Shape, OpenBelowTop
    <3>3. open[x][1] \notin D
      <4> SUFFICES ASSUME open[x][1] \in D
                   PROVE  FALSE
        OBVIOUS
      <4>1. open[x][1] \in S
        <5>0. open[x][1] \in S \/ open[x][1] \in UVsOf(S)
          OBVIOUS
        <5> HIDE DEF D, C, GCInv, SafeInv
        <5>1. \A th, i : <<th, i>> # <<>>
          OBVIOUS
        <5>4. \A th : \A o \in OpenUV(th, Slots) : o \in Obj /\ open[o] # <<>>
          BY <5>1, Zenon DEF OpenUV
        <5>2. \A o \in UVsOf(S) : o \in Obj /\ open[o] # <<>>
          BY <5>4 DEF UVsOf
        <5> USE DEF GCInv, SafeInv
        <5>3. \A o \in UVsOf(S) : kind[o] = "upval"
          BY <5>2 DEF Shape
        <5> QED BY <3>2, <5>3, <5>0
      <4>2. x \in OpenUV(open[x][1], Slots)
        BY <3>1 DEF OpenUV
      <4>3. x \in ClosedByFree(S \cap D)
        <5> HIDE DEF D
        <5> QED BY <3>2, <4>1, <4>2 DEF ClosedByFree, UVsOf
      <4> QED BY <3>1, <4>3
    <3> HIDE DEF D
    <3> QED BY <2>2, <3>1, <3>2, <3>3
  <2> QED BY <2>3 DEF OpenBelowTop
<1>3. CASE SweepString \/ Sweep
  <2>1. sweeping \subseteq Obj
    BY DEF TypeOK
  <2>2. CASE SweepString
    <3>1. PICK S \in SUBSET {o \in sweeping : kind[o] = "str"} : gc_sweep(S)
      BY <2>2 DEF SweepString
    <3> QED BY <1>2, <2>1, <3>1
  <2>3. CASE Sweep
    <3>1. PICK S \in SUBSET sweeping : gc_sweep(S)
      BY <2>3 DEF Sweep
    <3> QED BY <1>2, <2>1, <3>1
  <2> QED BY <1>3, <2>2, <2>3
<1>4. (SweepString \/ Sweep) \/ UNCHANGED <<open, top>>
  BY DEF Collect, StartCycle, propagatemark, EndPropagate, gc_mark_uv, AtomicWeak,
         AtomicAgain, AtomicUdata, AtomicEnd, gc_finalize, EndFinalize, FullStart, FullEnd
<1> QED BY <1>1, <1>3, <1>4

\* A program that creates no userdata never has one, nor anything to finalize, and runs
\* itself in no part of lj_gc_fullgc().
LEMMA MutateNoUdata ==
  ASSUME GCInv, "udata" \notin NewKinds, NoUdata, NEW R \in SUBSET Obj, Mutate(R)
  PROVE  NoUdata' /\ ~Full2'
<1> USE DEF objVars, heapVars, phaseVars, ctrlVars
<1>1. Mutating
  BY DEF Mutate, lj_mem_newgco, lj_str_new, lj_func_newL_gc, Move, SetTop, Resume,
         lj_tab_newkey, lj_tab_set, lua_rawseti, SetField, SetBaseMeta,
         lua_setmetatable, lua_setfenv, SetUpvalue, lj_func_closeuv, trace_start,
         RecordKGC, trace_stop, trace_abort, lj_trace_flushproto, EnterTrace,
         lj_trace_exit, FinReturn, FinError, lj_gc_fullgc, lua_gc_stop,
         lua_gc_restart, Interp
<1>2. cstack = <<>>
  BY <1>1 DEF NoUdata, Mutating, InFull
<1>3. mmudata' = {}
  BY DEF NoUdata, Mutate, lj_mem_newgco, lj_str_new, lj_func_newL_gc, Move, SetTop, Resume,
         lj_tab_newkey, lj_tab_set, lua_rawseti, SetField, SetBaseMeta,
         lua_setmetatable, lua_setfenv, SetUpvalue, lj_func_closeuv, trace_start,
         RecordKGC, trace_stop, trace_abort, lj_trace_flushproto, EnterTrace,
         lj_trace_exit, FinReturn, FinError, lj_gc_fullgc, lua_gc_stop,
         lua_gc_restart
<1>4. cstack' \in {<<>>, <<[act |-> "full1", arg |-> Nil, stop |-> gcstop]>>}
  <2>1. CASE lj_gc_fullgc
    <3> DEFINE f == [act |-> "full1", arg |-> Nil, stop |-> gcstop]
    <3>1. cstack' = <<f>> \o <<>>
      BY <1>2, <2>1 DEF lj_gc_fullgc
    <3> HIDE DEF f
    <3>2. <<f>> \o <<>> = <<f>>
      OBVIOUS
    <3> USE DEF f
    <3> QED BY <3>1, <3>2
  <2>2. lj_gc_fullgc \/ cstack' = cstack \/ FinReturn \/ FinError
    BY DEF Mutate, lj_mem_newgco, lj_str_new, lj_func_newL_gc, Move, SetTop, Resume,
           lj_tab_newkey, lj_tab_set, lua_rawseti, SetField, SetBaseMeta,
           lua_setmetatable, lua_setfenv, SetUpvalue, lj_func_closeuv, trace_start,
           RecordKGC, trace_stop, trace_abort, lj_trace_flushproto, EnterTrace,
           lj_trace_exit, lua_gc_stop, lua_gc_restart
  <2>3. ~FinReturn /\ ~FinError
    <3>1. ~(Len(<<>>) > 1)
      OBVIOUS
    <3> QED BY <1>2, <3>1 DEF FinReturn, FinError
  <2> QED BY <1>2, <2>1, <2>2, <2>3
<1>5. \A o \in Obj : kind'[o] # "udata"
  <2>1. \A o \in Obj : kind'[o] \in {kind[o], "free", "func", "upval", "trace"} \cup NewKinds
    <3>1. kind \in [Obj -> Kinds \cup {"free"}]
      BY DEF GCInv, TypeOK
    <3>2. ASSUME NEW level \in Slots, lj_func_closeuv(level)
          PROVE  \A o \in Obj : kind'[o] \in {kind[o], "free"}
      BY <3>2 DEF lj_func_closeuv, FreeAndClose
    <3>3. ASSUME NEW p \in Obj, NEW k \in NewKinds, NEW v, lj_mem_newgco(p, k, v)
          PROVE  \A o \in Obj : kind'[o] \in {kind[o], k}
      BY <3>1, <3>3 DEF lj_mem_newgco
    <3>4. ASSUME NEW f \in Obj, NEW u \in Obj, NEW i \in Slots, lj_func_newL_gc(f, u, i)
          PROVE  \A o \in Obj : kind'[o] \in {kind[o], "func", "upval"}
      BY <3>1, <3>4 DEF lj_func_newL_gc
    <3>5. ASSUME NEW T \in Obj, NEW p, trace_stop(T, p)
          PROVE  \A o \in Obj : kind'[o] \in {kind[o], "trace"}
      BY <3>1, <3>5 DEF trace_stop
    <3>6. \/ \E p \in Obj, k \in NewKinds, v \in R \cup {Nil} : lj_mem_newgco(p, k, v)
          \/ \E f, u \in Obj, i \in Slots : lj_func_newL_gc(f, u, i)
          \/ \E T \in Obj, p \in R : trace_stop(T, p)
          \/ \E level \in Slots : lj_func_closeuv(level)
          \/ kind' = kind
      BY DEF Mutate, lj_str_new, Move, SetTop, Resume,
             lj_tab_newkey, lj_tab_set, lua_rawseti, SetField, SetBaseMeta,
             lua_setmetatable, lua_setfenv, SetUpvalue, trace_start,
             RecordKGC, trace_abort, lj_trace_flushproto, EnterTrace,
             lj_trace_exit, FinReturn, FinError, lj_gc_fullgc, lua_gc_stop,
             lua_gc_restart
    <3>7. CASE \E p \in Obj, k \in NewKinds, v \in R \cup {Nil} : lj_mem_newgco(p, k, v)
      BY <3>3, <3>7
    <3>8. CASE \E f, u \in Obj, i \in Slots : lj_func_newL_gc(f, u, i)
      BY <3>4, <3>8
    <3>9. CASE \E T \in Obj, p \in R : trace_stop(T, p)
      BY <3>5, <3>9
    <3>10. CASE \E level \in Slots : lj_func_closeuv(level)
      BY <3>2, <3>10
    <3> QED BY <3>6, <3>7, <3>8, <3>9, <3>10
  <2> QED BY <2>1 DEF NoUdata
<1>6. \A f : Len(<<f>>) = 1 /\ Head(<<f>>) = f /\ Head(<<f>>).act = f.act
  OBVIOUS
<1>7. cstack' # <<>> => Len(cstack') = 1 /\ Head(cstack').act = "full1"
  <2> DEFINE f == [act |-> "full1", arg |-> Nil, stop |-> gcstop]
  <2>1. f.act = "full1"
    OBVIOUS
  <2> QED BY <1>4, <1>6, <2>1
<1> QED BY <1>3, <1>5, <1>7 DEF NoUdata, Full2

\* The collector makes no userdata, finds none to finalize, and leaves the one
\* activation of lj_gc_fullgc() in place until it returns.
LEMMA CollectNoUdata ==
  ASSUME GCInv, NoUdata, Collect
  PROVE  NoUdata'
<1> USE DEF objVars, heapVars, phaseVars, ctrlVars
<1>1. \A o \in Obj : kind'[o] \in {kind[o], "free"}
  <2>1. ASSUME NEW S, gc_sweep(S)
        PROVE  \A o \in Obj : kind'[o] \in {kind[o], "free"}
    BY <2>1 DEF gc_sweep, FreeAndClose
  <2>2. (\E S : gc_sweep(S)) \/ kind' = kind
    BY DEF Collect, StartCycle, propagatemark, EndPropagate, gc_mark_uv, AtomicWeak,
           AtomicAgain, AtomicUdata, AtomicEnd, SweepString, Sweep, gc_finalize,
           EndFinalize, FullStart, FullEnd
  <2> QED BY <2>1, <2>2
<1>2. mmudata' = {}
  <2>1. CASE AtomicUdata
    BY <2>1 DEF AtomicUdata, Unmarked, NoUdata
  <2>2. AtomicUdata \/ mmudata' = mmudata \/ \E u \in Obj : gc_finalize(u)
    BY DEF Collect, StartCycle, propagatemark, EndPropagate, gc_mark_uv, AtomicWeak,
           AtomicAgain, AtomicEnd, SweepString, Sweep, EndFinalize, FullStart, FullEnd
  <2> QED BY <2>1, <2>2 DEF gc_finalize, NoUdata
<1>3. cstack' # <<>> => Len(cstack') = 1 /\ Head(cstack').act # "fin"
  <2>1. CASE cstack' = cstack
    BY <2>1 DEF NoUdata
  <2>2. ASSUME cstack # <<>>, cstack \in Seq(Frame), Len(cstack) = 1
        PROVE  Tail(cstack) = <<>>
    <3>1. ASSUME NEW T, NEW s \in Seq(T), s # <<>>, Len(s) = 1
          PROVE  Tail(s) \in Seq(T) /\ Len(Tail(s)) = 0
      BY <3>1
    <3>2. ASSUME NEW T, NEW s \in Seq(T), Len(s) = 0
          PROVE  s = <<>>
      BY <3>2
    <3>3. Tail(cstack) \in Seq(Frame) /\ Len(Tail(cstack)) = 0
      BY <2>2, <3>1
    <3> QED BY <3>2, <3>3
  <2>3. CASE FullStart
    <3>1. cstack # <<>> /\ Tail(cstack) = <<>>
      BY <2>2, <2>3 DEF FullStart, InFull, NoUdata, GCInv, TypeOK
    <3> DEFINE f == [Head(cstack) EXCEPT !.act = "full2"]
    <3>2. cstack' = <<f>> \o <<>>
      BY <2>3, <3>1 DEF FullStart
    <3>3. f.act = "full2"
      <4>1. Head(cstack) \in Frame
        BY <3>1 DEF GCInv, TypeOK
      <4> QED BY <4>1 DEF Frame
    <3> HIDE DEF f
    <3>4. Len(<<f>> \o <<>>) = 1 /\ Head(<<f>> \o <<>>) = f
      OBVIOUS
    <3> QED BY <3>2, <3>3, <3>4
  <2>4. CASE FullEnd
    BY <2>2, <2>4 DEF FullEnd, InFull, NoUdata, GCInv, TypeOK
  <2>5. CASE \E u \in Obj : gc_finalize(u)
    BY <2>5 DEF gc_finalize, NoUdata
  <2>6. FullStart \/ FullEnd \/ (\E u \in Obj : gc_finalize(u)) \/ cstack' = cstack
    BY DEF Collect, StartCycle, propagatemark, EndPropagate, gc_mark_uv, AtomicWeak,
           AtomicAgain, AtomicUdata, AtomicEnd, SweepString, Sweep, EndFinalize
  <2> QED BY <2>1, <2>3, <2>4, <2>5, <2>6
<1> QED BY <1>1, <1>2, <1>3 DEF NoUdata

\* In the second cycle nothing but the collector runs, and it keeps NoWaste.
LEMMA CollectInside ==
  ASSUME GCInv, OpenBelowTop, NoUdata, NoWaste, Collect
  PROVE  NoWaste'
<1>1. CASE FullStart
  BY <1>1, FullStartInside
<1>2. CASE FullEnd
  <2>1. mmudata' = {} /\ cstack # <<>> /\ Len(cstack) = 1 /\ cstack \in Seq(Frame)
    BY <1>2 DEF FullEnd, InFull, NoUdata, phaseVars, GCInv, TypeOK
  <2>2. NoUdata'
    BY CollectNoUdata
  <2>3. cstack' = <<>>
    <3>1. ASSUME NEW T, NEW s \in Seq(T), s # <<>>, Len(s) = 1
          PROVE  Tail(s) \in Seq(T) /\ Len(Tail(s)) = 0
      BY <3>1
    <3>2. ASSUME NEW T, NEW s \in Seq(T), Len(s) = 0
          PROVE  s = <<>>
      BY <3>2
    <3>3. Tail(cstack) \in Seq(Frame) /\ Len(Tail(cstack)) = 0
      BY <2>1, <3>1
    <3> QED BY <1>2, <3>2, <3>3 DEF FullEnd
  <2> QED BY <2>3 DEF NoWaste, Full2
<1>3. CASE ~Full2 /\ cstack' = cstack
  BY <1>3 DEF NoWaste, Full2
<1>4. CASE Full2 /\ EndFinalize
  <2>1. /\ UNCHANGED <<heapVars, color, rootVars, currentwhite, mmudata, cstack>>
        /\ gcstate = "finalize" /\ gcstate' = "pause"
    BY <1>4 DEF EndFinalize, OneStep, ctrlVars
  <2>2. UNCHANGED <<kind, ent, meta, mm, open, stk, color, curL, groot, cur, reg,
                    currentwhite, mmudata, cstack>>
    BY <2>1 DEF heapVars, objVars, rootVars, jitVars
  <2>3. /\ Alloc' = Alloc /\ Live' = Live /\ FinArgs' = FinArgs
        /\ \A o : Refs(o)' = Refs(o) /\ Mode(o)' = Mode(o)
    BY <2>2 DEF Alloc, Live, isdead, otherwhite, FinArgs, Refs, Mode, Keys, Values, MetaOf,
                Nodes, SlotRefs, uvval
  <2>4. Roots' = Roots
    BY <2>2, <2>3 DEF Roots
  <2>5. Reach' = Reach
    BY <2>2, <2>3, <2>4 DEF Reach, ReachFrom
  <2>6. WeakInFull' = WeakInFull /\ DeadKeys' = DeadKeys
    BY <2>2, <2>3 DEF WeakInFull, DeadKeys
  <2> QED BY <1>4, <2>1, <2>3, <2>5, <2>6 DEF NoWaste, Marking
<1>5. CASE Full2 /\ StartCycle
  BY <1>5 DEF Full2, StartCycle, OneStep, InFull
<1>6. CASE \E u \in Obj : gc_finalize(u)
  BY <1>6 DEF gc_finalize, NoUdata
<1>7. CASE Full2 /\ (EndPropagate \/ gc_mark_uv \/ AtomicWeak \/ AtomicAgain \/ AtomicUdata)
  BY <1>7, MarkStepInside
<1>8. CASE Full2 /\ \E p \in Obj : propagatemark(p)
  BY <1>8, PropagateInside
<1>9. CASE Full2 /\ AtomicEnd
  BY <1>9, AtomicEndInside
<1>10. CASE Full2 /\ (SweepString \/ Sweep)
  BY <1>10, SweepInside
<1>11. \/ FullStart \/ FullEnd \/ (\E u \in Obj : gc_finalize(u)) \/ cstack' = cstack
  BY DEF Collect, StartCycle, propagatemark, EndPropagate, gc_mark_uv, AtomicWeak,
         AtomicAgain, AtomicUdata, AtomicEnd, SweepString, Sweep, EndFinalize, ctrlVars
<1> QED BY <1>1, <1>2, <1>3, <1>4, <1>5, <1>6, <1>7, <1>8, <1>9, <1>10, <1>11 DEF Collect

\* What makes a full collection complete, in every state.
FullInv == OpenBelowTop /\ ("udata" \notin NewKinds => NoUdata /\ NoWaste)

LEMMA FullFrame ==
  ASSUME FullInv, UNCHANGED vars
  PROVE  FullInv'
<1>1. UNCHANGED <<kind, ent, meta, mm, open, top, stk, color, curL, groot, cur, reg, gcstate,
                  currentwhite, mmudata, cstack>>
  BY DEF vars, heapVars, objVars, rootVars, jitVars, phaseVars, ctrlVars
<1>2. /\ Alloc' = Alloc /\ Live' = Live /\ FinArgs' = FinArgs
      /\ \A o : Refs(o)' = Refs(o) /\ Mode(o)' = Mode(o) /\ Strong(o)' = Strong(o)
  BY <1>1 DEF Alloc, Live, isdead, otherwhite, FinArgs, Refs, Mode, Keys, Values, MetaOf,
              Nodes, SlotRefs, uvval, Strong, Kids, gc_traverse_tab, gc_traverse_thread
<1>3. Roots' = Roots
  BY <1>1, <1>2 DEF Roots
<1>4. Reach' = Reach /\ WeakInFull' = WeakInFull /\ DeadKeys' = DeadKeys /\ Full2' = Full2
  BY <1>1, <1>2, <1>3 DEF Reach, ReachFrom, WeakInFull, DeadKeys, Full2
<1>5. \A S : StrongSet(S)' = StrongSet(S) /\ MarkedIn(S)' = MarkedIn(S)
  BY <1>1, <1>2, <1>3 DEF StrongSet, MarkedIn, iswhite
<1>6. NoWaste => NoWaste'
  BY <1>1, <1>2, <1>4, <1>5 DEF NoWaste
<1> QED BY <1>1, <1>6 DEF FullInv, OpenBelowTop, NoUdata

LEMMA FullInvariant == Spec => []FullInv
<1>1. Init => FullInv
  BY DEF Init, FullInv, OpenBelowTop, NoUdata, NoWaste, Full2
<1>2. ASSUME GCInv, FullInv, [Next]_vars
      PROVE  FullInv'
  <2>1. ASSUME NEW R \in SUBSET Obj, Mutate(R)
        PROVE  FullInv'
    <3>1. OpenBelowTop'
      BY <1>2, <2>1, MutateOpen DEF FullInv
    <3>2. ASSUME "udata" \notin NewKinds
          PROVE  NoUdata' /\ NoWaste'
      BY <1>2, <2>1, <3>2, MutateNoUdata DEF FullInv, NoWaste
    <3> QED BY <3>1, <3>2 DEF FullInv
  <2>2. CASE Collect
    BY <1>2, <2>2, CollectOpen, CollectNoUdata, CollectInside DEF FullInv
  <2>3. CASE UNCHANGED vars
    BY <1>2, <2>3, FullFrame
  <2>4. Named \in SUBSET Obj
    BY DEF Named, ReachFrom
  <2> QED BY <1>2, <2>1, <2>2, <2>3, <2>4 DEF Next
<1> QED BY <1>1, <1>2, GCInvariant, PTL DEF Spec

\* collectgarbage() is complete in a program without userdata and without half-weak
\* tables: when the second cycle of lj_gc_fullgc() is over, what is left is reachable, but
\* for string keys of nodes that weak tables have lost.
THEOREM FullIsCompleteCorrect == Spec => []FullIsComplete
<1>1. GCInv /\ FullInv => FullIsComplete
  <2> SUFFICES ASSUME GCInv, FullInv, "udata" \notin NewKinds,
                      InFull, Head(cstack).act = "full2", gcstate = "pause",
                      \A t \in Alloc : Mode(t) \in {{}, {"k", "v"}}
               PROVE  Alloc \subseteq Reach \cup DeadKeys
    BY DEF FullIsComplete
  <2>1. Full2 /\ gcstate \notin Marking /\ Alloc = Live
    BY DEF Full2, InFull, Marking, Sweeps, GCInv, SafeInv, Colours
  <2> QED BY <2>1 DEF FullInv, NoWaste, WeakInFull
<1> QED BY <1>1, GCInvariant, FullInvariant, PTL
=============================================================================
