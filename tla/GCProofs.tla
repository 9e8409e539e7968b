------------------------------ MODULE GCProofs ------------------------------
(***************************************************************************)
(* Theorems about GC, for every value of its constants.                    *)
(***************************************************************************)
EXTENDS GC, TLAPS

(***************************************************************************)
(* What the references of objects are.                                     *)
(***************************************************************************)
\* References are objects.
LEMMA RefsAreObjects ==
  ASSUME TypeOK, NEW o \in Obj
  PROVE  /\ Values(o) \subseteq Obj
         /\ Keys(o) \subseteq Obj
         /\ MetaOf(o) \subseteq Obj
         /\ \A S \in SUBSET Slots : SlotRefs(o, S) \subseteq Obj
         /\ uvval(o) \subseteq Obj
<1>1. ent[o] \subseteq Val \X Val
  BY DEF TypeOK
<1>2. Values(o) \subseteq Obj /\ Keys(o) \subseteq Obj
  BY <1>1 DEF Values, Keys, Nodes, Val
<1>3. MetaOf(o) \subseteq Obj
  BY DEF TypeOK, MetaOf, Val
<1>4. \A S \in SUBSET Slots : SlotRefs(o, S) \subseteq Obj
  BY DEF TypeOK, SlotRefs, Val
<1>5. uvval(o) \subseteq Obj
  <2>1. CASE open[o] = <<>>
    BY <1>2, <2>1 DEF uvval
  <2>2. CASE open[o] # <<>>
    <3>1. open[o] \in Obj \X Slots
      BY <2>2 DEF TypeOK
    <3>2. open[o][1] \in Obj /\ open[o][2] \in Slots
      BY <3>1
    <3>3. stk[open[o][1]][open[o][2]] \in Val
      BY <3>2 DEF TypeOK
    <3> QED BY <2>2, <3>3 DEF uvval, Val
  <2> QED BY <2>1, <2>2
<1> QED BY <1>2, <1>3, <1>4, <1>5

\* What a traversal marks are objects.
LEMMA KidsAreObjects ==
  ASSUME TypeOK, NEW o \in Obj
  PROVE  Kids(o) \subseteq Obj
<1>1. FinArgs \subseteq Obj
  <2>1. cstack \in Seq(Frame)
    BY DEF TypeOK
  <2>2. \A i \in DOMAIN cstack : cstack[i] \in Frame
    BY <2>1
  <2> QED BY <2>2 DEF FinArgs, Frame, Val
<1>2. gc_traverse_tab(o) \subseteq Obj
  BY RefsAreObjects DEF gc_traverse_tab
<1>3. 1 .. top[o] \subseteq Slots
  BY GCAssumption DEF TypeOK, Slots
<1>4. gc_traverse_thread(o) \subseteq Obj
  BY <1>1, <1>3, RefsAreObjects DEF gc_traverse_thread
<1> QED BY <1>2, <1>4, RefsAreObjects DEF Kids

(***************************************************************************)
(* Marking.                                                                *)
(***************************************************************************)
\* gc_mark() marks white objects only, the white ones of S among them.
LEMMA MarkSetIsWhite ==
  ASSUME TypeOK, NEW c, NEW S \in SUBSET Obj
  PROVE  /\ MarkSet(c, S) \subseteq {o \in Obj : c[o] \in Whites}
         /\ {o \in S : c[o] \in Whites} \subseteq MarkSet(c, S)
<1> DEFINE white(T) == {o \in T : c[o] \in Whites}
           w1 == white(S)
           w2 == w1 \cup white(UNION {uvval(u) : u \in {x \in w1 : kind[x] = "upval"}})
           w3 == w2 \cup white(UNION {Values(u) \cup MetaOf(u) :
                                        u \in {x \in w2 : kind[x] = "udata"}})
<1>1. MarkSet(c, S) = w3
  BY DEF MarkSet
<1>2. w1 \subseteq {o \in Obj : c[o] \in Whites}
  OBVIOUS
<1>3. w2 \subseteq {o \in Obj : c[o] \in Whites}
  BY <1>2, RefsAreObjects
<1>4. w3 \subseteq {o \in Obj : c[o] \in Whites}
  BY <1>3, RefsAreObjects
<1> HIDE DEF w3
<1> QED BY <1>1, <1>4 DEF w3

\* gc_mark() keeps the types of the colours and of the gray list.
LEMMA MarkType ==
  ASSUME TypeOK, NEW c \in [Obj -> Colors], NEW l \in SUBSET Obj, NEW S \in SUBSET Obj,
         gc_mark(c, l, S)
  PROVE  color' \in [Obj -> Colors] /\ gray' \subseteq Obj
<1>1. MarkSet(c, S) \subseteq Obj
  BY MarkSetIsWhite
<1> QED BY <1>1 DEF gc_mark, Painted, MarkColor, GrayListed, Colors

\* The lists and the colours keep their types in every write barrier.
LEMMA BarrierType ==
  ASSUME TypeOK, NEW o \in Obj, NEW v \in Val,
         \/ NoBarrier
         \/ lj_gc_anybarriert(o)
         \/ lj_gc_objbarriert(o, v)
         \/ lj_gc_objbarrier(o, v)
  PROVE  /\ color' \in [Obj -> Colors]
         /\ gray' \subseteq Obj /\ grayagain' \subseteq Obj /\ weak' \subseteq Obj
<1> DEFINE OK == /\ color' \in [Obj -> Colors]
                 /\ gray' \subseteq Obj /\ grayagain' \subseteq Obj /\ weak' \subseteq Obj
<1>1. ASSUME NoBarrier PROVE OK
  BY <1>1 DEF TypeOK, NoBarrier, listVars
<1>2. ASSUME lj_gc_barrierback(o) PROVE OK
  BY <1>2 DEF TypeOK, lj_gc_barrierback, Colors
<1>3. ASSUME v \in Obj, lj_gc_barrierf(o, v) PROVE OK
  <2>1. CASE gcstate \in Marking
    <3>1. gc_mark(color, gray, {v})
      BY <1>3, <2>1 DEF lj_gc_barrierf
    <3>2. {v} \in SUBSET Obj /\ gray \in SUBSET Obj /\ color \in [Obj -> Colors]
      BY <1>3 DEF TypeOK
    <3>3. color' \in [Obj -> Colors] /\ gray' \subseteq Obj
      BY <3>1, <3>2, MarkType
    <3> QED BY <1>3, <3>3 DEF TypeOK, lj_gc_barrierf
  <2>2. CASE gcstate \notin Marking
    BY <1>3, <2>2 DEF TypeOK, lj_gc_barrierf, Colors
  <2> QED BY <2>1, <2>2
<1>4. ASSUME lj_gc_objbarrier(o, v) PROVE OK
  BY <1>1, <1>3, <1>4 DEF lj_gc_objbarrier, Val
<1> QED BY <1>1, <1>2, <1>4 DEF lj_gc_anybarriert, lj_gc_objbarriert

(***************************************************************************)
(* Type correctness.                                                       *)
(***************************************************************************)
THEOREM InitType == Init => TypeOK
<1> SUFFICES ASSUME Init PROVE TypeOK
  OBVIOUS
<1>1. Base \in Slots /\ Main \in Obj /\ Nil \in Val
  BY GCAssumption DEF Slots, Val
<1>2. cstack \in Seq(Frame)
  BY DEF Init
<1> QED BY <1>1, <1>2 DEF Init, TypeOK, StackBase, Kinds, Colors, Whites, NoColor,
                        Val, Fields, States, AtomicPCs

\* A value that is held goes to the stack or to a register.
LEMMA HeldType ==
  ASSUME TypeOK, NEW v \in Val, Held(v)
  PROVE  stk' \in [Obj -> [Slots -> Val]] /\ reg' \in Val
<1>1. 1 .. top[curL] \subseteq Slots
  BY GCAssumption DEF TypeOK, Slots
<1>2. CASE jitbase
  BY <1>2 DEF TypeOK, Held
<1>3. CASE ~jitbase
  <2>1. PICK i \in Slots : stk' = [stk EXCEPT ![curL][i] = v]
    BY <1>1, <1>3 DEF Held
  <2>2. stk' \in [Obj -> [Slots -> Val]]
    BY <2>1 DEF TypeOK
  <2> QED BY <1>3, <2>2 DEF TypeOK, Held
<1> QED BY <1>2, <1>3

\* Freeing and closing keep the types of the heap.
LEMMA FreeAndCloseType ==
  ASSUME TypeOK, NEW F \in SUBSET Obj, NEW C \in SUBSET Obj, FreeAndClose(F, C)
  PROVE  /\ kind' \in [Obj -> Kinds \cup {"free"}]
         /\ ent' \in [Obj -> SUBSET (Val \X Val)]
         /\ open' \in [Obj -> {<<>>} \cup (Obj \X Slots)]
         /\ meta' \in [Obj -> Val]
         /\ mm' \in [Obj -> SUBSET Fields]
         /\ stk' \in [Obj -> [Slots -> Val]]
         /\ top' \in [Obj -> Slots]
         /\ finalized' \subseteq Obj
<1>1. StackBase \in Slots /\ Nil \in Val
  BY GCAssumption DEF Slots, Val, StackBase
<1>2. \A o \in Obj : {<<Nil, v>> : v \in uvval(o)} \subseteq Val \X Val
  BY <1>1, RefsAreObjects DEF Val
<1>3. ent' \in [Obj -> SUBSET (Val \X Val)]
  BY <1>2 DEF TypeOK, FreeAndClose
<1> QED BY <1>1, <1>3 DEF TypeOK, FreeAndClose

\* lj_gc_closeuv() keeps the types of the colours and of the gray list.
LEMMA CloseType ==
  ASSUME TypeOK, NEW F \in SUBSET Obj, NEW G \in SUBSET Obj, lj_gc_closeuv(F, G)
  PROVE  color' \in [Obj -> Colors] /\ gray' \subseteq Obj
<1>1. \A c \in Colors : Recolored(F, G, c) \in [Obj -> Colors]
  BY DEF TypeOK, Recolored, NoColor, Colors, Whites
<1>2. currentwhite \in Colors /\ "black" \in Colors
  BY DEF TypeOK, Colors
<1>3. UNION {uvval(u) : u \in G} \in SUBSET Obj
  BY RefsAreObjects
<1>4. gray \in SUBSET Obj
  BY DEF TypeOK
<1>5. CASE gcstate \in Marking
  <2>1. gc_mark(Recolored(F, G, "black"), gray, UNION {uvval(u) : u \in G})
    BY <1>5 DEF lj_gc_closeuv
  <2> QED BY <1>1, <1>2, <1>3, <1>4, <2>1, MarkType
<1>6. CASE gcstate \notin Marking
  BY <1>1, <1>2, <1>4, <1>6 DEF lj_gc_closeuv
<1> QED BY <1>5, <1>6

\* Every operation of the program keeps the types.
LEMMA MutateType ==
  ASSUME TypeOK, NEW R \in SUBSET Obj, Mutate(R)
  PROVE  TypeOK'
<1> USE DEF objVars, heapVars, jitVars, rootVars, listVars, phaseVars, ctrlVars
<1>0. /\ Nil \in Val /\ Obj \subseteq Val
      /\ currentwhite \in Colors
      /\ NewKinds \subseteq Kinds
  BY GCAssumption DEF Val, TypeOK, Colors
<1>1. ASSUME NEW o \in Obj, NEW k \in NewKinds, NEW v \in R \cup {Nil}, lj_mem_newgco(o, k, v)
      PROVE  TypeOK'
  <2>1. o \in Val /\ v \in Val /\ k \in Kinds
    BY <1>0
  <2>2. stk' \in [Obj -> [Slots -> Val]] /\ reg' \in Val
    BY <1>1, <2>1, HeldType DEF lj_mem_newgco
  <2>3. ent' \in [Obj -> SUBSET (Val \X Val)]
    BY <1>0, <1>1, <2>1 DEF TypeOK, lj_mem_newgco
  <2>4. kind' \in [Obj -> Kinds \cup {"free"}] /\ color' \in [Obj -> Colors]
    BY <1>0, <1>1, <2>1 DEF TypeOK, lj_mem_newgco
  <2> QED BY <1>1, <2>2, <2>3, <2>4 DEF TypeOK, lj_mem_newgco
<1>2. ASSUME NEW s \in Obj, lj_str_new(s)
      PROVE  TypeOK'
  <2>0. s \in Val
    BY <1>0
  <2>1. stk' \in [Obj -> [Slots -> Val]] /\ reg' \in Val
    BY <1>2, <2>0, HeldType DEF lj_str_new
  <2> QED BY <1>0, <1>2, <2>1 DEF TypeOK, lj_str_new, ResurrectStr
<1>3. ASSUME NEW f \in Obj, NEW u \in Obj, NEW i \in Slots, lj_func_newL_gc(f, u, i)
      PROVE  TypeOK'
  <2>1. 1 .. top[curL] \subseteq Slots
    BY GCAssumption DEF TypeOK, Slots
  <2>2. stk' \in [Obj -> [Slots -> Val]]
    BY <1>0, <1>3, <2>1 DEF TypeOK, lj_func_newL_gc
  <2>3. kind' \in [Obj -> Kinds \cup {"free"}]
    BY <1>3 DEF TypeOK, lj_func_newL_gc, Kinds
  <2>4. ent' \in [Obj -> SUBSET (Val \X Val)]
    BY <1>0, <1>3 DEF TypeOK, lj_func_newL_gc
  <2> QED BY <1>0, <1>3, <2>2, <2>3, <2>4 DEF TypeOK, lj_func_newL_gc, FoundColor
<1>4. ASSUME NEW v \in R \cup {Nil}, Move(v)
      PROVE  TypeOK'
  <2>0. v \in Val
    BY <1>0
  <2>1. stk' \in [Obj -> [Slots -> Val]] /\ reg' \in Val
    BY <1>4, <2>0, HeldType DEF Move
  <2> QED BY <1>4, <2>1 DEF TypeOK, Move
<1>5. ASSUME NEW n \in Slots, SetTop(n)
      PROVE  TypeOK'
  BY <1>5 DEF TypeOK, SetTop
<1>6. ASSUME NEW th \in R, Resume(th)
      PROVE  TypeOK'
  BY <1>6 DEF TypeOK, Resume
<1>7. ASSUME NEW t \in R, NEW k \in R \cup {Nil}, NEW v \in R, NEW drop \in BOOLEAN,
             lj_tab_newkey(t, k, v, drop)
      PROVE  TypeOK'
  <2>1. /\ color' \in [Obj -> Colors]
        /\ gray' \subseteq Obj /\ grayagain' \subseteq Obj /\ weak' \subseteq Obj
    BY <1>0, <1>7, BarrierType DEF lj_tab_newkey
  <2>2. ent' \in [Obj -> SUBSET (Val \X Val)]
    BY <1>0, <1>7 DEF TypeOK, lj_tab_newkey, Nodes
  <2> QED BY <1>7, <2>1, <2>2 DEF TypeOK, lj_tab_newkey
<1>8. ASSUME NEW t \in R, NEW v \in R \cup {Nil}, NEW e \in ent[t], lj_tab_set(t, e, v)
      PROVE  TypeOK'
  <2>1. /\ color' \in [Obj -> Colors]
        /\ gray' \subseteq Obj /\ grayagain' \subseteq Obj /\ weak' \subseteq Obj
    BY <1>0, <1>8, BarrierType DEF lj_tab_set
  <2>2. e[1] \in Val /\ v \in Val
    BY <1>0 DEF TypeOK
  <2>3. ent' \in [Obj -> SUBSET (Val \X Val)]
    BY <1>8, <2>2 DEF TypeOK, lj_tab_set
  <2> QED BY <1>8, <2>1, <2>3 DEF TypeOK, lj_tab_set
<1>9. ASSUME NEW t \in R, NEW v \in R \cup {Nil}, NEW e \in ent[t], lua_rawseti(t, e, v)
      PROVE  TypeOK'
  <2>1. /\ color' \in [Obj -> Colors]
        /\ gray' \subseteq Obj /\ grayagain' \subseteq Obj /\ weak' \subseteq Obj
    BY <1>0, <1>9, BarrierType DEF lua_rawseti
  <2>2. ent' \in [Obj -> SUBSET (Val \X Val)]
    BY <1>0, <1>9 DEF TypeOK, lua_rawseti
  <2> QED BY <1>9, <2>1, <2>2 DEF TypeOK, lua_rawseti
<1>10. ASSUME NEW t \in R, NEW F \in Metas, SetField(t, F)
       PROVE  TypeOK'
  <2>1. /\ color' \in [Obj -> Colors]
        /\ gray' \subseteq Obj /\ grayagain' \subseteq Obj /\ weak' \subseteq Obj
    BY <1>0, <1>10, BarrierType DEF SetField
  <2>2. F \in SUBSET Fields
    BY GCAssumption
  <2> QED BY <1>10, <2>1, <2>2 DEF TypeOK, SetField
<1>11. ASSUME NEW v \in R \cup {Nil}, SetBaseMeta(v)
       PROVE  TypeOK'
  <2>1. ent' \in [Obj -> SUBSET (Val \X Val)]
    BY <1>11 DEF TypeOK, SetBaseMeta, Flushed
  <2> QED BY <1>0, <1>11, <2>1 DEF TypeOK, SetBaseMeta
<1>12. ASSUME NEW o \in R, NEW v \in R \cup {Nil}, lua_setmetatable(o, v)
       PROVE  TypeOK'
  <2>0. v \in Val
    BY <1>0
  <2>1. /\ color' \in [Obj -> Colors]
        /\ gray' \subseteq Obj /\ grayagain' \subseteq Obj /\ weak' \subseteq Obj
    BY <1>12, <2>0, BarrierType DEF lua_setmetatable
  <2> QED BY <1>12, <2>0, <2>1 DEF TypeOK, lua_setmetatable
<1>13. ASSUME NEW o \in R, NEW v \in R, NEW e, lua_setfenv(o, e, v)
       PROVE  TypeOK'
  <2>0. v \in Val
    BY <1>0
  <2>1. /\ color' \in [Obj -> Colors]
        /\ gray' \subseteq Obj /\ grayagain' \subseteq Obj /\ weak' \subseteq Obj
    BY <1>13, <2>0, BarrierType DEF lua_setfenv
  <2>2. ent' \in [Obj -> SUBSET (Val \X Val)]
    BY <1>0, <1>13 DEF TypeOK, lua_setfenv
  <2> QED BY <1>13, <2>1, <2>2 DEF TypeOK, lua_setfenv
<1>14. ASSUME NEW u \in R, NEW v \in R, SetUpvalue(u, v)
       PROVE  TypeOK'
  <2>0. v \in Val /\ Nil \in Val
    BY <1>0
  <2>1. /\ color' \in [Obj -> Colors]
        /\ gray' \subseteq Obj /\ grayagain' \subseteq Obj /\ weak' \subseteq Obj
    BY <1>14, <2>0, BarrierType DEF SetUpvalue
  <2>2. ent' \in [Obj -> SUBSET (Val \X Val)]
    BY <1>14, <2>0 DEF TypeOK, SetUpvalue
  <2>3. stk' \in [Obj -> [Slots -> Val]]
    <3>1. CASE open[u] = <<>>
      BY <1>14, <3>1 DEF TypeOK, SetUpvalue
    <3>2. CASE open[u] # <<>>
      <4>1. open[u][1] \in Obj /\ open[u][2] \in Slots
        BY <3>2 DEF TypeOK
      <4>2. stk' = [stk EXCEPT ![open[u][1]][open[u][2]] = v]
        BY <1>14, <3>2 DEF SetUpvalue
      <4> QED BY <2>0, <4>1, <4>2 DEF TypeOK
    <3> QED BY <3>1, <3>2
  <2> QED BY <1>14, <2>1, <2>2, <2>3 DEF TypeOK, SetUpvalue
<1>15. ASSUME NEW level \in Slots, lj_func_closeuv(level)
       PROVE  TypeOK'
  <2> DEFINE U == OpenUV(curL, level .. NSlots)
             D == {u \in U : isdead(u)}
             G == {u \in U : isgray(u)}
  <2>1. /\ FreeAndClose(D, U \ D)
        /\ lj_gc_closeuv(D, G)
        /\ UNCHANGED <<grayagain, weak, rootVars, phaseVars, ctrlVars>>
    BY <1>15 DEF lj_func_closeuv
  <2>2. U \subseteq Obj
    BY DEF OpenUV
  <2>3. D \in SUBSET Obj /\ U \ D \in SUBSET Obj /\ G \in SUBSET Obj
    BY <2>2
  <2>4. color' \in [Obj -> Colors] /\ gray' \subseteq Obj
    BY <2>1, <2>3, CloseType
  <2> HIDE DEF D, U, G
  <2>5. /\ kind' \in [Obj -> Kinds \cup {"free"}]
        /\ ent' \in [Obj -> SUBSET (Val \X Val)]
        /\ open' \in [Obj -> {<<>>} \cup (Obj \X Slots)]
        /\ meta' \in [Obj -> Val]
        /\ mm' \in [Obj -> SUBSET Fields]
        /\ stk' \in [Obj -> [Slots -> Val]]
        /\ top' \in [Obj -> Slots]
        /\ finalized' \subseteq Obj
    BY <2>1, <2>3, FreeAndCloseType
  <2> QED BY <2>1, <2>4, <2>5 DEF TypeOK
<1>16. ASSUME NEW p \in R, trace_start(p)
       PROVE  TypeOK'
  BY <1>16 DEF TypeOK, trace_start
<1>17. ASSUME NEW v \in R, RecordKGC(v)
       PROVE  TypeOK'
  BY <1>17 DEF TypeOK, RecordKGC
<1>18. ASSUME NEW T \in Obj, NEW p \in R, trace_stop(T, p)
       PROVE  TypeOK'
  <2>1. ent' \in [Obj -> SUBSET (Val \X Val)]
    BY <1>0, <1>18, SMTT(60) DEF TypeOK, trace_stop
  <2>2. SavedColor \in Colors
    BY <1>0 DEF SavedColor, Colors
  <2>3. kind' \in [Obj -> Kinds \cup {"free"}]
    BY <1>18 DEF TypeOK, trace_stop, Kinds
  <2>4. gray' \subseteq Obj
    BY <1>18 DEF TypeOK, trace_stop
  <2> QED BY <1>18, <2>1, <2>2, <2>3, <2>4 DEF TypeOK, trace_stop
<1>19. ASSUME trace_abort
       PROVE  TypeOK'
  BY <1>19 DEF TypeOK, trace_abort
<1>20. ASSUME NEW p \in R, lj_trace_flushproto(p)
       PROVE  TypeOK'
  BY <1>20 DEF TypeOK, lj_trace_flushproto, Flushed
<1>21. ASSUME NEW T \in R, EnterTrace(T)
       PROVE  TypeOK'
  BY <1>21 DEF TypeOK, EnterTrace
<1>22. ASSUME lj_trace_exit
       PROVE  TypeOK'
  <2>1. 1 .. top[curL] \subseteq Slots
    BY GCAssumption DEF TypeOK, Slots
  <2>2. stk' \in [Obj -> [Slots -> Val]]
    BY <1>22, <2>1 DEF TypeOK, lj_trace_exit
  <2> QED BY <1>0, <1>22, <2>2 DEF TypeOK, lj_trace_exit
<1>23. ASSUME FinReturn \/ FinError
       PROVE  TypeOK'
  <2>1. cstack \in Seq(Frame) /\ cstack # <<>>
    BY <1>23 DEF TypeOK, FinReturn, FinError
  <2>2. Tail(cstack) \in Seq(Frame) /\ Head(cstack) \in Frame
    BY <2>1
  <2>3. cstack' \in Seq(Frame)
    <3>1. CASE FinReturn
      BY <2>2, <3>1 DEF FinReturn
    <3>2. CASE FinError
      <4>1. Len(Tail(cstack)) = Len(cstack) - 1 /\ Len(cstack) > 1
        BY <2>1, <3>2 DEF FinError
      <4> QED BY <2>2, <3>2, <4>1 DEF FinError
    <3> QED BY <1>23, <3>1, <3>2
  <2>4. gcstop' \in BOOLEAN
    BY <1>23, <2>2 DEF FinReturn, FinError, SavedStop, Frame
  <2> QED BY <1>23, <2>3, <2>4 DEF TypeOK, FinReturn, FinError
<1>24. ASSUME lj_gc_fullgc
       PROVE  TypeOK'
  <2>1. [act |-> "full1", arg |-> Nil, stop |-> gcstop] \in Frame
    BY <1>0 DEF TypeOK, Frame
  <2>2. cstack' \in Seq(Frame)
    BY <1>24, <2>1 DEF TypeOK, lj_gc_fullgc
  <2> QED BY <1>24, <2>2 DEF TypeOK, lj_gc_fullgc, AllLists, Alloc, States
<1>25. ASSUME lua_gc_stop \/ lua_gc_restart
       PROVE  TypeOK'
  BY <1>25 DEF TypeOK, lua_gc_stop, lua_gc_restart
<1> QED
  BY <1>1, <1>2, <1>3, <1>4, <1>5, <1>6, <1>7, <1>8, <1>9, <1>10, <1>11, <1>12, <1>13,
     <1>14, <1>15, <1>16, <1>17, <1>18, <1>19, <1>20, <1>21, <1>22, <1>23, <1>24, <1>25
     DEF Mutate

\* So does every step of the collector.
LEMMA CollectType ==
  ASSUME TypeOK, Collect
  PROVE  TypeOK'
<1> USE DEF objVars, heapVars, jitVars, rootVars, listVars, phaseVars, ctrlVars
<1>0. /\ Nil \in Val /\ Obj \subseteq Val
      /\ currentwhite \in Colors
      /\ otherwhite \in Whites
  BY GCAssumption DEF Val, TypeOK, Colors, otherwhite, Whites
<1>1. ASSUME gc_mark_start
      PROVE  /\ color' \in [Obj -> Colors] /\ gray' \subseteq Obj
             /\ grayagain' \subseteq Obj /\ weak' \subseteq Obj
             /\ gcstate' \in States
  <2>1. StartRoots \in SUBSET Obj
    BY GCAssumption, RefsAreObjects DEF TypeOK, StartRoots, Val
  <2>2. gc_mark(color, {}, StartRoots) /\ color \in [Obj -> Colors] /\ {} \in SUBSET Obj
    BY <1>1 DEF TypeOK, gc_mark_start
  <2> QED BY <1>1, <2>1, <2>2, MarkType DEF gc_mark_start, States
<1>2. ASSUME NEW S \in SUBSET Obj, gc_sweep(S)
      PROVE  /\ kind' \in [Obj -> Kinds \cup {"free"}]
             /\ color' \in [Obj -> Colors]
             /\ ent' \in [Obj -> SUBSET (Val \X Val)]
             /\ open' \in [Obj -> {<<>>} \cup (Obj \X Slots)]
             /\ meta' \in [Obj -> Val]
             /\ mm' \in [Obj -> SUBSET Fields]
             /\ stk' \in [Obj -> [Slots -> Val]]
             /\ top' \in [Obj -> Slots]
             /\ finalized' \subseteq Obj
             /\ sweeping' \subseteq Obj
  <2> DEFINE X == S \cup UVsOf(S)
             D == {o \in X : isdead(o) /\ o # Main}
             C == ClosedByFree(S \cap D) \ D
  <2>1. /\ FreeAndClose(D, C)
        /\ color' = Recolored(D, X \ D, currentwhite)
        /\ sweeping' = sweeping \ S
    BY <1>2 DEF gc_sweep
  <2>2. \A T \in SUBSET Obj : UVsOf(T) \subseteq Obj
    BY DEF UVsOf, OpenUV
  <2>3. D \in SUBSET Obj /\ C \in SUBSET Obj
    BY <2>2 DEF ClosedByFree
  <2>4. color' \in [Obj -> Colors]
    BY <1>0, <2>1 DEF TypeOK, Recolored, NoColor, Colors, Whites
  <2>5. sweeping' \subseteq Obj
    BY <2>1 DEF TypeOK
  <2> HIDE DEF D, C
  <2> QED BY <2>1, <2>3, <2>4, <2>5, FreeAndCloseType
<1>3. ASSUME StartCycle
      PROVE  TypeOK'
  BY <1>1, <1>3 DEF TypeOK, StartCycle
<1>4. ASSUME NEW o \in Obj, propagatemark(o)
      PROVE  TypeOK'
  <2>1. MarkSet(color, Kids(o)) \subseteq Obj
    BY KidsAreObjects, MarkSetIsWhite
  <2>2. Painted(color, MarkSet(color, Kids(o))) \in [Obj -> Colors]
    BY DEF TypeOK, Painted, MarkColor, Colors
  <2>3. color' \in [Obj -> Colors]
    BY <1>4, <2>2 DEF propagatemark, Colors
  <2>4. gray' \subseteq Obj /\ grayagain' \subseteq Obj /\ weak' \subseteq Obj
    BY <1>4, <2>1 DEF TypeOK, propagatemark, GrayListed
  <2>5. ClearUnmarked(o) \in [Slots -> Val]
    BY <1>0 DEF TypeOK, ClearUnmarked
  <2>6. stk' \in [Obj -> [Slots -> Val]]
    BY <1>4, <2>5 DEF TypeOK, propagatemark
  <2> QED BY <1>4, <2>3, <2>4, <2>6 DEF TypeOK, propagatemark
<1>5. ASSUME EndPropagate
      PROVE  TypeOK'
  BY <1>5 DEF TypeOK, EndPropagate, States
<1>6. ASSUME gc_mark_uv
      PROVE  TypeOK'
  <2>1. UNION {uvval(u) : u \in GrayOpenUV} \in SUBSET Obj
    BY RefsAreObjects DEF GrayOpenUV
  <2>2. gray \in SUBSET Obj /\ color \in [Obj -> Colors]
    BY DEF TypeOK
  <2>3. color' \in [Obj -> Colors] /\ gray' \subseteq Obj
    BY <1>6, <2>1, <2>2, MarkType DEF gc_mark_uv
  <2> QED BY <1>6, <2>3 DEF TypeOK, gc_mark_uv, AtomicPCs
<1>7. ASSUME AtomicWeak
      PROVE  TypeOK'
  <2>1. AtomicRoots \in SUBSET Obj
    BY DEF TypeOK, AtomicRoots, Val
  <2>2. WeakAgain \in SUBSET Obj /\ color \in [Obj -> Colors]
    BY DEF TypeOK, WeakAgain
  <2>3. color' \in [Obj -> Colors] /\ gray' \subseteq Obj
    BY <1>7, <2>1, <2>2, MarkType DEF AtomicWeak
  <2> QED BY <1>7, <2>3 DEF TypeOK, AtomicWeak, AtomicPCs
<1>8. ASSUME AtomicAgain
      PROVE  TypeOK'
  BY <1>8 DEF TypeOK, AtomicAgain, AtomicPCs
<1>9. ASSUME AtomicUdata
      PROVE  TypeOK'
  <2>1. finalized' \subseteq Obj /\ mmudata' \subseteq Obj
    BY <1>9 DEF TypeOK, AtomicUdata, Unmarked
  <2>2. gray \in SUBSET Obj /\ MmudataWhite(mmudata') \in [Obj -> Colors]
    BY <1>0 DEF TypeOK, MmudataWhite
  <2>3. color' \in [Obj -> Colors] /\ gray' \subseteq Obj
    BY <1>9, <2>1, <2>2, MarkType DEF AtomicUdata
  <2> QED BY <1>9, <2>1, <2>3 DEF TypeOK, AtomicUdata, AtomicPCs
<1>10. ASSUME AtomicEnd
       PROVE  TypeOK'
  <2>1. ent' \in [Obj -> SUBSET (Val \X Val)]
    <3>1. \A o \in Obj : Cleared(o) \subseteq ent[o]
      BY DEF Cleared, Nodes
    <3>2. \A o \in Obj : gc_clearweak(o) \in SUBSET (Val \X Val)
      BY <1>0, <3>1 DEF TypeOK, gc_clearweak
    <3> QED BY <1>10, <3>2 DEF TypeOK, AtomicEnd
  <2>2. color' \in [Obj -> Colors]
    BY <1>10 DEF TypeOK, AtomicEnd, Colors
  <2>3. sweeping' \subseteq Obj
    BY <1>10 DEF AtomicEnd, AllLists, Alloc
  <2> QED BY <1>0, <1>10, <2>1, <2>2, <2>3 DEF TypeOK, AtomicEnd, States, AtomicPCs
<1>11. ASSUME SweepString
       PROVE  TypeOK'
  <2>1. PICK S \in SUBSET {o \in sweeping : kind[o] = "str"} :
          gc_sweep(S) /\ gcstate' \in {"sweep", "sweepstring"}
    BY <1>11 DEF SweepString
  <2>2. S \in SUBSET Obj
    BY DEF TypeOK
  <2> QED BY <1>2, <1>11, <2>1, <2>2 DEF TypeOK, SweepString, States
<1>12. ASSUME Sweep
       PROVE  TypeOK'
  <2>1. PICK S \in SUBSET sweeping : gc_sweep(S) /\ gcstate' \in {"sweep", AfterSweep}
    BY <1>12 DEF Sweep
  <2>2. S \in SUBSET Obj
    BY DEF TypeOK
  <2> QED BY <1>2, <1>12, <2>1, <2>2 DEF TypeOK, Sweep, States, AfterSweep
<1>13. ASSUME NEW u \in Obj, gc_finalize(u)
       PROVE  TypeOK'
  <2> DEFINE f == [act |-> "fin", arg |-> u, stop |-> gcstop]
  <2>1. f \in Frame
    BY <1>0 DEF TypeOK, Frame
  <2>2. cstack' \in Seq(Frame)
    <3>1. cstack \in Seq(Frame)
      BY DEF TypeOK
    <3>2. cstack' = cstack \/ cstack' = <<f>> \o cstack
      BY <1>13 DEF gc_finalize
    <3> HIDE DEF f
    <3>3. <<f>> \in Seq(Frame)
      BY <2>1
    <3>4. <<f>> \o cstack \in Seq(Frame)
      BY <3>1, <3>3
    <3> QED BY <3>1, <3>2, <3>4
  <2>3. gcstop' \in BOOLEAN /\ cur' \subseteq Obj
    BY <1>13 DEF TypeOK, gc_finalize
  <2> QED BY <1>0, <1>13, <2>2, <2>3 DEF TypeOK, gc_finalize
<1>14. ASSUME EndFinalize
       PROVE  TypeOK'
  BY <1>14 DEF TypeOK, EndFinalize, States
<1>15. ASSUME FullStart
       PROVE  TypeOK'
  <2>1. cstack \in Seq(Frame) /\ cstack # <<>>
    BY <1>15 DEF TypeOK, FullStart, InFull
  <2>2. [Head(cstack) EXCEPT !.act = "full2"] \in Frame
    <3>1. Head(cstack) \in Frame
      BY <2>1
    <3> QED BY <3>1 DEF Frame
  <2>3. cstack' \in Seq(Frame)
    BY <1>15, <2>1, <2>2 DEF FullStart
  <2>4. gc_mark_start
    BY <1>15 DEF FullStart
  <2> QED BY <1>1, <1>15, <2>3, <2>4 DEF TypeOK, FullStart
<1>16. ASSUME FullEnd
       PROVE  TypeOK'
  <2>1. cstack \in Seq(Frame) /\ cstack # <<>>
    BY <1>16 DEF TypeOK, FullEnd, InFull
  <2>2. Tail(cstack) \in Seq(Frame)
    BY <2>1
  <2> QED BY <1>16, <2>2 DEF TypeOK, FullEnd
<1> QED
  BY <1>3, <1>4, <1>5, <1>6, <1>7, <1>8, <1>9, <1>10, <1>11, <1>12, <1>13, <1>14, <1>15,
     <1>16 DEF Collect

\* The collector and the program keep every variable in its type: TypeOK of the
\* runs, for any number of objects, slots and entries and any set of operations.
THEOREM TypeCorrect == Spec => []TypeOK
<1>1. ASSUME TypeOK, [Next]_vars
      PROVE  TypeOK'
  <2>1. CASE Next
    <3>1. Named \in SUBSET Obj
      BY DEF Named, ReachFrom
    <3> QED BY <1>1, <2>1, <3>1, MutateType, CollectType DEF Next
  <2>2. CASE UNCHANGED vars
    BY <1>1, <2>2 DEF TypeOK, vars, objVars, heapVars, jitVars, rootVars, listVars,
                      phaseVars, ctrlVars
  <2> QED BY <1>1, <2>1, <2>2
<1> QED BY <1>1, InitType, PTL DEF Spec

(***************************************************************************)
(* The gray lists.  ListsGray is not inductive: it rests on what kinds of  *)
(* objects are listed, and on mmudata being userdata that the sweep under  *)
(* way does not reach.                                                     *)
(***************************************************************************)
ListKinds == {"tab", "func", "proto", "trace", "thread"}

ListsInv ==
  /\ \A o \in Obj : open[o] # <<>> => kind[o] = "upval"
  /\ atomicpc # "none" => gcstate = "atomic"
  /\ gcstate \notin Sweeps => sweeping = {}
  /\ \A o \in mmudata : kind[o] = "udata" /\ o \notin sweeping
  /\ gcstate \in Marking =>
       /\ \A o \in gray \cup grayagain \cup weak : kind[o] \in ListKinds /\ color[o] = "gray"
       /\ gray \cap grayagain = {} /\ gray \cap weak = {} /\ grayagain \cap weak = {}

\* gc_mark() lists the white objects it makes gray, and paints no other colour.
LEMMA MarkLists ==
  ASSUME TypeOK, NEW c \in [Obj -> Colors], NEW l \in SUBSET Obj, NEW S \in SUBSET Obj,
         gc_mark(c, l, S), NEW o \in Obj
  PROVE  /\ c[o] \notin Whites => color'[o] = c[o]
         /\ o \in gray' =>
              o \in l \/ (kind[o] \in ListKinds /\ c[o] \in Whites /\ color'[o] = "gray")
<1> DEFINE M == MarkSet(c, S)
<1>1. M \subseteq {x \in Obj : c[x] \in Whites}
  BY MarkSetIsWhite
<1>2. color' = [x \in Obj |-> IF x \in M THEN MarkColor(x) ELSE c[x]]
  BY DEF gc_mark, Painted
<1>3. gray' = l \cup GrayListed(M)
  BY DEF gc_mark
<1> HIDE DEF M
<1>4. c[o] \notin Whites => color'[o] = c[o]
  BY <1>1, <1>2
<1>5. ASSUME o \in GrayListed(M)
      PROVE  kind[o] \in ListKinds /\ c[o] \in Whites /\ color'[o] = "gray"
  <2>1. o \in M /\ kind[o] \in ListKinds
    BY <1>5 DEF GrayListed, ListKinds
  <2>2. MarkColor(o) = "gray"
    BY <2>1 DEF MarkColor, ListKinds
  <2> QED BY <1>1, <1>2, <2>1, <2>2
<1> QED BY <1>3, <1>4, <1>5

\* ListsInv depends on these variables only.
LEMMA ListsFrame ==
  ASSUME ListsInv,
         UNCHANGED <<kind, color, open, gray, grayagain, weak, gcstate, atomicpc,
                     mmudata, sweeping>>
  PROVE  ListsInv'
BY DEF ListsInv

\* The write barriers keep the lists apart.
LEMMA BarrierLists ==
  ASSUME TypeOK, ListsInv, NEW o \in Obj, NEW v \in Val,
         UNCHANGED <<kind, open, gcstate, atomicpc, mmudata, sweeping>>,
         \/ NoBarrier
         \/ kind[o] = "tab" /\ lj_gc_anybarriert(o)
         \/ kind[o] = "tab" /\ lj_gc_objbarriert(o, v)
         \/ lj_gc_objbarrier(o, v)
  PROVE  ListsInv'
<1>1. ASSUME NoBarrier PROVE ListsInv'
  BY <1>1, ListsFrame DEF NoBarrier, listVars
<1>2. ASSUME kind[o] = "tab", isblack(o), lj_gc_barrierback(o) PROVE ListsInv'
  <2>1. o \notin gray \cup grayagain \cup weak \/ gcstate \notin Marking
    BY <1>2 DEF ListsInv, isblack
  <2>2. "tab" \in ListKinds
    BY DEF ListKinds
  <2>3. \A x \in Obj : color'[x] = IF x = o THEN "gray" ELSE color[x]
    BY <1>2 DEF lj_gc_barrierback, TypeOK
  <2> QED BY <1>2, <2>1, <2>2, <2>3 DEF ListsInv, lj_gc_barrierback, TypeOK
<1>3. ASSUME v \in Obj, isblack(o), lj_gc_barrierf(o, v) PROVE ListsInv'
  <2>1. CASE gcstate \in Marking
    <3>1. gc_mark(color, gray, {v}) /\ UNCHANGED <<grayagain, weak>>
      BY <1>3, <2>1 DEF lj_gc_barrierf
    <3>2. {v} \in SUBSET Obj /\ gray \in SUBSET Obj /\ color \in [Obj -> Colors]
      BY <1>3 DEF TypeOK
    <3>3. \A x \in Obj :
            /\ color[x] \notin Whites => color'[x] = color[x]
            /\ x \in gray' =>
                 x \in gray \/ (kind[x] \in ListKinds /\ color[x] \in Whites /\ color'[x] = "gray")
      BY <3>1, <3>2, MarkLists
    <3>4. gray' \subseteq Obj
      BY <3>1, <3>2, MarkType
    <3> QED BY <3>1, <3>3, <3>4 DEF ListsInv, TypeOK, Whites
  <2>2. CASE gcstate \notin Marking
    BY <2>2 DEF ListsInv
  <2> QED BY <2>1, <2>2
<1>4. ASSUME lj_gc_objbarrier(o, v) PROVE ListsInv'
  BY <1>1, <1>3, <1>4 DEF lj_gc_objbarrier, Val
<1> QED BY <1>1, <1>2, <1>4 DEF lj_gc_anybarriert, lj_gc_objbarriert

\* Closing upvalues keeps the lists apart.
LEMMA CloseLists ==
  ASSUME TypeOK, ListsInv, NEW level \in Slots, lj_func_closeuv(level)
  PROVE  ListsInv'
<1> DEFINE U == OpenUV(curL, level .. NSlots)
           D == {u \in U : isdead(u)}
           G == {u \in U : isgray(u)}
<1>1. /\ FreeAndClose(D, U \ D)
      /\ lj_gc_closeuv(D, G)
      /\ UNCHANGED <<grayagain, weak, phaseVars>>
  BY DEF lj_func_closeuv
<1>2. U \subseteq Obj /\ \A u \in U : open[u] # <<>>
  BY SMTT(60) DEF OpenUV
<1>3. D \in SUBSET Obj /\ G \in SUBSET Obj /\ \A u \in D \cup G : kind[u] = "upval"
  BY <1>2 DEF ListsInv
<1> HIDE DEF U, D, G
<1>4. \A o \in Obj :
        /\ o \notin D => kind'[o] = kind[o]
        /\ open'[o] # <<>> => open[o] # <<>> /\ o \notin D
  BY <1>1 DEF FreeAndClose
<1>5. ASSUME gcstate \in Marking
      PROVE  /\ gray' \subseteq Obj
             /\ \A o \in Obj :
                  /\ color[o] \notin Whites /\ o \notin D \cup G => color'[o] = color[o]
                  /\ o \in gray' =>
                       o \in gray \/ (kind[o] \in ListKinds /\ color[o] \in Whites /\ color'[o] = "gray")
  <2> DEFINE c == Recolored(D, G, "black")
             V == UNION {uvval(u) : u \in G}
  <2>1. gc_mark(c, gray, V)
    BY <1>1, <1>5 DEF lj_gc_closeuv
  <2>2. c \in [Obj -> Colors]
    BY DEF TypeOK, Recolored, NoColor, Colors, Whites
  <2>3. V \in SUBSET Obj /\ gray \in SUBSET Obj
    BY <1>3, RefsAreObjects DEF TypeOK
  <2>4. \A o \in Obj : o \notin D \cup G => c[o] = color[o]
    BY DEF Recolored
  <2> HIDE DEF c, V
  <2>5. \A o \in Obj :
          /\ c[o] \notin Whites => color'[o] = c[o]
          /\ o \in gray' =>
               o \in gray \/ (kind[o] \in ListKinds /\ c[o] \in Whites /\ color'[o] = "gray")
    BY <2>1, <2>2, <2>3, MarkLists
  <2>6. gray' \subseteq Obj
    BY <2>1, <2>2, <2>3, MarkType
  <2>7. \A o \in D \cup G : kind[o] \notin ListKinds
    BY <1>3 DEF ListKinds
  <2> QED BY <2>4, <2>5, <2>6, <2>7
<1>6. ListKinds \cap {"upval", "free", "udata"} = {}
  BY DEF ListKinds
<1>7. gcstate \in Marking => gray \cup grayagain \cup weak \subseteq Obj
  BY DEF TypeOK
<1>8. UNCHANGED <<grayagain, weak, gcstate, atomicpc, mmudata, sweeping>>
  BY <1>1 DEF phaseVars
<1>9. /\ \A o \in Obj : open'[o] # <<>> => kind'[o] = "upval"
      /\ atomicpc' # "none" => gcstate' = "atomic"
      /\ gcstate' \notin Sweeps => sweeping' = {}
  <2>1. \A o \in Obj : open'[o] # <<>> => kind'[o] = "upval"
    BY <1>4 DEF ListsInv
  <2>2. atomicpc' # "none" => gcstate' = "atomic"
    BY <1>8 DEF ListsInv
  <2>3. gcstate' \notin Sweeps => sweeping' = {}
    BY <1>8 DEF ListsInv
  <2> QED BY <2>1, <2>2, <2>3
<1>10. \A o \in mmudata' : kind'[o] = "udata" /\ o \notin sweeping'
  BY <1>3, <1>4, <1>8 DEF ListsInv, TypeOK
<1>11. ASSUME gcstate' \in Marking
       PROVE  /\ \A o \in gray' \cup grayagain' \cup weak' : kind'[o] \in ListKinds /\ color'[o] = "gray"
              /\ gray' \cap grayagain' = {} /\ gray' \cap weak' = {} /\ grayagain' \cap weak' = {}
  <2>1. \A o \in gray \cup grayagain \cup weak :
          o \in Obj /\ kind'[o] \in ListKinds /\ color'[o] = "gray" /\ color[o] = "gray"
    BY <1>3, <1>4, <1>5, <1>6, <1>7, <1>8, <1>11 DEF ListsInv, Whites
  <2>2. \A o \in gray' : o \in gray \/ (kind'[o] \in ListKinds /\ color[o] \in Whites /\ color'[o] = "gray")
    BY <1>3, <1>4, <1>5, <1>6, <1>8, <1>11
  <2> QED BY <1>8, <1>11, <2>1, <2>2 DEF ListsInv, Whites
<1> QED BY <1>9, <1>10, <1>11 DEF ListsInv

\* Every operation of the program keeps the lists apart.
LEMMA MutateLists ==
  ASSUME TypeOK, ListsInv, NEW R \in SUBSET Obj, Mutate(R)
  PROVE  ListsInv'
<1> USE DEF objVars, heapVars, jitVars, rootVars, listVars, phaseVars, ctrlVars
<1>0. /\ Nil \in Val /\ Obj \subseteq Val
      /\ currentwhite \notin {"gray", "black"}
      /\ "free" \notin ListKinds \cup {"upval", "udata"}
      /\ gray \cup grayagain \cup weak \cup mmudata \subseteq Obj
  BY DEF Val, TypeOK, Whites, ListKinds
<1>1. ASSUME NEW o \in Obj, NEW k \in NewKinds, NEW v \in R \cup {Nil}, lj_mem_newgco(o, k, v)
      PROVE  ListsInv'
  <2>1. /\ kind[o] = "free"
        /\ kind' = [kind EXCEPT ![o] = k] /\ color' = [color EXCEPT ![o] = currentwhite]
        /\ UNCHANGED <<open, gray, grayagain, weak, gcstate, atomicpc, mmudata, sweeping>>
    BY <1>1 DEF lj_mem_newgco
  <2>2. open[o] = <<>> /\ o \notin mmudata
    BY <1>0, <2>1 DEF ListsInv
  <2> QED BY <1>0, <2>1, <2>2 DEF ListsInv, TypeOK
<1>2. ASSUME NEW s \in Obj, lj_str_new(s)
      PROVE  ListsInv'
  <2>1. /\ kind[s] = "str"
        /\ color' = [color EXCEPT ![s] = ResurrectStr(s)]
        /\ UNCHANGED <<kind, open, gray, grayagain, weak, gcstate, atomicpc, mmudata, sweeping>>
    BY <1>2 DEF lj_str_new
  <2>2. "str" \notin ListKinds
    BY DEF ListKinds
  <2> QED BY <1>0, <2>1, <2>2 DEF ListsInv, TypeOK
<1>3. ASSUME NEW f \in Obj, NEW u \in Obj, NEW i \in Slots, lj_func_newL_gc(f, u, i)
      PROVE  ListsInv'
  <2>1. /\ kind[f] = "free" /\ f # u /\ (kind[u] = "free" \/ open[u] # <<>>)
        /\ kind' = [kind EXCEPT ![f] = "func", ![u] = "upval"]
        /\ color' = [color EXCEPT ![f] = currentwhite, ![u] = FoundColor(u)]
        /\ open' = [open EXCEPT ![u] = <<curL, i>>]
        /\ UNCHANGED <<gray, grayagain, weak, gcstate, atomicpc, mmudata, sweeping>>
    <3>1. /\ kind[f] = "free" /\ f # u /\ u \in func_finduv(i)
          /\ kind' = [kind EXCEPT ![f] = "func", ![u] = "upval"]
          /\ color' = [color EXCEPT ![f] = currentwhite, ![u] = FoundColor(u)]
          /\ open' = [open EXCEPT ![u] = <<curL, i>>]
          /\ UNCHANGED <<gray, grayagain, weak, gcstate, atomicpc, mmudata, sweeping>>
      BY <1>3 DEF lj_func_newL_gc
    <3>2. u \in OpenUV(curL, {i}) => open[u] = <<curL, i>>
      BY DEF OpenUV
    <3>3. u \in OpenUV(curL, {i}) \/ kind[u] = "free"
      BY <3>1 DEF func_finduv
    <3>4. <<curL, i>> # <<>>
      OBVIOUS
    <3> QED BY <3>1, <3>2, <3>3, <3>4
  <2>2. kind[u] \in {"free", "upval"} /\ open[f] = <<>>
    BY <1>0, <2>1 DEF ListsInv
  <2>3. \A o \in Obj : kind[o] \in ListKinds \cup {"udata"} => o # f /\ o # u
    BY <2>1, <2>2 DEF ListKinds
  <2>4. \A o \in Obj : o # f /\ o # u => kind'[o] = kind[o] /\ color'[o] = color[o]
    BY <2>1 DEF TypeOK
  <2>5. \A o \in Obj : open'[o] # <<>> => kind'[o] = "upval"
    BY <2>1, <2>2 DEF ListsInv, TypeOK
  <2>6. \A o \in mmudata' : kind'[o] = "udata" /\ o \notin sweeping'
    BY <1>0, <2>1, <2>3, <2>4 DEF ListsInv
  <2>7. ASSUME gcstate' \in Marking
        PROVE  \A o \in gray' \cup grayagain' \cup weak' : kind'[o] \in ListKinds /\ color'[o] = "gray"
    BY <1>0, <2>1, <2>3, <2>4, <2>7 DEF ListsInv
  <2> QED BY <2>1, <2>5, <2>6, <2>7 DEF ListsInv
<1>4. ASSUME NEW v \in R \cup {Nil}, Move(v)
      PROVE  ListsInv'
  BY <1>4, ListsFrame DEF Move
<1>5. ASSUME NEW n \in Slots, SetTop(n)
      PROVE  ListsInv'
  BY <1>5, ListsFrame DEF SetTop
<1>6. ASSUME NEW th \in R, Resume(th)
      PROVE  ListsInv'
  BY <1>6, ListsFrame DEF Resume
<1>7. ASSUME NEW t \in R, kind[t] = "tab", NEW k \in R \cup {Nil}, NEW v \in R,
             NEW drop \in BOOLEAN, lj_tab_newkey(t, k, v, drop)
      PROVE  ListsInv'
  BY <1>0, <1>7, BarrierLists DEF lj_tab_newkey
<1>8. ASSUME NEW t \in R, kind[t] = "tab", NEW v \in R \cup {Nil}, NEW e \in ent[t],
             lj_tab_set(t, e, v)
      PROVE  ListsInv'
  BY <1>0, <1>8, BarrierLists DEF lj_tab_set
<1>9. ASSUME NEW t \in R, kind[t] = "tab", NEW v \in R \cup {Nil}, NEW e \in ent[t],
             lua_rawseti(t, e, v)
      PROVE  ListsInv'
  BY <1>0, <1>9, BarrierLists DEF lua_rawseti
<1>10. ASSUME NEW t \in R, kind[t] = "tab", NEW F \in Metas, SetField(t, F)
       PROVE  ListsInv'
  BY <1>0, <1>10, BarrierLists DEF SetField
<1>11. ASSUME NEW v \in R \cup {Nil}, SetBaseMeta(v)
       PROVE  ListsInv'
  BY <1>11, ListsFrame DEF SetBaseMeta
<1>12. ASSUME NEW o \in R, NEW v \in R \cup {Nil}, lua_setmetatable(o, v)
       PROVE  ListsInv'
  BY <1>0, <1>12, BarrierLists DEF lua_setmetatable
<1>13. ASSUME NEW o \in R, NEW v \in R, NEW e, lua_setfenv(o, e, v)
       PROVE  ListsInv'
  BY <1>0, <1>13, BarrierLists DEF lua_setfenv
<1>14. ASSUME NEW u \in R, NEW v \in R, SetUpvalue(u, v)
       PROVE  ListsInv'
  BY <1>0, <1>14, BarrierLists DEF SetUpvalue
<1>15. ASSUME NEW level \in Slots, lj_func_closeuv(level)
       PROVE  ListsInv'
  BY <1>15, CloseLists
<1>16. ASSUME NEW p \in R, trace_start(p)
       PROVE  ListsInv'
  BY <1>16, ListsFrame DEF trace_start
<1>17. ASSUME NEW v \in R, RecordKGC(v)
       PROVE  ListsInv'
  BY <1>17, ListsFrame DEF RecordKGC
<1>18. ASSUME NEW T \in Obj, NEW p \in R, trace_stop(T, p)
       PROVE  ListsInv'
  <2>1. /\ kind[T] = "free"
        /\ kind' = [kind EXCEPT ![T] = "trace"] /\ color' = [color EXCEPT ![T] = SavedColor]
        /\ gray' = IF gcstate \in Marking THEN gray \cup {T} ELSE gray
        /\ UNCHANGED <<open, grayagain, weak, gcstate, atomicpc, mmudata, sweeping>>
    BY <1>18 DEF trace_stop
  <2>2. open[T] = <<>> /\ T \notin mmudata
    BY <1>0, <2>1 DEF ListsInv
  <2>3. gcstate \in Marking => SavedColor = "gray" /\ T \notin gray \cup grayagain \cup weak
    BY <1>0, <2>1 DEF ListsInv, SavedColor
  <2>4. "trace" \in ListKinds
    BY DEF ListKinds
  <2> QED BY <1>0, <2>1, <2>2, <2>3, <2>4 DEF ListsInv, TypeOK
<1>19. ASSUME trace_abort
       PROVE  ListsInv'
  BY <1>19, ListsFrame DEF trace_abort
<1>20. ASSUME NEW p \in R, lj_trace_flushproto(p)
       PROVE  ListsInv'
  BY <1>20, ListsFrame DEF lj_trace_flushproto
<1>21. ASSUME NEW T \in R, EnterTrace(T)
       PROVE  ListsInv'
  BY <1>21, ListsFrame DEF EnterTrace
<1>22. ASSUME lj_trace_exit
       PROVE  ListsInv'
  BY <1>22, ListsFrame DEF lj_trace_exit
<1>23. ASSUME FinReturn \/ FinError
       PROVE  ListsInv'
  BY <1>23, ListsFrame DEF FinReturn, FinError
<1>24. ASSUME lj_gc_fullgc
       PROVE  ListsInv'
  <2>1. CASE gcstate \in {"pause", "propagate", "atomic"}
    BY <1>24, <2>1 DEF lj_gc_fullgc, ListsInv, AllLists, Marking, Sweeps, Interp, Mutating
  <2>2. CASE gcstate \notin {"pause", "propagate", "atomic"}
    BY <1>24, <2>2, ListsFrame DEF lj_gc_fullgc
  <2> QED BY <2>1, <2>2
<1>25. ASSUME lua_gc_stop \/ lua_gc_restart
       PROVE  ListsInv'
  BY <1>25, ListsFrame DEF lua_gc_stop, lua_gc_restart
<1> QED
  BY <1>1, <1>2, <1>3, <1>4, <1>5, <1>6, <1>7, <1>8, <1>9, <1>10, <1>11, <1>12, <1>13,
     <1>14, <1>15, <1>16, <1>17, <1>18, <1>19, <1>20, <1>21, <1>22, <1>23, <1>24, <1>25
     DEF Mutate

\* So does every step of the collector.
LEMMA CollectLists ==
  ASSUME TypeOK, ListsInv, Collect
  PROVE  ListsInv'
<1> USE DEF objVars, heapVars, jitVars, rootVars, listVars, phaseVars, ctrlVars
<1> DEFINE Apart == /\ \A o \in gray \cup grayagain \cup weak : kind[o] \in ListKinds /\ color[o] = "gray"
                    /\ gray \cap grayagain = {} /\ gray \cap weak = {} /\ grayagain \cap weak = {}
<1>0. /\ gray \cup grayagain \cup weak \cup mmudata \subseteq Obj
      /\ color \in [Obj -> Colors]
      /\ "gray" \notin Whites /\ "black" \notin Whites
      /\ ListKinds \cap {"free", "udata", "upval", "str"} = {}
  BY DEF TypeOK, ListKinds, Whites
<1>1. ASSUME gc_mark_start, UNCHANGED kind
      PROVE  Apart'
  <2>1. StartRoots \in SUBSET Obj
    BY GCAssumption, RefsAreObjects DEF TypeOK, StartRoots, Val
  <2>2. gc_mark(color, {}, StartRoots) /\ {} \in SUBSET Obj /\ grayagain' = {} /\ weak' = {}
    BY <1>1 DEF gc_mark_start
  <2>3. gray' \subseteq Obj
    BY <1>0, <2>1, <2>2, MarkType
  <2>4. \A o \in Obj : o \in gray' => kind[o] \in ListKinds /\ color'[o] = "gray"
    BY <1>0, <2>1, <2>2, MarkLists
  <2> QED BY <1>1, <2>2, <2>3, <2>4
<1>2. ASSUME NEW S \in SUBSET sweeping, gc_sweep(S)
      PROVE  /\ \A o \in Obj : open'[o] # <<>> => kind'[o] = "upval"
             /\ \A o \in mmudata : kind'[o] = "udata" /\ o \notin sweeping'
             /\ sweeping' = sweeping \ S
  <2> DEFINE X == S \cup UVsOf(S)
             D == {o \in X : isdead(o) /\ o # Main}
             C == ClosedByFree(S \cap D) \ D
  <2>1. FreeAndClose(D, C) /\ sweeping' = sweeping \ S
    BY <1>2 DEF gc_sweep
  <2>2. \A u \in UVsOf(S) : u \in Obj /\ open[u] # <<>>
    <3>1. \A th \in S : \A u \in OpenUV(th, Slots) : u \in Obj /\ open[u] # <<>>
      BY DEF OpenUV
    <3> QED BY <3>1 DEF UVsOf
  <2>3. \A o \in mmudata : o \notin D
    BY <1>0, <2>2 DEF ListsInv
  <2> HIDE DEF D, C
  <2>4. \A o \in Obj :
          /\ o \notin D => kind'[o] = kind[o]
          /\ open'[o] # <<>> => open[o] # <<>> /\ o \notin D
    BY <2>1 DEF FreeAndClose
  <2>5. \A o \in mmudata : kind'[o] = "udata" /\ o \notin sweeping'
    BY <1>0, <2>1, <2>3, <2>4 DEF ListsInv
  <2> QED BY <2>1, <2>4, <2>5 DEF ListsInv
<1>3. ASSUME StartCycle
      PROVE  ListsInv'
  <2>1. /\ gcstate = "pause" /\ gcstate' = "propagate" /\ atomicpc = "none"
        /\ UNCHANGED <<kind, open, atomicpc, mmudata, sweeping>>
    BY <1>3 DEF StartCycle, OneStep, gc_mark_start
  <2>2. Apart'
    BY <1>1, <1>3, <2>1 DEF StartCycle
  <2> QED BY <2>1, <2>2 DEF ListsInv, Sweeps
<1>4. ASSUME NEW o \in Obj, propagatemark(o)
      PROVE  ListsInv'
  <2> DEFINE M == MarkSet(color, Kids(o))
  <2>1. /\ gcstate \in Marking
        /\ o \in gray
        /\ UNCHANGED <<kind, open, gcstate, atomicpc, mmudata, sweeping>>
    BY <1>4 DEF propagatemark, OneStep, ListsInv, Marking
  <2>2. Kids(o) \in SUBSET Obj
    BY KidsAreObjects
  <2>3. M \subseteq {x \in Obj : color[x] \in Whites}
    BY <2>2, MarkSetIsWhite
  <2> DEFINE weaktab == kind[o] = "tab" /\ Mode(o) # {}
             again == kind[o] = "thread"
  <2>4. /\ color' = [Painted(color, M) EXCEPT ![o] = IF weaktab \/ again THEN "gray" ELSE "black"]
        /\ gray' = (gray \ {o}) \cup GrayListed(M)
        /\ weak' = IF weaktab THEN weak \cup {o} ELSE weak
        /\ grayagain' = IF again THEN grayagain \cup {o} ELSE grayagain
    BY <1>4 DEF propagatemark
  <2>5. ~(weaktab /\ again)
    OBVIOUS
  <2>6. o \notin M /\ o \notin grayagain /\ o \notin weak /\ kind[o] \in ListKinds
    BY <1>0, <2>1, <2>3 DEF ListsInv
  <2>7. \A x \in GrayListed(M) : x \in M /\ kind[x] \in ListKinds /\ MarkColor(x) = "gray"
    BY DEF GrayListed, ListKinds, MarkColor
  <2> HIDE DEF M, weaktab, again
  <2>8. \A x \in Obj : x # o => color'[x] = IF x \in M THEN MarkColor(x) ELSE color[x]
    BY <2>4 DEF Painted
  <2>9. weaktab \/ again => color'[o] = "gray"
    BY <2>4 DEF Painted
  <2>10. \A x \in gray \cup grayagain \cup weak :
           /\ x \in Obj /\ x \notin M /\ kind[x] \in ListKinds
           /\ x # o => color'[x] = "gray"
    BY <1>0, <2>1, <2>3, <2>8 DEF ListsInv
  <2>11. \A x \in GrayListed(M) :
           x \notin gray \cup grayagain \cup weak /\ x # o /\ kind[x] \in ListKinds /\ color'[x] = "gray"
    BY <2>3, <2>6, <2>7, <2>8, <2>10
  <2>12. \A x \in gray' \cup grayagain' \cup weak' : kind[x] \in ListKinds /\ color'[x] = "gray"
    BY <2>4, <2>6, <2>9, <2>10, <2>11
  <2>13. /\ gray \cap grayagain = {} /\ gray \cap weak = {} /\ grayagain \cap weak = {}
    BY <2>1 DEF ListsInv
  <2>14. gray' \cap grayagain' = {} /\ gray' \cap weak' = {} /\ grayagain' \cap weak' = {}
    BY <2>4, <2>5, <2>6, <2>11, <2>13
  <2> QED BY <2>1, <2>12, <2>14 DEF ListsInv
<1>5. ASSUME EndPropagate
      PROVE  ListsInv'
  BY <1>5 DEF ListsInv, EndPropagate, OneStep, Marking, Sweeps
<1>6. ASSUME gc_mark_uv
      PROVE  ListsInv'
  <2>1. /\ gcstate = "atomic" /\ atomicpc' = "uv"
        /\ UNCHANGED <<kind, open, gcstate, mmudata, sweeping, grayagain, weak>>
    BY <1>6 DEF gc_mark_uv, OneStep
  <2>2. UNION {uvval(u) : u \in GrayOpenUV} \in SUBSET Obj
    BY RefsAreObjects DEF GrayOpenUV
  <2>3. gc_mark(color, gray, UNION {uvval(u) : u \in GrayOpenUV}) /\ gray \in SUBSET Obj
    BY <1>0, <1>6 DEF gc_mark_uv
  <2>4. /\ gray' \subseteq Obj
        /\ \A x \in Obj :
             /\ color[x] \notin Whites => color'[x] = color[x]
             /\ x \in gray' =>
                  x \in gray \/ (kind[x] \in ListKinds /\ color[x] \in Whites /\ color'[x] = "gray")
    BY <1>0, <2>2, <2>3, MarkLists, MarkType
  <2> QED BY <1>0, <2>1, <2>4 DEF ListsInv
<1>7. ASSUME AtomicWeak
      PROVE  ListsInv'
  <2>1. /\ gcstate = "atomic" /\ atomicpc' = "weak" /\ weak' = {}
        /\ UNCHANGED <<kind, open, gcstate, mmudata, sweeping, grayagain>>
    BY <1>7 DEF AtomicWeak, ListsInv
  <2>2. AtomicRoots \in SUBSET Obj
    BY DEF TypeOK, AtomicRoots, Val
  <2>3. gc_mark(color, weak, AtomicRoots) /\ weak \in SUBSET Obj
    BY <1>0, <1>7 DEF AtomicWeak, WeakAgain
  <2>4. /\ gray' \subseteq Obj
        /\ \A x \in Obj :
             /\ color[x] \notin Whites => color'[x] = color[x]
             /\ x \in gray' =>
                  x \in weak \/ (kind[x] \in ListKinds /\ color[x] \in Whites /\ color'[x] = "gray")
    BY <1>0, <2>2, <2>3, MarkLists, MarkType
  <2>5. \A x \in grayagain \cup weak : kind[x] \in ListKinds /\ color[x] = "gray" /\ x \in Obj
    BY <1>0, <2>1 DEF ListsInv, Marking
  <2>6. grayagain \cap weak = {}
    BY <2>1 DEF ListsInv, Marking
  <2>7. Apart'
    BY <1>0, <2>1, <2>4, <2>5, <2>6
  <2> QED BY <2>1, <2>7 DEF ListsInv
<1>8. ASSUME AtomicAgain
      PROVE  ListsInv'
  <2>1. /\ gcstate = "atomic" /\ atomicpc' = "again"
        /\ gray' = grayagain /\ grayagain' = {}
        /\ UNCHANGED <<kind, color, open, gcstate, mmudata, sweeping, weak>>
    BY <1>8 DEF AtomicAgain, ListsInv
  <2> QED BY <2>1 DEF ListsInv
<1>9. ASSUME AtomicUdata
      PROVE  ListsInv'
  <2>1. /\ gcstate = "atomic" /\ atomicpc' = "udata"
        /\ mmudata' = mmudata \cup {u \in Unmarked : HasGC(u)}
        /\ UNCHANGED <<kind, open, gcstate, sweeping, grayagain, weak>>
    BY <1>9 DEF AtomicUdata, ListsInv
  <2>2. sweeping = {} /\ \A u \in mmudata' : u \in Obj /\ kind[u] = "udata"
    BY <1>0, <2>1 DEF ListsInv, Unmarked, Sweeps
  <2> DEFINE c == MmudataWhite(mmudata')
  <2>3. gc_mark(c, gray, mmudata') /\ mmudata' \in SUBSET Obj /\ gray \in SUBSET Obj
    BY <1>0, <1>9, <2>2 DEF AtomicUdata
  <2>4. c \in [Obj -> Colors]
    BY <1>0 DEF MmudataWhite, TypeOK, Colors
  <2>5. \A x \in Obj : kind[x] # "udata" => c[x] = color[x]
    BY <2>2 DEF MmudataWhite
  <2> HIDE DEF c
  <2>6. /\ gray' \subseteq Obj
        /\ \A x \in Obj :
             /\ c[x] \notin Whites => color'[x] = c[x]
             /\ x \in gray' =>
                  x \in gray \/ (kind[x] \in ListKinds /\ c[x] \in Whites /\ color'[x] = "gray")
    BY <2>3, <2>4, MarkLists, MarkType
  <2>7. \A x \in gray \cup grayagain \cup weak :
          x \in Obj /\ kind[x] \in ListKinds /\ color[x] = "gray" /\ color'[x] = "gray"
    BY <1>0, <2>1, <2>5, <2>6 DEF ListsInv, Marking
  <2>8. gray \cap grayagain = {} /\ gray \cap weak = {} /\ grayagain \cap weak = {}
    BY <2>1 DEF ListsInv, Marking
  <2>9. Apart'
    BY <1>0, <2>1, <2>5, <2>6, <2>7, <2>8
  <2>10. \A o \in mmudata' : kind'[o] = "udata" /\ o \notin sweeping'
    BY <2>1, <2>2
  <2> QED BY <2>1, <2>9, <2>10 DEF ListsInv
<1>10. ASSUME AtomicEnd
       PROVE  ListsInv'
  <2>1. /\ gcstate' = "sweepstring" /\ atomicpc' = "none"
        /\ sweeping' = AllLists(mmudata)
        /\ UNCHANGED <<kind, open, mmudata>>
    BY <1>10 DEF AtomicEnd
  <2> QED BY <2>1 DEF ListsInv, AllLists, Marking, Sweeps
<1>11. ASSUME SweepString
       PROVE  ListsInv'
  <2>1. PICK S \in SUBSET sweeping : gc_sweep(S) /\ gcstate' \in {"sweep", "sweepstring"}
    BY <1>11 DEF SweepString
  <2>2. UNCHANGED <<atomicpc, mmudata>> /\ atomicpc = "none"
    BY <1>11 DEF SweepString, OneStep
  <2> QED BY <1>2, <2>1, <2>2 DEF ListsInv, Sweeps, Marking
<1>12. ASSUME Sweep
       PROVE  ListsInv'
  <2>1. PICK S \in SUBSET sweeping :
          gc_sweep(S) /\ gcstate' = IF S # sweeping THEN "sweep" ELSE AfterSweep
    BY <1>12 DEF Sweep
  <2>2. UNCHANGED <<atomicpc, mmudata>> /\ atomicpc = "none"
    BY <1>12 DEF Sweep, OneStep
  <2>3. S = sweeping => sweeping' = {}
    BY <1>2, <2>1
  <2>4. gcstate' \notin Marking /\ (S # sweeping => gcstate' \in Sweeps)
    BY <2>1 DEF AfterSweep, Marking, Sweeps
  <2> QED BY <1>2, <2>1, <2>2, <2>3, <2>4 DEF ListsInv
<1>13. ASSUME NEW u \in Obj, gc_finalize(u)
       PROVE  ListsInv'
  BY <1>13 DEF gc_finalize, OneStep, ListsInv, Marking
<1>14. ASSUME EndFinalize
       PROVE  ListsInv'
  BY <1>14 DEF EndFinalize, OneStep, ListsInv, Marking, Sweeps
<1>15. ASSUME FullStart
       PROVE  ListsInv'
  <2>1. /\ gcstate \in {"finalize", "pause"} /\ gcstate' = "propagate"
        /\ UNCHANGED <<kind, open, atomicpc, mmudata, sweeping>>
    BY <1>15 DEF FullStart, gc_mark_start
  <2>2. Apart'
    BY <1>1, <1>15, <2>1 DEF FullStart
  <2>3. sweeping = {} /\ atomicpc = "none"
    BY <2>1 DEF ListsInv, Sweeps
  <2> QED BY <2>1, <2>2, <2>3 DEF ListsInv, Sweeps
<1>16. ASSUME FullEnd
       PROVE  ListsInv'
  BY <1>16, ListsFrame DEF FullEnd
<1> QED
  BY <1>3, <1>4, <1>5, <1>6, <1>7, <1>8, <1>9, <1>10, <1>11, <1>12, <1>13, <1>14, <1>15,
     <1>16 DEF Collect

\* ListsInv holds in every state.
LEMMA ListsInvariant == Spec => []ListsInv
<1>1. Init => ListsInv
  BY DEF Init, ListsInv, Marking
<1>2. ASSUME TypeOK, ListsInv, [Next]_vars
      PROVE  ListsInv'
  <2>1. CASE Next
    <3>1. Named \in SUBSET Obj
      BY DEF Named, ReachFrom
    <3> QED BY <1>2, <2>1, <3>1, MutateLists, CollectLists DEF Next
  <2>2. CASE UNCHANGED vars
    BY <1>2, <2>2, ListsFrame DEF vars, objVars, heapVars, listVars, phaseVars
  <2> QED BY <1>2, <2>1, <2>2
<1> QED BY <1>1, <1>2, TypeCorrect, PTL DEF Spec

\* The three lists that share the gclist field hold gray, allocated objects and no
\* object twice: no propagatemark(), barrier or atomic() links an object that is
\* linked already, which would cut a list short and leave live objects unmarked.
THEOREM ListsCorrect == Spec => []ListsGray
<1>1. TypeOK /\ ListsInv => ListsGray
  BY DEF TypeOK, ListsInv, ListsGray, ListKinds, Alloc, isgray
<1> QED BY <1>1, ListsInvariant, TypeCorrect, PTL

(***************************************************************************)
(* Finalizers.  FinalizersDue rests on what the collector may do while     *)
(* userdata wait in mmudata: start a cycle in lj_gc_fullgc() only, and     *)
(* leave GCSfinalize for GCSpause with an empty list only.                 *)
(***************************************************************************)
Full2 == cstack # <<>> /\ Head(cstack).act = "full2"

FinInv ==
  /\ gcstate = "pause" => mmudata = {}
  /\ gcstate \in Marking /\ mmudata # {} => atomicpc = "udata" \/ Full2

\* FinInv depends on these variables only.
LEMMA FinFrame ==
  ASSUME FinInv, UNCHANGED <<gcstate, atomicpc, mmudata, cstack>>
  PROVE  FinInv'
BY DEF FinInv, Full2

\* Outside lj_gc_fullgc() no userdata wait while the collector marks.
LEMMA FinMutating ==
  ASSUME FinInv, Mutating, gcstate \in Marking \cup {"pause"}
  PROVE  mmudata = {}
BY DEF FinInv, Full2, Mutating, InFull, Marking

\* The program leaves pending finalizers alone.
LEMMA MutateFin ==
  ASSUME TypeOK, FinInv, NEW R \in SUBSET Obj, Mutate(R)
  PROVE  FinInv'
<1> USE DEF objVars, heapVars, jitVars, rootVars, listVars, phaseVars, ctrlVars
<1>1. ASSUME FinReturn \/ FinError
      PROVE  FinInv'
  <2>1. Mutating /\ UNCHANGED <<gcstate, atomicpc, mmudata>>
    BY <1>1 DEF FinReturn, FinError, Interp
  <2> QED BY <2>1, FinMutating DEF FinInv
<1>2. ASSUME lj_gc_fullgc
      PROVE  FinInv'
  <2>1. /\ Mutating /\ UNCHANGED <<atomicpc, mmudata>>
        /\ gcstate' = IF gcstate \in {"pause", "propagate", "atomic"} THEN "sweepstring" ELSE gcstate
    BY <1>2 DEF lj_gc_fullgc, Interp
  <2> QED BY <2>1, FinMutating DEF FinInv, Marking
<1>3. ASSUME ~(FinReturn \/ FinError), ~lj_gc_fullgc
      PROVE  UNCHANGED <<gcstate, atomicpc, mmudata, cstack>>
  BY <1>3 DEF Mutate, lj_mem_newgco, lj_str_new, lj_func_newL_gc, Move, SetTop, Resume,
              lj_tab_newkey, lj_tab_set, lua_rawseti, SetField, SetBaseMeta,
              lua_setmetatable, lua_setfenv, SetUpvalue, lj_func_closeuv, trace_start,
              RecordKGC, trace_stop, trace_abort, lj_trace_flushproto, EnterTrace,
              lj_trace_exit, lua_gc_stop, lua_gc_restart
<1> QED BY <1>1, <1>2, <1>3, FinFrame

\* The collector calls them before the next cycle.
LEMMA CollectFin ==
  ASSUME TypeOK, ListsInv, FinInv, Collect
  PROVE  FinInv'
<1> USE DEF objVars, heapVars, jitVars, rootVars, listVars, phaseVars, ctrlVars
<1>1. ASSUME StartCycle
      PROVE  FinInv'
  BY <1>1 DEF FinInv, StartCycle, OneStep, gc_mark_start
<1>2. ASSUME NEW o \in Obj, propagatemark(o)
      PROVE  FinInv'
  BY <1>2, FinFrame DEF propagatemark
<1>3. ASSUME EndPropagate
      PROVE  FinInv'
  BY <1>3 DEF FinInv, Full2, EndPropagate, OneStep, Marking
<1>4. ASSUME gc_mark_uv
      PROVE  FinInv'
  BY <1>4 DEF FinInv, Full2, gc_mark_uv, OneStep, Marking
<1>5. ASSUME AtomicWeak \/ AtomicAgain
      PROVE  FinInv'
  BY <1>5 DEF FinInv, Full2, AtomicWeak, AtomicAgain
<1>6. ASSUME AtomicUdata
      PROVE  FinInv'
  BY <1>6 DEF FinInv, ListsInv, AtomicUdata
<1>7. ASSUME AtomicEnd
      PROVE  FinInv'
  BY <1>7 DEF FinInv, AtomicEnd, Marking
<1>8. ASSUME SweepString
      PROVE  FinInv'
  BY <1>8 DEF FinInv, SweepString, Marking
<1>9. ASSUME Sweep
      PROVE  FinInv'
  BY <1>9 DEF FinInv, Sweep, AfterSweep, Marking
<1>10. ASSUME NEW u \in Obj, gc_finalize(u)
       PROVE  FinInv'
  BY <1>10 DEF FinInv, gc_finalize, OneStep, Marking
<1>11. ASSUME EndFinalize
       PROVE  FinInv'
  BY <1>11 DEF FinInv, EndFinalize, Marking
<1>12. ASSUME FullStart
       PROVE  FinInv'
  <2> DEFINE f == [Head(cstack) EXCEPT !.act = "full2"]
  <2>1. cstack \in Seq(Frame) /\ cstack # <<>> /\ cstack' = <<f>> \o Tail(cstack)
    BY <1>12 DEF TypeOK, FullStart, InFull
  <2>2. Head(cstack) \in Frame /\ Tail(cstack) \in Seq(Frame)
    BY <2>1
  <2>3. f.act = "full2" /\ f \in Frame
    BY <2>2 DEF Frame
  <2> HIDE DEF f
  <2>4. cstack' # <<>> /\ Head(cstack') = f
    BY <2>1, <2>2, <2>3
  <2> QED BY <1>12, <2>3, <2>4 DEF FinInv, Full2, FullStart, gc_mark_start
<1>13. ASSUME FullEnd
       PROVE  FinInv'
  BY <1>13 DEF FinInv, FullEnd, Marking
<1> QED
  BY <1>1, <1>2, <1>3, <1>4, <1>5, <1>6, <1>7, <1>8, <1>9, <1>10, <1>11, <1>12, <1>13
     DEF Collect

\* When the program runs, userdata waiting for __gc mean that the collector has yet to
\* finish the cycle that found them: neither a return nor an error of a finalizer, nor
\* nested calls of lj_gc_fullgc(), let a later cycle start before they are called.
THEOREM FinalizersCorrect == Spec => []FinalizersDue
<1>1. Init => FinInv
  BY DEF Init, FinInv, Marking
<1>2. ASSUME TypeOK, ListsInv, FinInv, [Next]_vars
      PROVE  FinInv'
  <2>1. CASE Next
    <3>1. Named \in SUBSET Obj
      BY DEF Named, ReachFrom
    <3> QED BY <1>2, <2>1, <3>1, MutateFin, CollectFin DEF Next
  <2>2. CASE UNCHANGED vars
    BY <1>2, <2>2, FinFrame DEF vars, phaseVars, ctrlVars
  <2> QED BY <1>2, <2>1, <2>2
<1>3. TypeOK /\ FinInv => FinalizersDue
  <2>1. ASSUME TypeOK, FinInv, Mutating, gcstate \notin Sweeps \cup {"finalize"}
        PROVE  mmudata = {}
    BY <2>1, FinMutating DEF TypeOK, States, Marking, Sweeps
  <2> QED BY <2>1 DEF FinalizersDue
<1> QED BY <1>1, <1>2, <1>3, ListsInvariant, TypeCorrect, PTL DEF Spec

\* lj_gc_separateudata() is the only way into mmudata, and LJ_GC_FINALIZED bars it to
\* whatever has gone that way before: __gc is called at most once.
THEOREM FinalizedOnce == Spec => FinalizeOnce
<1> USE DEF objVars, heapVars, jitVars, rootVars, listVars, phaseVars, ctrlVars
<1>1. ASSUME TypeOK, [Next]_vars
      PROVE  mmudata' \subseteq mmudata \cup Unmarked
  <2>1. ASSUME NEW R \in SUBSET Obj, Mutate(R)
        PROVE  mmudata' = mmudata
    BY <2>1 DEF Mutate, lj_mem_newgco, lj_str_new, lj_func_newL_gc, Move, SetTop, Resume,
                lj_tab_newkey, lj_tab_set, lua_rawseti, SetField, SetBaseMeta,
                lua_setmetatable, lua_setfenv, SetUpvalue, lj_func_closeuv, trace_start,
                RecordKGC, trace_stop, trace_abort, lj_trace_flushproto, EnterTrace,
                lj_trace_exit, FinReturn, FinError, lj_gc_fullgc, lua_gc_stop,
                lua_gc_restart
  <2>2. ASSUME Collect
        PROVE  mmudata' \subseteq mmudata \cup Unmarked
    BY <2>2 DEF Collect, StartCycle, propagatemark, EndPropagate, gc_mark_uv, AtomicWeak,
                AtomicAgain, AtomicUdata, AtomicEnd, SweepString, Sweep, gc_finalize,
                EndFinalize, FullStart, FullEnd
  <2>3. Named \in SUBSET Obj
    BY DEF Named, ReachFrom
  <2> QED BY <1>1, <2>1, <2>2, <2>3 DEF Next, vars
<1>2. ASSUME TypeOK, [Next]_vars
      PROVE  \A u \in finalized \ mmudata : u \in finalized' => u \notin mmudata'
  BY <1>1, <1>2 DEF Unmarked
<1> QED BY <1>2, TypeCorrect, PTL DEF Spec, FinalizeOnce

=============================================================================
