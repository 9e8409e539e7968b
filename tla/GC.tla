--------------------------------- MODULE GC ---------------------------------
(***************************************************************************)
(* The incremental tri-colour collector of lj_gc.c, together with the      *)
(* mutator operations that touch the object graph (tables, closures,       *)
(* upvalues, userdata, threads, prototypes and traces) and the write       *)
(* barriers they execute.                                                  *)
(*                                                                         *)
(* One collector action is one case of gc_onestep(); atomic() is a chain   *)
(* of actions (atomicpc) during which no mutator action is enabled.  The   *)
(* intrusive lists (gray, grayagain, weak, mmudata, the sweep list) are    *)
(* sets: the order in which they are walked is left open.                  *)
(***************************************************************************)
EXTENDS Naturals, Sequences, FiniteSets

CONSTANTS
  Obj,        \* object addresses
  Main,       \* the main thread (mainthread(g)), fixed
  Nil,        \* no object: nil, a primitive value or a NULL reference
  NewKinds,   \* the kinds of object the mutator creates
  Metas,      \* the sets of metamethod fields a table may carry
  Ops,        \* the optional operations the program uses
  NSlots,     \* slots of a thread's stack
  Base,       \* slots in use by the first frame
  MaxEnt,     \* entries of one table, references of one function
  GCSWEEPMAX, \* objects swept in one step
  MaxDepth    \* nesting of finalizers and full collections

Kinds == {"tab", "func", "proto", "trace", "thread", "udata", "upval", "str"}
AllOps == {"array", "key", "frame", "meta", "base", "env", "full", "stop", "intern"}
Fields == {"k", "v", "gc"}  \* __mode contains 'k', contains 'v', __gc is set

ASSUME GCAssumption ==
  /\ Main \in Obj
  /\ Nil \notin Obj
  /\ NewKinds \subseteq Kinds
  /\ Metas \subseteq SUBSET Fields
  /\ {} \in Metas
  /\ Ops \subseteq AllOps
  /\ NSlots \in Nat \ {0}
  /\ Base \in 1 .. NSlots
  /\ MaxEnt \in Nat
  /\ GCSWEEPMAX \in Nat \ {0}
  /\ MaxDepth \in Nat

VARIABLES
  kind,       \* type of the object at an address, "free" if there is none
  color,      \* colour bits of marked
  finalized,  \* userdata with LJ_GC_FINALIZED
  ent,        \* <<key, value>>: table nodes, env, upvalues, constants, links
  meta,       \* metatable of a table or userdata
  mm,         \* metamethod fields a table holds
  stk,        \* stack slots of a thread
  top,        \* L->top of a thread
  open,       \* <<thread, slot>> of an open upvalue, else <<>>
  curL,       \* running thread
  groot,      \* g->gcroot[], one entry
  cur,        \* KGC constants and startpt of J->cur, the trace being recorded
  jitbase,    \* g->jit_base: running compiled code
  reg,        \* value held in a machine register by compiled code
  gcstate,    \* g->gc.state
  atomicpc,   \* position inside atomic(), "none" outside
  currentwhite,
  gray, grayagain, weak,
  mmudata,    \* userdata whose finalizer is still to be called
  sweeping,   \* objects gc.sweep and gc.sweepstr have still to pass
  gcstop,     \* threshold is LJ_MAX_MEM: no automatic steps
  cstack      \* activations of finalizers and of lj_gc_fullgc(), newest first

objVars == <<kind, finalized, ent, meta, mm, top, open>>
heapVars == <<objVars, stk>>
jitVars == <<cur, jitbase, reg>>
rootVars == <<curL, groot, jitVars>>
listVars == <<gray, grayagain, weak>>
phaseVars == <<gcstate, atomicpc, currentwhite, mmudata, sweeping>>
ctrlVars == <<gcstop, cstack>>
vars == <<heapVars, color, rootVars, listVars, phaseVars, ctrlVars>>

Slots == 1 .. NSlots
Val == Obj \cup {Nil}
Whites == {"white0", "white1"}
NoColor == "white0"  \* of an address without an object
Colors == Whites \cup {"gray", "black"}
States == {"pause", "propagate", "atomic", "sweepstring", "sweep", "finalize"}
Marking == {"propagate", "atomic"}
Sweeps == {"sweepstring", "sweep"}
AtomicPCs == {"none", "uv", "weak", "again", "udata"}
Frame == [act : {"full1", "full2", "fin"}, arg : Val, stop : BOOLEAN]

(***************************************************************************)
(* Colours.                                                                *)
(***************************************************************************)
iswhite(o) == color[o] \in Whites
isblack(o) == color[o] = "black"
isgray(o) == color[o] = "gray"
otherwhite == IF currentwhite = "white0" THEN "white1" ELSE "white0"
isdead(o) == color[o] = otherwhite
Alloc == {o \in Obj : kind[o] # "free"}
Live == {o \in Alloc : ~isdead(o)}

(***************************************************************************)
(* References of an object.  Refs has all of them, Kids the ones that its  *)
(* traversal marks: neither the weak ones nor stack slots above top.  A    *)
(* node whose value is nil keeps its key, which is then no reference.      *)
(***************************************************************************)
Nodes(o) == {e \in ent[o] : e[2] # Nil}
Values(o) == {e[2] : e \in Nodes(o)}
Keys(o) == {e[1] : e \in Nodes(o)} \ {Nil}
MetaOf(o) == {meta[o]} \ {Nil}
SlotRefs(o, S) == {stk[o][i] : i \in S} \ {Nil}
OpenUV(th, S) == {u \in Obj : \E i \in S : open[u] = <<th, i>>}
uvval(u) == IF open[u] = <<>> THEN Values(u) ELSE {stk[open[u][1]][open[u][2]]} \ {Nil}
Refs(o) == Keys(o) \cup Values(o) \cup MetaOf(o) \cup SlotRefs(o, Slots) \cup uvval(o)

FinArgs == {cstack[i].arg : i \in DOMAIN cstack} \ {Nil}
Mode(t) == IF meta[t] = Nil THEN {} ELSE mm[meta[t]] \cap {"k", "v"}

gc_traverse_tab(t) ==
  MetaOf(t) \cup (IF "v" \in Mode(t) THEN {} ELSE Values(t))
            \cup (IF "k" \in Mode(t) THEN {} ELSE Keys(t))

\* The stack up to top (which holds the arguments of running finalizers, too).
gc_traverse_thread(th) ==
  Values(th) \cup SlotRefs(th, 1 .. top[th]) \cup (IF th = curL THEN FinArgs ELSE {})

\* Functions, prototypes and traces mark all they hold.
Kids(o) ==
  CASE kind[o] = "tab" -> gc_traverse_tab(o)
    [] kind[o] = "thread" -> gc_traverse_thread(o)
    [] OTHER -> Values(o)

(***************************************************************************)
(* Named is what the program can name, Reach has what a pending finalizer  *)
(* will be able to name, too.  Stale slots above top count: the next frame *)
(* exposes them to the collector.                                          *)
(***************************************************************************)
Roots == {Main, curL} \cup cur \cup FinArgs \cup ({groot, reg} \ {Nil})
ReachFrom(T) ==
  LET C == {S \in SUBSET Obj : T \subseteq S /\ \A o \in S : Refs(o) \subseteq S}
  IN  {o \in Obj : \A S \in C : o \in S}
Named == ReachFrom(Roots)
Reach == ReachFrom(Roots \cup mmudata)

\* First-class values, and which kinds an object of kind k may reference.
LuaKinds == {"tab", "func", "thread", "udata", "str"}
Holds(k) ==
  CASE k \in {"udata", "thread"} -> {"tab"}
    [] k = "func" -> LuaKinds \cup {"upval", "proto"}
    [] k = "proto" -> {"tab", "str", "proto"}
    [] OTHER -> LuaKinds

(***************************************************************************)
(* gc_mark() on every white member of S: userdata mark their metatable and *)
(* environment, upvalues their value, at once; strings have nothing to     *)
(* mark; the other kinds are linked into the gray list.                    *)
(***************************************************************************)
MarkSet(c, S) ==
  LET white(T) == {o \in T : c[o] \in Whites}
      w1 == white(S)
      w2 == w1 \cup white(UNION {uvval(u) : u \in {x \in w1 : kind[x] = "upval"}})
  IN  w2 \cup white(UNION {Values(u) \cup MetaOf(u) :
                             u \in {x \in w2 : kind[x] = "udata"}})

MarkColor(o) ==
  IF kind[o] = "udata" \/ (kind[o] = "upval" /\ open[o] = <<>>)
  THEN "black" ELSE "gray"

Painted(c, M) == [o \in Obj |-> IF o \in M THEN MarkColor(o) ELSE c[o]]
GrayListed(M) == {o \in M : kind[o] \in {"tab", "func", "proto", "trace", "thread"}}

gc_mark(c, l, S) ==
  /\ color' = Painted(c, MarkSet(c, S))
  /\ gray' = l \cup GrayListed(MarkSet(c, S))

\* Mutant: the first slot of an empty stack is off by one.
StackBase_off == 0

\* L->top of a new thread.
StackBase == Base

(***************************************************************************)
(* Initial state: the main thread alone, white, in GCSpause.               *)
(***************************************************************************)
Init ==
  /\ kind = [o \in Obj |-> IF o = Main THEN "thread" ELSE "free"]
  /\ color = [o \in Obj |-> NoColor]
  /\ finalized = {}
  /\ ent = [o \in Obj |-> {}]
  /\ meta = [o \in Obj |-> Nil]
  /\ mm = [o \in Obj |-> {}]
  /\ stk = [o \in Obj |-> [i \in Slots |-> Nil]]
  /\ top = [o \in Obj |-> StackBase]
  /\ open = [o \in Obj |-> <<>>]
  /\ curL = Main /\ groot = Nil /\ cur = {} /\ jitbase = FALSE /\ reg = Nil
  /\ gcstate = "pause" /\ atomicpc = "none" /\ currentwhite = "white0"
  /\ gray = {} /\ grayagain = {} /\ weak = {} /\ mmudata = {} /\ sweeping = {}
  /\ gcstop = FALSE /\ cstack = <<>>

(***************************************************************************)
(* Who may run.  The mutator runs unless the collector is inside atomic()  *)
(* or inside the loops of lj_gc_fullgc(); Interp says that it runs in the  *)
(* interpreter or in C, not in compiled code.  The collector steps when    *)
(* the threshold allows it, or unconditionally inside lj_gc_fullgc().      *)
(***************************************************************************)
InFull == cstack # <<>> /\ Head(cstack).act # "fin"
InFin == \E i \in DOMAIN cstack : cstack[i].act = "fin"
Mutating == atomicpc = "none" /\ ~InFull
Interp == Mutating /\ ~jitbase
Stepping == InFull \/ ~gcstop

(***************************************************************************)
(* Write barriers.  barrierback for tables, barrierf for the others.       *)
(***************************************************************************)
\* Mutant: the table is not linked into the grayagain list.
lj_gc_barrierback_nolink(t) ==
  color' = [color EXCEPT ![t] = "gray"] /\ UNCHANGED listVars

lj_gc_barrierback(t) ==
  /\ color' = [color EXCEPT ![t] = "gray"]
  /\ grayagain' = grayagain \cup {t}
  /\ UNCHANGED <<gray, weak>>

lj_gc_barrierf(o, v) ==
  /\ IF gcstate \in Marking
     THEN gc_mark(color, gray, {v})
     ELSE color' = [color EXCEPT ![o] = currentwhite] /\ UNCHANGED gray
  /\ UNCHANGED <<grayagain, weak>>

NoBarrier == UNCHANGED <<color, listVars>>

\* Mutant: the barrier is active in GCSpropagate only.
lj_gc_anybarriert_early(t) ==
  IF isblack(t) /\ gcstate = "propagate" THEN lj_gc_barrierback(t) ELSE NoBarrier

lj_gc_anybarriert(t) == IF isblack(t) THEN lj_gc_barrierback(t) ELSE NoBarrier

lj_gc_objbarriert(t, v) ==
  IF isblack(t) /\ v # Nil /\ iswhite(v) THEN lj_gc_barrierback(t) ELSE NoBarrier

\* Mutant: no barrier.
lj_gc_objbarrier_none(o, v) == NoBarrier

lj_gc_objbarrier(o, v) ==
  IF isblack(o) /\ v # Nil /\ iswhite(v) THEN lj_gc_barrierf(o, v) ELSE NoBarrier

(***************************************************************************)
(* Mutator: object creation.  A new object is current white and goes to a  *)
(* stack slot or, in compiled code, to a register.                         *)
(***************************************************************************)
Held(v) ==
  IF jitbase
  THEN reg' = v /\ UNCHANGED stk
  ELSE /\ \E i \in 1 .. top[curL] : stk' = [stk EXCEPT ![curL][i] = v]
       /\ UNCHANGED reg

lj_mem_newgco(o, k, v) ==
  /\ Mutating
  /\ kind[o] = "free"
  /\ k \in NewKinds \ {"upval", "trace"}
  /\ v # Nil => kind[v] \in Holds(k) /\ k \in {"func", "proto", "thread", "udata"}
  /\ kind' = [kind EXCEPT ![o] = k]
  /\ color' = [color EXCEPT ![o] = currentwhite]
  /\ ent' = [ent EXCEPT ![o] = IF v = Nil THEN {} ELSE {<<Nil, v>>}]
  /\ Held(o)
  /\ UNCHANGED <<finalized, meta, mm, top, open, curL, groot, cur, jitbase,
                 listVars, phaseVars, ctrlVars>>

ResurrectStr(s) == IF isdead(s) THEN currentwhite ELSE color[s]

\* lj_str_new() of a string that is interned already, whether or not it is
\* still referenced: revived if dead.
lj_str_new(s) ==
  /\ Mutating /\ "intern" \in Ops
  /\ kind[s] = "str"
  /\ color' = [color EXCEPT ![s] = ResurrectStr(s)]
  /\ Held(s)
  /\ UNCHANGED <<objVars, curL, groot, cur, jitbase, listVars, phaseVars, ctrlVars>>

\* Mutant: a dead open upvalue is shared without reviving it.
FoundColor_dead(u) == IF kind[u] = "free" THEN currentwhite ELSE color[u]

FoundColor(u) == IF kind[u] = "free" \/ isdead(u) THEN currentwhite ELSE color[u]

\* The open upvalue of slot i or, if there is none, a new one.
func_finduv(i) ==
  IF OpenUV(curL, {i}) # {} THEN OpenUV(curL, {i}) ELSE {u \in Obj : kind[u] = "free"}

\* lj_func_newL_gc() of a function with one local upvalue.
lj_func_newL_gc(f, u, i) ==
  /\ Interp
  /\ "upval" \in NewKinds
  /\ kind[f] = "free" /\ i \in 1 .. top[curL] /\ f # u
  /\ u \in func_finduv(i)
  /\ kind' = [kind EXCEPT ![f] = "func", ![u] = "upval"]
  /\ color' = [color EXCEPT ![f] = currentwhite, ![u] = FoundColor(u)]
  /\ open' = [open EXCEPT ![u] = <<curL, i>>]
  /\ ent' = [ent EXCEPT ![f] = {<<Nil, u>>}]
  /\ \E j \in 1 .. top[curL] : stk' = [stk EXCEPT ![curL][j] = f]
  /\ UNCHANGED <<finalized, meta, mm, top, rootVars, listVars, phaseVars, ctrlVars>>

(***************************************************************************)
(* Mutator: stack, registers and roots.  None of these has a barrier.      *)
(***************************************************************************)
Move(v) ==
  /\ Mutating
  /\ Held(v)
  /\ UNCHANGED <<objVars, color, curL, groot, cur, jitbase, listVars, phaseVars,
                 ctrlVars>>

\* Frames come and go; a frame is left only after its upvalues are closed.
SetTop(n) ==
  /\ Interp /\ "frame" \in Ops
  /\ n \in Slots \ {top[curL]}
  /\ OpenUV(curL, n + 1 .. NSlots) = {}
  /\ top' = [top EXCEPT ![curL] = n]
  /\ UNCHANGED <<kind, color, finalized, ent, meta, mm, stk, open, rootVars,
                 listVars, phaseVars, ctrlVars>>

\* coroutine.resume and yield, but not from a finalizer.
Resume(th) ==
  /\ Interp
  /\ cstack = <<>>
  /\ th # curL
  /\ curL' = th
  /\ UNCHANGED <<heapVars, color, groot, jitVars, listVars, phaseVars, ctrlVars>>

(***************************************************************************)
(* Mutator: tables.                                                        *)
(***************************************************************************)
\* lj_tab_newkey() and the store into the new slot.  drop: the table was full
\* and the rehash drops the nodes whose value is nil.
lj_tab_newkey(t, k, v, drop) ==
  LET old == IF drop THEN Nodes(t) ELSE ent[t]
  IN  /\ Mutating
      /\ IF k = Nil THEN "array" \in Ops
         ELSE "key" \in Ops /\ \A e \in ent[t] : e[1] # k
      /\ <<k, v>> \notin ent[t]
      /\ Cardinality(old) < MaxEnt
      /\ ent' = [ent EXCEPT ![t] = old \cup {<<k, v>>}]
      /\ lj_gc_anybarriert(t)
      /\ UNCHANGED <<kind, finalized, meta, mm, top, open, stk, rootVars,
                     phaseVars, ctrlVars>>

\* A store to a slot that exists (lj_meta_tset, lua_rawset, BC_TSET*), the slot
\* of a node with a nil value included.
lj_tab_set(t, e, v) ==
  /\ Mutating
  /\ e[2] # v
  /\ ent' = [ent EXCEPT ![t] = (@ \ {e}) \cup
                               (IF e[1] = Nil /\ v = Nil THEN {} ELSE {<<e[1], v>>})]
  /\ lj_gc_anybarriert(t)
  /\ UNCHANGED <<kind, finalized, meta, mm, top, open, stk, rootVars,
                 phaseVars, ctrlVars>>

\* A store under an integer key, to an array slot or to an existing node, with
\* the weaker barrier of lua_rawseti().
lua_rawseti(t, e, v) ==
  /\ Mutating
  /\ e[1] = Nil /\ e[2] # v
  /\ ent' = [ent EXCEPT ![t] = (@ \ {e}) \cup
                               (IF v = Nil THEN {} ELSE {<<Nil, v>>})]
  /\ lj_gc_objbarriert(t, v)
  /\ UNCHANGED <<kind, finalized, meta, mm, top, open, stk, rootVars,
                 phaseVars, ctrlVars>>

\* A store to the __mode or __gc field; the values are not collectable here.
SetField(t, F) ==
  /\ Mutating
  /\ F # mm[t]
  /\ mm' = [mm EXCEPT ![t] = F]
  /\ lj_gc_anybarriert(t)
  /\ UNCHANGED <<kind, finalized, ent, meta, top, open, stk, rootVars,
                 phaseVars, ctrlVars>>

\* A base metatable (nil, booleans, numbers ...) is one of g->gcroot[].  Traces
\* are specialised to it, so they are all flushed; refused during a finalizer.
Flushed(o) == {e \in ent[o] : kind[o] # "trace" /\ (e[2] # Nil => kind[e[2]] # "trace")}

SetBaseMeta(v) ==
  /\ Interp /\ ~InFin /\ "base" \in Ops
  /\ v # groot
  /\ groot' = v
  /\ ent' = [o \in Obj |-> Flushed(o)]
  /\ cur' = {}
  /\ UNCHANGED <<kind, color, finalized, meta, mm, top, open, stk, curL, jitbase,
                 reg, listVars, phaseVars, ctrlVars>>

lua_setmetatable(o, v) ==
  /\ Mutating /\ "meta" \in Ops
  /\ v # meta[o]
  /\ meta' = [meta EXCEPT ![o] = v]
  /\ IF kind[o] = "tab" THEN lj_gc_objbarriert(o, v) ELSE lj_gc_objbarrier(o, v)
  /\ UNCHANGED <<kind, finalized, ent, mm, top, open, stk, rootVars,
                 phaseVars, ctrlVars>>

(***************************************************************************)
(* Mutator: functions, upvalues, userdata and threads.                     *)
(***************************************************************************)
\* setfenv(), a store to an upvalue of a C function, lua_upvaluejoin(): the
\* reference e, if any, is replaced.
lua_setfenv(o, e, v) ==
  /\ Interp /\ "env" \in Ops
  /\ kind[v] \in Holds(kind[o])
  /\ <<Nil, v>> \notin ent[o]
  /\ kind[o] # "func" => ent[o] \ {e} = {}
  /\ ent' = [ent EXCEPT ![o] = (@ \ {e}) \cup {<<Nil, v>>}]
  /\ Cardinality(ent'[o]) <= MaxEnt
  /\ lj_gc_objbarrier(o, v)
  /\ UNCHANGED <<kind, finalized, meta, mm, top, open, stk, rootVars,
                 phaseVars, ctrlVars>>

\* BC_USETV and its relatives: through the stack slot of an open upvalue, into
\* the upvalue itself, with lj_gc_barrieruv(), once it is closed.
SetUpvalue(u, v) ==
  /\ Mutating
  /\ IF open[u] = <<>>
     THEN /\ ent' = [ent EXCEPT ![u] = {<<Nil, v>>}]
          /\ lj_gc_objbarrier(u, v)
          /\ UNCHANGED stk
     ELSE /\ stk' = [stk EXCEPT ![open[u][1]][open[u][2]] = v]
          /\ NoBarrier
          /\ UNCHANGED ent
  /\ UNCHANGED <<kind, finalized, meta, mm, top, open, rootVars, phaseVars,
                 ctrlVars>>

(***************************************************************************)
(* Freeing the objects of F and closing the open upvalues of C.            *)
(***************************************************************************)
FreeAndClose(F, C) ==
  /\ kind' = [o \in Obj |-> IF o \in F THEN "free" ELSE kind[o]]
  /\ ent' = [o \in Obj |-> IF o \in F THEN {}
                           ELSE IF o \in C THEN {<<Nil, v>> : v \in uvval(o)}
                           ELSE ent[o]]
  /\ open' = [o \in Obj |-> IF o \in F \cup C THEN <<>> ELSE open[o]]
  /\ meta' = [o \in Obj |-> IF o \in F THEN Nil ELSE meta[o]]
  /\ mm' = [o \in Obj |-> IF o \in F THEN {} ELSE mm[o]]
  /\ stk' = [o \in Obj |-> IF o \in F THEN [i \in Slots |-> Nil] ELSE stk[o]]
  /\ top' = [o \in Obj |-> IF o \in F THEN StackBase ELSE top[o]]
  /\ finalized' = finalized \ F

\* lj_func_closeuv() with lj_gc_closeuv() for each upvalue that is not dead;
\* G are the gray ones.
Recolored(F, G, c) ==
  [o \in Obj |-> IF o \in F THEN NoColor ELSE IF o \in G THEN c ELSE color[o]]

\* Mutant: the value of a gray upvalue that is closed is not marked.
lj_gc_closeuv_nomark(F, G) ==
  /\ color' = Recolored(F, G, IF gcstate \in Marking THEN "black" ELSE currentwhite)
  /\ UNCHANGED gray

\* Mutant: a gray upvalue is made black in every phase.
lj_gc_closeuv_black(F, G) ==
  gc_mark(Recolored(F, G, "black"), gray, UNION {uvval(u) : u \in G})

lj_gc_closeuv(F, G) ==
  IF gcstate \in Marking
  THEN gc_mark(Recolored(F, G, "black"), gray, UNION {uvval(u) : u \in G})
  ELSE color' = Recolored(F, G, currentwhite) /\ UNCHANGED gray

lj_func_closeuv(level) ==
  LET U == OpenUV(curL, level .. NSlots)
      D == {u \in U : isdead(u)}
  IN  /\ Interp
      /\ U # {}
      /\ FreeAndClose(D, U \ D)
      /\ lj_gc_closeuv(D, {u \in U : isgray(u)})
      /\ UNCHANGED <<grayagain, weak, rootVars, phaseVars, ctrlVars>>

(***************************************************************************)
(* Mutator: the trace recorder and compiled code.                          *)
(***************************************************************************)
\* New traces are disabled while a finalizer runs (hook_entergc).
trace_start(p) ==
  /\ Interp /\ ~InFin
  /\ "trace" \in NewKinds
  /\ cur = {}
  /\ cur' = {p}
  /\ UNCHANGED <<heapVars, color, curL, groot, jitbase, reg, listVars, phaseVars,
                 ctrlVars>>

\* An object becomes a KGC constant of the trace being recorded.
RecordKGC(v) ==
  /\ Interp
  /\ cur # {}
  /\ v \notin cur
  /\ Cardinality(cur) < MaxEnt
  /\ cur' = cur \cup {v}
  /\ UNCHANGED <<heapVars, color, curL, groot, jitbase, reg, listVars, phaseVars,
                 ctrlVars>>

\* Mutant: no lj_gc_barriertrace().
SavedColor_white == currentwhite

\* newwhite() and lj_gc_barriertrace().
SavedColor == IF gcstate \in Marking THEN "gray" ELSE currentwhite

\* trace_stop() links the new trace in front of the chain of the prototype or
\* root trace p, then trace_save() makes it white and calls lj_gc_barriertrace().
trace_stop(T, p) ==
  LET chain == {e \in ent[p] : e[2] # Nil /\ kind[e[2]] = "trace"}
  IN  /\ Interp
      /\ cur # {}
      /\ kind[T] = "free"
      /\ kind[p] = "proto" => p \in cur
      /\ kind' = [kind EXCEPT ![T] = "trace"]
      /\ ent' = [ent EXCEPT ![T] = chain \cup {<<Nil, v>> : v \in cur},
                            ![p] = (@ \ chain) \cup {<<Nil, T>>}]
      /\ cur' = {}
      /\ color' = [color EXCEPT ![T] = SavedColor]
      /\ gray' = IF gcstate \in Marking THEN gray \cup {T} ELSE gray
      /\ UNCHANGED <<finalized, meta, mm, top, open, stk, curL, groot, jitbase, reg,
                     grayagain, weak, phaseVars, ctrlVars>>

trace_abort ==
  /\ Interp
  /\ cur # {}
  /\ cur' = {}
  /\ UNCHANGED <<heapVars, color, curL, groot, jitbase, reg, listVars, phaseVars,
                 ctrlVars>>

\* lj_trace_flushproto(): the prototype forgets its root traces.
lj_trace_flushproto(p) ==
  /\ Interp
  /\ \E e \in Nodes(p) : kind[e[2]] = "trace"
  /\ ent' = [ent EXCEPT ![p] = Flushed(p)]
  /\ UNCHANGED <<kind, color, finalized, meta, mm, top, open, stk, rootVars,
                 listVars, phaseVars, ctrlVars>>

\* BC_JLOOP and BC_JFUNCF: enter a compiled trace.
EnterTrace(T) ==
  /\ Interp /\ cur = {}
  /\ jitbase' = TRUE
  /\ UNCHANGED <<heapVars, color, curL, groot, cur, reg, listVars, phaseVars,
                 ctrlVars>>

\* The exit restores the values held in registers to their stack slots.
lj_trace_exit ==
  /\ Mutating /\ jitbase
  /\ jitbase' = FALSE
  /\ reg' = Nil
  /\ \E i \in 1 .. top[curL] :
       stk' = IF reg = Nil THEN stk ELSE [stk EXCEPT ![curL][i] = reg]
  /\ UNCHANGED <<objVars, color, curL, groot, cur, listVars, phaseVars, ctrlVars>>

(***************************************************************************)
(* Collector.  OneStep(s) enables the case s of gc_onestep(): the loop of  *)
(* lj_gc_step(), or one of the two loops of lj_gc_fullgc().                *)
(***************************************************************************)
OneStep(s) ==
  /\ gcstate = s
  /\ atomicpc = "none"
  /\ Stepping
  /\ InFull => IF Head(cstack).act = "full1" THEN s \in Sweeps ELSE s # "pause"

StartRoots == {Main} \cup Values(Main) \cup ({groot} \ {Nil})

\* Mutant: the lists of the last cycle are not reset.
gc_mark_start_stale ==
  /\ gc_mark(color, gray, StartRoots)
  /\ UNCHANGED <<grayagain, weak>>
  /\ gcstate' = "propagate"

\* Case GCSpause.
gc_mark_start ==
  /\ gc_mark(color, {}, StartRoots)
  /\ grayagain' = {} /\ weak' = {}
  /\ gcstate' = "propagate"

StartCycle ==
  /\ OneStep("pause")
  /\ gc_mark_start
  /\ UNCHANGED <<heapVars, rootVars, atomicpc, currentwhite, mmudata, sweeping,
                 ctrlVars>>

\* Mutant: slots above top keep their values.
ClearUnmarked_none(th) == stk[th]

\* The slots above top are cleared in the atomic phase.
ClearUnmarked(th) ==
  [i \in Slots |-> IF gcstate = "atomic" /\ i > top[th] THEN Nil ELSE stk[th][i]]

\* Case GCSpropagate, and the gc_propagate_gray() loops of atomic().
propagatemark(o) ==
  LET M == MarkSet(color, Kids(o))
      weaktab == kind[o] = "tab" /\ Mode(o) # {}
      again == kind[o] = "thread"
  IN  /\ OneStep("propagate") \/ atomicpc # "none"
      /\ o \in gray
      /\ color' = [Painted(color, M) EXCEPT ![o] =
                     IF weaktab \/ again THEN "gray" ELSE "black"]
      /\ gray' = (gray \ {o}) \cup GrayListed(M)
      /\ weak' = IF weaktab THEN weak \cup {o} ELSE weak
      /\ grayagain' = IF again THEN grayagain \cup {o} ELSE grayagain
      /\ stk' = IF again THEN [stk EXCEPT ![o] = ClearUnmarked(o)] ELSE stk
      /\ UNCHANGED <<objVars, rootVars, phaseVars, ctrlVars>>

EndPropagate ==
  /\ OneStep("propagate")
  /\ gray = {}
  /\ gcstate' = "atomic"
  /\ UNCHANGED <<heapVars, color, rootVars, listVars, atomicpc, currentwhite,
                 mmudata, sweeping, ctrlVars>>

\* g->uvhead has the open upvalues of all threads, dead ones included.
GrayOpenUV == {u \in Obj : open[u] # <<>> /\ isgray(u)}

\* Mutant: the test of g->jit_base is missing.
OffTrace_always == TRUE

OffTrace == ~jitbase

\* Case GCSatomic: atomic() never runs on a trace.
gc_mark_uv ==
  /\ OneStep("atomic")
  /\ OffTrace
  /\ gc_mark(color, gray, UNION {uvval(u) : u \in GrayOpenUV})
  /\ atomicpc' = "uv"
  /\ UNCHANGED <<heapVars, rootVars, grayagain, weak, gcstate, currentwhite,
                 mmudata, sweeping, ctrlVars>>

\* Mutant: the lists of weak tables is dropped instead of traversed again.
WeakAgain_drop == {}

\* The weak tables found so far are gray again.
WeakAgain == weak

\* Mutant: the running thread is not marked.
AtomicRoots_nocur == cur \cup ({groot} \ {Nil})

AtomicRoots == {curL} \cup cur \cup ({groot} \ {Nil})

AtomicWeak ==
  /\ atomicpc = "uv" /\ gray = {}
  /\ gc_mark(color, WeakAgain, AtomicRoots)
  /\ weak' = {}
  /\ atomicpc' = "weak"
  /\ UNCHANGED <<heapVars, rootVars, grayagain, gcstate, currentwhite, mmudata,
                 sweeping, ctrlVars>>

AtomicAgain ==
  /\ atomicpc = "weak" /\ gray = {}
  /\ gray' = grayagain
  /\ grayagain' = {}
  /\ atomicpc' = "again"
  /\ UNCHANGED <<heapVars, color, rootVars, weak, gcstate, currentwhite, mmudata,
                 sweeping, ctrlVars>>

\* Mutant: LJ_GC_FINALIZED is not tested.
Unmarked_again == {u \in Obj : kind[u] = "udata" /\ iswhite(u)}

\* Userdata that lj_gc_separateudata() marks finalized, and those of them that
\* have a __gc metamethod and move to mmudata.
Unmarked == {u \in Obj : kind[u] = "udata" /\ iswhite(u) /\ u \notin finalized}
HasGC(u) == meta[u] # Nil /\ "gc" \in mm[meta[u]]

\* Mutant: the colour of an earlier cycle is kept.
MmudataWhite_keep(mmu) == color

\* makewhite() of mmudata: "Could be from previous GC."
MmudataWhite(mmu) == [o \in Obj |-> IF o \in mmu THEN currentwhite ELSE color[o]]

\* lj_gc_separateudata() and gc_mark_mmudata().
AtomicUdata ==
  /\ atomicpc = "again" /\ gray = {}
  /\ finalized' = finalized \cup Unmarked
  /\ mmudata' = mmudata \cup {u \in Unmarked : HasGC(u)}
  /\ gc_mark(MmudataWhite(mmudata'), gray, mmudata')
  /\ atomicpc' = "udata"
  /\ UNCHANGED <<kind, ent, meta, mm, top, open, stk, rootVars, grayagain, weak,
                 gcstate, currentwhite, sweeping, ctrlVars>>

\* Mutant: keys are not tested.
gc_mayclear_values(v, val) == val /\ v # Nil /\ kind[v] # "str" /\ iswhite(v)

\* What the test of a key, or of a value that it follows, says.  A string is never
\* cleared; that it is marked by the test is WeakStrings.
gc_mayclear(v, val) ==
  /\ v # Nil
  /\ kind[v] # "str"
  /\ iswhite(v) \/ (val /\ kind[v] = "udata" /\ v \in finalized)

\* The nodes of weak table t that gc_clearweak() clears.  An entry without a key
\* object stands for an array slot, which only weak values clear.
Cleared(t) ==
  {e \in Nodes(t) : /\ e[1] = Nil => "v" \in Mode(t)
                    /\ gc_mayclear(e[1], FALSE) \/ gc_mayclear(e[2], TRUE)}
gc_clearweak(t) ==
  (ent[t] \ Cleared(t)) \cup {<<e[1], Nil>> : e \in {x \in Cleared(t) : x[1] # Nil}}

\* Mutant: strings in weak tables are not marked.
WeakStrings_none == {}

\* The strings that gc_mayclear() is called for are marked: a key, even if the value
\* is dead and the node is cleared, and a value unless the key has cleared the node.
WeakStrings ==
  {s \in Obj : kind[s] = "str" /\ iswhite(s) /\
               \E t \in weak : \E e \in Nodes(t) :
                 s = e[1] \/ (s = e[2] /\ ~gc_mayclear(e[1], FALSE))}

\* Mutant: gc.sweepstr is not reset.
AllLists_nostr(mmu) == {o \in Alloc : open[o] = <<>> /\ kind[o] # "str"} \ mmu

\* The list the sweep starts from: gc.root and the string table.  Open upvalues
\* are reached through their threads, mmudata is a list of its own.
AllLists(mmu) == {o \in Alloc : open[o] = <<>>} \ mmu

AtomicEnd ==
  /\ atomicpc = "udata" /\ gray = {}
  /\ ent' = [o \in Obj |-> IF o \in weak THEN gc_clearweak(o) ELSE ent[o]]
  /\ color' = [o \in Obj |-> IF o \in WeakStrings THEN "gray" ELSE color[o]]
  /\ currentwhite' = otherwhite
  /\ sweeping' = AllLists(mmudata)
  /\ gcstate' = "sweepstring"
  /\ atomicpc' = "none"
  /\ UNCHANGED <<kind, finalized, meta, mm, top, open, stk, rootVars, listVars,
                 mmudata, ctrlVars>>

\* Mutant: freeing a thread leaves its upvalues open.
ClosedByFree_none(T) == {}

\* The open upvalues of the threads in T.
UVsOf(T) == UNION {OpenUV(th, Slots) : th \in {o \in T : kind[o] = "thread"}}
ClosedByFree(T) == UVsOf(T)

(***************************************************************************)
(* gc_sweep() of the objects of S.  A thread sweeps its open upvalues      *)
(* first; freeing it (lj_state_free) closes the ones that survive.         *)
(***************************************************************************)
gc_sweep(S) ==
  LET X == S \cup UVsOf(S)
      D == {o \in X : isdead(o) /\ o # Main}
  IN  /\ FreeAndClose(D, ClosedByFree(S \cap D) \ D)
      /\ color' = Recolored(D, X \ D, currentwhite)
      /\ sweeping' = sweeping \ S

\* Case GCSsweepstring: one hash chain.
SweepString ==
  LET strs == {o \in sweeping : kind[o] = "str"}
  IN  /\ OneStep("sweepstring")
      /\ \E S \in SUBSET strs :
           /\ S = {} => strs = {}
           /\ gc_sweep(S)
           /\ gcstate' = IF S = strs THEN "sweep" ELSE "sweepstring"
      /\ UNCHANGED <<rootVars, listVars, atomicpc, currentwhite, mmudata, ctrlVars>>

\* Mutant: the finalization phase is skipped.
AfterSweep_pause == "pause"

AfterSweep == IF mmudata # {} THEN "finalize" ELSE "pause"

\* Case GCSsweep: GCSWEEPMAX objects, or the rest of them.
Sweep ==
  /\ OneStep("sweep")
  /\ \E S \in SUBSET sweeping :
       /\ S = sweeping \/ Cardinality(S) = GCSWEEPMAX
       /\ S = sweeping => Cardinality(S) <= GCSWEEPMAX
       /\ gc_sweep(S)
       /\ gcstate' = IF S # sweeping THEN "sweep" ELSE AfterSweep
  /\ UNCHANGED <<rootVars, listVars, atomicpc, currentwhite, mmudata, ctrlVars>>

(***************************************************************************)
(* Case GCSfinalize: gc_finalize() unlinks a userdata from mmudata, makes  *)
(* it white and calls its __gc metamethod, if it still has one, with the   *)
(* threshold raised and the recorder aborted.                              *)
(***************************************************************************)
gc_finalize(u) ==
  /\ OneStep("finalize")
  /\ ~jitbase
  /\ u \in mmudata
  /\ mmudata' = mmudata \ {u}
  /\ color' = [color EXCEPT ![u] = currentwhite]
  /\ IF HasGC(u)
     THEN /\ Len(cstack) < MaxDepth
          /\ cstack' = <<[act |-> "fin", arg |-> u, stop |-> gcstop]>> \o cstack
          /\ gcstop' = TRUE
          /\ cur' = {}
     ELSE UNCHANGED <<cstack, gcstop, cur>>
  /\ UNCHANGED <<heapVars, curL, groot, jitbase, reg, listVars, gcstate, atomicpc,
                 currentwhite, sweeping>>

EndFinalize ==
  /\ OneStep("finalize")
  /\ mmudata = {}
  /\ gcstate' = "pause"
  /\ UNCHANGED <<heapVars, color, rootVars, listVars, atomicpc, currentwhite,
                 mmudata, sweeping, ctrlVars>>

\* Mutant: the threshold is not restored.
SavedStop_lost == TRUE

SavedStop == Head(cstack).stop

\* The finalizer returns, or throws: the error leaves lj_gc_fullgc(), too.
FinReturn ==
  /\ Interp
  /\ cstack # <<>>
  /\ cstack' = Tail(cstack)
  /\ gcstop' = SavedStop
  /\ UNCHANGED <<heapVars, color, rootVars, listVars, phaseVars>>

FinError ==
  /\ Interp
  /\ Len(cstack) > 1 /\ cstack[2].act = "full2"
  /\ cstack' = Tail(Tail(cstack))
  /\ gcstop' = SavedStop
  /\ UNCHANGED <<heapVars, color, rootVars, listVars, phaseVars>>

(***************************************************************************)
(* lj_gc_fullgc() and the other operations of lua_gc().                    *)
(***************************************************************************)
\* Mutant: a cycle under way is finished, no other follows.
lj_gc_fullgc_finish ==
  LET first == IF gcstate \in Marking THEN "full2" ELSE "full1"
  IN  /\ Interp /\ "full" \in Ops
      /\ Len(cstack) + 2 <= MaxDepth
      /\ cstack' = <<[act |-> first, arg |-> Nil, stop |-> gcstop]>> \o cstack
      /\ sweeping' = IF gcstate = "pause" THEN AllLists(mmudata) ELSE sweeping
      /\ gcstate' = IF gcstate = "pause" THEN "sweepstring" ELSE gcstate
      /\ UNCHANGED <<heapVars, color, rootVars, listVars, atomicpc, currentwhite, mmudata,
                     gcstop>>

lj_gc_fullgc ==
  LET push == <<[act |-> "full1", arg |-> Nil, stop |-> gcstop]>> \o cstack
  IN  /\ Interp /\ "full" \in Ops
      /\ Len(cstack) + 2 <= MaxDepth
      /\ cstack' = push
      /\ IF gcstate \in {"pause", "propagate", "atomic"}
         THEN /\ sweeping' = AllLists(mmudata)
              /\ gray' = {} /\ grayagain' = {} /\ weak' = {}
              /\ gcstate' = "sweepstring"
         ELSE UNCHANGED <<sweeping, listVars, gcstate>>
      /\ UNCHANGED <<heapVars, color, rootVars, atomicpc, currentwhite, mmudata,
                     gcstop>>

\* The first loop is done: the second starts with a cycle of its own.
FullStart ==
  /\ InFull /\ Head(cstack).act = "full1"
  /\ gcstate \in {"finalize", "pause"}
  /\ cstack' = <<[Head(cstack) EXCEPT !.act = "full2"]>> \o Tail(cstack)
  /\ gc_mark_start
  /\ UNCHANGED <<heapVars, rootVars, atomicpc, currentwhite, mmudata, sweeping,
                 gcstop>>

FullEnd ==
  /\ InFull /\ Head(cstack).act = "full2"
  /\ gcstate = "pause"
  /\ cstack' = Tail(cstack)
  /\ gcstop' = FALSE
  /\ UNCHANGED <<heapVars, color, rootVars, listVars, phaseVars>>

lua_gc_stop ==
  /\ Interp /\ ~gcstop /\ "stop" \in Ops
  /\ gcstop' = TRUE
  /\ UNCHANGED <<heapVars, color, rootVars, listVars, phaseVars, cstack>>

\* LUA_GCRESTART; LUA_GCSTEP lowers the threshold, too.
lua_gc_restart ==
  /\ Interp /\ gcstop /\ "stop" \in Ops
  /\ gcstop' = FALSE
  /\ UNCHANGED <<heapVars, color, rootVars, listVars, phaseVars, cstack>>

(***************************************************************************)
(* Specification.                                                          *)
(***************************************************************************)
\* The arguments of an operation are objects the program can name: R is Named.
\* The main thread is no first-class value of the program.
Mutate(R) ==
  LET Of(K) == {v \in R : kind[v] \in K}
      Lua == Of(LuaKinds) \ {Main}
      Tab == Of({"tab"})
  IN
  \/ \E o \in Obj, k \in NewKinds, v \in R \cup {Nil} : lj_mem_newgco(o, k, v)
  \/ \E s \in Obj : lj_str_new(s)
  \/ \E f, u \in Obj, i \in Slots : lj_func_newL_gc(f, u, i)
  \/ \E v \in Lua \cup {Nil} : Move(v)
  \/ \E n \in Slots : SetTop(n)
  \/ \E th \in Of({"thread"}) : Resume(th)
  \/ \E t \in Tab, k \in Lua \cup {Nil}, v \in Lua, drop \in BOOLEAN :
       lj_tab_newkey(t, k, v, drop)
  \/ \E t \in Tab, v \in Lua \cup {Nil} :
       \E e \in {x \in ent[t] : x[1] \in Lua \cup {Nil}} : lj_tab_set(t, e, v)
  \/ \E t \in Tab, v \in Lua \cup {Nil} : \E e \in ent[t] : lua_rawseti(t, e, v)
  \/ \E t \in Tab, F \in Metas : SetField(t, F)
  \/ \E v \in Tab \cup {Nil} : SetBaseMeta(v)
  \/ \E o \in Of({"tab", "udata"}), v \in Tab \cup {Nil} : lua_setmetatable(o, v)
  \/ \E o \in Of({"func", "udata", "thread"}), v \in R :
       \E e \in ent[o] \cup {<<Nil, Nil>>} : lua_setfenv(o, e, v)
  \/ \E u \in Of({"upval"}), v \in Lua : SetUpvalue(u, v)
  \/ \E level \in Slots : lj_func_closeuv(level)
  \/ \E p \in Of({"proto"}) : trace_start(p)
  \/ \E v \in Of(LuaKinds \cup {"proto"}) : RecordKGC(v)
  \/ \E T \in Obj, p \in Of({"proto", "trace"}) : trace_stop(T, p)
  \/ trace_abort
  \/ \E p \in Of({"proto"}) : lj_trace_flushproto(p)
  \/ \E T \in Of({"trace"}) : EnterTrace(T)
  \/ lj_trace_exit
  \/ FinReturn
  \/ FinError
  \/ lj_gc_fullgc
  \/ lua_gc_stop
  \/ lua_gc_restart

Collect ==
  \/ StartCycle
  \/ \E o \in Obj : propagatemark(o)
  \/ EndPropagate
  \/ gc_mark_uv
  \/ AtomicWeak
  \/ AtomicAgain
  \/ AtomicUdata
  \/ AtomicEnd
  \/ SweepString
  \/ Sweep
  \/ \E u \in Obj : gc_finalize(u)
  \/ EndFinalize
  \/ FullStart
  \/ FullEnd

Next == \/ \E R \in {Named} : Mutate(R)
        \/ Collect

Spec == Init /\ [][Next]_vars

\* Fairness for the liveness properties.  A program that keeps allocating runs
\* into lj_gc_check() again and again, and lj_trace_exit() drives the collector
\* forward when it left compiled code because of it; compiled code exits after
\* finitely many iterations (lj_gc_step_jit() forces the exit); finalizers return.
Fairness ==
  /\ SF_vars(Collect)
  /\ WF_vars(lj_trace_exit)
  /\ SF_vars(FinReturn)

FairSpec == Spec /\ Fairness

(***************************************************************************)
(* Properties.                                                             *)
(***************************************************************************)
\* Type invariant of the collector's and the mutator's state.
TypeOK ==
  /\ kind \in [Obj -> Kinds \cup {"free"}]
  /\ color \in [Obj -> Colors]
  /\ finalized \subseteq Obj
  /\ ent \in [Obj -> SUBSET (Val \X Val)]
  /\ meta \in [Obj -> Val]
  /\ mm \in [Obj -> SUBSET Fields]
  /\ stk \in [Obj -> [Slots -> Val]]
  /\ top \in [Obj -> Slots]
  /\ open \in [Obj -> {<<>>} \cup (Obj \X Slots)]
  /\ curL \in Obj /\ groot \in Val /\ cur \subseteq Obj
  /\ jitbase \in BOOLEAN /\ reg \in Val
  /\ gcstate \in States /\ atomicpc \in AtomicPCs /\ currentwhite \in Whites
  /\ gray \subseteq Obj /\ grayagain \subseteq Obj /\ weak \subseteq Obj
  /\ mmudata \subseteq Obj /\ sweeping \subseteq Obj
  /\ gcstop \in BOOLEAN /\ cstack \in Seq(Frame)

\* The object graph is well formed: metatables of live objects are tables,
\* an open upvalue belongs to an existing thread and is the only one of its slot,
\* other objects have no stack, and what waits for a finalizer is userdata that
\* lj_gc_separateudata() has marked.
WellFormed ==
  /\ \A o \in Live : meta[o] # Nil => kind[meta[o]] = "tab"
  /\ \A o \in Obj : open[o] # <<>> => kind[o] = "upval" /\ kind[open[o][1]] = "thread"
  /\ \A o, p \in Obj : open[o] # <<>> /\ open[o] = open[p] => o = p
  /\ \A o \in Obj : kind[o] # "thread" => SlotRefs(o, Slots) = {}
  /\ mmudata \subseteq {u \in finalized : kind[u] = "udata"}

\* Nothing the program or a pending finalizer can name has been freed, or will
\* be freed by the sweep under way: what every barrier and the whole of atomic()
\* are for.  Entries of weak tables and stale stack slots are included.
NoDangling == Reach \subseteq Live

\* "A black object never points to a white object" (lj_obj.h), while marking.
\* Userdata that wait for their finalizer are black from an earlier cycle until
\* gc_mark_mmudata() marks them again.
TriColor ==
  gcstate \in Marking =>
    \A o \in Alloc : isblack(o) /\ (o \in mmudata => atomicpc = "udata") =>
      \A v \in Refs(o) : ~iswhite(v)

\* gray, grayagain and weak share the gclist field: while marking, their members
\* are allocated gray objects, and no object is on two of them.
ListsGray ==
  gcstate \in Marking =>
    /\ \A o \in gray \cup grayagain \cup weak : o \in Alloc /\ isgray(o)
    /\ gray \cap grayagain = {} /\ gray \cap weak = {} /\ grayagain \cap weak = {}

\* A sweep leaves no object black, gray or dead behind: the next cycle starts
\* from an all-white heap.  mmudata is not swept.
AllWhite ==
  gcstate \in {"finalize", "pause"} =>
    \A o \in Alloc \ mmudata : color[o] = currentwhite

\* No finalizer is forgotten: while one is due, the program never sees the
\* collector in a later cycle.
FinalizersDue == Mutating /\ mmudata # {} => gcstate \in Sweeps \cup {"finalize"}

\* Strings that gc_clearweak() has marked as keys of nodes whose dead value it then
\* cleared: they are left for the next collection.
DeadKeys ==
  {s \in Alloc : kind[s] = "str" /\
                 \E t \in Live : kind[t] = "tab" /\ Mode(t) # {} /\ <<s, Nil>> \in ent[t]}

\* collectgarbage() is complete in a program without userdata: all that is left when
\* lj_gc_fullgc() returns is reachable, except string keys of cleared nodes.  Tables
\* with weak keys only, or weak values only, are excluded: gc_clearweak() drops an
\* entry whose weak half is dead when the other half has been marked for it already,
\* and that is left for the next collection, too.
FullIsComplete ==
  /\ "udata" \notin NewKinds
  /\ InFull /\ Head(cstack).act = "full2" /\ gcstate = "pause"
  /\ \A t \in Alloc : Mode(t) \in {{}, {"k", "v"}}
  => Alloc \subseteq Reach \cup DeadKeys

\* __gc is called at most once for a userdata: once its finalizer has been
\* called, or it has been found to have none, it never gets back to mmudata.
FinalizeOnce ==
  [][\A u \in finalized \ mmudata : u \in finalized' => u \notin mmudata']_vars

\* atomic() leaves no entry in a weak table that is about to be swept, and no
\* weak value that is a finalized userdata.
WeakCleared ==
  [][atomicpc = "udata" /\ atomicpc' = "none" =>
       \A t \in weak : \A e \in ent'[t] : e[2] # Nil =>
         /\ e[1] # Nil => color'[e[1]] # currentwhite
         /\ color'[e[2]] # currentwhite
         /\ "v" \in Mode(t) => e[2] \notin finalized]_vars

\* Nothing the program can reach before a step is freed by it: dead objects that
\* are found again by interning or by func_finduv() are revived in time.
FreeUnreachable ==
  [][\A o \in Alloc : kind'[o] = "free" => o \notin Reach]_vars

\* A collection that has begun comes to its end, finalizers included.
CycleEnds == gcstate = "propagate" ~> gcstate = "pause"

\* No leak: an object does not stay allocated and unreachable for ever.
GarbageFreed == \A o \in Obj : []<>(o \notin Alloc \/ o \in Reach)
=============================================================================
