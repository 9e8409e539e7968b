-------------------------------- MODULE MCGC --------------------------------
(***************************************************************************)
(* Instances of GC for TLC.                                                *)
(***************************************************************************)
EXTENDS GC, TLC

CONSTANTS m, a, b, c

Obj2 == {m, a, b}
Obj3 == {m, a, b, c}
Sym2 == Permutations({a, b})
Sym3 == Permutations({a, b, c})

KTab == {"tab"}
KWeakVal == {"tab", "str", "udata"}
KLive == {"proto", "trace", "udata", "tab"}
KUdata == {"udata", "tab"}
KFunc == {"func", "upval"}
KFuncTrace == {"func", "upval", "proto", "trace"}
KThread == {"thread", "func", "upval", "str", "tab"}

MPlain == {{}}
MWeakKey == {{}, {"k"}}
MWeak == {{}, {"k", "v"}}
MWeakVal == {{}, {"v", "gc"}}
MGC == {{}, {"gc"}}
MWeakGC == {{}, {"k", "gc"}}

\* The two whites swap their roles in every cycle and nothing else tells them
\* apart: states that differ only in the role's name are one state for TLC.
Shade(o) ==
  IF kind[o] = "free" THEN "none"
  ELSE IF isdead(o) THEN "dead"
  ELSE IF iswhite(o) THEN "white" ELSE color[o]
View == <<[o \in Obj |-> Shade(o)], heapVars, rootVars, listVars, gcstate, atomicpc,
          mmudata, sweeping, ctrlVars>>

\* With two slots that are both in use, no frames and no upvalues it does not
\* matter which slot holds which value.
ViewSlots == <<[o \in Obj |-> Shade(o)], objVars, {stk[Main][i] : i \in Slots}, rootVars, listVars,
               gcstate, atomicpc, mmudata, sweeping, ctrlVars>>

\* Coroutines and closures without tables, or tables and a string: one table that
\* may be its own metatable and another one that is a key or value only.  While
\* there are tables the collector waits for a full collection, in any phase if it
\* has been stopped.
ThreadsOrTables ==
  \/ \A o \in Obj : kind[o] # "tab"
  \/ /\ \A o \in Obj \ {Main} : kind[o] \in {"free", "tab", "str"}
     /\ Cardinality({o \in Obj : kind[o] = "tab"}) <= 2
     /\ Cardinality({o \in Obj : kind[o] = "str"}) <= 1
     /\ \E t \in Obj : \A o \in Obj \ {t} : kind[o] = "tab" => meta[o] = Nil /\ ent[o] = {} /\ mm[o] = {}
     /\ \A o \in Obj : meta[o] \in {Nil, o}
     /\ gcstop \/ gcstate = "pause" \/ InFull
=============================================================================
