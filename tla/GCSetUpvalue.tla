---------------------------- MODULE GCSetUpvalue ----------------------------
(***************************************************************************)
(* GC with one operation more: lua_setupvalue(), which debug.setupvalue()  *)
(* calls.  It is kept apart from GC because its barrier names the function *)
(* and not the upvalue that is written.                                    *)
(***************************************************************************)
EXTENDS GC

\* lua_setupvalue(): v goes to the upvalue u of the Lua function f, or to the
\* stack slot u is open for; lj_gc_barrier() is then called for f.
lua_setupvalue(f, u, v) ==
  /\ Interp
  /\ <<Nil, u>> \in ent[f]
  /\ IF open[u] = <<>>
     THEN ent' = [ent EXCEPT ![u] = {<<Nil, v>>}] /\ UNCHANGED stk
     ELSE stk' = [stk EXCEPT ![open[u][1]][open[u][2]] = v] /\ UNCHANGED ent
  /\ lj_gc_objbarrier(f, v)
  /\ UNCHANGED <<kind, finalized, meta, mm, top, open, rootVars, phaseVars,
                 ctrlVars>>

ApiMutate(R) ==
  LET Of(K) == {x \in R : kind[x] \in K}
  IN  \E f \in Of({"func"}), u \in Of({"upval"}), v \in Of(LuaKinds) \ {Main} :
        lua_setupvalue(f, u, v)

ApiNext == \/ \E R \in {Named} : ApiMutate(R)
           \/ Next

ApiSpec == Init /\ [][ApiNext]_vars
=============================================================================
