------------------------------ MODULE Dispatch ------------------------------
(***************************************************************************)
(* How the interpreter is diverted from its instructions: lj_dispatch.c    *)
(* keeps the dispatch table in step with the hooks, the recorder and the   *)
(* profiler; hooks, finalizers, event handlers, the profiler's callback    *)
(* and protected calls nest, save and restore hookmask, and errors unwind  *)
(* them; a timer or a signal may interrupt between any two steps.          *)
(***************************************************************************)
EXTENDS Integers, Sequences, FiniteSets

CONSTANTS
  HookEvents,   \* events a hook may be set for, of {"call", "ret", "line"}
  DispOps,      \* what a run exercises, of {"profile", "gc", "vmevent", "pcall"}
  MaxFrames     \* bound on the nesting of frames

ASSUME DispatchAssumption ==
  HookEvents \subseteq {"call", "ret", "line"} /\ MaxFrames \in Nat

VARIABLES
  hookmask,     \* g->hookmask, a set of HookEvents and of "active", "gc", "vmevent", "profile"
  disp,         \* [mode, dyn, stat]: g->dispatchmode, the dynamic and the static dispatch table
  jiton,        \* JIT_F_ON
  jstate,       \* J->state: "IDLE", "RECORD", or "ABORT" if the recording was told to abort
  vmframes,     \* the frames that matter here, innermost last: [kind, saved]
  timer         \* whether the profiler's timer runs

dispVars == <<hookmask, disp, jiton, jstate, vmframes, timer>>

Ins == {"loop", "ret", "other"}      \* FORL, ITERL, LOOP; RET*; all other instructions
Funcs == {"func", "cfunc"}           \* FUNCF, FUNCV; the headers of other functions

-----------------------------------------------------------------------------
(* The dispatch table. *)

ModeOf(hm, on, js) ==
  (IF on THEN {"JIT"} ELSE {})
    \cup (IF js # "IDLE" THEN {"REC", "INS", "CALL"} ELSE {})
    \cup (IF "profile" \in hm THEN {"PROF", "INS"} ELSE {})
    \cup (IF "line" \in hm THEN {"INS"} ELSE {})
    \cup (IF "call" \in hm THEN {"CALL"} ELSE {})
    \cup (IF "ret" \in hm THEN {"RET"} ELSE {})

\* Mutant: hot counting does not depend on JIT_F_ON.
Hot_always(mode) == "REC" \notin mode

Hot(mode) == "JIT" \in mode /\ "REC" \notin mode
Changed(old, mode) == (old \ mode) \cup (mode \ old)

\* Mutant: a return instruction is left as it was.
lj_dispatch_update_stale(d, hm, on, js) ==
  LET mode == ModeOf(hm, on, js)
      count == IF Hot(mode) THEN "hot" ELSE "plain"
      stat == [d.stat EXCEPT !["loop"] = count]
      rets == IF "RET" \in mode THEN "rethook" ELSE stat["ret"]
      hook == IF "PROF" \in mode THEN "profhook" ELSE IF "REC" \in mode THEN "record" ELSE "inshook"
      whole == Changed(d.mode, mode) \cap {"PROF", "REC", "INS"} # {}
      ins == IF "INS" \in mode
             THEN IF whole THEN [i \in Ins |-> hook] ELSE [i \in Ins |-> d.dyn[i]]
             ELSE [i \in Ins |-> CASE i = "loop" -> count [] OTHER -> IF whole THEN stat[i] ELSE d.dyn[i]]
      calls == IF "CALL" \in Changed(d.mode, mode)
               THEN [i \in Funcs |-> IF "CALL" \in mode THEN "callhook" ELSE "plain"]
               ELSE [i \in Funcs |-> d.dyn[i]]
      header == IF "CALL" \in mode THEN calls["func"] ELSE count
  IN IF mode = d.mode THEN d
     ELSE [mode |-> mode, stat |-> stat,
           dyn |-> [i \in Ins \cup Funcs |-> IF i = "func" THEN header
                                             ELSE IF i \in Ins THEN ins[i] ELSE calls[i]]]

\* Only the parts of the table are written that the change of mode touches.
lj_dispatch_update(d, hm, on, js) ==
  LET mode == ModeOf(hm, on, js)
      count == IF Hot(mode) THEN "hot" ELSE "plain"
      stat == [d.stat EXCEPT !["loop"] = count]
      rets == IF "RET" \in mode THEN "rethook" ELSE stat["ret"]
      hook == IF "PROF" \in mode THEN "profhook" ELSE IF "REC" \in mode THEN "record" ELSE "inshook"
      whole == Changed(d.mode, mode) \cap {"PROF", "REC", "INS"} # {}
      ins == IF "INS" \in mode
             THEN IF whole THEN [i \in Ins |-> hook] ELSE [i \in Ins |-> d.dyn[i]]
             ELSE [i \in Ins |-> CASE i = "loop" -> count [] i = "ret" -> rets
                                   [] OTHER -> IF whole THEN stat[i] ELSE d.dyn[i]]
      calls == IF "CALL" \in Changed(d.mode, mode)
               THEN [i \in Funcs |-> IF "CALL" \in mode THEN "callhook" ELSE "plain"]
               ELSE [i \in Funcs |-> d.dyn[i]]
      header == IF "CALL" \in mode THEN calls["func"] ELSE count
  IN IF mode = d.mode THEN d
     ELSE [mode |-> mode, stat |-> stat,
           dyn |-> [i \in Ins \cup Funcs |-> IF i = "func" THEN header
                                             ELSE IF i \in Ins THEN ins[i] ELSE calls[i]]]

DispatchInit ==
  /\ hookmask = {}
  /\ disp = [mode |-> {}, dyn |-> [i \in Ins \cup Funcs |-> "plain"],
             stat |-> [i \in Ins |-> IF i = "loop" THEN "hot" ELSE "plain"]]
  /\ jiton = FALSE
  /\ jstate = "IDLE"
  /\ vmframes = <<>>
  /\ timer = FALSE

Update == disp' = lj_dispatch_update(disp, hookmask', jiton', jstate')

Aborting(js) == IF js = "RECORD" THEN "ABORT" ELSE js

-----------------------------------------------------------------------------
(* Frames. *)

Event == {"call", "ret", "line"}
hook_save == hookmask \ Event
hook_restore(saved) == (hookmask \cap Event) \cup saved

Top == vmframes[Len(vmframes)]
Push(kind, saved) ==
  /\ Len(vmframes) < MaxFrames
  /\ vmframes' = Append(vmframes, [kind |-> kind, saved |-> saved])
Pop == vmframes' = SubSeq(vmframes, 1, Len(vmframes) - 1)

callhook(js) ==
  /\ "active" \notin hookmask
  /\ jstate' = Aborting(js)
  /\ hookmask' = hookmask \cup {"active"}
  /\ Push("hook", {})

gc_call_finalizer ==
  /\ "gc" \in DispOps /\ \A i \in DOMAIN vmframes : vmframes[i].kind # "finalizer"
  /\ jstate' = Aborting(jstate)
  /\ hookmask' = hookmask \cup {"active", "gc"}
  /\ Push("finalizer", hook_save)
  /\ UNCHANGED <<disp, jiton, timer>>

\* vmevmask is zero while a handler runs.
lj_vmevent_call ==
  /\ "vmevent" \in DispOps /\ \A i \in DOMAIN vmframes : vmframes[i].kind # "vmevent"
  /\ hookmask' = hookmask \cup {"active", "vmevent"}
  /\ Push("vmevent", hook_save)
  /\ UNCHANGED <<disp, jiton, jstate, timer>>

\* pcall() keeps whether it was called from a hook in the type of its frame.
PCall ==
  /\ "pcall" \in DispOps
  /\ Push(IF "active" \in hookmask THEN "pcallh" ELSE "pcall", {})
  /\ UNCHANGED <<hookmask, disp, jiton, jstate, timer>>

\* coroutine.resume(); unwinding assumes that nobody uses coroutines inside hooks.
lj_vm_resume ==
  /\ "pcall" \in DispOps /\ "active" \notin hookmask
  /\ Push("resume", {})
  /\ UNCHANGED <<hookmask, disp, jiton, jstate, timer>>

lua_pcall ==
  /\ "pcall" \in DispOps
  /\ Push("lua_pcall", hook_save)
  /\ UNCHANGED <<hookmask, disp, jiton, jstate, timer>>

\* The instruction hook of the profiler has cleared HOOK_PROFILE.
lj_profile_interpreter ==
  LET mask == hookmask \ {"profile"}
  IN /\ IF "vmevent" \in mask
        THEN hookmask' = mask /\ UNCHANGED vmframes
        ELSE hookmask' = {"vmevent"} /\ Push("profile", mask)
     /\ UNCHANGED <<jiton, jstate, timer>>
     /\ Update

ReturnFrom ==
  /\ vmframes # <<>>
  /\ Pop
  /\ hookmask' = CASE Top.kind = "hook" -> hookmask \ {"active"}
                   [] Top.kind \in {"finalizer", "vmevent"} -> hook_restore(Top.saved)
                   [] Top.kind = "profile" -> Top.saved \cup (hookmask \cap {"profile"})
                   [] OTHER -> hookmask
  /\ UNCHANGED <<jiton, jstate, timer>>
  /\ IF Top.kind = "profile" THEN Update ELSE UNCHANGED disp

\* An error aborts a recording and unwinds to the innermost protected call; a finalizer
\* restores its state and throws the error again. The profiler's callback throws no errors.
Protected == {"pcall", "resume", "pcallh", "lua_pcall", "vmevent", "finalizer"}
\* Mutant: a protected call outside of hooks does not leave the hook.
ThrowError_kept ==
  LET catch == {i \in DOMAIN vmframes : vmframes[i].kind \in Protected}
      c == CHOOSE i \in catch : \A j \in catch : j <= i
      fr == vmframes[c]
  IN /\ catch # {}
     /\ \A i \in c .. Len(vmframes) : vmframes[i].kind # "profile"
     /\ vmframes' = SubSeq(vmframes, 1, c - 1)
     /\ hookmask' = IF fr.kind \in {"pcall", "resume", "pcallh"} THEN hookmask ELSE hook_restore(fr.saved)
     /\ jstate' = Aborting(jstate)
     /\ UNCHANGED <<disp, jiton, timer>>

ThrowError ==
  LET catch == {i \in DOMAIN vmframes : vmframes[i].kind \in Protected}
      c == CHOOSE i \in catch : \A j \in catch : j <= i
      fr == vmframes[c]
  IN /\ catch # {}
     /\ \A i \in c .. Len(vmframes) : vmframes[i].kind # "profile"
     /\ vmframes' = SubSeq(vmframes, 1, c - 1)
     /\ hookmask' = CASE fr.kind \in {"pcall", "resume"} -> hookmask \ {"active"}
                      [] fr.kind = "pcallh" -> hookmask
                      [] OTHER -> hook_restore(fr.saved)
     /\ jstate' = Aborting(jstate)
     /\ UNCHANGED <<disp, jiton, timer>>

-----------------------------------------------------------------------------
(* Instructions. *)

\* The recorder sees an instruction: it continues, stops, or notices an abort.
lj_trace_ins(js) ==
  IF jstate = "IDLE" THEN js = "IDLE"
  ELSE IF jstate = "ABORT" THEN js = "IDLE" ELSE js \in {"RECORD", "IDLE"}

HookFor(i) == IF i = "ret" THEN HookEvents \cap {"ret", "line"} ELSE HookEvents \cap {"line"}

\* vm_inshook, vm_rethook and vm_record go on to lj_dispatch_ins() or to the
\* static instruction.
GoesOn(target) ==
  CASE target = "inshook" -> "active" \notin hookmask /\ "line" \in hookmask
    [] target = "rethook" -> "active" \notin hookmask
    [] target = "record" -> "vmevent" \notin hookmask
    [] OTHER -> FALSE

\* Mutant: the end of a recording does not update the mode.
lj_dispatch_ins_quiet(i) ==
  /\ GoesOn(disp.dyn[i])
  /\ \E js \in {"IDLE", "RECORD"} :
       /\ lj_trace_ins(js)
       /\ \/ (\E e \in HookFor(i) \cap hookmask : callhook(js))
          \/ hookmask' = hookmask /\ jstate' = js /\ UNCHANGED vmframes
       /\ UNCHANGED <<jiton, timer>>
       /\ disp' = disp

lj_dispatch_ins(i) ==
  /\ GoesOn(disp.dyn[i])
  /\ \E js \in {"IDLE", "RECORD"} :
       /\ lj_trace_ins(js)
       /\ \/ (\E e \in HookFor(i) \cap hookmask : callhook(js))
          \/ hookmask' = hookmask /\ jstate' = js /\ UNCHANGED vmframes
       /\ UNCHANGED <<jiton, timer>>
       /\ disp' = IF jstate # "IDLE" /\ js = "IDLE"
                  THEN lj_dispatch_update(disp, hookmask, jiton, js) ELSE disp

lj_dispatch_profile(i) == disp.dyn[i] = "profhook" /\ lj_profile_interpreter

lj_dispatch_call(i) ==
  /\ disp.dyn[i] = "callhook"
  /\ \E js \in {"IDLE", "RECORD", "ABORT"} :
       /\ IF hookmask \cap {"gc", "vmevent"} = {} THEN lj_trace_ins(js) ELSE js = jstate
       /\ \/ "call" \in hookmask /\ callhook(js)
          \/ hookmask' = hookmask /\ jstate' = js /\ UNCHANGED vmframes
       /\ UNCHANGED <<jiton, timer>>
       /\ disp' = IF js # jstate THEN lj_dispatch_update(disp, hookmask, jiton, js) ELSE disp

\* A hot counter underflows in a loop or function header: it was dispatched
\* there, or a hook went on to the static instruction.
HotCount(i) ==
  /\ \/ disp.dyn[i] = "hot"
     \/ disp.dyn[i] \in {"inshook", "record"} /\ disp.stat[i] = "hot"
     \/ disp.dyn[i] = "callhook" /\ jiton
  /\ jstate = "IDLE" /\ hookmask \cap {"gc", "vmevent"} = {}
  /\ jstate' = "RECORD"
  /\ UNCHANGED <<hookmask, jiton, vmframes, timer>>
  /\ Update

-----------------------------------------------------------------------------
(* The API, and what interrupts the VM. *)

\* Also called from signal handlers.
lua_sethook(mask) ==
  /\ hookmask' = (hookmask \ Event) \cup mask
  /\ jstate' = Aborting(jstate)
  /\ UNCHANGED <<jiton, vmframes, timer>>
  /\ Update

luaJIT_setmode(on) ==
  /\ jstate' = Aborting(jstate)
  /\ UNCHANGED <<hookmask, vmframes, timer>>
  /\ IF "gc" \in hookmask THEN UNCHANGED <<jiton, disp>> ELSE jiton' = on /\ Update

luaJIT_profile_start ==
  /\ "profile" \in DispOps /\ ~timer
  /\ timer' = TRUE
  /\ UNCHANGED <<hookmask, disp, jiton, jstate, vmframes>>

luaJIT_profile_stop ==
  /\ timer
  /\ timer' = FALSE
  /\ hookmask' = hookmask \ {"profile"}
  /\ UNCHANGED <<jiton, jstate, vmframes>>
  /\ Update

profile_trigger ==
  /\ timer /\ hookmask \cap {"profile", "vmevent"} = {}
  /\ hookmask' = hookmask \cup {"profile"}
  /\ UNCHANGED <<jiton, jstate, vmframes, timer>>
  /\ Update

DispatchNext ==
  \/ \E i \in Ins : lj_dispatch_ins(i) \/ lj_dispatch_profile(i)
  \/ \E i \in Funcs : lj_dispatch_call(i)
  \/ \E i \in {"loop", "func"} : HotCount(i)
  \/ \E mask \in SUBSET HookEvents : lua_sethook(mask)
  \/ \E on \in BOOLEAN : luaJIT_setmode(on)
  \/ luaJIT_profile_start \/ luaJIT_profile_stop \/ profile_trigger
  \/ gc_call_finalizer \/ lj_vmevent_call \/ PCall \/ lj_vm_resume \/ lua_pcall
  \/ ReturnFrom \/ ThrowError

DispatchSpec == DispatchInit /\ [][DispatchNext]_dispVars

-----------------------------------------------------------------------------
(* Properties. *)

TableOf(mode) ==
  LET count == IF Hot(mode) THEN "hot" ELSE "plain"
      hook == CASE "PROF" \in mode -> "profhook" [] "PROF" \notin mode /\ "REC" \in mode -> "record"
                [] OTHER -> "inshook"
  IN [i \in Ins \cup Funcs |->
        CASE i \in Ins /\ "INS" \in mode -> hook
          [] i = "loop" /\ "INS" \notin mode -> count
          [] i = "ret" /\ "INS" \notin mode -> IF "RET" \in mode THEN "rethook" ELSE "plain"
          [] i = "other" /\ "INS" \notin mode -> "plain"
          [] i \in Funcs /\ "CALL" \in mode -> "callhook"
          [] i = "func" /\ "CALL" \notin mode -> count
          [] i = "cfunc" /\ "CALL" \notin mode -> "plain"]

\* lj_dispatch_update() writes only the parts of the table that a change of the
\* mode touches; after any history of changes the table is the one that the
\* mode alone asks for, as if all of it had been written.
TableFollowsMode == disp.dyn = TableOf(disp.mode)

\* Whoever changes the hooks, the recorder or JIT_F_ON also updates the mode.
\* Only hook_restore() brings HOOK_PROFILE back without an update: the mode may
\* lag behind hookmask in what the profiler asks for and in nothing else.
ModeFollowsState ==
  LET asked == ModeOf(hookmask, jiton, jstate)
      profiler == {"PROF", "INS"}
  IN /\ disp.mode \ profiler = asked \ profiler
     /\ asked \ disp.mode # {} => "profile" \in hookmask

\* The table in use is the one that the hooks, the recorder and JIT_F_ON ask for.
TableFollowsState == TableFollowsMode /\ ModeFollowsState

FrameBits(fr) ==
  LET b[i \in 0 .. Len(fr)] ==
        IF i = 0 THEN {}
        ELSE CASE fr[i].kind = "hook" -> b[i - 1] \cup {"active"}
               [] fr[i].kind = "finalizer" -> b[i - 1] \cup {"active", "gc"}
               [] fr[i].kind = "vmevent" -> b[i - 1] \cup {"active", "vmevent"}
               [] fr[i].kind = "profile" -> {"vmevent"}
               [] OTHER -> b[i - 1]
  IN b[Len(fr)]

\* HOOK_ACTIVE, HOOK_GC and HOOK_VMEVENT tell which callbacks run, whatever
\* returned normally or was unwound by an error, and however they nested: a
\* bit that is left behind would disable hooks or the recorder for good.
BitsFollowFrames == hookmask \cap {"active", "gc", "vmevent"} = FrameBits(vmframes)

\* Hot counters start no recording after jit.off(), also when a hook, the
\* profiler or the recorder had redirected the instruction before.
RecordsWhenOn == [][jstate = "IDLE" /\ jstate' = "RECORD" => jiton]_dispVars
=============================================================================
