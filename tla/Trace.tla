------------------------------- MODULE Trace -------------------------------
(***************************************************************************)
(* The life of compiled traces (lj_trace.c): the table of trace numbers,   *)
(* the bytecode that is patched to enter traces, the state machine of the  *)
(* trace compiler, side traces and stitched traces, penalties, the flushes *)
(* and the sweep of GCtrace objects.                                       *)
(*                                                                         *)
(* What a trace computes is left out; what it jumps to is not: the tail of *)
(* a trace and a patched exit hold the address of other machine code.      *)
(* Every trace has one exit that may become hot.  Handlers of VM events    *)
(* and prototypes that die are not modelled.                               *)
(***************************************************************************)
EXTENDS Integers, FiniteSets

CONSTANTS
  Loop, Func, Ret,  \* hot bytecode: FORL/ITERL/LOOP, FUNCF, RET/RET0/RET1
  Proto,            \* prototypes
  protoOf,          \* the prototype that holds a bytecode instruction
  Tr,               \* GCtrace objects: the bound on traces that are allocated
  Nil, Free,
  Ops,              \* what the host program does, see Calls and Record
  maxtrace,         \* JIT_P_maxtrace
  maxside,          \* JIT_P_maxside
  minvec,           \* LJ_MIN_VECSZ
  hotexit, tryside, \* JIT_P_hotexit, JIT_P_tryside
  SNAPCOUNT_DONE,   \* the count of an exit that is never hot again
  PENALTY_SLOTS,
  PENALTY_MAX,      \* how often PENALTY_MIN doubles before it is too much
  maxmcode,         \* areas of machine code
  maxunroll         \* JIT_P_instunroll

PC == Loop \union Func \union Ret
AllOps == {"stitch", "throw", "downrec", "flush", "flushall", "mode"}

ASSUME ConstantsOK ==
  /\ protoOf \in [PC -> Proto]
  /\ Loop \intersect Func = {} /\ Ret \intersect (Loop \union Func) = {}
  /\ Nil \notin PC \union Proto \union Tr
  /\ Ops \subseteq AllOps
  /\ Proto # {}
  /\ {maxtrace, hotexit, PENALTY_SLOTS} \subseteq Nat \ {0}
  /\ minvec \in Nat /\ minvec > 1
  /\ {maxside, tryside, PENALTY_MAX, maxmcode, maxunroll} \subseteq Nat
  /\ SNAPCOUNT_DONE \in Nat /\ SNAPCOUNT_DONE > hotexit

\* Memory is finite.
ASSUME ObjectsOK == IsFiniteSet(Tr)

VARIABLES
  bc,         \* the opcode of a hot instruction and, patched, its trace number
  nojit,      \* prototypes with PROTO_NOJIT
  iloop,      \* prototypes with PROTO_ILOOP
  head,       \* pt->trace
  trace,      \* J->trace: the object of a number, Cur for J->cur, or Nil
  sizetrace, freetrace,
  obj,        \* the fields of a GCtrace, or Free
  dead,       \* objects that the collector is about to free
  state,      \* J->state, with "ABORTED" for a state without LJ_TRACE_ACTIVE
  jpc,        \* J->pc and J->pt, and the kind of trace that starts there
  err,        \* the error that trace_abort finds
  parent, exitno,
  cur,        \* J->cur
  patch,      \* J->patchpc, J->patchins and J->bcskip
  penalty, penaltyslot,
  mcarea,     \* areas of machine code in use
  unroll,     \* J->instunroll
  run,        \* the trace whose machine code runs
  conts       \* traces held by a lj_cont_stitch continuation frame

codeVars == <<bc, nojit, iloop, head>>
tableVars == <<trace, sizetrace, freetrace, obj>>
penVars == <<penalty, penaltyslot>>
recVars == <<jpc, err, parent, exitno, cur, patch, unroll>>
vars == <<codeVars, tableVars, dead, state, recVars, penVars, mcarea, run, conts>>

Cur == "cur"
TraceNo == 1..maxtrace
Plain == [op |-> 0, d |-> 0]     \* FORL, LOOP, FUNCF, RET ...
\* The opcodes of a loop follow each other: FORL, IFORL, JFORL.
I == 1
J == 2

States == {"IDLE", "START", "RECORD", "END", "ASM", "ERR", "ABORTED", "DOWNREC", "MCODEAL", "CRASH"}
Kinds == {"root", "ret", "side", "stitch"}
Links == {"none", "loop", "root", "return", "interp", "stitch"}

Trace == [no : 0..maxtrace, kind : Kinds, pt : Proto, pc : PC \union {Nil},
          root : 0..maxtrace, link : 0..maxtrace, ltype : Links,
          nextroot : 0..maxtrace, nextside : 0..maxtrace, nchild : Nat,
          branch : Tr \union {Nil}, to : Tr \union {Nil}, count : 0..SNAPCOUNT_DONE]
NewTrace(n, k, p, pc) ==
  [no |-> n, kind |-> k, pt |-> p, pc |-> pc, root |-> 0, link |-> 0, ltype |-> "none",
   nextroot |-> 0, nextside |-> 0, nchild |-> 0, branch |-> Nil, to |-> Nil, count |-> 0]

\* An instruction that trace_pendpatch will put back.
Pending == [pc : PC, ins : [op : {J}, d : TraceNo], skip : BOOLEAN]

ASSUME DistinctOK ==
  /\ Cur \notin Tr \union {Nil}
  /\ Free \notin Trace
  /\ Nil \notin Pending

LeastOf(S) == CHOOSE n \in S : \A k \in S : n <= k
Larger(x, y) == IF x > y THEN x ELSE y
Smaller(x, y) == IF x < y THEN x ELSE y

Exists(n) == n \in TraceNo /\ trace[n] # Nil
traceref(n) == IF trace[n] = Cur THEN cur ELSE obj[trace[n]]
Saved(n) == Exists(n) /\ trace[n] # Cur

-----------------------------------------------------------------------------
(* The chain of the root traces of a prototype                             *)

\* The first maxtrace + 1 numbers of the chain, 0 after its end.
Walk(p) ==
  LET at[i \in 0..maxtrace] ==
        IF i = 0 THEN head[p]
        ELSE IF Exists(at[i - 1]) THEN traceref(at[i - 1]).nextroot ELSE 0
  IN  at
Chain(p) == {Walk(p)[i] : i \in 0..maxtrace} \ {0}

\* Traces that patched bytecode enters and that are in the chain.
IsRoot(T) == T.kind \in {"root", "ret"}

\* The bytecode that entered T is as it was; whatever trace it enters now.
trace_unpatch(B, T) ==
  IF IsRoot(T) /\ B[T.pc].op = J THEN [B EXCEPT ![T.pc] = Plain] ELSE B

trace_flushroot(n) ==
  LET T == traceref(n)
      before == {k \in Chain(T.pt) : Saved(k) /\ traceref(k).nextroot = n}
  IN  /\ bc' = trace_unpatch(bc, T)
      /\ IF head[T.pt] = n
         THEN head' = [head EXCEPT ![T.pt] = T.nextroot] /\ UNCHANGED obj
         ELSE /\ obj' = [t \in Tr |-> IF \E k \in before : trace[k] = t
                                      THEN [obj[t] EXCEPT !.nextroot = T.nextroot] ELSE obj[t]]
              /\ UNCHANGED head

\* jit.flush(n): nothing happens for a side trace.
lj_trace_flush(n) ==
  /\ Exists(n) /\ traceref(n).root = 0
  /\ trace_flushroot(n)

\* Mutants: only the first trace of the chain is flushed, or the trace stays
\* patched.
lj_trace_flushproto_first(p) ==
  IF head[p] # 0
  THEN bc' = trace_unpatch(bc, traceref(head[p])) /\ head' = [head EXCEPT ![p] = 0]
  ELSE UNCHANGED <<bc, head>>
lj_trace_flushproto_patched(p) == head' = [head EXCEPT ![p] = 0] /\ UNCHANGED bc

lj_trace_flushproto(p) ==
  /\ bc' = [pc \in PC |-> IF \E n \in Chain(p) : Exists(n) /\ traceref(n).pc = pc
                             /\ bc[pc].op = J THEN Plain ELSE bc[pc]]
  /\ head' = [head EXCEPT ![p] = 0]

InTable == {trace[n] : n \in TraceNo} \intersect Tr

\* All roots are unpatched and unlinked, every trace loses its number and its
\* link, and the machine code is gone.
lj_trace_flushall ==
  /\ bc' = [pc \in PC |-> IF bc[pc].op = J /\ \E n \in TraceNo : Exists(n)
                             /\ IsRoot(traceref(n)) /\ traceref(n).pc = pc
                          THEN Plain ELSE bc[pc]]
  /\ head' = [p \in Proto |-> 0]
  /\ obj' = [t \in Tr |-> IF t \in InTable THEN [obj[t] EXCEPT !.no = 0, !.link = 0] ELSE obj[t]]
  /\ trace' = [n \in TraceNo |-> Nil]
  /\ cur' = [cur EXCEPT !.no = 0, !.link = IF \E n \in TraceNo : trace[n] = Cur THEN 0 ELSE @]
  /\ freetrace' = 0
  /\ penalty' = [i \in 0..PENALTY_SLOTS - 1 |-> [pc |-> Nil, val |-> 0]]
  /\ mcarea' = 0

lj_trace_reenableproto(B, p) ==
  IF p \in iloop
  THEN [pc \in PC |-> IF protoOf[pc] = p /\ B[pc].op = I THEN Plain ELSE B[pc]]
  ELSE B

-----------------------------------------------------------------------------
Init ==
  /\ bc = [pc \in PC |-> Plain]
  /\ nojit = {} /\ iloop = {}
  /\ head = [p \in Proto |-> 0]
  /\ trace = [n \in TraceNo |-> Nil] /\ sizetrace = 0 /\ freetrace = 0
  /\ obj = [t \in Tr |-> Free] /\ dead = {}
  /\ state = "IDLE" /\ jpc = [kind |-> "root", pt |-> Nil, pc |-> Nil] /\ err = Nil /\ parent = 0 /\ exitno = 0
  /\ cur = NewTrace(0, "root", CHOOSE p \in Proto : TRUE, Nil)
  /\ patch = Nil
  /\ penalty = [i \in 0..PENALTY_SLOTS - 1 |-> [pc |-> Nil, val |-> 0]] /\ penaltyslot = 0
  /\ mcarea = 0 /\ unroll = 0
  /\ run = Nil /\ conts = {}

\* A NULL pointer is dereferenced.
Crash == state' = "CRASH" /\ UNCHANGED <<codeVars, tableVars, dead, recVars, penVars, mcarea,
                                         run, conts>>

-----------------------------------------------------------------------------
(* Starting a trace                                                        *)

\* Mutant: one number too many.
trace_findfree_more ==
  LET last == Larger(Larger(freetrace, 1), sizetrace)
  IN  [no |-> last, next |-> last, size |-> Larger(2 * sizetrace, minvec)]

\* The free number, or 0, and the fields that the search leaves behind.
trace_findfree ==
  LET from == Larger(freetrace, 1)
      free == {n \in from..sizetrace - 1 : trace[n] = Nil}
      lim == maxtrace + 1
      last == Larger(from, sizetrace)
      grown == Smaller(Larger(2 * sizetrace, minvec), lim)
  IN  IF free # {} THEN [no |-> LeastOf(free), next |-> LeastOf(free) + 1, size |-> sizetrace]
      ELSE IF sizetrace >= lim THEN [no |-> 0, next |-> last, size |-> sizetrace]
      ELSE [no |-> last, next |-> last, size |-> grown]

\* The root of a side trace and whether it is only worth an exit to the interpreter.
RootOf(par) == IF traceref(par).root # 0 THEN traceref(par).root ELSE par
GivesUp(par) ==
  \/ traceref(RootOf(par)).nchild >= maxside
  \/ traceref(par).count >= hotexit + tryside

\* Bound: there is an object left for the trace.
RoomForTrace == \E t \in Tr : obj[t] = Free

\* A hotcount of the interpreter.
lj_trace_hot(pc) ==
  /\ run = Nil /\ state = "IDLE" /\ RoomForTrace
  /\ pc \in Loop \union Func /\ bc[pc].op = 0
  /\ parent' = 0 /\ exitno' = 0
  /\ jpc' = [kind |-> "root", pt |-> protoOf[pc], pc |-> pc]
  /\ state' = "START"
  /\ UNCHANGED <<codeVars, tableVars, dead, err, cur, patch, unroll, penVars, mcarea, run, conts>>

\* lj_record_setup: a side trace whose parent has gone is a NULL pointer.
lj_record_setup(T) ==
  IF T.kind # "side" THEN cur' = T /\ state' = "RECORD"
  ELSE IF ~Exists(parent) \/ ~Exists(RootOf(parent)) THEN cur' = T /\ state' = "CRASH"
  ELSE /\ cur' = [T EXCEPT !.root = RootOf(parent),
                           !.ltype = IF GivesUp(parent) THEN "interp" ELSE "none"]
       /\ state' = IF GivesUp(parent) THEN "END" ELSE "RECORD"

\* A hot loop of a prototype without JIT lazily becomes an I instruction.
NoJIT ==
  /\ jpc.pt \in nojit
  /\ IF parent = 0 /\ exitno = 0
     THEN bc' = [bc EXCEPT ![jpc.pc].op = @ + I] /\ iloop' = iloop \union {jpc.pt}
     ELSE UNCHANGED <<bc, iloop>>
  /\ UNCHANGED <<nojit, head, tableVars, cur, patch, unroll, penVars, mcarea>>

NoFreeTrace ==
  /\ jpc.pt \notin nojit /\ trace_findfree.no = 0
  /\ lj_trace_flushall
  /\ UNCHANGED <<nojit, iloop, sizetrace, patch, unroll, penaltyslot>>

\* The side trace may begin at a patched return x: the end of lj_trace_exit
\* unpatches it until its second instruction.
StartTrace(x) ==
  LET f == trace_findfree
  IN  /\ jpc.pt \notin nojit /\ f.no # 0
      /\ freetrace' = f.next /\ sizetrace' = f.size
      /\ trace' = [trace EXCEPT ![f.no] = Cur]
      /\ unroll' = maxunroll
      /\ lj_record_setup(NewTrace(f.no, jpc.kind, jpc.pt, jpc.pc))
      /\ IF x # Nil /\ state' = "RECORD"
         THEN patch' = [pc |-> x, ins |-> bc[x], skip |-> TRUE] /\ bc' = [bc EXCEPT ![x] = Plain]
         ELSE UNCHANGED <<patch, bc>>
      /\ UNCHANGED <<nojit, iloop, head, obj, penVars, mcarea>>

trace_start ==
  /\ state = "START"
  /\ \/ (NoJIT \/ NoFreeTrace) /\ state' = "IDLE"
     \/ \E x \in {Nil} \union (IF jpc.kind = "side" THEN {r \in Ret : bc[r].op = J} ELSE {}) :
          StartTrace(x)
  /\ UNCHANGED <<dead, err, parent, exitno, jpc, run, conts>>

-----------------------------------------------------------------------------
(* Recording                                                               *)

\* The bytecode once trace_pendpatch is done.
Repatched == IF patch = Nil THEN bc ELSE [bc EXCEPT ![patch.pc] = patch.ins]
Pended == IF patch = Nil \/ patch.skip THEN bc ELSE Repatched
PendedPatch == IF patch = Nil \/ ~patch.skip THEN Nil ELSE [patch EXCEPT !.skip = FALSE]

recFrame == <<nojit, iloop, tableVars, dead, parent, exitno, unroll, penVars, mcarea, run, conts>>

\* An instruction is recorded and nothing else happens.
lj_record_ins ==
  /\ state = "RECORD" /\ patch # Nil
  /\ bc' = Pended /\ patch' = PendedPatch
  /\ UNCHANGED <<recFrame, head, state, err, cur, jpc>>

\* Where a recording may end, and the trace it then jumps to: itself, a loop
\* or a function that is compiled already, or none.
StopLinks ==
  {<<"return", 0>>}
    \union (IF cur.kind # "stitch" THEN {<<"loop", cur.no>>} ELSE {})
    \union (IF "stitch" \in Ops THEN {<<"stitch", 0>>} ELSE {})
    \union {<<"root", Pended[pc].d>> : pc \in
              {x \in PC : /\ Pended[x].op = J
                          /\ x \in Ret => parent # 0 \/ exitno # 0
                          /\ x \in Func => traceref(Pended[x].d).ltype # "return"}}

lj_record_stop ==
  /\ state = "RECORD"
  /\ \E l \in StopLinks :
       cur' = [cur EXCEPT !.ltype = l[1], !.link = l[2]]
  /\ bc' = Pended /\ patch' = PendedPatch
  /\ state' = "END"
  /\ UNCHANGED <<recFrame, head, err, jpc>>

\* A compiled function that only returns: it is unpatched for one instruction.
rec_func_jit(pc) ==
  /\ state = "RECORD" /\ PendedPatch = Nil
  /\ pc \in Func /\ Pended[pc].op = J
  /\ traceref(Pended[pc].d).ltype = "return"
  /\ patch' = [pc |-> pc, ins |-> Pended[pc], skip |-> FALSE]
  /\ bc' = [Pended EXCEPT ![pc] = Plain]
  /\ UNCHANGED <<recFrame, head, state, err, cur, jpc>>

\* ... or its trace is flushed, if it was called too often in this recording.
check_call_unroll(pc) ==
  /\ state = "RECORD" /\ patch = Nil
  /\ pc \in Func /\ bc[pc].op = J
  /\ traceref(bc[pc].d).ltype = "return"
  /\ lj_trace_flush(bc[pc].d)
  /\ state' = "ERR" /\ err' = "RECERR"
  /\ UNCHANGED <<nojit, iloop, trace, sizetrace, freetrace, dead, parent, exitno, cur, jpc, patch,
                 unroll, penVars, mcarea, run, conts>>

\* The recorder gives up, for good or (LUAJIT_ENABLE_TABLE_BUMP) to start again
\* at once, or it finds a down-recursion at a return to a lower frame: not
\* where this recording started.
lj_trace_err ==
  /\ state = "RECORD"
  /\ \/ err' \in {"RECERR", "RETRY"} /\ UNCHANGED jpc
     \/ /\ "downrec" \in Ops /\ cur.kind # "root" /\ err' = "DOWNREC"
        /\ \E pc \in Ret : /\ pc # cur.pc /\ Pended[pc].op = 0 /\ protoOf[pc] \notin nojit
                           /\ jpc' = [kind |-> "ret", pt |-> protoOf[pc], pc |-> pc]
  /\ bc' = Pended /\ patch' = PendedPatch
  /\ state' = "ERR"
  /\ UNCHANGED <<recFrame, head, cur>>

\* A hook, a finalizer, a callback or an error: the recorder notices at the
\* next instruction.
lj_trace_abort ==
  /\ state = "RECORD"
  /\ state' = "ABORTED"
  /\ UNCHANGED <<codeVars, tableVars, dead, recVars, penVars, mcarea, run, conts>>

-----------------------------------------------------------------------------
(* The end of a recording: optimization, assembly, trace_stop              *)

asmFrame == <<nojit, iloop, trace, sizetrace, freetrace, dead, jpc, parent, exitno, penVars, run, conts>>

\* Mutant: J->instunroll is not counted down.
lj_opt_loop_again ==
  /\ state = "END"
  /\ bc' = Repatched /\ patch' = Nil
  /\ cur' = [cur EXCEPT !.link = 0, !.ltype = "none"]
  /\ state' = "RECORD"
  /\ UNCHANGED <<asmFrame, head, obj, mcarea, unroll, err>>

\* A loop that cannot be optimized is unrolled: recording goes on.
lj_opt_loop ==
  /\ state = "END"
  /\ bc' = Repatched /\ patch' = Nil
  /\ \/ state' = "ASM" /\ UNCHANGED <<cur, unroll, err>>
     \/ state' = "ERR" /\ err' = "RECERR" /\ UNCHANGED <<cur, unroll>>
     \/ /\ cur.ltype = "loop" /\ unroll > 0
        /\ cur' = [cur EXCEPT !.link = 0, !.ltype = "none"]
        /\ unroll' = unroll - 1
        /\ state' = "RECORD" /\ UNCHANGED err
  /\ UNCHANGED <<asmFrame, head, obj, mcarea>>

\* The code does not fit: with a new area trace_abort tries again, without
\* one it flushes all traces.  Or there is another error.
lj_asm_error ==
  /\ state = "ASM"
  /\ \/ mcarea < maxmcode /\ mcarea' = mcarea + 1 /\ err' = "MCODELM"
     \/ mcarea >= maxmcode /\ err' = "MCODEAL" /\ UNCHANGED mcarea
     \/ err' = "RECERR" /\ UNCHANGED mcarea
  /\ state' = "ERR"
  /\ UNCHANGED <<asmFrame, bc, head, obj, cur, patch, unroll>>

\* The machine code jumps to itself or to the trace that it links to.
TailOf(o) ==
  IF cur.ltype = "loop" THEN o ELSE IF cur.link = 0 THEN Nil ELSE trace[cur.link]

\* Mutant: pt->trace is set first.
NextRoot_after(T) == T.no

\* The rest of the chain of root traces.
NextRoot(T) == head[T.pt]

\* trace_stop and trace_save: bytecode, exit or link is patched for object o.
trace_stop(o) ==
  LET T == [cur EXCEPT !.to = TailOf(o)]
      saved(f) == [f EXCEPT ![o] = IF IsRoot(cur)
                                   THEN [T EXCEPT !.nextroot = NextRoot(T)]
                                   ELSE IF cur.kind = "side"
                                   THEN [T EXCEPT !.nextside = traceref(T.root).nextside] ELSE T]
  IN  /\ state = "ASM" /\ obj[o] = Free
      /\ IF \/ cur.kind = "side" /\ ~(Exists(parent) /\ Exists(T.root))
            \/ cur.kind = "stitch" /\ ~Exists(exitno)
         THEN Crash
         ELSE /\ CASE IsRoot(cur) ->
                       /\ bc' = [bc EXCEPT ![T.pc] = [op |-> J, d |-> T.no]]
                       /\ head' = [head EXCEPT ![T.pt] = T.no]
                       /\ obj' = saved(obj)
                  [] cur.kind = "side" ->
                       /\ obj' = saved([t \in Tr |->
                            IF t \notin {trace[parent], trace[T.root]} THEN obj[t]
                            ELSE [obj[t] EXCEPT
                              !.branch = IF t = trace[parent] THEN o ELSE @,
                              !.count = IF t = trace[parent] THEN SNAPCOUNT_DONE ELSE @,
                              !.nextside = IF t = trace[T.root] THEN T.no ELSE @,
                              !.nchild = IF t = trace[T.root] THEN @ + 1 ELSE @]])
                       /\ UNCHANGED <<bc, head>>
                  [] cur.kind = "stitch" ->
                       /\ obj' = saved([obj EXCEPT ![trace[exitno]].link = T.no])
                       /\ UNCHANGED <<bc, head>>
              /\ trace' = [trace EXCEPT ![T.no] = o]
              /\ cur' = [cur EXCEPT !.no = 0]
              /\ state' = "IDLE"
              /\ UNCHANGED <<nojit, iloop, sizetrace, freetrace, dead, jpc, err, parent, exitno,
                             patch, unroll, penVars, mcarea, run, conts>>

-----------------------------------------------------------------------------
(* The end of a recording that failed                                      *)

SlotsOf(pc) == {i \in 0..PENALTY_SLOTS - 1 : penalty[i].pc = pc}

\* Each failure doubles the penalty; then the instruction is blacklisted.
penalty_pc(B, pc) ==
  IF SlotsOf(pc) = {}
  THEN /\ penalty' = [penalty EXCEPT ![penaltyslot] = [pc |-> pc, val |-> 0]]
       /\ penaltyslot' = (penaltyslot + 1) % PENALTY_SLOTS
       /\ bc' = B /\ UNCHANGED iloop
  ELSE LET i == LeastOf(SlotsOf(pc))
       IN  IF penalty[i].val < PENALTY_MAX
           THEN /\ penalty' = [penalty EXCEPT ![i].val = @ + 1]
                /\ bc' = B /\ UNCHANGED <<iloop, penaltyslot>>
           ELSE /\ bc' = [B EXCEPT ![pc].op = @ + I]
                /\ iloop' = iloop \union {protoOf[pc]}
                /\ UNCHANGED penVars

Aborted == IF state = "ABORTED" THEN "RECERR" ELSE err

\* A root trace is penalized, unless it shall be recorded again; a link that
\* shall be stitched is blacklisted.
Penalize ==
  LET isroot == parent = 0 /\ cur.kind # "ret"
  IN  \/ /\ isroot => exitno = 0 /\ Aborted = "RETRY"
         /\ bc' = Repatched /\ UNCHANGED <<iloop, penVars, obj>>
      \/ /\ isroot /\ exitno = 0 /\ Aborted # "RETRY"
         /\ penalty_pc(Repatched, cur.pc) /\ UNCHANGED obj
      \/ /\ isroot /\ exitno # 0
         /\ obj' = [obj EXCEPT ![trace[exitno]].link = exitno]
         /\ bc' = Repatched /\ UNCHANGED <<iloop, penVars>>

\* Mutant: the search for a free number does not go back.
DropCur_forward ==
  /\ cur' = [cur EXCEPT !.no = 0, !.link = 0, !.ltype = "none"]
  /\ trace' = [n \in TraceNo |-> IF n = cur.no THEN Nil ELSE trace[n]]
  /\ UNCHANGED freetrace

\* The number of the current trace is free again.
DropCur ==
  /\ cur' = [cur EXCEPT !.no = 0, !.link = 0, !.ltype = "none"]
  /\ trace' = [n \in TraceNo |-> IF n = cur.no THEN Nil ELSE trace[n]]
  /\ freetrace' = IF cur.no # 0 THEN Smaller(cur.no, freetrace) ELSE freetrace

trace_abort ==
  /\ state \in {"ERR", "ABORTED"} /\ run = Nil
  /\ \/ /\ Aborted = "MCODELM"
        /\ state' = "ASM"
        /\ UNCHANGED <<bc, iloop, obj, trace, freetrace, cur, penVars, patch>>
     \/ /\ Aborted # "MCODELM" /\ (parent = 0 /\ cur.kind # "ret" /\ exitno # 0 => Exists(exitno))
        /\ Penalize /\ DropCur /\ patch' = Nil
        /\ state' = IF Aborted \in {"DOWNREC", "MCODEAL"} THEN Aborted ELSE "IDLE"
     \/ /\ Aborted # "MCODELM" /\ parent = 0 /\ cur.kind # "ret" /\ exitno # 0 /\ ~Exists(exitno)
        /\ state' = "CRASH"
        /\ UNCHANGED <<bc, iloop, obj, trace, freetrace, cur, penVars, patch>>
  /\ UNCHANGED <<nojit, head, sizetrace, dead, jpc, err, parent, exitno, unroll, mcarea, run, conts>>

\* A new root trace starts at the return instruction.  The number that the
\* aborted trace had is free.
trace_downrec ==
  /\ state = "DOWNREC"
  /\ parent' = 0 /\ exitno' = 0
  /\ StartTrace(Nil)
  /\ UNCHANGED <<dead, jpc, err, run, conts>>

MCodeFlush ==
  /\ state = "MCODEAL"
  /\ lj_trace_flushall
  /\ state' = "IDLE"
  /\ UNCHANGED <<nojit, iloop, sizetrace, dead, jpc, err, parent, exitno, patch, unroll, penaltyslot,
                 run, conts>>

-----------------------------------------------------------------------------
(* Running traces                                                          *)

runFrame == <<codeVars, tableVars, dead, recVars, penVars, mcarea>>

\* BC_JLOOP and the like: J->trace[d]->mcode.
EnterTrace(pc) ==
  /\ run = Nil /\ state = "IDLE"
  /\ bc[pc].op = J
  /\ IF Exists(bc[pc].d) THEN run' = trace[bc[pc].d] /\ UNCHANGED state
     ELSE state' = "CRASH" /\ UNCHANGED run
  /\ UNCHANGED <<runFrame, conts>>

\* Machine code jumps to machine code: at the tail, or at a patched exit.
JumpOn ==
  /\ run # Nil /\ obj[run] # Free
  /\ run' \in {obj[run].to, obj[run].branch} \ {Nil}
  /\ UNCHANGED <<runFrame, state, conts>>

\* The tail of a trace returns to the interpreter, or calls a function below
\* a continuation frame that holds the trace.
LeaveTrace ==
  /\ run # Nil /\ obj[run] # Free
  /\ obj[run].to = Nil
  /\ run' = Nil
  /\ conts' = IF obj[run].ltype = "stitch" THEN conts \union {run} ELSE conts
  /\ UNCHANGED <<runFrame, state>>

\* The exit that is not patched is taken: nothing else happens inside a
\* profiler hook and while the collector waits for the trace to end.
lj_trace_exit ==
  /\ run # Nil /\ obj[run] # Free
  /\ obj[run].branch = Nil
  /\ parent' = obj[run].no /\ exitno' = 0
  /\ run' = Nil
  /\ UNCHANGED <<codeVars, tableVars, dead, state, jpc, err, cur, patch, unroll, penVars, mcarea,
                 conts>>

\* ... or the exit is counted and, hot, starts a side trace in prototype p.
trace_hotside(p) ==
  /\ run # Nil /\ obj[run] # Free /\ RoomForTrace
  /\ obj[run].branch = Nil /\ obj[run].count # SNAPCOUNT_DONE
  /\ parent' = obj[run].no /\ exitno' = 0
  /\ obj' = [obj EXCEPT ![run].count = @ + 1]
  /\ IF obj[run].count + 1 < hotexit THEN UNCHANGED <<state, jpc>>
     ELSE state' = "START" /\ jpc' = [kind |-> "side", pt |-> p, pc |-> Nil]
  /\ run' = Nil
  /\ UNCHANGED <<codeVars, trace, sizetrace, freetrace, dead, err, cur, patch, unroll, penVars,
                 mcarea, conts>>

\* The call below trace t has returned; another frame may hold t, too.  The
\* linked trace is entered by its number, whatever the state is, or t is
\* blacklisted, or a new trace starts that t shall link to.  None starts
\* inside a finalizer or the handler of a VM event.  An error that is caught
\* below the frame gets here before the recorder notices it.
lj_cont_stitch(t, p) ==
  /\ t \in conts /\ run = Nil /\ obj[t] # Free
  /\ state = "IDLE" \/ ("throw" \in Ops /\ state = "ABORTED")
  /\ conts' \in {conts, conts \ {t}}
  /\ \/ /\ obj[t].link = obj[t].no
        /\ UNCHANGED <<run, state, jpc, parent, exitno>>
     \/ /\ obj[t].link # obj[t].no /\ obj[t].link # 0
        /\ IF Exists(obj[t].link) THEN run' = trace[obj[t].link] /\ UNCHANGED state
           ELSE state' = "CRASH" /\ UNCHANGED run
        /\ UNCHANGED <<jpc, parent, exitno>>
     \/ /\ obj[t].link # obj[t].no /\ obj[t].link = 0
        /\ exitno' = obj[t].no
        /\ \/ UNCHANGED <<state, jpc, parent>>
           \/ /\ state = "IDLE" /\ RoomForTrace
              /\ parent' = 0
              /\ jpc' = [kind |-> "stitch", pt |-> p, pc |-> Nil]
              /\ state' = "START"
        /\ UNCHANGED run
  /\ UNCHANGED <<codeVars, tableVars, dead, err, cur, patch, unroll, penVars, mcarea>>

\* An error is caught above the continuation frame.
Unwind(t) ==
  /\ t \in conts /\ run = Nil /\ state \in {"IDLE", "ABORTED"}
  /\ conts' = conts \ {t}
  /\ UNCHANGED <<runFrame, state, run>>

-----------------------------------------------------------------------------
(* The host program: jit.flush, jit.on, jit.off                            *)

\* Lua code calls these while nothing is recorded, because a recording ends before the
\* call, and lj_trace_abort() has nothing to abort.  A hook written in C that calls them
\* in the middle of a recording is not modelled.
Calls ==
  run = Nil /\ state = "IDLE"

FlushAll ==
  /\ "flushall" \in Ops /\ Calls
  /\ lj_trace_flushall
  /\ state' = state
  /\ UNCHANGED <<nojit, iloop, sizetrace, dead, jpc, err, parent, exitno, patch, unroll,
                 penaltyslot, run, conts>>

FlushTrace(n) ==
  /\ "flush" \in Ops /\ Calls
  /\ lj_trace_flush(n)
  /\ state' = state
  /\ UNCHANGED <<nojit, iloop, trace, sizetrace, freetrace, dead, recVars, penVars, mcarea, run,
                 conts>>

\* jit.on(f), jit.off(f), jit.flush(f)
setptmode(p, mode) ==
  /\ "mode" \in Ops /\ Calls
  /\ \/ /\ mode = "on"
        /\ nojit' = nojit \ {p} /\ iloop' = iloop \ {p}
        /\ bc' = lj_trace_reenableproto(bc, p)
        /\ UNCHANGED head
     \/ /\ mode \in {"off", "flush"}
        /\ nojit' = IF mode = "off" THEN nojit \union {p} ELSE nojit
        /\ lj_trace_flushproto(p)
        /\ UNCHANGED iloop
  /\ state' = state
  /\ UNCHANGED <<tableVars, dead, recVars, penVars, mcarea, run, conts>>

-----------------------------------------------------------------------------
(* The collector                                                           *)

\* Mutants: the chain, the link or the side traces are not marked.
Marks_noside(T) ==
  IF T.no = 0 THEN {} ELSE {trace[n] : n \in {T.link, T.nextroot, head[T.pt]} \ {0}}
Marks_nochain(T) ==
  IF T.no = 0 THEN {} ELSE {trace[n] : n \in {T.link, T.nextside, head[T.pt]} \ {0}}
Marks_nolink(T) ==
  IF T.no = 0 THEN {} ELSE {trace[n] : n \in {T.nextroot, T.nextside, head[T.pt]} \ {0}}

\* What gc_traverse_trace marks: nothing once all traces were flushed.
Marks(T) ==
  IF T.no = 0 THEN {}
  ELSE {trace[n] : n \in {T.link, T.nextroot, T.nextside, head[T.pt]} \ {0}}

\* What keeps traces alive when those in D are freed.
MarkedBut(D) ==
  conts \union {trace[n] : n \in {head[p] : p \in Proto} \ {0}} \union Marks(cur)
    \union UNION {Marks(obj[t]) : t \in {u \in Tr \ D : obj[u] # Free}}

\* Mutant: the collector does not wait for the trace to end.
GCAtomic_ontrace ==
  /\ state \in {"IDLE", "RECORD", "ABORTED"} /\ dead = {}
  /\ dead' \in {D \in (SUBSET {t \in Tr : obj[t] # Free}) \ {{}} : MarkedBut(D) \intersect D = {}}
  /\ UNCHANGED <<codeVars, tableVars, state, recVars, penVars, mcarea, run, conts>>

\* atomic(), which does not run while machine code runs: traces that nothing
\* marks are going to be freed.  Others that nothing marks any more may stay.
GCAtomic ==
  /\ run = Nil /\ state \in {"IDLE", "RECORD", "ABORTED"} /\ dead = {}
  /\ dead' \in {D \in (SUBSET {t \in Tr : obj[t] # Free}) \ {{}} : MarkedBut(D) \intersect D = {}}
  /\ UNCHANGED <<codeVars, tableVars, state, recVars, penVars, mcarea, run, conts>>

lj_trace_free(t) ==
  /\ t \in dead /\ state \in {"IDLE", "RECORD", "ABORTED"}
  /\ obj' = [obj EXCEPT ![t] = Free]
  /\ IF obj[t].no # 0
     THEN /\ freetrace' = Smaller(obj[t].no, freetrace)
          /\ trace' = [trace EXCEPT ![obj[t].no] = Nil]
     ELSE UNCHANGED <<freetrace, trace>>
  /\ dead' = dead \ {t}
  /\ UNCHANGED <<codeVars, sizetrace, state, recVars, penVars, mcarea, run, conts>>

-----------------------------------------------------------------------------
Compile ==
  \/ trace_start \/ lj_opt_loop \/ lj_asm_error \/ (\E o \in Tr : trace_stop(o))
  \/ trace_abort \/ trace_downrec \/ MCodeFlush
Record ==
  \/ lj_record_ins \/ lj_record_stop \/ lj_trace_err \/ lj_trace_abort
  \/ \E pc \in Func : rec_func_jit(pc) \/ check_call_unroll(pc)
Run ==
  \/ \E pc \in PC : EnterTrace(pc)
  \/ JumpOn \/ LeaveTrace \/ lj_trace_exit
  \/ \E p \in Proto : trace_hotside(p) \/ \E t \in Tr : lj_cont_stitch(t, p)
  \/ \E t \in Tr : Unwind(t)
Host ==
  \/ FlushAll
  \/ \E n \in TraceNo : FlushTrace(n)
  \/ \E p \in Proto, mode \in {"on", "off", "flush"} : setptmode(p, mode)
Collect == GCAtomic \/ \E t \in Tr : lj_trace_free(t)

Next ==
  \/ \E pc \in PC : lj_trace_hot(pc)
  \/ Compile \/ Record \/ Run \/ Host \/ Collect

Spec == Init /\ [][Next]_vars

\* lj_trace_ins runs the compiler until it waits for the next instruction.
\* The recorder may not continue for ever: JIT_P_maxrecord, JIT_P_maxirconst.
FairSpec ==
  /\ Spec
  /\ WF_vars(Compile)
  /\ WF_vars(lj_record_stop \/ lj_trace_err)

-----------------------------------------------------------------------------
(* Properties                                                              *)

TypeOK ==
  /\ bc \in [PC -> [op : 0..2, d : 0..maxtrace]]
  /\ \A pc \in Ret : bc[pc].op # I
  /\ nojit \subseteq Proto /\ iloop \subseteq Proto
  /\ head \in [Proto -> 0..maxtrace]
  /\ trace \in [TraceNo -> Tr \union {Nil, Cur}]
  /\ sizetrace \in 0..maxtrace + 1 /\ freetrace \in 0..maxtrace + 1
  /\ \A t \in Tr : obj[t] \in Trace \union {Free}
  /\ dead \subseteq Tr /\ conts \subseteq Tr /\ run \in Tr \union {Nil}
  /\ state \in States /\ cur \in Trace
  /\ parent \in 0..maxtrace /\ exitno \in 0..maxtrace
  /\ patch \in Pending \union {Nil}
  /\ penalty \in [0..PENALTY_SLOTS - 1 -> [pc : PC \union {Nil}, val : 0..PENALTY_MAX]]
  /\ penaltyslot \in 0..PENALTY_SLOTS - 1
  /\ mcarea \in 0..maxmcode /\ unroll \in 0..maxunroll

Live == {t \in Tr : obj[t] # Free} \ dead

\* A patched instruction, or the one that will be patched back, enters a root
\* trace that started there, and jit.off() finds that trace in the chain.
\* BC_JLOOP loads J->trace[d]->mcode without a test.
PatchedEntersTrace ==
  \A pc \in PC : LET ins == Repatched[pc] IN
    ins.op = J =>
      /\ Saved(ins.d) /\ trace[ins.d] \in Live
      /\ traceref(ins.d).pc = pc
      /\ ins.d \in Chain(protoOf[pc])

\* Every number that a trace, a prototype or the collector follows names a
\* trace that is not about to be freed: the link, the rest of the chain of root
\* traces and, from every root, the chain of its side traces.
IsLive(n) == Saved(n) /\ trace[n] \in Live
Sides(S) ==
  \A t \in S : obj[t].no # 0 /\ obj[t].nextside # 0 =>
                IsLive(obj[t].nextside) /\ trace[obj[t].nextside] \in S
NumbersAreLive ==
  /\ \A n \in TraceNo : Saved(n) => traceref(n).no = n
  /\ \A p \in Proto : head[p] # 0 => IsLive(head[p])
  /\ \A t \in Live : obj[t].no # 0 =>
       /\ trace[obj[t].no] = t
       /\ \A n \in {obj[t].link, obj[t].nextroot} \ {0} : IsLive(n)
  /\ \E S \in SUBSET Live : {t \in Live : obj[t].root = 0} \subseteq S /\ Sides(S)

\* Machine code that runs, or that bytecode, a continuation frame or other
\* such code can get to, belongs to a trace that is not about to be freed, and
\* lj_trace_exit finds that trace by its number.
Entries ==
  LET held == {t \in conts : obj[t] # Free /\ obj[t].link # obj[t].no}
      numbers == {bc[pc].d : pc \in PC} \union {obj[t].link : t \in held}
  IN  {trace[n] : n \in numbers \ {0}} \union {run}
JumpsFrom(S) ==
  Tr \intersect UNION {{obj[t].to, obj[t].branch} : t \in {u \in S : obj[u] # Free}}
CodeIsLive ==
  LET jumps[i \in 0..Cardinality(Tr)] ==
        IF i = 0 THEN Entries \intersect Tr ELSE jumps[i - 1] \union JumpsFrom(jumps[i - 1])
  IN  \A t \in jumps[Cardinality(Tr)] : t \in Live /\ trace[obj[t].no] = t

\* The chain of a prototype ends, and holds root traces of that prototype.
ChainsAreRoots ==
  \A p \in Proto :
    /\ Walk(p)[maxtrace] = 0
    /\ \A n \in Chain(p) : Saved(n) /\ traceref(n).root = 0 /\ traceref(n).pt = p
                              /\ IsRoot(traceref(n))

\* J->cur has a number while it is recorded, and only then; no number below
\* freetrace is free, so none is lost.
TraceNumbers ==
  /\ \A n \in TraceNo : trace[n] = Cur <=> cur.no = n
  /\ state \in {"RECORD", "END", "ASM"} => cur.no # 0
  /\ state \in {"IDLE", "START"} => cur.no = 0 /\ patch = Nil
  /\ \A n \in TraceNo : n < freetrace => trace[n] # Nil

\* After jit.off(f) no bytecode of f enters a trace until jit.on(f).
OffIsOff == \A pc \in PC : protoOf[pc] \in nojit => Repatched[pc].op # J

\* Every recording ends, with a trace or without; at a down-recursion the next
\* one starts at once.
RecordingEnds == (state # "IDLE") ~> (state \in {"IDLE", "DOWNREC"})

\* trace_hotside: "lua_assert(J->state == LJ_TRACE_IDLE)".
StartsIdle == [][\A p \in Proto : trace_hotside(p) /\ state' = "START" => state = "IDLE"]_vars

\* No number that the compiler, a patched instruction or a continuation frame
\* looks up leads to NULL: the parent and the root of a side trace are there
\* when lj_record_setup and trace_stop read them.  With stitched traces this is
\* false: nothing keeps the trace in J->exitno.
NoCrash == state # "CRASH"
=============================================================================
