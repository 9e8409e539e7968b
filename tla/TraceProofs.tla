----------------------------- MODULE TraceProofs -----------------------------
(***************************************************************************)
(* Theorems about Trace: for all programs, tables of traces, limits and    *)
(* penalties, and whatever the host program does, except for errors that   *)
(* are caught below a stitched call ("throw"), after which the recorder    *)
(* itself is wrong.                                                        *)
(***************************************************************************)
EXTENDS Trace, Numbers, FiniteSetTheorems

Busy == {"RECORD", "END", "ASM", "ERR", "ABORTED"}
Quiet == {"IDLE", "START", "DOWNREC", "MCODEAL"}
Errors == {"RECERR", "RETRY", "DOWNREC", "MCODELM", "MCODEAL"}
Starts == [kind : Kinds, pt : Proto \union {Nil}, pc : PC \union {Nil}]

TraceType ==
  /\ TypeOK
  /\ obj \in [Tr -> Trace \union {Free}]
  /\ jpc \in Starts
  /\ err \in Errors \union {Nil}

-----------------------------------------------------------------------------
(* The invariant.                                                          *)

\* The vector of traces grows before it is full.
Room ==
  /\ sizetrace = 0 \/ sizetrace > 1
  /\ freetrace <= sizetrace
  /\ \A n \in TraceNo : trace[n] # Nil => n < sizetrace
  /\ \A n \in TraceNo : n < freetrace => trace[n] # Nil

\* An object with a number is in the table there, even if it is about to be
\* freed.
Numbered ==
  /\ \A t \in Tr : obj[t] # Free /\ obj[t].no # 0 => trace[obj[t].no] = t
  /\ \A n \in TraceNo : trace[n] \in Tr => obj[trace[n]] # Free /\ obj[trace[n]].no = n
  /\ \A t \in dead : obj[t] # Free
  /\ \A n \in TraceNo : trace[n] = Cur <=> cur.no = n

\* What lj_trace_hot, trace_hotside and lj_cont_stitch left for trace_start,
\* and a down-recursion for trace_downrec.
Started ==
  /\ state = "START" =>
       /\ jpc.pt \in Proto
       /\ \/ /\ jpc.kind = "root" /\ parent = 0 /\ exitno = 0
             /\ jpc.pc \in Loop \union Func /\ bc[jpc.pc].op = 0 /\ jpc.pt = protoOf[jpc.pc]
          \/ jpc.kind = "side" /\ jpc.pc = Nil /\ exitno = 0
          \/ jpc.kind = "stitch" /\ jpc.pc = Nil /\ parent = 0 /\ exitno # 0
  /\ state = "DOWNREC" \/ (state = "ERR" /\ err = "DOWNREC") =>
       jpc.kind = "ret" /\ jpc.pc \in Ret /\ jpc.pt = protoOf[jpc.pc]

\* The trace that is compiled is one of the four kinds, and the instruction
\* where a root trace starts is not patched.
Compiled ==
  state \in Busy =>
    /\ cur.no # 0
    /\ \/ /\ cur.kind = "root" /\ parent = 0 /\ exitno = 0 /\ cur.pc \in Loop \union Func
          /\ Repatched[cur.pc].op = 0
       \/ cur.kind = "ret" /\ parent = 0 /\ exitno = 0 /\ cur.pc \in Ret
       \/ cur.kind = "side" /\ parent # 0 /\ exitno = 0 /\ cur.pc = Nil /\ cur.root # 0
       \/ cur.kind = "stitch" /\ parent = 0 /\ exitno # 0 /\ cur.pc = Nil
    /\ IsRoot(cur) => cur.pt = protoOf[cur.pc] /\ cur.pt \notin nojit
    /\ cur.kind # "side" => cur.root = 0
    /\ cur.nextroot = 0 /\ cur.nextside = 0 /\ cur.to = Nil /\ cur.branch = Nil

\* Nothing is pending outside a recording, nor once the trace is assembled.
PatchPending ==
  /\ state \in Quiet => cur.no = 0 /\ patch = Nil
  /\ state = "ASM" \/ (state = "ERR" /\ err = "MCODELM") => patch = Nil
  /\ patch # Nil => bc[patch.pc] = Plain
  /\ run # Nil => state = "IDLE"

\* The link of the trace that is compiled is known when its recording ends.
LinkKnown ==
  state \in Busy =>
    /\ state \in {"RECORD", "ABORTED"} => cur.link = 0
    /\ cur.link = 0 \/ cur.link = cur.no \/ IsLive(cur.link)
    /\ cur.link = cur.no <=> cur.ltype = "loop"

\* The chain of a prototype: root traces of the prototype that end somewhere.
RootAt(n, p) == IsLive(n) /\ IsRoot(obj[trace[n]]) /\ obj[trace[n]].pt = p
Roots ==
  /\ \A p \in Proto : head[p] # 0 => RootAt(head[p], p)
  /\ \A t \in Live : obj[t].no # 0 /\ obj[t].nextroot # 0 =>
       IsRoot(obj[t]) /\ RootAt(obj[t].nextroot, obj[t].pt)
  /\ \A t \in Tr : obj[t] # Free /\ IsRoot(obj[t]) => obj[t].root = 0
LiveNumbers == {n \in TraceNo : IsLive(n)}
NoCycle ==
  \A S \in SUBSET LiveNumbers : S # {} => \E n \in S : obj[trace[n]].nextroot \notin S

LinksLive == \A t \in Live : obj[t].no # 0 /\ obj[t].link # 0 => IsLive(obj[t].link)
SidesLive == \E S \in SUBSET Live : {t \in Live : obj[t].root = 0} \subseteq S /\ Sides(S)

\* What follows head[p] along nextroot, without a walk that counts its steps.
Closed(p, K) ==
  /\ head[p] # 0 => head[p] \in K
  /\ \A k \in K : Saved(k) /\ obj[trace[k]].nextroot # 0 => obj[trace[k]].nextroot \in K
InChain(n, p) == \A K \in SUBSET TraceNo : Closed(p, K) => n \in K

Patched ==
  \A pc \in PC : Repatched[pc].op = J =>
    /\ InChain(Repatched[pc].d, protoOf[pc])
    /\ obj[trace[Repatched[pc].d]].pc = pc

Table == Room /\ Numbered
Compiler == Started /\ Compiled /\ PatchPending /\ LinkKnown
Graph == Roots /\ NoCycle /\ LinksLive /\ SidesLive
Code == Patched /\ OffIsOff
TraceInv == TraceType /\ Table /\ Compiler /\ Graph /\ Code

-----------------------------------------------------------------------------
(* What the invariant says about single numbers.                           *)

\* A number in use is the one of a GCtrace or of the trace that is compiled.
LEMMA SavedNumbers ==
  ASSUME TraceType, Numbered
  PROVE  /\ \A n : Saved(n) <=> n \in TraceNo /\ trace[n] \in Tr
         /\ \A n : Saved(n) => /\ traceref(n) = obj[trace[n]]
                               /\ obj[trace[n]] \in Trace /\ obj[trace[n]].no = n
         /\ \A n : IsLive(n) => /\ n \in TraceNo /\ trace[n] \in Tr \ dead
                                /\ obj[trace[n]] \in Trace /\ obj[trace[n]].no = n
         /\ \A t \in Tr : obj[t] # Free => obj[t] \in Trace
         /\ \A t \in Live : t \in Tr /\ t \notin dead /\ obj[t] # Free /\ obj[t] \in Trace
<1>1. trace \in [TraceNo -> Tr \union {Nil, Cur}] /\ obj \in [Tr -> Trace \union {Free}]
  BY DEF TraceType, TypeOK
<1>2. Nil \notin Tr /\ Cur \notin Tr
  BY ConstantsOK, DistinctOK
<1>3. \A n : Saved(n) <=> n \in TraceNo /\ trace[n] \in Tr
  BY <1>1, <1>2 DEF Saved, Exists
<1>4. \A t \in Live : t \in Tr /\ t \notin dead /\ obj[t] # Free /\ obj[t] \in Trace
  BY <1>1 DEF Live
<1> QED BY <1>1, <1>2, <1>3, <1>4 DEF IsLive, traceref, Numbered, Saved

\* The numbers in a chain are those of root traces.
LEMMA ChainRoots ==
  ASSUME TraceType, Numbered, Roots, NEW p \in Proto, NEW n, InChain(n, p)
  PROVE  RootAt(n, p)
<1> DEFINE K == {k \in TraceNo : RootAt(k, p)}
<1>1. head[p] # 0 => head[p] \in K
  BY SavedNumbers DEF Roots, RootAt
<1>2. ASSUME NEW k \in K, obj[trace[k]].nextroot # 0
      PROVE  obj[trace[k]].nextroot \in K
  <2>1. trace[k] \in Live /\ obj[trace[k]].no # 0 /\ obj[trace[k]].pt = p
    BY SavedNumbers DEF RootAt, IsLive, TraceNo
  <2> QED BY <1>2, <2>1, SavedNumbers DEF Roots, RootAt
<1>3. Closed(p, K)
  BY <1>1, <1>2 DEF Closed
<1> QED BY <1>3 DEF InChain

\* Patched bytecode enters a root trace that is there.
LEMMA PatchedRoots ==
  ASSUME TraceInv, NEW pc \in PC, Repatched[pc].op = J
  PROVE  /\ Repatched[pc].d \in TraceNo /\ IsLive(Repatched[pc].d)
         /\ RootAt(Repatched[pc].d, protoOf[pc])
         /\ obj[trace[Repatched[pc].d]].pc = pc
<1>1. InChain(Repatched[pc].d, protoOf[pc]) /\ obj[trace[Repatched[pc].d]].pc = pc
  BY DEF TraceInv, Code, Patched
<1>2. RootAt(Repatched[pc].d, protoOf[pc])
  BY <1>1, ChainRoots, ConstantsOK DEF TraceInv, Table, Graph
<1> QED BY <1>1, <1>2, SavedNumbers DEF RootAt, TraceInv, Table

\* The bytecode with and without the instruction that is pending.
LEMMA Bytecode ==
  ASSUME TraceType, PatchPending
  PROVE  /\ bc \in [PC -> [op : 0..2, d : 0..maxtrace]]
         /\ Repatched \in [PC -> [op : 0..2, d : 0..maxtrace]]
         /\ Pended \in [PC -> [op : 0..2, d : 0..maxtrace]]
         /\ patch = Nil => Repatched = bc /\ Pended = bc
         /\ patch # Nil => /\ patch \in Pending
                           /\ Repatched = [bc EXCEPT ![patch.pc] = patch.ins]
                           /\ bc[patch.pc] = Plain
         /\ Pended \in {bc, Repatched}
         /\ \A pc \in PC : bc[pc].op = J => Repatched[pc] = bc[pc]
         /\ \A pc \in PC : Pended[pc].op = J => Repatched[pc] = Pended[pc]
         /\ \A pc \in Ret : Repatched[pc].op # I /\ Pended[pc].op # I
         /\ PendedPatch \in Pending \union {Nil}
<1>1. /\ bc \in [PC -> [op : 0..2, d : 0..maxtrace]]
      /\ patch \in Pending \union {Nil}
      /\ \A pc \in Ret : bc[pc].op # I
  BY DEF TraceType, TypeOK
<1>2. maxtrace \in Nat
  BY ConstantsOK
<1>3. patch # Nil => /\ patch.pc \in PC /\ patch.ins \in [op : 0..2, d : 0..maxtrace]
                     /\ patch.ins.op = J /\ patch.skip \in BOOLEAN
  BY <1>1, <1>2 DEF Pending, J, TraceNo
<1>4. patch # Nil => bc[patch.pc] = Plain
  BY DEF PatchPending
<1>5. Repatched \in [PC -> [op : 0..2, d : 0..maxtrace]]
  BY <1>1, <1>3 DEF Repatched
<1>6. Pended \in {bc, Repatched}
  BY DEF Pended
<1>7. \A pc \in PC : bc[pc].op = J => Repatched[pc] = bc[pc]
  BY <1>1, <1>3, <1>4 DEF Repatched, Plain, J
<1>8. \A pc \in Ret : Repatched[pc].op # I
  BY <1>1, <1>3 DEF Repatched, J, I, PC
<1>9. PendedPatch \in Pending \union {Nil}
  BY <1>1 DEF PendedPatch, Pending
<1> QED BY <1>1, <1>3, <1>4, <1>5, <1>6, <1>7, <1>8, <1>9 DEF Repatched, Pended

-----------------------------------------------------------------------------
(* Types.                                                                  *)

USE DEF codeVars, tableVars, penVars, recVars, recFrame, runFrame, asmFrame

\* The vector grows before the last number is given away.
LEMMA FreeNumber ==
  ASSUME TraceType, Room
  PROVE  /\ trace_findfree.no \in 0..maxtrace
         /\ trace_findfree.no # 0 =>
              /\ trace[trace_findfree.no] = Nil
              /\ trace_findfree.size \in 0..maxtrace + 1
              /\ trace_findfree.no < trace_findfree.size
              /\ trace_findfree.size > 1 /\ sizetrace <= trace_findfree.size
              /\ trace_findfree.next <= trace_findfree.size
              /\ trace_findfree.next \in 0..maxtrace + 1
              /\ \A n \in TraceNo : n < trace_findfree.next =>
                   n = trace_findfree.no \/ trace[n] # Nil
<1> DEFINE from == Larger(freetrace, 1)
           free == {n \in from..sizetrace - 1 : trace[n] = Nil}
           lim == maxtrace + 1
           last == Larger(from, sizetrace)
           grown == Smaller(Larger(2 * sizetrace, minvec), lim)
<1>1. /\ sizetrace \in 0..lim /\ freetrace \in 0..lim /\ maxtrace \in Nat /\ minvec \in Nat
      /\ trace \in [TraceNo -> Tr \union {Nil, Cur}]
      /\ maxtrace > 0 /\ minvec > 1
  BY ConstantsOK, SMTT(60) DEF TraceType, TypeOK
<1>2. /\ trace_findfree = IF free # {} THEN [no |-> LeastOf(free), next |-> LeastOf(free) + 1, size |-> sizetrace]
                          ELSE IF sizetrace >= lim THEN [no |-> 0, next |-> last, size |-> sizetrace]
                          ELSE [no |-> last, next |-> last, size |-> grown]
  BY DEF trace_findfree
<1>3. from \in 1..lim /\ from = (IF freetrace = 0 THEN 1 ELSE freetrace)
  BY <1>1 DEF Larger
<1>4. last \in 1..lim /\ last >= from /\ last >= sizetrace /\ (last = from \/ last = sizetrace)
  BY <1>1, <1>3 DEF Larger
<1>5. sizetrace < lim => grown \in 0..lim /\ grown > sizetrace /\ grown > 1 /\ grown > from
  BY <1>1, <1>3 DEF Larger, Smaller, Room
<1>6. \A n \in TraceNo : n < from => trace[n] # Nil
  BY <1>1, <1>3 DEF Room, TraceNo
<1> HIDE DEF from, last, grown
<1>7. CASE free # {}
  <2>1. free \in SUBSET Nat
    BY <1>1, <1>3
  <2>2. PICK m \in free : \A k \in free : m <= k
    BY <1>7, <2>1, LeastMember
  <2>3. LeastOf(free) \in free /\ \A k \in free : LeastOf(free) <= k
    BY <2>2 DEF LeastOf
  <2> DEFINE l == LeastOf(free)
  <2>4. l \in free /\ \A k \in free : l <= k
    BY <2>3
  <2>5. trace_findfree.no = l /\ trace_findfree.next = l + 1 /\ trace_findfree.size = sizetrace
    BY <1>2, <1>7
  <2> HIDE DEF l
  <2>6. l \in from..sizetrace - 1 /\ trace[l] = Nil /\ l \in TraceNo
    BY <1>1, <1>3, <2>4 DEF TraceNo
  <2>7. \A n \in TraceNo : n < l + 1 => n = l \/ trace[n] # Nil
    BY <1>1, <1>3, <1>6, <2>4, <2>6 DEF TraceNo
  <2> HIDE DEF free
  <2> QED BY <1>1, <1>3, <2>5, <2>6, <2>7 DEF Room, TraceNo
<1>8. CASE free = {} /\ sizetrace >= lim
  BY <1>1, <1>2, <1>8
<1>9. CASE free = {} /\ ~ (sizetrace >= lim)
  <2>1. trace_findfree.no = last /\ trace_findfree.next = last /\ trace_findfree.size = grown
    BY <1>2, <1>9
  <2>2. last \in TraceNo /\ last < grown
    BY <1>1, <1>3, <1>4, <1>5, <1>9 DEF TraceNo
  <2>3. \A n \in TraceNo : n < last => trace[n] # Nil
    BY <1>1, <1>3, <1>4, <1>6, <1>9 DEF TraceNo
  <2>4. trace[last] = Nil
    BY <1>1, <1>3, <1>4, <2>2 DEF Room, TraceNo
  <2> HIDE DEF free
  <2> QED BY <1>1, <1>4, <1>5, <1>9, <2>1, <2>2, <2>3, <2>4 DEF TraceNo
<1> QED BY <1>7, <1>8, <1>9

\* The initial state has the types of the fields.
LEMMA InitTypes == Init => TraceType
<1> SUFFICES ASSUME Init
             PROVE  TraceType
  OBVIOUS
<1>1. /\ maxtrace \in Nat /\ maxtrace > 0 /\ PENALTY_SLOTS \in Nat /\ PENALTY_SLOTS > 0 /\ PENALTY_MAX \in Nat
      /\ maxmcode \in Nat /\ maxunroll \in Nat /\ SNAPCOUNT_DONE \in Nat
  BY ConstantsOK
<1>2. Plain \in [op : 0..2, d : 0..maxtrace] /\ Plain.op # I
  BY <1>1 DEF Plain, I
<1>3. (CHOOSE p \in Proto : TRUE) \in Proto
  BY ConstantsOK
<1>4. cur \in Trace
  BY <1>1, <1>3 DEF Init, NewTrace, Trace, Kinds, Links
<1>5. jpc \in Starts
  BY DEF Init, Starts, Kinds
<1>6. obj \in [Tr -> Trace \union {Free}] /\ \A t \in Tr : obj[t] \in Trace \union {Free}
  BY DEF Init
<1>7. penalty \in [0..PENALTY_SLOTS - 1 -> [pc : PC \union {Nil}, val : 0..PENALTY_MAX]]
  BY <1>1 DEF Init
<1>8. \A pc \in Ret : bc[pc].op # I
  BY <1>2 DEF Init, PC
<1> QED BY <1>1, <1>2, <1>4, <1>5, <1>6, <1>7, <1>8 DEF Init, TraceType, TypeOK, States

\* A step that leaves the table of traces and the bytecode alone.
LEMMA QuietTypes ==
  ASSUME TraceType,
         UNCHANGED <<codeVars, trace, sizetrace, freetrace, cur, patch, unroll, penVars, mcarea>>,
         obj' = obj, dead' \in SUBSET Tr, conts' \in SUBSET Tr, run' \in Tr \union {Nil},
         state' \in States, parent' \in 0..maxtrace, exitno' \in 0..maxtrace,
         jpc' \in Starts, err' \in Errors \union {Nil}
  PROVE  TraceType'
BY DEF TraceType, TypeOK

\* Outside a recording every number in use is the one of a GCtrace.
LEMMA QuietNumbers ==
  ASSUME TraceInv, state \in Quiet, NEW n, Exists(n)
  PROVE  n \in TraceNo /\ trace[n] \in Tr
BY DEF TraceInv, TraceType, TypeOK, Compiler, PatchPending, Table, Numbered, Exists, TraceNo

\* Machine code that runs, exits and ends a call keeps the types.
LEMMA RunTypes ==
  ASSUME TraceInv, "throw" \notin Ops, Run
  PROVE  TraceType'
<1>0. /\ maxtrace \in Nat /\ SNAPCOUNT_DONE \in Nat /\ hotexit \in Nat
      /\ trace \in [TraceNo -> Tr \union {Nil, Cur}]
      /\ state \in States /\ parent \in 0..maxtrace /\ exitno \in 0..maxtrace
      /\ jpc \in Starts /\ err \in Errors \union {Nil}
      /\ dead \in SUBSET Tr /\ conts \in SUBSET Tr /\ run \in Tr \union {Nil}
      /\ obj \in [Tr -> Trace \union {Free}]
  BY ConstantsOK DEF TraceInv, TraceType, TypeOK
<1>1. TraceType
  BY DEF TraceInv
<1>2. \A t \in Tr : obj[t] # Free =>
         /\ obj[t].no \in 0..maxtrace /\ obj[t].link \in 0..maxtrace /\ obj[t].count \in 0..SNAPCOUNT_DONE
         /\ obj[t].to \in Tr \union {Nil} /\ obj[t].branch \in Tr \union {Nil}
  BY <1>0 DEF Trace
<1>3. run # Nil => run \in Tr /\ state = "IDLE"
  BY <1>0 DEF TraceInv, Compiler, PatchPending
<1>4. {"IDLE", "START", "CRASH"} \subseteq States
  BY DEF States
<1>5. ASSUME NEW pc \in PC, EnterTrace(pc)
      PROVE  TraceType'
  <2>1. Exists(bc[pc].d) => trace[bc[pc].d] \in Tr
    BY <1>5, QuietNumbers DEF EnterTrace, Quiet
  <2> QED BY <1>0, <1>1, <1>4, <1>5, <2>1, QuietTypes DEF EnterTrace
<1>6. ASSUME JumpOn
      PROVE  TraceType'
  BY <1>0, <1>1, <1>2, <1>3, <1>6, QuietTypes DEF JumpOn
<1>7. ASSUME LeaveTrace
      PROVE  TraceType'
  <2>1. conts' \in SUBSET Tr
    BY <1>0, <1>3, <1>7 DEF LeaveTrace
  <2> QED BY <1>0, <1>1, <1>7, <2>1, QuietTypes DEF LeaveTrace
<1>8. ASSUME lj_trace_exit
      PROVE  TraceType'
  BY <1>0, <1>1, <1>2, <1>3, <1>8, QuietTypes DEF lj_trace_exit
<1>9. ASSUME NEW p \in Proto, trace_hotside(p)
      PROVE  TraceType'
  <2>1. run \in Tr /\ obj[run] \in Trace /\ obj' = [obj EXCEPT ![run].count = @ + 1]
    BY <1>0, <1>3, <1>9 DEF trace_hotside
  <2>2. obj[run].count + 1 \in 0..SNAPCOUNT_DONE
    BY <1>0, <1>2, <1>9, <2>1 DEF trace_hotside
  <2>3. obj' \in [Tr -> Trace \union {Free}]
    BY <1>0, <2>1, <2>2 DEF Trace
  <2>4. jpc' \in Starts /\ state' \in States
    BY <1>0, <1>4, <1>9 DEF trace_hotside, Starts, Kinds
  <2> QED BY <1>0, <1>1, <1>2, <1>9, <2>1, <2>3, <2>4, SMTT(60) DEF trace_hotside, TraceType, TypeOK
<1>10. ASSUME NEW t \in Tr, NEW p \in Proto, lj_cont_stitch(t, p)
       PROVE  TraceType'
  <2>1. jpc' \in Starts /\ state' \in States /\ conts' \in SUBSET Tr
    BY <1>0, <1>4, <1>10 DEF lj_cont_stitch, Starts, Kinds
  <2>2. /\ parent' \in 0..maxtrace /\ exitno' \in 0..maxtrace
    BY <1>0, <1>2, <1>10 DEF lj_cont_stitch
  <2>3. run' \in Tr \union {Nil}
    <3>1. state = "IDLE"
      BY <1>10 DEF lj_cont_stitch
    <3> QED BY <1>0, <1>10, <3>1, QuietNumbers DEF lj_cont_stitch, Quiet
  <2> QED BY <1>0, <1>1, <1>10, <2>1, <2>2, <2>3, QuietTypes DEF lj_cont_stitch
<1>11. ASSUME NEW t \in Tr, Unwind(t)
       PROVE  TraceType'
  BY <1>0, <1>1, <1>11, QuietTypes DEF Unwind
<1> QED BY <1>5, <1>6, <1>7, <1>8, <1>9, <1>10, <1>11 DEF Run

Bytes == [PC -> [op : 0..2, d : 0..maxtrace]]
NoI(B) == \A pc \in Ret : B[pc].op # I

\* Unpatching leaves bytecode.
LEMMA UnpatchTypes ==
  ASSUME TraceType, NEW B \in Bytes, NoI(B)
  PROVE  /\ \A T : trace_unpatch(B, T) \in Bytes /\ NoI(trace_unpatch(B, T))
         /\ \A Q : [pc \in PC |-> IF pc \in Q THEN Plain ELSE B[pc]] \in Bytes
         /\ \A Q : NoI([pc \in PC |-> IF pc \in Q THEN Plain ELSE B[pc]])
         /\ \A p : lj_trace_reenableproto(B, p) \in Bytes /\ NoI(lj_trace_reenableproto(B, p))
<1>1. Plain \in [op : 0..2, d : 0..maxtrace] /\ Plain.op # I
  BY ConstantsOK DEF Plain, I
<1>2. Ret \subseteq PC
  BY DEF PC
<1> QED BY <1>1, <1>2 DEF trace_unpatch, lj_trace_reenableproto, Bytes, NoI

\* Flushing the trace of one number keeps the types.
LEMMA FlushTypes ==
  ASSUME TraceInv, NEW n, Saved(n), lj_trace_flush(n)
  PROVE  /\ bc' \in Bytes /\ NoI(bc') /\ head' \in [Proto -> 0..maxtrace]
         /\ obj' \in [Tr -> Trace \union {Free}]
<1>1. /\ bc \in Bytes /\ NoI(bc) /\ head \in [Proto -> 0..maxtrace] /\ obj \in [Tr -> Trace \union {Free}]
      /\ maxtrace \in Nat
  BY ConstantsOK DEF TraceInv, TraceType, TypeOK, Bytes, NoI
<1> DEFINE T == traceref(n)
           before == {k \in Chain(T.pt) : Saved(k) /\ traceref(k).nextroot = n}
<1>2. T \in Trace
  BY SavedNumbers DEF TraceInv, Table
<1>3. /\ bc' = trace_unpatch(bc, T)
      /\ IF head[T.pt] = n
         THEN head' = [head EXCEPT ![T.pt] = T.nextroot] /\ obj' = obj
         ELSE /\ obj' = [t \in Tr |-> IF \E k \in before : trace[k] = t
                                      THEN [obj[t] EXCEPT !.nextroot = T.nextroot] ELSE obj[t]]
              /\ head' = head
  BY DEF lj_trace_flush, trace_flushroot
<1>4. \A k \in before : obj[trace[k]] \in Trace
  BY SavedNumbers DEF TraceInv, Table
<1> HIDE DEF T, before
<1>5. T.nextroot \in 0..maxtrace
  BY <1>2 DEF Trace
<1>6. \A t \in Tr : (\E k \in before : trace[k] = t) => [obj[t] EXCEPT !.nextroot = T.nextroot] \in Trace
  BY <1>4, <1>5 DEF Trace
<1> QED BY <1>1, <1>3, <1>5, <1>6, UnpatchTypes DEF TraceInv

\* A GCtrace with other numbers is a GCtrace.
LEMMA Renumbered ==
  ASSUME NEW T \in Trace, NEW n \in 0..maxtrace
  PROVE  /\ [T EXCEPT !.no = n] \in Trace /\ [T EXCEPT !.link = n] \in Trace
         /\ \A m \in 0..maxtrace : [T EXCEPT !.no = n, !.link = m] \in Trace
         /\ [T EXCEPT !.no = n, !.link = n, !.ltype = "none"] \in Trace
<1> DEFINE U == [T EXCEPT !.no = n]
<1>1. U \in Trace /\ [T EXCEPT !.link = n] \in Trace
  BY DEF Trace
<1>2. ASSUME NEW m \in 0..maxtrace
      PROVE  [T EXCEPT !.no = n, !.link = m] \in Trace
  <2>1. [T EXCEPT !.no = n, !.link = m] = [U EXCEPT !.link = m]
    BY DEF Trace
  <2> HIDE DEF U
  <2>2. [U EXCEPT !.link = m] \in Trace
    BY <1>1 DEF Trace
  <2> QED BY <2>1, <2>2
<1>3. [T EXCEPT !.no = n, !.link = n, !.ltype = "none"] \in Trace
  <2> DEFINE V == [T EXCEPT !.no = n, !.link = n]
  <2>1. [T EXCEPT !.no = n, !.link = n, !.ltype = "none"] = [V EXCEPT !.ltype = "none"]
    BY DEF Trace
  <2>2. V \in Trace
    BY <1>2
  <2> HIDE DEF V
  <2>3. [V EXCEPT !.ltype = "none"] \in Trace
    BY <2>2 DEF Trace, Links
  <2> QED BY <2>1, <2>3
<1> QED BY <1>1, <1>2, <1>3

\* Flushing all traces keeps the types.
LEMMA FlushAllTypes ==
  ASSUME TraceInv, lj_trace_flushall
  PROVE  /\ bc' \in Bytes /\ NoI(bc') /\ head' \in [Proto -> 0..maxtrace]
         /\ obj' \in [Tr -> Trace \union {Free}] /\ trace' \in [TraceNo -> Tr \union {Nil, Cur}]
         /\ cur' \in Trace /\ freetrace' \in 0..maxtrace + 1 /\ mcarea' \in 0..maxmcode
         /\ penalty' \in [0..PENALTY_SLOTS - 1 -> [pc : PC \union {Nil}, val : 0..PENALTY_MAX]]
<1>1. /\ bc \in Bytes /\ NoI(bc) /\ obj \in [Tr -> Trace \union {Free}] /\ cur \in Trace
      /\ maxtrace \in Nat /\ maxmcode \in Nat /\ PENALTY_MAX \in Nat
      /\ trace \in [TraceNo -> Tr \union {Nil, Cur}]
  BY ConstantsOK DEF TraceInv, TraceType, TypeOK, Bytes, NoI
<1> DEFINE Q == {pc \in PC : bc[pc].op = J /\ \E n \in TraceNo : Exists(n)
                              /\ IsRoot(traceref(n)) /\ traceref(n).pc = pc}
<1>2. bc' = [pc \in PC |-> IF pc \in Q THEN Plain ELSE bc[pc]]
  BY DEF lj_trace_flushall
<1>3. bc' \in Bytes /\ NoI(bc')
  <2> HIDE DEF Q
  <2> QED BY <1>1, <1>2, UnpatchTypes DEF TraceInv
<1>4. cur' \in Trace
  <2>1. cur' \in {[cur EXCEPT !.no = 0, !.link = 0], [cur EXCEPT !.no = 0, !.link = cur.link]}
    BY DEF lj_trace_flushall
  <2>2. cur.link \in 0..maxtrace /\ 0 \in 0..maxtrace /\ cur \in Trace
    BY <1>1 DEF Trace
  <2>3. [cur EXCEPT !.no = 0, !.link = 0] \in Trace
    BY <2>2, Renumbered, Zenon
  <2>4. [cur EXCEPT !.no = 0, !.link = cur.link] \in Trace
    BY <2>2, Renumbered, Zenon
  <2> QED BY <2>1, <2>3, <2>4
<1>5. \A t \in InTable : [obj[t] EXCEPT !.no = 0, !.link = 0] \in Trace
  <2>1. \A t \in InTable : obj[t] \in Trace
    BY <1>1 DEF InTable, TraceInv, Table, Numbered
  <2>2. 0 \in 0..maxtrace
    BY <1>1
  <2> QED BY <2>1, <2>2, Renumbered, Zenon
<1>6. obj' \in [Tr -> Trace \union {Free}]
  BY <1>1, <1>5 DEF lj_trace_flushall
<1>7. /\ head' \in [Proto -> 0..maxtrace] /\ trace' \in [TraceNo -> Tr \union {Nil, Cur}]
      /\ freetrace' \in 0..maxtrace + 1 /\ mcarea' \in 0..maxmcode
  <2>1. /\ head' = [p \in Proto |-> 0] /\ trace' = [n \in TraceNo |-> Nil]
        /\ freetrace' = 0 /\ mcarea' = 0
    BY DEF lj_trace_flushall
  <2> QED BY <1>1, <2>1
<1>8. penalty' \in [0..PENALTY_SLOTS - 1 -> [pc : PC \union {Nil}, val : 0..PENALTY_MAX]]
  <2>1. [pc |-> Nil, val |-> 0] \in [pc : PC \union {Nil}, val : 0..PENALTY_MAX]
    BY <1>1
  <2> QED BY <2>1 DEF lj_trace_flushall
<1> QED BY <1>3, <1>4, <1>6, <1>7, <1>8

\* A step that changes the bytecode, what is pending, and the trace that is
\* compiled.
LEMMA CompilerTypes ==
  ASSUME TraceType,
         bc' \in Bytes, NoI(bc'), patch' \in Pending \union {Nil}, cur' \in Trace, jpc' \in Starts,
         err' \in Errors \union {Nil}, state' \in States, iloop' \in SUBSET Proto,
         parent' \in 0..maxtrace, exitno' \in 0..maxtrace, unroll' \in 0..maxunroll,
         mcarea' \in 0..maxmcode, head' \in [Proto -> 0..maxtrace],
         obj' \in [Tr -> Trace \union {Free}], trace' \in [TraceNo -> Tr \union {Nil, Cur}],
         sizetrace' \in 0..maxtrace + 1, freetrace' \in 0..maxtrace + 1,
         penalty' \in [0..PENALTY_SLOTS - 1 -> [pc : PC \union {Nil}, val : 0..PENALTY_MAX]],
         penaltyslot' \in 0..PENALTY_SLOTS - 1,
         UNCHANGED <<nojit, dead, conts, run>>
  PROVE  TraceType'
BY DEF TraceType, TypeOK, Bytes, NoI

\* The types of the variables one by one.
LEMMA TypesOf ==
  ASSUME TraceType
  PROVE  /\ bc \in Bytes /\ NoI(bc) /\ patch \in Pending \union {Nil} /\ cur \in Trace /\ jpc \in Starts
         /\ err \in Errors \union {Nil} /\ state \in States
         /\ iloop \in SUBSET Proto /\ nojit \in SUBSET Proto
         /\ parent \in 0..maxtrace /\ exitno \in 0..maxtrace /\ unroll \in 0..maxunroll
         /\ mcarea \in 0..maxmcode /\ head \in [Proto -> 0..maxtrace]
         /\ obj \in [Tr -> Trace \union {Free}] /\ trace \in [TraceNo -> Tr \union {Nil, Cur}]
         /\ sizetrace \in 0..maxtrace + 1 /\ freetrace \in 0..maxtrace + 1
         /\ penalty \in [0..PENALTY_SLOTS - 1 -> [pc : PC \union {Nil}, val : 0..PENALTY_MAX]]
         /\ penaltyslot \in 0..PENALTY_SLOTS - 1
         /\ dead \in SUBSET Tr /\ conts \in SUBSET Tr /\ run \in Tr \union {Nil}
BY DEF TraceType, TypeOK, Bytes, NoI

\* An instruction that is recorded keeps the types.
LEMMA RecordTypes ==
  ASSUME TraceInv, Record
  PROVE  TraceType'
<1>1. TraceType /\ PatchPending /\ Numbered
  BY DEF TraceInv, Compiler, Table
<1>2. /\ Repatched \in Bytes /\ NoI(Repatched) /\ Pended \in Bytes /\ NoI(Pended)
      /\ PendedPatch \in Pending \union {Nil}
  BY <1>1, Bytecode DEF Bytes, NoI
<1>3. Plain \in [op : 0..2, d : 0..maxtrace] /\ Plain.op # I
  BY ConstantsOK DEF Plain, I
<1>4. {"ERR", "END", "RECORD", "ABORTED"} \subseteq States
  BY DEF States
<1>5. \A pc \in PC : Pended[pc].op = J =>
        Pended[pc] = Repatched[pc] /\ Pended[pc].d \in TraceNo /\ IsLive(Pended[pc].d)
  BY <1>1, Bytecode, PatchedRoots
<1>6. \A pc \in PC : bc[pc].op = J =>
        bc[pc] = Repatched[pc] /\ bc[pc].d \in TraceNo /\ IsLive(bc[pc].d)
  BY <1>1, Bytecode, PatchedRoots
<1>7. ASSUME lj_record_ins
      PROVE  TraceType'
  BY <1>1, <1>2, <1>7, TypesOf, CompilerTypes DEF lj_record_ins
<1>8. ASSUME lj_record_stop
      PROVE  TraceType'
  <2>1. PICK l \in StopLinks : cur' = [cur EXCEPT !.ltype = l[1], !.link = l[2]]
    BY <1>8 DEF lj_record_stop
  <2>2. l[1] \in Links /\ l[2] \in 0..maxtrace
    <3>1. cur.no \in 0..maxtrace /\ maxtrace \in Nat
      BY <1>1, TypesOf, ConstantsOK DEF Trace
    <3> QED BY <3>1, <1>5, <2>1 DEF StopLinks, Links, TraceNo
  <2>3. cur' \in Trace
    <3> DEFINE U == [cur EXCEPT !.ltype = l[1]]
    <3>1. U \in Trace
      BY <1>1, TypesOf, <2>2 DEF Trace
    <3>2. cur' = [U EXCEPT !.link = l[2]]
      BY <1>1, TypesOf, <2>1 DEF Trace
    <3> HIDE DEF U
    <3> QED BY <2>2, <3>1, <3>2 DEF Trace
  <2> QED BY <1>1, <1>2, <1>4, <1>8, <2>3, TypesOf, CompilerTypes DEF lj_record_stop
<1>9. ASSUME NEW pc \in Func, rec_func_jit(pc)
      PROVE  TraceType'
  <2>1. pc \in PC /\ pc \notin Ret
    BY ConstantsOK DEF PC
  <2>2. Pended[pc] \in [op : {J}, d : TraceNo]
    BY <1>2, <1>5, <1>9, <2>1 DEF rec_func_jit, Bytes
  <2>3. patch' \in Pending
    BY <1>9, <2>1, <2>2 DEF rec_func_jit, Pending
  <2>4. bc' \in Bytes /\ NoI(bc')
    BY <1>2, <1>3, <1>9, <2>1 DEF rec_func_jit, Bytes, NoI, PC
  <2> QED BY <1>1, <1>2, <1>9, <2>3, <2>4, TypesOf, CompilerTypes DEF rec_func_jit
<1>10. ASSUME NEW pc \in Func, check_call_unroll(pc)
       PROVE  TraceType'
  <2>1. pc \in PC /\ bc[pc].op = J /\ Saved(bc[pc].d) /\ lj_trace_flush(bc[pc].d)
    BY <1>6, <1>10 DEF check_call_unroll, PC, IsLive
  <2>2. err' \in Errors
    BY <1>10 DEF check_call_unroll, Errors
  <2> QED BY <1>1, <1>4, <1>10, <2>1, <2>2, FlushTypes, TypesOf, CompilerTypes DEF check_call_unroll
<1>11. ASSUME lj_trace_err
       PROVE  TraceType'
  <2>1. err' \in Errors
    BY <1>11 DEF lj_trace_err, Errors
  <2>2. jpc' \in Starts
    BY <1>1, <1>11, TypesOf, ConstantsOK, SMTT(60) DEF lj_trace_err, Starts, Kinds, PC
  <2> QED BY <1>1, <1>2, <1>4, <1>11, <2>1, <2>2, TypesOf, CompilerTypes DEF lj_trace_err
<1>12. ASSUME lj_trace_abort
       PROVE  TraceType'
  BY <1>1, <1>4, <1>12, TypesOf, CompilerTypes DEF lj_trace_abort
<1> QED BY <1>7, <1>8, <1>9, <1>10, <1>11, <1>12 DEF Record

\* What the host program does to traces and modes keeps the types.
LEMMA HostTypes ==
  ASSUME TraceInv, Host
  PROVE  TraceType'
<1>1. TraceType /\ PatchPending /\ Numbered
  BY DEF TraceInv, Compiler, Table
<1>2. "IDLE" \in States
  BY DEF States
<1>3. ASSUME FlushAll
      PROVE  TraceType'
  BY <1>1, <1>2, <1>3, FlushAllTypes, TypesOf, CompilerTypes DEF FlushAll, Calls
<1>4. ASSUME NEW n \in TraceNo, FlushTrace(n)
      PROVE  TraceType'
  <2>1. Saved(n) /\ lj_trace_flush(n) /\ state = "IDLE"
    <3>1. Exists(n) /\ state = "IDLE" /\ lj_trace_flush(n)
      BY <1>4 DEF FlushTrace, lj_trace_flush, Calls
    <3>2. trace[n] \in Tr
      BY <3>1, QuietNumbers DEF Quiet
    <3> QED BY <1>1, <3>1, <3>2, SavedNumbers
  <2> QED BY <1>1, <1>2, <1>4, <2>1, FlushTypes, TypesOf, CompilerTypes DEF FlushTrace
<1>5. ASSUME NEW p \in Proto, NEW mode \in {"on", "off", "flush"}, setptmode(p, mode)
      PROVE  TraceType'
  <2>1. state = "IDLE" /\ state' = "IDLE"
    BY <1>2, <1>5 DEF setptmode, Calls
  <2>2. bc' \in Bytes /\ NoI(bc')
    <3>1. CASE mode = "on"
      BY <1>1, <1>5, <3>1, TypesOf, UnpatchTypes DEF setptmode
    <3>2. CASE mode # "on"
      <4> DEFINE Q == {pc \in PC : /\ \E n \in Chain(p) : Exists(n) /\ traceref(n).pc = pc
                                   /\ bc[pc].op = J}
      <4>1. bc' = [pc \in PC |-> IF pc \in Q THEN Plain ELSE bc[pc]]
        BY <1>5, <3>2 DEF setptmode, lj_trace_flushproto
      <4> HIDE DEF Q
      <4> QED BY <1>1, <4>1, TypesOf, UnpatchTypes
    <3> QED BY <3>1, <3>2
  <2>3. head' \in [Proto -> 0..maxtrace] /\ nojit' \in SUBSET Proto /\ iloop' \in SUBSET Proto
    <3>1. /\ head' = head \/ head' = [head EXCEPT ![p] = 0]
          /\ nojit' = nojit \ {p} \/ nojit' = nojit \union {p} \/ nojit' = nojit
          /\ iloop' = iloop \ {p} \/ iloop' = iloop
      BY <1>5 DEF setptmode, lj_trace_flushproto
    <3>2. 0 \in 0..maxtrace /\ head \in [Proto -> 0..maxtrace] /\ nojit \in SUBSET Proto
          /\ iloop \in SUBSET Proto
      BY <1>1, TypesOf, ConstantsOK, SMTT(60)
    <3>3. head' \in [Proto -> 0..maxtrace]
      BY <3>1, <3>2
    <3>4. nojit' \in SUBSET Proto
      BY <3>1, <3>2
    <3> QED BY <3>1, <3>2, <3>3, <3>4
  <2> QED BY <1>1, <1>2, <1>5, <2>1, <2>2, <2>3 DEF setptmode, TraceType, TypeOK, Bytes, NoI
<1> QED BY <1>3, <1>4, <1>5 DEF Host

\* The atomic phase and the sweep keep the types.
LEMMA CollectTypes ==
  ASSUME TraceInv, Collect
  PROVE  TraceType'
<1>1. TraceType /\ Numbered
  BY DEF TraceInv, Table
<1>2. ASSUME GCAtomic
      PROVE  TraceType'
  BY <1>1, <1>2, TypesOf, QuietTypes DEF GCAtomic
<1>3. ASSUME NEW t \in Tr, lj_trace_free(t)
      PROVE  TraceType'
  <2>1. obj' \in [Tr -> Trace \union {Free}] /\ dead' \in SUBSET Tr
    BY <1>1, <1>3, TypesOf DEF lj_trace_free
  <2>2. obj[t] \in Trace
    BY <1>1, <1>3, TypesOf DEF lj_trace_free, Numbered
  <2>3. trace' \in [TraceNo -> Tr \union {Nil, Cur}] /\ freetrace' \in 0..maxtrace + 1
    <3>1. obj[t].no \in 0..maxtrace /\ maxtrace \in Nat
      BY <2>2, ConstantsOK DEF Trace
    <3> QED BY <1>1, <1>3, <3>1, TypesOf DEF lj_trace_free, Smaller
  <2> QED BY <1>1, <1>3, <2>1, <2>3 DEF lj_trace_free, TraceType, TypeOK
<1> QED BY <1>2, <1>3 DEF Collect

\* A new trace of the kinds that lj_record_setup gets.
LEMMA SetupTypes ==
  ASSUME TraceInv, NEW T \in Trace, lj_record_setup(T)
  PROVE  cur' \in Trace /\ state' \in {"RECORD", "END", "CRASH"}
<1>1. CASE cur' = T
  BY <1>1 DEF lj_record_setup
<1>2. CASE cur' # T
  <2> DEFINE r == RootOf(parent)
             l == IF GivesUp(parent) THEN "interp" ELSE "none"
  <2>1. cur' = [T EXCEPT !.root = r, !.ltype = l] /\ Exists(parent) /\ Exists(r)
    BY <1>2 DEF lj_record_setup
  <2>2. r \in 0..maxtrace /\ l \in Links
    BY <2>1, ConstantsOK DEF Exists, TraceNo, Links
  <2> HIDE DEF r, l
  <2> DEFINE U == [T EXCEPT !.root = r]
  <2>3. U \in Trace
    BY <2>2 DEF Trace
  <2>4. cur' = [U EXCEPT !.ltype = l]
    BY <2>1 DEF Trace
  <2> HIDE DEF U
  <2>5. cur' \in Trace
    BY <2>2, <2>3, <2>4 DEF Trace
  <2>6. state' \in {"RECORD", "END", "CRASH"}
    BY DEF lj_record_setup
  <2> QED BY <2>5, <2>6
<1> QED BY <1>1, <1>2

\* The record that trace_start fills in is a trace.
LEMMA NewTraceTypes ==
  ASSUME NEW n \in 0..maxtrace, NEW k \in Kinds, NEW p \in Proto, NEW pc \in PC \union {Nil}
  PROVE  NewTrace(n, k, p, pc) \in Trace
BY ConstantsOK DEF NewTrace, Trace, Links

\* trace_start keeps the types, whichever way it ends.
LEMMA StartTypes ==
  ASSUME TraceInv, NEW x \in {Nil} \union Ret, x # Nil => bc[x].op = J, StartTrace(x), jpc.pt \in Proto,
         parent' \in 0..maxtrace, exitno' \in 0..maxtrace, UNCHANGED <<dead, err, jpc, run, conts>>
  PROVE  TraceType'
<1>1. TraceType /\ PatchPending /\ Numbered /\ Room
  BY DEF TraceInv, Compiler, Table
<1> DEFINE f == trace_findfree
<1>2. f.no \in 0..maxtrace /\ f.no # 0 /\ f.size \in 0..maxtrace + 1 /\ f.next \in 0..maxtrace + 1
  BY <1>1, FreeNumber DEF StartTrace
<1>3. jpc.kind \in Kinds /\ jpc.pc \in PC \union {Nil}
  BY <1>1, TypesOf DEF Starts
<1>4. NewTrace(f.no, jpc.kind, jpc.pt, jpc.pc) \in Trace
  BY <1>2, <1>3, NewTraceTypes
<1>5. cur' \in Trace /\ state' \in States
  <2>1. lj_record_setup(NewTrace(f.no, jpc.kind, jpc.pt, jpc.pc))
    BY DEF StartTrace
  <2>2. {"RECORD", "END", "CRASH"} \subseteq States
    BY DEF States
  <2> HIDE DEF f
  <2> QED BY <1>4, <2>1, <2>2, SetupTypes
<1>6. trace' \in [TraceNo -> Tr \union {Nil, Cur}] /\ sizetrace' = f.size /\ freetrace' = f.next
  BY <1>1, TypesOf DEF StartTrace
<1>7. bc' \in Bytes /\ NoI(bc') /\ patch' \in Pending \union {Nil}
  <2>1. Plain \in [op : 0..2, d : 0..maxtrace] /\ Plain.op # I
    BY ConstantsOK DEF Plain, I
  <2>2. CASE bc' = bc /\ patch' = patch
    BY <1>1, <2>2, TypesOf
  <2>3. CASE ~ (bc' = bc /\ patch' = patch)
    <3>1. x \in Ret /\ bc[x].op = J /\ patch' = [pc |-> x, ins |-> bc[x], skip |-> TRUE]
          /\ bc' = [bc EXCEPT ![x] = Plain]
      BY <2>3 DEF StartTrace
    <3>2. x \in PC
      BY <3>1 DEF PC
    <3>3. bc[x].d \in TraceNo
      BY <1>1, <3>1, <3>2, Bytecode, PatchedRoots
    <3>4. bc[x] \in [op : {J}, d : TraceNo]
      BY <1>1, <3>1, <3>2, <3>3, TypesOf DEF Bytes
    <3> QED BY <1>1, <2>1, <3>1, <3>2, <3>4, TypesOf DEF Pending, Bytes, NoI
  <2> QED BY <2>2, <2>3
<1>8. unroll' \in 0..maxunroll
  BY ConstantsOK DEF StartTrace
<1>9. UNCHANGED <<nojit, iloop, head, obj, penVars, mcarea>>
  BY DEF StartTrace
<1> HIDE DEF f
<1> QED BY <1>1, <1>2, <1>5, <1>6, <1>7, <1>8, <1>9, TypesOf, CompilerTypes

\* If some penalty slot belongs to an instruction, penalty_pc finds one.
LEMMA SlotFound ==
  ASSUME TraceInv, NEW pc, SlotsOf(pc) # {}
  PROVE  LeastOf(SlotsOf(pc)) \in 0..PENALTY_SLOTS - 1
<1> DEFINE S == SlotsOf(pc)
<1>1. S \in SUBSET Nat /\ S \subseteq 0..PENALTY_SLOTS - 1
  BY ConstantsOK DEF SlotsOf
<1> HIDE DEF S
<1>2. \E m \in S : \A k \in S : m <= k
  BY <1>1, LeastMember DEF S
<1>3. LeastOf(S) \in S
  BY <1>2 DEF LeastOf
<1> QED BY <1>1, <1>3 DEF S

\* penalty_pc keeps the types of the slots.
LEMMA PenaltyTypes ==
  ASSUME TraceInv, state \in Busy, Penalize
  PROVE  /\ bc' \in Bytes /\ NoI(bc') /\ iloop' \in SUBSET Proto
         /\ penalty' \in [0..PENALTY_SLOTS - 1 -> [pc : PC \union {Nil}, val : 0..PENALTY_MAX]]
         /\ penaltyslot' \in 0..PENALTY_SLOTS - 1
         /\ obj' \in [Tr -> Trace \union {Free}]
<1>1. TraceType /\ PatchPending /\ Numbered
  BY DEF TraceInv, Compiler, Table
<1>2. Repatched \in Bytes /\ NoI(Repatched)
  BY <1>1, Bytecode DEF Bytes, NoI
<1>3. CASE penalty_pc(Repatched, cur.pc) /\ UNCHANGED obj /\ parent = 0 /\ cur.kind # "ret" /\ exitno = 0
  <2> DEFINE pc == cur.pc
  <2>1. pc \in PC /\ pc \notin Ret /\ Repatched[pc].op = 0
    BY <1>3, ConstantsOK DEF TraceInv, Compiler, Compiled, PC
  <2> HIDE DEF pc
  <2>2. penalty_pc(Repatched, pc)
    BY <1>3 DEF pc
  <2>3. CASE SlotsOf(pc) = {}
    <3>1. /\ penalty' = [penalty EXCEPT ![penaltyslot] = [pc |-> pc, val |-> 0]]
          /\ penaltyslot' = (penaltyslot + 1) % PENALTY_SLOTS
          /\ bc' = Repatched /\ iloop' = iloop
      BY <2>2, <2>3 DEF penalty_pc
    <3>2. PENALTY_SLOTS \in Nat /\ PENALTY_SLOTS > 0 /\ PENALTY_MAX \in Nat
      BY ConstantsOK
    <3>3. penaltyslot \in 0..PENALTY_SLOTS - 1
      BY <1>1, TypesOf
    <3>4. penaltyslot' \in 0..PENALTY_SLOTS - 1
      BY <3>1, <3>2, <3>3
    <3>5. [pc |-> pc, val |-> 0] \in [pc : PC \union {Nil}, val : 0..PENALTY_MAX]
      BY <2>1, <3>2
    <3> QED BY <1>1, <1>2, <1>3, <3>1, <3>4, <3>5, TypesOf
  <2>4. CASE SlotsOf(pc) # {}
    <3> DEFINE i == LeastOf(SlotsOf(pc))
    <3>1. i \in 0..PENALTY_SLOTS - 1
      BY <2>4, SlotFound
    <3>2. IF penalty[i].val < PENALTY_MAX
          THEN /\ penalty' = [penalty EXCEPT ![i].val = @ + 1]
               /\ bc' = Repatched /\ iloop' = iloop /\ penaltyslot' = penaltyslot
          ELSE /\ bc' = [Repatched EXCEPT ![pc].op = @ + I]
               /\ iloop' = iloop \union {protoOf[pc]}
               /\ penalty' = penalty /\ penaltyslot' = penaltyslot
      BY <2>2, <2>4 DEF penalty_pc
    <3> HIDE DEF i
    <3>3. CASE penalty[i].val < PENALTY_MAX
      <4>1. penalty' \in [0..PENALTY_SLOTS - 1 -> [pc : PC \union {Nil}, val : 0..PENALTY_MAX]]
        <5>1. /\ penalty \in [0..PENALTY_SLOTS - 1 -> [pc : PC \union {Nil}, val : 0..PENALTY_MAX]]
              /\ PENALTY_MAX \in Nat
          BY <1>1, TypesOf, ConstantsOK
        <5>2. penalty[i].val \in 0..PENALTY_MAX
          BY <3>1, <5>1
        <5>3. penalty[i].val + 1 \in 0..PENALTY_MAX
          BY <3>3, <5>1, <5>2
        <5>4. [penalty[i] EXCEPT !.val = @ + 1] \in [pc : PC \union {Nil}, val : 0..PENALTY_MAX]
          BY <3>1, <5>1, <5>3
        <5> QED BY <3>1, <3>2, <3>3, <5>1, <5>4
      <4> QED BY <1>1, <1>2, <1>3, <3>2, <3>3, <4>1, TypesOf
    <3>4. CASE ~ (penalty[i].val < PENALTY_MAX)
      <4>1. bc' = [Repatched EXCEPT ![pc].op = 0 + I]
        BY <2>1, <3>2, <3>4 DEF Bytes
      <4>2. bc' \in Bytes /\ NoI(bc')
        BY <1>2, <2>1, <4>1 DEF Bytes, NoI, I, PC
      <4>3. protoOf[pc] \in Proto
        BY <2>1, ConstantsOK
      <4> QED BY <1>1, <1>3, <3>2, <3>4, <4>2, <4>3, TypesOf
    <3> QED BY <3>3, <3>4
  <2> QED BY <2>3, <2>4
<1>4. CASE bc' = Repatched /\ UNCHANGED <<iloop, penVars, obj>>
  BY <1>1, <1>2, <1>4, TypesOf
<1>5. CASE /\ obj' = [obj EXCEPT ![trace[exitno]].link = exitno]
           /\ bc' = Repatched /\ UNCHANGED <<iloop, penVars>>
           /\ exitno # 0
  <2>1. obj' \in [Tr -> Trace \union {Free}]
    <3>1. CASE trace[exitno] \in Tr
      <4>1. exitno \in TraceNo
        BY <1>1, <1>5, TypesOf, ConstantsOK, SMTT(60) DEF TraceNo
      <4>2. obj[trace[exitno]] \in Trace
        BY <1>1, <3>1, <4>1, TypesOf DEF Numbered
      <4>3. [obj[trace[exitno]] EXCEPT !.link = exitno] \in Trace
        BY <1>1, <4>2, Renumbered, TypesOf
      <4> QED BY <1>1, <1>5, <3>1, <4>3, TypesOf
    <3>2. CASE trace[exitno] \notin Tr
      BY <1>1, <1>5, <3>2, TypesOf
    <3> QED BY <3>1, <3>2
  <2> QED BY <1>1, <1>2, <1>5, <2>1, TypesOf
<1> QED BY <1>3, <1>4, <1>5 DEF Penalize

\* The tail jump of a trace that is saved leads to an object or nowhere.
LEMMA TailTypes ==
  ASSUME TraceInv, state = "ASM", NEW o \in Tr
  PROVE  TailOf(o) \in Tr \union {Nil}
<1>1. cur.link = 0 \/ cur.link = cur.no \/ IsLive(cur.link)
  BY DEF TraceInv, Compiler, LinkKnown, Busy
<1>2. cur.link = cur.no <=> cur.ltype = "loop"
  BY DEF TraceInv, Compiler, LinkKnown, Busy
<1> QED BY <1>1, <1>2, SavedNumbers DEF TailOf, TraceInv, Table

\* A trace that gets a side trace or is linked to a new one is still a trace.
LEMMA LinkedType ==
  ASSUME NEW T \in Trace, NEW b \in Tr \union {Nil}, NEW k \in 0..SNAPCOUNT_DONE,
         NEW s \in 0..maxtrace, NEW m \in Nat
  PROVE  [T EXCEPT !.branch = b, !.count = k, !.nextside = s, !.nchild = m] \in Trace
BY DEF Trace

\* What trace_stop stores: the new object o, and for the objects of other
\* traces the link of a stitched one and the rest of the chain of side traces.
SameTrace(T, U) ==
  /\ T.no = U.no /\ T.kind = U.kind /\ T.pt = U.pt /\ T.pc = U.pc /\ T.root = U.root
  /\ T.nextroot = U.nextroot /\ T.to = U.to
Stores(o) ==
  /\ state = "ASM" /\ patch = Nil /\ obj[o] = Free
  /\ cur.no \in TraceNo /\ trace[cur.no] = Cur
  /\ trace' = [trace EXCEPT ![cur.no] = o]
  /\ cur' = [cur EXCEPT !.no = 0]
  /\ state' = "IDLE"
  /\ obj' \in [Tr -> Trace \union {Free}]
  /\ obj'[o] \in Trace
  /\ obj'[o].no = cur.no /\ obj'[o].kind = cur.kind /\ obj'[o].pt = cur.pt /\ obj'[o].pc = cur.pc
  /\ obj'[o].root = cur.root /\ obj'[o].link = cur.link
  /\ obj'[o].nextroot = IF IsRoot(cur) THEN head[cur.pt] ELSE 0
  /\ obj'[o].nextside = IF cur.kind = "side" THEN traceref(cur.root).nextside ELSE 0
  /\ obj'[o].to = TailOf(o) /\ obj'[o].branch = Nil
  /\ \A t \in Tr \ {o} :
       /\ obj'[t] = Free <=> obj[t] = Free
       /\ obj[t] # Free => SameTrace(obj'[t], obj[t])
       /\ obj[t] # Free => obj'[t].link = IF cur.kind = "stitch" /\ t = trace[exitno]
                                          THEN cur.no ELSE obj[t].link
       /\ obj[t] # Free => obj'[t].nextside = IF cur.kind = "side" /\ t = trace[cur.root]
                                              THEN cur.no ELSE obj[t].nextside
       /\ obj[t] # Free => obj'[t].branch = IF cur.kind = "side" /\ t = trace[parent]
                                            THEN o ELSE obj[t].branch
  /\ cur.kind = "side" => Exists(parent) /\ Exists(cur.root)
  /\ cur.kind = "stitch" => Exists(exitno)
  /\ bc' = IF IsRoot(cur) THEN [bc EXCEPT ![cur.pc] = [op |-> J, d |-> cur.no]] ELSE bc
  /\ head' = IF IsRoot(cur) THEN [head EXCEPT ![cur.pt] = cur.no] ELSE head
  /\ UNCHANGED <<nojit, iloop, sizetrace, freetrace, dead, jpc, err, parent, exitno,
                 patch, unroll, penVars, mcarea, run, conts>>

\* trace_stop without a NULL pointer stores as Stores says.
LEMMA StopStores ==
  ASSUME TraceInv, NEW o \in Tr, trace_stop(o), ~ Crash
  PROVE  Stores(o)
<1>1. TraceType /\ PatchPending /\ Numbered /\ Compiled
  BY DEF TraceInv, Compiler, Table
<1> DEFINE c == cur.no
           T == [cur EXCEPT !.to = TailOf(o)]
           new == IF IsRoot(cur) THEN [T EXCEPT !.nextroot = NextRoot(T)]
                  ELSE IF cur.kind = "side" THEN [T EXCEPT !.nextside = traceref(T.root).nextside] ELSE T
           saved(f) == [f EXCEPT ![o] = new]
           linked == [t \in Tr |->
                        IF t \notin {trace[parent], trace[T.root]} THEN obj[t]
                        ELSE [obj[t] EXCEPT
                          !.branch = IF t = trace[parent] THEN o ELSE @,
                          !.count = IF t = trace[parent] THEN SNAPCOUNT_DONE ELSE @,
                          !.nextside = IF t = trace[T.root] THEN T.no ELSE @,
                          !.nchild = IF t = trace[T.root] THEN @ + 1 ELSE @]]
           stitched == [obj EXCEPT ![trace[exitno]].link = T.no]
<1>2. /\ state = "ASM" /\ obj[o] = Free
      /\ cur.kind = "side" => Exists(parent) /\ Exists(T.root)
      /\ cur.kind = "stitch" => Exists(exitno)
      /\ IsRoot(cur) => /\ bc' = [bc EXCEPT ![T.pc] = [op |-> J, d |-> T.no]]
                        /\ head' = [head EXCEPT ![T.pt] = T.no]
                        /\ obj' = saved(obj)
      /\ cur.kind = "side" => obj' = saved(linked) /\ UNCHANGED <<bc, head>>
      /\ cur.kind = "stitch" => obj' = saved(stitched) /\ UNCHANGED <<bc, head>>
      /\ trace' = [trace EXCEPT ![T.no] = o]
      /\ cur' = [cur EXCEPT !.no = 0]
      /\ state' = "IDLE"
      /\ UNCHANGED <<nojit, iloop, sizetrace, freetrace, dead, jpc, err, parent, exitno,
                     patch, unroll, penVars, mcarea, run, conts>>
  BY DEF trace_stop, IsRoot
<1>3. cur \in Trace /\ obj \in [Tr -> Trace \union {Free}] /\ trace \in [TraceNo -> Tr \union {Nil, Cur}]
      /\ head \in [Proto -> 0..maxtrace] /\ SNAPCOUNT_DONE \in Nat /\ maxtrace \in Nat
  BY <1>1, TypesOf, ConstantsOK
<1>4. /\ T.no = c /\ T.kind = cur.kind /\ T.pt = cur.pt /\ T.pc = cur.pc /\ T.root = cur.root
      /\ T.link = cur.link /\ T.nextroot = cur.nextroot /\ T.nextside = cur.nextside
      /\ T.nchild = cur.nchild /\ T.branch = cur.branch /\ T.count = cur.count /\ T \in Trace
      /\ T.to = TailOf(o)
  <2>1. TailOf(o) \in Tr \union {Nil}
    BY <1>2, TailTypes
  <2> QED BY <1>3, <2>1 DEF Trace
<1>5. c \in TraceNo /\ trace[c] = Cur /\ patch = Nil
  <2>1. c # 0 /\ c \in 0..maxtrace
    BY <1>1, <1>2, <1>3 DEF Compiled, Busy, Trace
  <2>2. c \in TraceNo
    BY <1>3, <2>1 DEF TraceNo
  <2>3. trace[c] = Cur
    BY <1>1, <2>2 DEF Numbered
  <2>4. patch = Nil
    BY <1>1, <1>2 DEF PatchPending
  <2> QED BY <2>2, <2>3, <2>4
<1>6. /\ cur.nextroot = 0 /\ cur.nextside = 0 /\ cur.branch = Nil
      /\ cur.kind \in {"root", "ret", "side", "stitch"}
      /\ cur.kind = "stitch" => exitno # 0
  BY <1>1, <1>2 DEF Compiled, Busy
<1> HIDE DEF T, new
<1>7. /\ new \in Trace
      /\ new.no = c /\ new.kind = cur.kind /\ new.pt = cur.pt /\ new.pc = cur.pc /\ new.root = cur.root
      /\ new.link = cur.link
      /\ new.nextroot = IF IsRoot(cur) THEN head[cur.pt] ELSE 0
      /\ new.nextside = IF cur.kind = "side" THEN traceref(cur.root).nextside ELSE 0
      /\ new.to = TailOf(o) /\ new.branch = Nil
  <2>1. CASE IsRoot(cur)
    <3>1. head[cur.pt] \in 0..maxtrace
      BY <1>3 DEF Trace
    <3>2. new = [T EXCEPT !.nextroot = head[cur.pt]]
      BY <1>4, <2>1 DEF new, NextRoot
    <3> QED BY <1>3, <1>4, <1>6, <2>1, <3>1, <3>2 DEF Trace, IsRoot
  <2>2. CASE cur.kind = "side"
    <3>1. traceref(cur.root) \in Trace
      <4>1. Exists(cur.root) /\ cur.root \in TraceNo
        BY <1>2, <1>4, <2>2 DEF Exists
      <4> QED BY <1>1, <1>3, <4>1 DEF Exists, traceref, Numbered
    <3>2. new = [T EXCEPT !.nextside = traceref(cur.root).nextside]
      BY <1>4, <2>2 DEF new, IsRoot
    <3>3. traceref(cur.root).nextside \in 0..maxtrace
      BY <3>1 DEF Trace
    <3> QED BY <1>4, <1>6, <2>2, <3>2, <3>3 DEF Trace, IsRoot
  <2>3. CASE cur.kind = "stitch"
    BY <1>4, <1>6, <2>3 DEF new, IsRoot
  <2> QED BY <1>6, <2>1, <2>2, <2>3 DEF IsRoot
<1>8. CASE IsRoot(cur)
  <2>1. obj' = [obj EXCEPT ![o] = new]
    BY <1>2, <1>8
  <2>2. bc' = [bc EXCEPT ![cur.pc] = [op |-> J, d |-> c]] /\ head' = [head EXCEPT ![cur.pt] = c]
    BY <1>2, <1>4, <1>8
  <2>3. cur.kind # "side" /\ cur.kind # "stitch"
    BY <1>8 DEF IsRoot
  <2> HIDE DEF c
  <2> QED BY <1>2, <1>3, <1>4, <1>5, <1>7, <1>8, <2>1, <2>2, <2>3 DEF Stores, SameTrace, c
<1>9. CASE cur.kind = "side"
  <2>1. obj' = [linked EXCEPT ![o] = new] /\ ~ IsRoot(cur) /\ bc' = bc /\ head' = head
    BY <1>2, <1>9 DEF IsRoot
  <2>2. ASSUME NEW t \in Tr \ {o}
        PROVE  /\ linked[t] \in Trace \union {Free}
               /\ linked[t] = Free <=> obj[t] = Free
               /\ obj[t] # Free => SameTrace(linked[t], obj[t]) /\ linked[t].link = obj[t].link
               /\ obj[t] # Free => linked[t].nextside = IF t = trace[cur.root] THEN c ELSE obj[t].nextside
               /\ obj[t] # Free => linked[t].branch = IF t = trace[parent] THEN o ELSE obj[t].branch
    <3>1. CASE t \notin {trace[parent], trace[T.root]}
      BY <1>3, <1>4, <3>1 DEF SameTrace
    <3>2. CASE t \in {trace[parent], trace[T.root]}
      <4>1. parent \in TraceNo /\ T.root \in TraceNo
        BY <1>2, <1>9 DEF Exists
      <4>2. obj[t] \in Trace
        BY <1>1, <1>3, <3>2, <4>1 DEF Numbered
      <4> DEFINE b == IF t = trace[parent] THEN o ELSE obj[t].branch
                 k == IF t = trace[parent] THEN SNAPCOUNT_DONE ELSE obj[t].count
                 s == IF t = trace[T.root] THEN T.no ELSE obj[t].nextside
                 m == IF t = trace[T.root] THEN obj[t].nchild + 1 ELSE obj[t].nchild
      <4>3. linked[t] = [obj[t] EXCEPT !.branch = b, !.count = k, !.nextside = s, !.nchild = m]
        BY <3>2
      <4>4. b \in Tr \union {Nil} /\ k \in 0..SNAPCOUNT_DONE /\ s \in 0..maxtrace /\ m \in Nat
        BY <1>3, <1>4, <4>2 DEF Trace
      <4> HIDE DEF b, k, m, linked
      <4>5. /\ linked[t] \in Trace /\ linked[t].nextside = s /\ linked[t].link = obj[t].link /\ linked[t].branch = b
            /\ SameTrace(linked[t], obj[t])
        <5>1. linked[t] \in Trace
          <6>1. [obj[t] EXCEPT !.branch = b, !.count = k, !.nextside = s, !.nchild = m] \in Trace
            BY <4>2, <4>4, LinkedType, Zenon
          <6> QED BY <4>3, <6>1, Zenon
        <5>2. linked[t].nextside = s /\ linked[t].branch = b
          BY <4>2, <4>3 DEF Trace
        <5>3. linked[t].link = obj[t].link /\ SameTrace(linked[t], obj[t])
          BY <4>2, <4>3 DEF Trace, SameTrace
        <5> QED BY <5>1, <5>2, <5>3
      <4>6. s = IF t = trace[cur.root] THEN c ELSE obj[t].nextside
        BY <1>4 DEF s
      <4> QED BY <4>2, <4>5, <4>6, DistinctOK DEF b
    <3> QED BY <3>1, <3>2
  <2>3. DOMAIN linked = Tr /\ linked[o] \in Trace \union {Free}
    <3>1. o \notin {trace[parent], trace[T.root]}
      BY <1>1, <1>2, <1>9 DEF Numbered, Exists
    <3> QED BY <1>3, <3>1
  <2>4. linked = [t \in Tr |-> linked[t]]
    OBVIOUS
  <2> HIDE DEF linked
  <2>5. obj' \in [Tr -> Trace \union {Free}] /\ obj'[o] = new /\ \A t \in Tr \ {o} : obj'[t] = linked[t]
    BY <1>7, <2>1, <2>2, <2>3, <2>4
  <2> HIDE DEF c
  <2> QED BY <1>2, <1>4, <1>5, <1>7, <1>9, <2>1, <2>2, <2>5 DEF Stores, c
<1>10. CASE cur.kind = "stitch"
  <2>1. obj' = [stitched EXCEPT ![o] = new] /\ ~ IsRoot(cur) /\ bc' = bc /\ head' = head
    BY <1>2, <1>10 DEF IsRoot
  <2>2. exitno \in TraceNo /\ stitched = [obj EXCEPT ![trace[exitno]].link = c]
    BY <1>2, <1>4, <1>10 DEF Exists
  <2>3. trace[exitno] \in Tr => obj[trace[exitno]] \in Trace
    BY <1>1, <1>3, <2>2 DEF Numbered
  <2>4. trace[exitno] \in Tr => [obj[trace[exitno]] EXCEPT !.link = c] \in Trace
    <3>1. c \in 0..maxtrace
      BY <1>3, <1>5 DEF TraceNo
    <3> HIDE DEF c
    <3> QED BY <2>3, <3>1 DEF Trace
  <2>5. stitched \in [Tr -> Trace \union {Free}]
    BY <1>3, <2>2, <2>4
  <2>6. ASSUME NEW t \in Tr \ {o}
        PROVE  /\ stitched[t] = Free <=> obj[t] = Free
               /\ obj[t] # Free => /\ SameTrace(stitched[t], obj[t]) /\ stitched[t].nextside = obj[t].nextside
                                   /\ stitched[t].branch = obj[t].branch
               /\ obj[t] # Free => stitched[t].link = IF t = trace[exitno] THEN c ELSE obj[t].link
    <3>1. CASE t = trace[exitno]
      <4>1. stitched[t] = [obj[t] EXCEPT !.link = c]
        BY <1>3, <2>2, <3>1
      <4>2. obj[t] \in Trace /\ stitched[t] \in Trace
        BY <2>3, <2>4, <3>1, <4>1
      <4> HIDE DEF stitched
      <4> QED BY <3>1, <4>1, <4>2, DistinctOK DEF Trace, SameTrace
    <3>2. CASE t # trace[exitno]
      BY <1>3, <2>2, <3>2 DEF SameTrace
    <3> QED BY <3>1, <3>2
  <2> HIDE DEF stitched
  <2>7. obj' \in [Tr -> Trace \union {Free}] /\ obj'[o] = new /\ \A t \in Tr \ {o} : obj'[t] = stitched[t]
    BY <1>7, <2>1, <2>5
  <2> HIDE DEF c
  <2> QED BY <1>2, <1>4, <1>5, <1>7, <1>10, <2>1, <2>6, <2>7 DEF Stores, c
<1> QED BY <1>6, <1>8, <1>9, <1>10 DEF IsRoot

\* trace_stop keeps the types.
LEMMA StopTypes ==
  ASSUME TraceInv, NEW o \in Tr, trace_stop(o)
  PROVE  TraceType'
<1>1. TraceType
  BY DEF TraceInv
<1>2. CASE Crash
  BY <1>1, <1>2, TypesOf, CompilerTypes DEF Crash, States
<1>3. CASE ~ Crash
  <2>1. Stores(o)
    BY <1>3, StopStores
  <2>2. maxtrace \in Nat /\ cur.no \in TraceNo /\ cur \in Trace /\ bc \in Bytes /\ NoI(bc)
        /\ head \in [Proto -> 0..maxtrace] /\ trace \in [TraceNo -> Tr \union {Nil, Cur}]
    BY <1>1, <2>1, TypesOf, ConstantsOK DEF Stores
  <2>3. /\ bc' = IF IsRoot(cur) THEN [bc EXCEPT ![cur.pc] = [op |-> J, d |-> cur.no]] ELSE bc
        /\ head' = IF IsRoot(cur) THEN [head EXCEPT ![cur.pt] = cur.no] ELSE head
        /\ trace' = [trace EXCEPT ![cur.no] = o] /\ cur' = [cur EXCEPT !.no = 0] /\ state' = "IDLE"
    BY <2>1 DEF Stores
  <2>4. bc' \in Bytes /\ NoI(bc')
    <3> DEFINE ins == [op |-> J, d |-> cur.no]
    <3>1. ins \in [op : 0..2, d : 0..maxtrace] /\ ins.op # I
      BY <2>2 DEF J, I, TraceNo
    <3>2. bc' = IF IsRoot(cur) THEN [bc EXCEPT ![cur.pc] = ins] ELSE bc
      BY <2>3
    <3>3. Ret \subseteq PC
      BY DEF PC
    <3> HIDE DEF ins
    <3> QED BY <2>2, <3>1, <3>2, <3>3 DEF Bytes, NoI
  <2>5. head' \in [Proto -> 0..maxtrace] /\ trace' \in [TraceNo -> Tr \union {Nil, Cur}]
    <3>1. cur.no \in 0..maxtrace
      BY <2>2 DEF TraceNo
    <3>2. head' \in [Proto -> 0..maxtrace]
      BY <2>2, <2>3, <3>1
    <3>3. trace' \in [TraceNo -> Tr \union {Nil, Cur}]
      BY <2>2, <2>3
    <3> QED BY <3>2, <3>3
  <2>6. cur' \in Trace /\ state' \in States
    <3>1. 0 \in 0..maxtrace
      BY <2>2
    <3>2. cur' \in Trace
      BY <2>2, <2>3, <3>1, Renumbered
    <3>3. state' \in States
      BY <2>3 DEF States
    <3> QED BY <3>2, <3>3
  <2> QED BY <1>1, <2>1, <2>4, <2>5, <2>6, TypesOf, CompilerTypes DEF Stores
<1> QED BY <1>2, <1>3

\* Every state of trace_state keeps the types.
LEMMA CompileTypes ==
  ASSUME TraceInv, Compile
  PROVE  TraceType'
<1>1. TraceType /\ PatchPending /\ Numbered /\ Started
  BY DEF TraceInv, Compiler, Table
<1>2. /\ Repatched \in Bytes /\ NoI(Repatched)
  BY <1>1, Bytecode DEF Bytes, NoI
<1>3. States = {"IDLE", "START", "RECORD", "END", "ASM", "ERR", "ABORTED", "DOWNREC", "MCODEAL", "CRASH"}
      /\ Errors = {"RECERR", "RETRY", "DOWNREC", "MCODELM", "MCODEAL"}
  BY DEF States, Errors
<1>4. maxtrace \in Nat /\ maxunroll \in Nat /\ maxmcode \in Nat /\ 0 \in 0..maxtrace
  BY ConstantsOK
<1>5. ASSUME trace_start
      PROVE  TraceType'
  <2>1. /\ state = "START" /\ jpc.pt \in Proto
        /\ UNCHANGED <<dead, err, parent, exitno, jpc, run, conts>>
    BY <1>1, <1>5 DEF trace_start, Started
  <2>2. CASE NoJIT /\ state' = "IDLE"
    <3>1. bc' \in Bytes /\ NoI(bc')
      <4>1. CASE bc' = bc
        BY <1>1, <4>1, TypesOf
      <4>2. CASE bc' # bc
        <5>1. parent = 0 /\ exitno = 0 /\ bc' = [bc EXCEPT ![jpc.pc].op = @ + I] /\ bc \in Bytes /\ NoI(bc)
          BY <1>1, <2>2, <4>2, TypesOf DEF NoJIT
        <5>2. jpc.pc \in PC
          BY <4>2, <5>1 DEF Bytes
        <5>3. jpc.pc \in Loop \union Func /\ bc[jpc.pc].op = 0
          BY <1>1, <2>1, <5>1, <5>2, ConstantsOK DEF Started
        <5>4. jpc.pc \notin Ret
          BY <5>3, ConstantsOK
        <5> QED BY <5>1, <5>2, <5>3, <5>4 DEF Bytes, NoI, I, PC
      <4> QED BY <4>1, <4>2
    <3>2. iloop' \in SUBSET Proto
      BY <1>1, <2>1, <2>2, TypesOf DEF NoJIT
    <3> QED BY <1>1, <1>3, <2>1, <2>2, <3>1, <3>2, TypesOf, CompilerTypes DEF NoJIT
  <2>3. CASE NoFreeTrace /\ state' = "IDLE"
    BY <1>1, <1>3, <2>1, <2>3, FlushAllTypes, TypesOf, CompilerTypes DEF NoFreeTrace
  <2>4. ASSUME NEW x \in {Nil} \union (IF jpc.kind = "side" THEN {r \in Ret : bc[r].op = J} ELSE {}),
               StartTrace(x)
        PROVE  TraceType'
    <3>1. x \in {Nil} \union Ret /\ (x # Nil => bc[x].op = J)
      BY <2>4
    <3> QED BY <1>1, <2>1, <2>4, <3>1, StartTypes, TypesOf
  <2> QED BY <1>5, <2>2, <2>3, <2>4 DEF trace_start
<1>6. ASSUME lj_opt_loop
      PROVE  TraceType'
  <2>1. cur' = cur \/ cur' = [cur EXCEPT !.link = 0, !.ltype = "none"]
    BY <1>6 DEF lj_opt_loop
  <2>2. cur' \in Trace
    <3> DEFINE U == [cur EXCEPT !.link = 0]
    <3>1. cur \in Trace
      BY <1>1, TypesOf
    <3>2. U \in Trace
      BY <1>4, <3>1 DEF Trace
    <3>3. cur' = cur \/ cur' = [U EXCEPT !.ltype = "none"]
      BY <2>1, <3>1 DEF Trace
    <3> HIDE DEF U
    <3> QED BY <3>1, <3>2, <3>3 DEF Trace, Links
  <2>3. unroll' \in 0..maxunroll /\ state' \in States /\ err' \in Errors \union {Nil}
    BY <1>1, <1>3, <1>4, <1>6, TypesOf DEF lj_opt_loop
  <2> QED BY <1>1, <1>2, <1>6, <2>2, <2>3, TypesOf, CompilerTypes DEF lj_opt_loop
<1>7. ASSUME lj_asm_error
      PROVE  TraceType'
  <2>1. mcarea' \in 0..maxmcode /\ err' \in Errors /\ state' \in States
    BY <1>1, <1>3, <1>4, <1>7, TypesOf DEF lj_asm_error
  <2> QED BY <1>1, <1>7, <2>1, TypesOf, CompilerTypes DEF lj_asm_error
<1>8. ASSUME trace_abort
      PROVE  TraceType'
  <2>1. state \in Busy
    BY <1>8 DEF trace_abort, Busy
  <2>2. CASE UNCHANGED <<bc, iloop, obj, trace, freetrace, cur, penVars, patch>>
    <3>1. state' \in States
      BY <1>3, <1>8 DEF trace_abort
    <3> QED BY <1>1, <1>8, <2>2, <3>1, TypesOf, CompilerTypes DEF trace_abort
  <2>3. CASE Penalize /\ DropCur /\ patch' = Nil
             /\ state' = IF Aborted \in {"DOWNREC", "MCODEAL"} THEN Aborted ELSE "IDLE"
    <3>1. cur \in Trace /\ trace \in [TraceNo -> Tr \union {Nil, Cur}] /\ freetrace \in 0..maxtrace + 1
      BY <1>1, TypesOf
    <3>2. cur' \in Trace
      BY <1>4, <2>3, <3>1, Renumbered DEF DropCur
    <3>3. trace' \in [TraceNo -> Tr \union {Nil, Cur}]
      BY <2>3, <3>1 DEF DropCur
    <3>4. freetrace' \in 0..maxtrace + 1
      <4>1. cur.no \in 0..maxtrace
        BY <3>1 DEF Trace
      <4> QED BY <1>4, <2>3, <3>1, <4>1 DEF DropCur, Smaller
    <3>5. state' \in States
      BY <1>3, <2>3
    <3> QED BY <1>1, <1>8, <2>1, <2>3, <3>2, <3>3, <3>4, <3>5, PenaltyTypes, TypesOf, CompilerTypes
            DEF trace_abort
  <2> QED BY <1>8, <2>2, <2>3 DEF trace_abort
<1>9. ASSUME trace_downrec
      PROVE  TraceType'
  <2>1. jpc.pt \in Proto
    BY <1>1, <1>9, ConstantsOK DEF trace_downrec, Started, PC
  <2> QED BY <1>4, <1>9, <2>1, StartTypes DEF trace_downrec
<1>10. ASSUME MCodeFlush
       PROVE  TraceType'
  BY <1>1, <1>3, <1>10, FlushAllTypes, TypesOf, CompilerTypes DEF MCodeFlush
<1> QED BY <1>5, <1>6, <1>7, <1>8, <1>9, <1>10, StopTypes DEF Compile

\* Every step keeps the types.
LEMMA TypesKept ==
  ASSUME TraceInv, "throw" \notin Ops, [Next]_vars
  PROVE  TraceType'
<1>1. TraceType
  BY DEF TraceInv
<1>2. CASE UNCHANGED vars
  BY <1>1, <1>2, TypesOf, CompilerTypes DEF vars
<1>3. ASSUME NEW pc \in PC, lj_trace_hot(pc)
      PROVE  TraceType'
  <2>1. jpc' \in Starts /\ 0 \in 0..maxtrace
    BY <1>3, ConstantsOK DEF lj_trace_hot, Starts, Kinds
  <2>2. parent' \in 0..maxtrace /\ exitno' \in 0..maxtrace /\ state' \in States
    BY <1>3, <2>1 DEF lj_trace_hot, States
  <2> QED BY <1>1, <1>3, <2>1, <2>2, TypesOf, CompilerTypes DEF lj_trace_hot
<1> QED BY <1>2, <1>3, CompileTypes, RecordTypes, RunTypes, HostTypes, CollectTypes DEF Next

-----------------------------------------------------------------------------
(* What steps do to the table of traces and to the fields that refer to    *)
(* other traces.                                                           *)

SameLinks(T, U) ==
  SameTrace(T, U) /\ T.link = U.link /\ T.nextside = U.nextside /\ T.branch = U.branch

\* Nothing.
Calm ==
  /\ UNCHANGED <<trace, sizetrace, freetrace, head, nojit, dead>>
  /\ cur'.no = cur.no
  /\ \A t \in Tr : /\ obj'[t] = Free <=> obj[t] = Free
                   /\ obj[t] # Free => SameLinks(obj'[t], obj[t])

\* All traces are gone.
AllFlushed ==
  /\ lj_trace_flushall
  /\ state \in Quiet /\ state' = "IDLE" /\ run = Nil
  /\ UNCHANGED <<nojit, iloop, sizetrace, dead, patch, run, conts>>

\* A number is taken, and given back.
Taken ==
  /\ state \in {"START", "DOWNREC"} /\ \E x \in {Nil} \union Ret : StartTrace(x)
  /\ UNCHANGED <<dead, run, conts>>
Dropped ==
  /\ state \in {"ERR", "ABORTED"} /\ Penalize /\ DropCur /\ patch' = Nil
  /\ UNCHANGED <<nojit, head, sizetrace, dead, run, conts>>

\* Trace n is taken from the chain of its prototype.
Unchained(n) ==
  LET T == obj[trace[n]] IN
  /\ bc' = trace_unpatch(bc, T) /\ patch = Nil
  /\ head' = IF head[T.pt] = n THEN [head EXCEPT ![T.pt] = T.nextroot] ELSE head
  /\ \A t \in Tr : /\ obj'[t] = Free <=> obj[t] = Free
                   /\ obj[t] # Free =>
                        /\ obj'[t].no = obj[t].no /\ obj'[t].kind = obj[t].kind /\ obj'[t].pt = obj[t].pt
                        /\ obj'[t].pc = obj[t].pc /\ obj'[t].root = obj[t].root
                        /\ obj'[t].link = obj[t].link /\ obj'[t].nextside = obj[t].nextside
                        /\ obj'[t].to = obj[t].to /\ obj'[t].branch = obj[t].branch
                        /\ \/ obj'[t].nextroot = obj[t].nextroot
                           \/ obj[t].nextroot = n /\ obj'[t].nextroot = T.nextroot
  /\ UNCHANGED <<nojit, trace, sizetrace, freetrace, dead, patch, cur>>

\* Objects that stay the same, one by one.
LEMMA SameObjects ==
  ASSUME obj' = obj
  PROVE  \A t \in Tr : (obj'[t] = Free <=> obj[t] = Free) /\ SameLinks(obj'[t], obj[t])
BY DEF SameLinks, SameTrace

\* Flushing one trace, with no patch pending, takes it off its chain as Unchained says.
LEMMA FlushUnchains ==
  ASSUME TraceInv, NEW n, Saved(n), patch = Nil, lj_trace_flush(n),
         UNCHANGED <<nojit, trace, sizetrace, freetrace, dead, patch, cur>>
  PROVE  Unchained(n)
<1>1. TraceType /\ Numbered
  BY DEF TraceInv, Table
<1> DEFINE T == traceref(n)
           before == {k \in Chain(T.pt) : Saved(k) /\ traceref(k).nextroot = n}
<1>2. T = obj[trace[n]] /\ T \in Trace
  BY <1>1, SavedNumbers
<1>3. /\ bc' = trace_unpatch(bc, T)
      /\ IF head[T.pt] = n
         THEN head' = [head EXCEPT ![T.pt] = T.nextroot] /\ obj' = obj
         ELSE /\ obj' = [t \in Tr |-> IF \E k \in before : trace[k] = t
                                      THEN [obj[t] EXCEPT !.nextroot = T.nextroot] ELSE obj[t]]
              /\ head' = head
  BY DEF lj_trace_flush, trace_flushroot
<1>4. \A k \in before : obj[trace[k]] \in Trace /\ obj[trace[k]].nextroot = n
  BY <1>1, SavedNumbers
<1> HIDE DEF T, before
<1>5. ASSUME NEW t \in Tr
      PROVE  /\ obj'[t] = Free <=> obj[t] = Free
             /\ obj[t] # Free =>
                  /\ obj'[t].no = obj[t].no /\ obj'[t].kind = obj[t].kind /\ obj'[t].pt = obj[t].pt
                  /\ obj'[t].pc = obj[t].pc /\ obj'[t].root = obj[t].root
                  /\ obj'[t].link = obj[t].link /\ obj'[t].nextside = obj[t].nextside
                  /\ obj'[t].to = obj[t].to /\ obj'[t].branch = obj[t].branch
                  /\ \/ obj'[t].nextroot = obj[t].nextroot
                     \/ obj[t].nextroot = n /\ obj'[t].nextroot = T.nextroot
  <2>1. CASE obj'[t] = obj[t]
    BY <2>1
  <2>2. CASE obj'[t] # obj[t]
    <3>1. obj[t] \in Trace /\ obj[t].nextroot = n /\ obj'[t] = [obj[t] EXCEPT !.nextroot = T.nextroot]
      BY <1>3, <1>4, <2>2
    <3>2. T.nextroot \in 0..maxtrace
      BY <1>2 DEF Trace
    <3>3. obj'[t] \in Trace
      BY <3>1, <3>2 DEF Trace
    <3> QED BY <3>1, <3>3, DistinctOK DEF Trace
  <2> QED BY <2>1, <2>2
<1> QED BY <1>2, <1>3, <1>5 DEF Unchained

\* Every step is one of these, a switch of a prototype, or the collector's.
LEMMA CalmRecord ==
  ASSUME TraceInv, Record
  PROVE  Calm \/ \E n \in TraceNo : IsLive(n) /\ Unchained(n)
<1>1. TraceType /\ PatchPending /\ Numbered
  BY DEF TraceInv, Compiler, Table
<1>2. ASSUME lj_record_ins \/ lj_trace_err \/ lj_trace_abort \/ (\E pc \in Func : rec_func_jit(pc))
      PROVE  Calm
  <2>1. UNCHANGED <<trace, sizetrace, freetrace, head, nojit, dead, obj, cur>>
    BY <1>2 DEF lj_record_ins, lj_trace_err, lj_trace_abort, rec_func_jit
  <2> QED BY <2>1, SameObjects DEF Calm
<1>3. ASSUME lj_record_stop
      PROVE  Calm
  <2>1. UNCHANGED <<trace, sizetrace, freetrace, head, nojit, dead, obj>>
    BY <1>3 DEF lj_record_stop
  <2>2. cur'.no = cur.no
    BY <1>1, <1>3, TypesOf DEF lj_record_stop, Trace
  <2> QED BY <2>1, <2>2, SameObjects DEF Calm
<1>4. ASSUME NEW pc \in Func, check_call_unroll(pc)
      PROVE  \E n \in TraceNo : IsLive(n) /\ Unchained(n)
  <2> DEFINE n == bc[pc].d
  <2>1. pc \in PC /\ bc[pc].op = J /\ patch = Nil /\ lj_trace_flush(n)
        /\ UNCHANGED <<nojit, trace, sizetrace, freetrace, dead, patch, cur>>
    BY <1>4 DEF check_call_unroll, PC
  <2>2. n \in TraceNo /\ IsLive(n)
    BY <1>1, <2>1, Bytecode, PatchedRoots
  <2> HIDE DEF n
  <2>3. Unchained(n)
    BY <2>1, <2>2, FlushUnchains DEF IsLive
  <2> QED BY <2>2, <2>3
<1> QED BY <1>2, <1>3, <1>4 DEF Record

\* Running code and hot counts change no chain.
LEMMA CalmRun ==
  ASSUME TraceInv, Run
  PROVE  Calm
<1>1. TraceType /\ Numbered
  BY DEF TraceInv, Table
<1>2. ASSUME NEW p \in Proto, trace_hotside(p)
      PROVE  Calm
  <2>1. UNCHANGED <<trace, sizetrace, freetrace, head, nojit, dead, cur>>
        /\ obj' = [obj EXCEPT ![run].count = @ + 1] /\ run \in Tr /\ obj[run] # Free
        /\ obj[run].count # SNAPCOUNT_DONE
    BY <1>1, <1>2, TypesOf DEF trace_hotside
  <2>2. obj[run] \in Trace /\ obj[run].count \in 0..SNAPCOUNT_DONE /\ SNAPCOUNT_DONE \in Nat
    BY <1>1, <2>1, TypesOf, ConstantsOK DEF Trace
  <2>3. obj'[run] = [obj[run] EXCEPT !.count = obj[run].count + 1]
    BY <1>1, <2>1, TypesOf
  <2>4. obj'[run] # Free /\ SameLinks(obj'[run], obj[run])
    <3>1. obj'[run].no = obj[run].no /\ SameLinks(obj'[run], obj[run])
      BY <2>2, <2>3 DEF Trace, SameLinks, SameTrace
    <3>2. obj'[run] # Free
      <4>1. obj[run].count + 1 \in 0..SNAPCOUNT_DONE
        BY <2>1, <2>2
      <4>2. obj'[run] \in Trace
        BY <2>2, <2>3, <4>1 DEF Trace
      <4> QED BY <4>2, DistinctOK
    <3> QED BY <3>1, <3>2
  <2>5. \A t \in Tr \ {run} : obj'[t] = obj[t]
    BY <1>1, <2>1, TypesOf
  <2> QED BY <2>1, <2>4, <2>5 DEF Calm, SameLinks, SameTrace
<1>3. ASSUME \/ \E pc \in PC : EnterTrace(pc)
             \/ JumpOn \/ LeaveTrace \/ lj_trace_exit
             \/ \E p \in Proto : \E t \in Tr : lj_cont_stitch(t, p)
             \/ \E t \in Tr : Unwind(t)
      PROVE  Calm
  <2>1. UNCHANGED <<trace, sizetrace, freetrace, head, nojit, dead, obj, cur>>
    BY <1>3 DEF EnterTrace, JumpOn, LeaveTrace, lj_trace_exit, lj_cont_stitch, Unwind
  <2> QED BY <2>1, SameObjects DEF Calm
<1> QED BY <1>2, <1>3 DEF Run

\* A state of trace_state leaves the chains, flushes all, takes or drops a number, or stores a trace.
LEMMA CalmCompile ==
  ASSUME TraceInv, Compile
  PROVE  \/ Calm \/ AllFlushed \/ Taken \/ Dropped \/ \E o \in Tr : Stores(o)
<1>1. TraceType /\ PatchPending /\ Numbered
  BY DEF TraceInv, Compiler, Table
<1>2. ASSUME trace_start
      PROVE  Calm \/ AllFlushed \/ Taken
  <2>1. CASE NoJIT
    <3>1. UNCHANGED <<trace, sizetrace, freetrace, head, nojit, dead, obj, cur>>
      BY <1>2, <2>1 DEF trace_start, NoJIT
    <3> QED BY <3>1, SameObjects DEF Calm
  <2>2. CASE NoFreeTrace /\ state' = "IDLE"
    BY <1>1, <1>2, <2>2 DEF trace_start, NoFreeTrace, AllFlushed, Quiet, PatchPending
  <2>3. ASSUME NEW x \in {Nil} \union (IF jpc.kind = "side" THEN {r \in Ret : bc[r].op = J} ELSE {}),
               StartTrace(x)
        PROVE  Taken
    <3>1. x \in {Nil} \union Ret
      BY <2>3
    <3> QED BY <1>2, <2>3, <3>1 DEF trace_start, Taken
  <2> QED BY <1>2, <2>1, <2>2, <2>3 DEF trace_start
<1>3. ASSUME lj_opt_loop
      PROVE  Calm
  <2>1. UNCHANGED <<trace, sizetrace, freetrace, head, nojit, dead, obj>>
        /\ cur' \in {cur, [cur EXCEPT !.link = 0, !.ltype = "none"]}
    BY <1>3 DEF lj_opt_loop
  <2>2. cur'.no = cur.no
    BY <1>1, <2>1, TypesOf DEF Trace
  <2> QED BY <2>1, <2>2, SameObjects DEF Calm
<1>4. ASSUME lj_asm_error
      PROVE  Calm
  <2>1. UNCHANGED <<trace, sizetrace, freetrace, head, nojit, dead, obj, cur>>
    BY <1>4 DEF lj_asm_error
  <2> QED BY <2>1, SameObjects DEF Calm
<1>5. ASSUME NEW o \in Tr, trace_stop(o)
      PROVE  Calm \/ Stores(o)
  <2>1. CASE Crash
    <3>1. UNCHANGED <<trace, sizetrace, freetrace, head, nojit, dead, obj, cur>>
      BY <2>1 DEF Crash
    <3> QED BY <3>1, SameObjects DEF Calm
  <2> QED BY <1>5, <2>1, StopStores
<1>6. ASSUME trace_abort
      PROVE  Calm \/ Dropped
  <2>1. CASE UNCHANGED <<bc, iloop, obj, trace, freetrace, cur, penVars, patch>>
    <3>1. UNCHANGED <<trace, sizetrace, freetrace, head, nojit, dead, obj, cur>>
      BY <1>6, <2>1 DEF trace_abort
    <3> QED BY <3>1, SameObjects DEF Calm
  <2> QED BY <1>6, <2>1 DEF trace_abort, Dropped
<1>7. ASSUME trace_downrec
      PROVE  Taken
  BY <1>7 DEF trace_downrec, Taken
<1>8. ASSUME MCodeFlush
      PROVE  AllFlushed
  BY <1>1, <1>8 DEF MCodeFlush, AllFlushed, Quiet, PatchPending
<1> QED BY <1>2, <1>3, <1>4, <1>5, <1>6, <1>7, <1>8 DEF Compile

\* The host changes chains by flushes and modes only.
LEMMA CalmHost ==
  ASSUME TraceInv, Host
  PROVE  \/ AllFlushed
         \/ \E n \in TraceNo : Saved(n) /\ Unchained(n)
         \/ \E p \in Proto, mode \in {"on", "off", "flush"} : setptmode(p, mode)
<1>1. TraceType /\ PatchPending /\ Numbered
  BY DEF TraceInv, Compiler, Table
<1>2. ASSUME FlushAll
      PROVE  AllFlushed
  BY <1>2 DEF FlushAll, Calls, AllFlushed, Quiet
<1>3. ASSUME NEW n \in TraceNo, FlushTrace(n)
      PROVE  Saved(n) /\ Unchained(n)
  <2>1. Exists(n) /\ state = "IDLE" /\ lj_trace_flush(n) /\ patch = Nil
        /\ UNCHANGED <<nojit, trace, sizetrace, freetrace, dead, patch, cur>>
    BY <1>1, <1>3 DEF FlushTrace, lj_trace_flush, Calls, PatchPending, Quiet
  <2>2. Saved(n)
    <3>1. trace[n] \in Tr
      BY <2>1, QuietNumbers DEF Quiet
    <3> QED BY <1>1, <2>1, <3>1, SavedNumbers
  <2> QED BY <2>1, <2>2, FlushUnchains
<1> QED BY <1>2, <1>3 DEF Host

\* Every step is one of these.
LEMMA Steps ==
  ASSUME TraceInv, [Next]_vars
  PROVE  \/ Calm \/ AllFlushed \/ Taken \/ Dropped
         \/ \E o \in Tr : Stores(o)
         \/ \E n \in TraceNo : Saved(n) /\ Unchained(n)
         \/ \E p \in Proto, mode \in {"on", "off", "flush"} : setptmode(p, mode)
         \/ GCAtomic
         \/ \E t \in Tr : lj_trace_free(t)
<1>1. ASSUME UNCHANGED vars \/ (\E pc \in PC : lj_trace_hot(pc))
      PROVE  Calm
  <2>1. UNCHANGED <<trace, sizetrace, freetrace, head, nojit, dead, obj, cur>>
    BY <1>1 DEF vars, lj_trace_hot
  <2> QED BY <2>1, SameObjects DEF Calm
<1>2. ASSUME Record
      PROVE  Calm \/ \E n \in TraceNo : Saved(n) /\ Unchained(n)
  BY <1>2, CalmRecord DEF IsLive
<1> QED BY <1>1, <1>2, CalmRun, CalmCompile, CalmHost DEF Next, Collect

-----------------------------------------------------------------------------
(* The table of traces.                                                    *)

\* After a flush of all traces no object has a number and no bytecode is patched.
LEMMA FlushAllEffect ==
  ASSUME TraceInv, patch = Nil, lj_trace_flushall
  PROVE  /\ trace' = [n \in TraceNo |-> Nil] /\ head' = [p \in Proto |-> 0]
         /\ freetrace' = 0 /\ cur'.no = 0
         /\ \A t \in Tr : /\ obj'[t] = Free <=> obj[t] = Free
                          /\ obj[t] # Free => /\ obj'[t].no = 0 /\ obj'[t].kind = obj[t].kind
                                              /\ obj'[t].root = obj[t].root /\ obj'[t].to = obj[t].to
                                              /\ obj'[t].link = IF obj[t].no = 0 THEN obj[t].link ELSE 0
         /\ \A pc \in PC : bc'[pc].op # J
<1>1. TraceType /\ Numbered /\ PatchPending
  BY DEF TraceInv, Table, Compiler
<1>2. trace' = [n \in TraceNo |-> Nil] /\ head' = [p \in Proto |-> 0] /\ freetrace' = 0
  BY DEF lj_trace_flushall
<1>3. cur'.no = 0
  BY <1>1, TypesOf DEF lj_trace_flushall, Trace
<1>4. ASSUME NEW t \in Tr
      PROVE  /\ obj'[t] = Free <=> obj[t] = Free
             /\ obj[t] # Free => /\ obj'[t].no = 0 /\ obj'[t].kind = obj[t].kind
                                 /\ obj'[t].root = obj[t].root /\ obj'[t].to = obj[t].to
                                 /\ obj'[t].link = IF obj[t].no = 0 THEN obj[t].link ELSE 0
  <2>1. CASE t \in InTable
    <3>1. obj[t] \in Trace
      BY <1>1, <2>1, TypesOf DEF InTable, Numbered
    <3>2. obj'[t] = [obj[t] EXCEPT !.no = 0, !.link = 0]
      BY <2>1 DEF lj_trace_flushall
    <3>3. obj'[t] \in Trace
      <4>1. 0 \in 0..maxtrace
        BY ConstantsOK
      <4>2. [obj[t] EXCEPT !.no = 0, !.link = 0] \in Trace
        BY <3>1, <4>1, Renumbered, Zenon
      <4> QED BY <3>2, <4>2
    <3>4. obj[t].no # 0
      BY <1>1, <2>1 DEF InTable, Numbered, TraceNo
    <3> QED BY <3>1, <3>2, <3>3, <3>4, DistinctOK DEF Trace
  <2>2. CASE t \notin InTable
    <3>1. obj'[t] = obj[t]
      BY <2>2 DEF lj_trace_flushall
    <3>2. obj[t] # Free => obj[t].no = 0
      <4>1. SUFFICES ASSUME obj[t] # Free, obj[t].no # 0
                     PROVE  FALSE
        OBVIOUS
      <4>2. obj[t].no \in TraceNo
        <5>1. obj[t] \in Trace
          BY <1>1, <4>1, TypesOf
        <5>2. obj[t].no \in 0..maxtrace /\ maxtrace \in Nat
          BY <5>1, ConstantsOK DEF Trace
        <5> QED BY <4>1, <5>2 DEF TraceNo
      <4> QED BY <1>1, <2>2, <4>1, <4>2 DEF Numbered, InTable
    <3> QED BY <3>1, <3>2
  <2> QED BY <2>1, <2>2
<1>5. ASSUME NEW pc \in PC
      PROVE  bc'[pc].op # J
  <2>1. CASE bc[pc].op = J
    <3> DEFINE n == bc[pc].d
    <3>1. n \in TraceNo /\ IsLive(n) /\ RootAt(n, protoOf[pc]) /\ obj[trace[n]].pc = pc
      BY <1>1, <2>1, Bytecode, PatchedRoots
    <3>2. Exists(n) /\ traceref(n) = obj[trace[n]]
      BY <1>1, <3>1, SavedNumbers DEF IsLive, Saved
    <3>3. IsRoot(traceref(n)) /\ traceref(n).pc = pc
      BY <3>1, <3>2 DEF RootAt
    <3> HIDE DEF n
    <3>4. bc'[pc] = Plain
      BY <2>1, <3>1, <3>2, <3>3 DEF lj_trace_flushall
    <3> QED BY <3>4 DEF Plain, J
  <2>2. CASE bc[pc].op # J
    BY <2>2 DEF lj_trace_flushall
  <2> QED BY <2>1, <2>2
<1> QED BY <1>2, <1>3, <1>4, <1>5

\* What lj_record_setup leaves of the new trace.
LEMMA SetupEffect ==
  ASSUME NEW n, NEW k, NEW p, NEW pc, lj_record_setup(NewTrace(n, k, p, pc))
  PROVE  /\ cur'.no = n /\ cur'.kind = k /\ cur'.pt = p /\ cur'.pc = pc
         /\ cur'.link = 0 /\ cur'.nextroot = 0 /\ cur'.nextside = 0 /\ cur'.to = Nil /\ cur'.branch = Nil
         /\ cur'.ltype # "loop"
         /\ state' \in {"RECORD", "END", "CRASH"}
         /\ k # "side" => cur'.root = 0 /\ state' = "RECORD"
         /\ k = "side" /\ state' # "CRASH" => Exists(parent) /\ Exists(RootOf(parent)) /\ cur'.root = RootOf(parent)
<1> DEFINE T == NewTrace(n, k, p, pc)
<1>1. /\ T.no = n /\ T.kind = k /\ T.pt = p /\ T.pc = pc /\ T.root = 0
      /\ T.link = 0 /\ T.nextroot = 0 /\ T.nextside = 0 /\ T.to = Nil /\ T.branch = Nil /\ T.ltype = "none"
  BY DEF NewTrace
<1>2. CASE k # "side"
  <2>1. cur' = T /\ state' = "RECORD"
    BY <1>1, <1>2 DEF lj_record_setup
  <2> HIDE DEF T
  <2> QED BY <1>1, <1>2, <2>1
<1>3. CASE k = "side" /\ (~Exists(parent) \/ ~Exists(RootOf(parent)))
  <2>1. cur' = T /\ state' = "CRASH"
    BY <1>1, <1>3 DEF lj_record_setup
  <2> HIDE DEF T
  <2> QED BY <1>1, <1>3, <2>1
<1>4. CASE k = "side" /\ Exists(parent) /\ Exists(RootOf(parent))
  <2> DEFINE l == IF GivesUp(parent) THEN "interp" ELSE "none"
  <2>1. cur' = [T EXCEPT !.root = RootOf(parent), !.ltype = l]
        /\ state' \in {"END", "RECORD"}
    BY <1>1, <1>4 DEF lj_record_setup
  <2>2. /\ cur'.no = T.no /\ cur'.kind = T.kind /\ cur'.pt = T.pt /\ cur'.pc = T.pc
        /\ cur'.link = T.link /\ cur'.nextroot = T.nextroot /\ cur'.nextside = T.nextside
        /\ cur'.to = T.to /\ cur'.branch = T.branch /\ cur'.ltype = l /\ cur'.root = RootOf(parent)
    <3> HIDE DEF l
    <3> QED BY <2>1 DEF NewTrace
  <2> HIDE DEF T
  <2> QED BY <1>1, <1>4, <2>1, <2>2
<1> QED BY <1>2, <1>3, <1>4

\* A penalty changes at most the link of the trace that was to be stitched.
LEMMA PenalizeEffect ==
  ASSUME TraceInv, Penalize
  PROVE  /\ \A t \in Tr : /\ obj'[t] = Free <=> obj[t] = Free
                          /\ obj[t] # Free => /\ SameTrace(obj'[t], obj[t])
                                              /\ obj'[t].nextside = obj[t].nextside /\ obj'[t].branch = obj[t].branch
                                              /\ obj'[t].link = obj[t].link \/ (t = trace[exitno] /\ exitno # 0 /\ obj'[t].link = exitno)
<1>1. TraceType /\ Numbered
  BY DEF TraceInv, Table
<1>2. obj' = obj \/ (obj' = [obj EXCEPT ![trace[exitno]].link = exitno] /\ exitno # 0)
  BY DEF Penalize
<1>3. CASE obj' = obj
  BY <1>3 DEF SameTrace
<1>4. CASE obj' = [obj EXCEPT ![trace[exitno]].link = exitno] /\ exitno # 0
  <2>1. exitno \in TraceNo
    BY <1>1, <1>4, TypesOf, ConstantsOK, SMTT(60) DEF TraceNo
  <2>2. ASSUME NEW t \in Tr
        PROVE  /\ obj'[t] = Free <=> obj[t] = Free
               /\ obj[t] # Free => /\ SameTrace(obj'[t], obj[t])
                                   /\ obj'[t].nextside = obj[t].nextside /\ obj'[t].branch = obj[t].branch
                                   /\ obj'[t].link = obj[t].link \/ (t = trace[exitno] /\ exitno # 0 /\ obj'[t].link = exitno)
    <3>1. CASE t = trace[exitno]
      <4>1. obj[t] \in Trace /\ obj'[t] = [obj[t] EXCEPT !.link = exitno]
        BY <1>1, <1>4, <2>1, <3>1, TypesOf DEF Numbered
      <4>2. exitno \in 0..maxtrace
        BY <1>1, TypesOf
      <4>3. obj'[t] \in Trace
        BY <4>1, <4>2 DEF Trace
      <4> QED BY <1>4, <3>1, <4>1, <4>3, DistinctOK DEF Trace, SameTrace
    <3>2. CASE t # trace[exitno]
      BY <1>1, <1>4, <3>2, TypesOf DEF SameTrace
    <3> QED BY <3>1, <3>2
  <2> QED BY <2>2
<1> QED BY <1>2, <1>3, <1>4

\* Every step keeps the table.
LEMMA TableKept ==
  ASSUME TraceInv, TraceType', [Next]_vars
  PROVE  Table'
<1>1. TraceType /\ Room /\ Numbered /\ PatchPending /\ Compiled
  BY DEF TraceInv, Table, Compiler
<1>2. /\ trace \in [TraceNo -> Tr \union {Nil, Cur}] /\ obj \in [Tr -> Trace \union {Free}]
      /\ cur \in Trace /\ dead \in SUBSET Tr /\ sizetrace \in 0..maxtrace + 1 /\ freetrace \in 0..maxtrace + 1
      /\ maxtrace \in Nat /\ maxtrace > 0
  BY <1>1, TypesOf, ConstantsOK, SMTT(60)
<1>3. Nil \notin Tr /\ Cur \notin Tr /\ Cur # Nil
  BY ConstantsOK, DistinctOK
<1>4. ASSUME UNCHANGED <<trace, sizetrace, freetrace, dead>>, cur'.no = cur.no,
             \A t \in Tr : /\ obj'[t] = Free <=> obj[t] = Free
                           /\ obj[t] # Free => obj'[t].no = obj[t].no
      PROVE  Table'
  <2>1. Room'
    BY <1>1, <1>4 DEF Room
  <2>2. Numbered'
    BY <1>1, <1>2, <1>4 DEF Numbered
  <2> QED BY <2>1, <2>2 DEF Table
<1>5. CASE Calm
  BY <1>4, <1>5 DEF Calm, SameLinks, SameTrace
<1>6. CASE AllFlushed
  <2>1. /\ trace' = [n \in TraceNo |-> Nil] /\ freetrace' = 0 /\ cur'.no = 0
        /\ \A t \in Tr : /\ obj'[t] = Free <=> obj[t] = Free
                         /\ obj[t] # Free => obj'[t].no = 0
        /\ sizetrace' = sizetrace /\ dead' = dead
    BY <1>1, <1>6, FlushAllEffect DEF AllFlushed, PatchPending
  <2>2. Room'
    BY <1>1, <1>2, <2>1 DEF Room, TraceNo
  <2>3. Numbered'
    BY <1>1, <1>2, <1>3, <2>1 DEF Numbered, TraceNo
  <2> QED BY <2>2, <2>3 DEF Table
<1>7. CASE Taken
  <2> DEFINE f == trace_findfree
  <2>1. /\ f.no # 0 /\ freetrace' = f.next /\ sizetrace' = f.size /\ trace' = [trace EXCEPT ![f.no] = Cur]
        /\ obj' = obj /\ dead' = dead
        /\ lj_record_setup(NewTrace(f.no, jpc.kind, jpc.pt, jpc.pc))
    BY <1>7 DEF Taken, StartTrace
  <2>2. cur'.no = f.no
    BY <2>1, SetupEffect
  <2>3. /\ f.no \in 0..maxtrace /\ trace[f.no] = Nil /\ f.size \in 0..maxtrace + 1 /\ f.no < f.size /\ f.size > 1
        /\ sizetrace <= f.size /\ f.next <= f.size /\ f.next \in 0..maxtrace + 1
        /\ \A n \in TraceNo : n < f.next => n = f.no \/ trace[n] # Nil
    BY <1>1, <2>1, FreeNumber
  <2>4. cur.no = 0
    BY <1>1, <1>7 DEF Taken, PatchPending, Quiet
  <2> HIDE DEF f
  <2>5. Room'
    BY <1>1, <1>2, <1>3, <2>1, <2>3 DEF Room, TraceNo
  <2>6. Numbered'
    <3>1. f.no \in TraceNo
      BY <1>2, <2>1, <2>3 DEF TraceNo
    <3>2. \A t \in Tr : obj'[t] # Free /\ obj'[t].no # 0 => trace'[obj'[t].no] = t
      BY <1>1, <1>2, <1>3, <2>1, <2>3, <3>1 DEF Numbered
    <3>3. \A n \in TraceNo : trace'[n] \in Tr => obj'[trace'[n]] # Free /\ obj'[trace'[n]].no = n
      BY <1>1, <1>2, <1>3, <2>1, <3>1 DEF Numbered
    <3>4. \A n \in TraceNo : trace[n] # Cur
      BY <1>1, <2>4 DEF Numbered, TraceNo
    <3>5. \A n \in TraceNo : trace'[n] = Cur <=> cur'.no = n
      BY <1>2, <2>1, <2>2, <3>1, <3>4
    <3> QED BY <1>1, <2>1, <3>2, <3>3, <3>5 DEF Numbered
  <2> QED BY <2>5, <2>6 DEF Table
<1>8. CASE Dropped
  <2>1. cur.no # 0
    BY <1>1, <1>8 DEF Dropped, Compiled, Busy
  <2>2. cur'.no = 0
    BY <1>2, <1>8 DEF Dropped, DropCur, Trace
  <2>3. /\ trace' = [n \in TraceNo |-> IF n = cur.no THEN Nil ELSE trace[n]]
        /\ freetrace' = Smaller(cur.no, freetrace) /\ sizetrace' = sizetrace /\ dead' = dead
    BY <1>8, <2>1 DEF Dropped, DropCur
  <2>4. cur.no \in TraceNo
    BY <1>2, <2>1 DEF Trace, TraceNo
  <2>5. \A t \in Tr : (obj'[t] = Free <=> obj[t] = Free) /\ (obj[t] # Free => obj'[t].no = obj[t].no)
    BY <1>8, PenalizeEffect DEF Dropped, SameTrace
  <2>6. Room'
    BY <1>1, <1>2, <2>3, <2>4 DEF Room, TraceNo, Smaller
  <2>7. Numbered'
    <3>1. \A t \in Tr : obj'[t] # Free /\ obj'[t].no # 0 => trace'[obj'[t].no] = t
      <4>1. \A t \in Tr : obj'[t] # Free /\ obj'[t].no # 0 =>
               obj[t] # Free /\ obj'[t].no = obj[t].no /\ trace[obj[t].no] = t /\ obj[t].no \in TraceNo
        BY <1>1, <1>2, <2>5 DEF Numbered, Trace, TraceNo
      <4>2. trace[cur.no] = Cur
        BY <1>1, <2>4 DEF Numbered
      <4> QED BY <1>3, <2>3, <4>1, <4>2
    <3>2. \A n \in TraceNo : trace'[n] \in Tr => obj'[trace'[n]] # Free /\ obj'[trace'[n]].no = n
      BY <1>1, <1>3, <2>3, <2>5 DEF Numbered
    <3>3. \A n \in TraceNo : n # 0 /\ (trace[n] = Cur => n = cur.no)
      BY <1>1 DEF Numbered, TraceNo
    <3>4. \A n \in TraceNo : trace'[n] = Cur <=> cur'.no = n
      BY <1>3, <2>2, <2>3, <3>3
    <3>5. \A t \in dead' : obj'[t] # Free
      BY <1>1, <1>2, <2>3, <2>5 DEF Numbered
    <3> QED BY <3>1, <3>2, <3>4, <3>5 DEF Numbered
  <2> QED BY <2>6, <2>7 DEF Table
<1>9. ASSUME NEW o \in Tr, Stores(o)
      PROVE  Table'
  <2>1. /\ obj[o] = Free /\ obj'[o] # Free /\ obj'[o].no = cur.no
        /\ cur.no \in TraceNo /\ trace[cur.no] = Cur
        /\ trace' = [trace EXCEPT ![cur.no] = o]
        /\ \A t \in Tr \ {o} : (obj'[t] = Free <=> obj[t] = Free) /\ (obj[t] # Free => obj'[t].no = obj[t].no)
        /\ sizetrace' = sizetrace /\ freetrace' = freetrace /\ dead' = dead
    BY <1>9, DistinctOK DEF Stores, SameTrace
  <2>2. cur'.no = 0
    BY <1>2, <1>9 DEF Stores, Trace
  <2>3. Room'
    BY <1>1, <1>2, <1>3, <2>1 DEF Room
  <2>4. Numbered'
    <3>1. \A t \in Tr : obj'[t] # Free /\ obj'[t].no # 0 => trace'[obj'[t].no] = t
      BY <1>1, <1>2, <1>3, <2>1 DEF Numbered
    <3>2. \A n \in TraceNo : trace'[n] \in Tr => obj'[trace'[n]] # Free /\ obj'[trace'[n]].no = n
      BY <1>1, <1>2, <1>3, <2>1 DEF Numbered
    <3>3. \A n \in TraceNo : n # 0 /\ (trace[n] = Cur => n = cur.no)
      BY <1>1 DEF Numbered, TraceNo
    <3>4. \A n \in TraceNo : trace'[n] = Cur <=> cur'.no = n
      BY <1>2, <1>3, <2>1, <2>2, <3>3
    <3>5. \A t \in dead' : obj'[t] # Free
      BY <1>1, <1>2, <2>1 DEF Numbered
    <3> QED BY <3>1, <3>2, <3>4, <3>5 DEF Numbered
  <2> QED BY <2>3, <2>4 DEF Table
<1>10. ASSUME NEW n, Unchained(n)
       PROVE  Table'
  BY <1>4, <1>10 DEF Unchained
<1>11. ASSUME NEW p, NEW mode, setptmode(p, mode)
       PROVE  Table'
  <2>1. UNCHANGED <<trace, sizetrace, freetrace, dead, obj, cur>>
    BY <1>11 DEF setptmode
  <2> QED BY <1>4, <2>1
<1>12. CASE GCAtomic
  <2>1. UNCHANGED <<trace, sizetrace, freetrace, obj, cur>> /\ \A t \in dead' : obj[t] # Free
    BY <1>12 DEF GCAtomic
  <2>2. Room' /\ Numbered'
    BY <1>1, <2>1 DEF Room, Numbered
  <2> QED BY <2>2 DEF Table
<1>13. ASSUME NEW t \in Tr, lj_trace_free(t)
       PROVE  Table'
  <2>1. /\ t \in dead /\ obj' = [obj EXCEPT ![t] = Free] /\ dead' = dead \ {t} /\ cur' = cur /\ sizetrace' = sizetrace
        /\ obj[t].no # 0 => freetrace' = Smaller(obj[t].no, freetrace) /\ trace' = [trace EXCEPT ![obj[t].no] = Nil]
        /\ obj[t].no = 0 => UNCHANGED <<freetrace, trace>>
    BY <1>13 DEF lj_trace_free
  <2>2. obj[t] # Free /\ obj[t] \in Trace
    BY <1>1, <1>2, <2>1 DEF Numbered
  <2>3. obj[t].no # 0 => obj[t].no \in TraceNo /\ trace[obj[t].no] = t
    BY <1>1, <1>2, <2>2 DEF Numbered, Trace, TraceNo
  <2>4. Room'
    BY <1>1, <1>2, <2>1, <2>3 DEF Room, Smaller, TraceNo
  <2>5. Numbered'
    <3> DEFINE c == obj[t].no
    <3>1. c = 0 \/ (c \in TraceNo /\ trace[c] = t)
      BY <2>3
    <3>2. trace' = IF c = 0 THEN trace ELSE [trace EXCEPT ![c] = Nil]
      BY <2>1
    <3>3. \A n \in TraceNo : trace[n] = t => n = c
      BY <1>1, <2>1 DEF Numbered
    <3> HIDE DEF c
    <3>4. \A n \in TraceNo : trace'[n] # t /\ (trace'[n] = trace[n] \/ (trace'[n] = Nil /\ trace[n] = t))
      <4>1. SUFFICES ASSUME NEW n \in TraceNo
                     PROVE  trace'[n] # t /\ (trace'[n] = trace[n] \/ (trace'[n] = Nil /\ trace[n] = t))
        OBVIOUS
      <4>2. t # Nil
        BY <1>3
      <4>3. CASE n = c
        BY <1>2, <3>1, <3>2, <4>2, <4>3 DEF TraceNo
      <4>4. CASE n # c
        BY <1>2, <3>2, <3>3, <4>4
      <4> QED BY <4>3, <4>4
    <3>5. \A n \in TraceNo : trace[n] # t => trace'[n] = trace[n]
      BY <3>4
    <3>6. \A u \in Tr \ {t} : obj'[u] = obj[u]
      BY <1>2, <2>1
    <3>7. obj'[t] = Free
      BY <1>2, <2>1
    <3>8. \A u \in Tr : obj'[u] # Free /\ obj'[u].no # 0 => trace'[obj'[u].no] = u
      <4>1. SUFFICES ASSUME NEW u \in Tr, obj'[u] # Free, obj'[u].no # 0
                     PROVE  trace'[obj'[u].no] = u
        OBVIOUS
      <4>2. u # t /\ obj'[u] = obj[u]
        BY <3>6, <3>7, <4>1
      <4>3. obj[u].no \in TraceNo /\ trace[obj[u].no] = u
        BY <1>1, <1>2, <4>1, <4>2 DEF Numbered, Trace, TraceNo
      <4> QED BY <3>5, <4>2, <4>3
    <3>9. \A n \in TraceNo : trace'[n] \in Tr => obj'[trace'[n]] # Free /\ obj'[trace'[n]].no = n
      BY <1>1, <1>3, <3>4, <3>6 DEF Numbered
    <3>10. \A n \in TraceNo : trace'[n] = Cur <=> cur'.no = n
      BY <1>1, <1>3, <2>1, <3>4 DEF Numbered
    <3>11. \A u \in dead' : obj'[u] # Free
      BY <1>1, <1>2, <2>1, <3>6 DEF Numbered
    <3> QED BY <3>8, <3>9, <3>10, <3>11 DEF Numbered
  <2> QED BY <2>4, <2>5 DEF Table
<1> QED BY <1>5, <1>6, <1>7, <1>8, <1>9, <1>10, <1>11, <1>12, <1>13, Steps
=============================================================================
