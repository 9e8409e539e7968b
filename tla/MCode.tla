------------------------------- MODULE MCode -------------------------------
(***************************************************************************)
(* Machine code areas: lj_mcode.c as the assembler (lj_asm.c) and the      *)
(* trace compiler (lj_trace.c) use it.  Code grows down from mctop, exit   *)
(* stubs and 64 bit constants grow up from mcbot; pages are either         *)
(* writable or executable; a full area is left behind for a new one.       *)
(***************************************************************************)
EXTENDS Integers, Sequences, FiniteSets

CONSTANTS
  MCSizes,        \* values of the parameter sizemcode (jit.opt.start)
  MaxMCode,       \* the parameter maxmcode
  REDZONE,        \* MCLIM_REDZONE
  StubGroups,     \* numbers of the exit stub groups; each takes 2 units
  MaxPieces,      \* bound on traces with code
  MCOps           \* of {"fusek64", "realign", "oom"}

ASSUME MCodeAssumption ==
  /\ MCSizes \subseteq Nat \ {0} /\ MaxMCode \in Nat /\ MaxPieces \in Nat
  /\ REDZONE \in Nat \ {0} /\ StubGroups \subseteq Nat

VARIABLES
  sizemcode,
  areas,          \* J->mcarea and what its links lead to, newest first: [size, prot]
  jmc,            \* [top, bot, prot, all]: J->mctop, mcbot, mcprot, szallmcarea
  pieces,         \* what later code relies on: [kind, area, lo, hi], area counted from the oldest
  asm             \* the assembler: [at, top, p, bot, ks, patch], ks the constants placed

mcodeVars == <<sizemcode, areas, jmc, pieces, asm>>

Idle == [at |-> "idle", top |-> 0, p |-> 0, bot |-> 0, ks |-> {}, patch |-> 0]
LinkSize == 1     \* sizeof(MCLink)

Age(i) == Len(areas) + 1 - i        \* the number of areas[i], counted from the oldest
Stubs == {x \in pieces : x.kind = "stub"}
Groups == {x.lo : x \in Stubs}

MCodeInit ==
  /\ sizemcode \in MCSizes
  /\ areas = <<>>
  /\ jmc = [top |-> 0, bot |-> 0, prot |-> "RX", all |-> 0]
  /\ pieces = {}
  /\ asm = Idle

-----------------------------------------------------------------------------
(* lj_mcode.c *)

\* mcode_protect(): J->mcprot caches the protection of the current area.
Cached(as, prot) == IF jmc.prot = prot THEN as ELSE [as EXCEPT ![1].prot = prot]

mcode_allocarea ==
  /\ areas' = <<[size |-> sizemcode, prot |-> "RW"]>> \o areas
  /\ jmc' = [top |-> sizemcode, bot |-> LinkSize, prot |-> "RW", all |-> jmc.all + sizemcode]

mcode_protect(prot) ==
  /\ areas' = Cached(areas, prot)
  /\ jmc' = [jmc EXCEPT !.prot = prot]

\* Mutant: the area stays writable.
lj_mcode_abort_none == UNCHANGED <<areas, jmc>>

lj_mcode_abort == IF areas # <<>> THEN mcode_protect("RX") ELSE UNCHANGED <<areas, jmc>>

\* Mutant: szallmcarea is not reset.
lj_mcode_free_keep == areas' = <<>> /\ UNCHANGED jmc

lj_mcode_free == areas' = <<>> /\ jmc' = [jmc EXCEPT !.all = 0]

\* lj_trace_flushall() frees all areas with all that is in them.
mcode_flush == lj_mcode_free /\ pieces' = {}

\* lj_mcode_limiterr(), and what trace_abort() makes of the error.
lj_mcode_limiterr(need) ==
  CASE need > sizemcode -> lj_mcode_abort /\ asm' = Idle /\ UNCHANGED pieces
    [] need <= sizemcode /\ jmc.all + sizemcode > MaxMCode -> mcode_flush /\ asm' = Idle
    [] OTHER -> /\ areas' = <<[size |-> sizemcode, prot |-> "RX"]>> \o Cached(areas, "RX")
                /\ jmc' = [top |-> sizemcode, bot |-> LinkSize, prot |-> "RX", all |-> jmc.all + sizemcode]
                /\ asm' = [Idle EXCEPT !.at = "retry"]
                /\ UNCHANGED pieces

-----------------------------------------------------------------------------
(* The assembler. *)

\* lj_mcode_reserve() for a new trace, or again after LJ_TRERR_MCODELM. The
\* first area is allocated whatever maxmcode says.
lj_mcode_reserve ==
  /\ asm.at \in {"idle", "retry"}
  /\ Cardinality({x \in pieces : x.kind = "code"}) < MaxPieces
  /\ IF areas = <<>> THEN mcode_allocarea ELSE mcode_protect("RW")
  /\ asm' = [Idle EXCEPT !.at = "emit", !.top = jmc'.top, !.p = jmc'.top, !.bot = jmc'.bot]
  /\ UNCHANGED <<sizemcode, pieces>>

\* The pages of the first area cannot be had: trace_abort() flushes.
ReserveFails ==
  /\ "oom" \in MCOps /\ asm.at = "idle" /\ areas = <<>>
  /\ mcode_flush
  /\ UNCHANGED <<sizemcode, asm>>

Need == asm.top - asm.p + 4 * REDZONE

\* Exit stubs that all traces share are committed even if assembly fails later.
asm_exitstub_gen(g) ==
  LET stub == [kind |-> "stub", area |-> Len(areas), lo |-> asm.bot, hi |-> asm.bot + 2]
  IN /\ asm.at = "emit" /\ asm.p = asm.top /\ Cardinality(Stubs) = g
     /\ IF asm.bot + 2 >= asm.top THEN lj_mcode_limiterr(Need)
        ELSE /\ asm' = [asm EXCEPT !.bot = @ + 2]
             /\ jmc' = [jmc EXCEPT !.bot = asm.bot + 2]
             /\ pieces' = pieces \cup {stub}
             /\ UNCHANGED areas
     /\ UNCHANGED sizemcode

\* Instructions between two checks of the limit, of n units.
asm_ir(n) ==
  /\ asm.at = "emit"
  /\ IF asm.p - n < asm.bot + REDZONE THEN lj_mcode_limiterr(Need + n)
     ELSE asm' = [asm EXCEPT !.p = @ - n] /\ UNCHANGED <<areas, jmc, pieces>>
  /\ UNCHANGED sizemcode

\* Mutant: the constant is not committed.
emit_loadk64_lost(fuse) ==
  /\ asm.at = "emit" /\ asm.ks = {} /\ asm.bot + REDZONE + 1 <= asm.p
  /\ asm' = [asm EXCEPT !.bot = @ + 1, !.ks = {[at |-> asm.bot, i |-> asm.top - asm.bot]}]
  /\ jmc' = jmc
  /\ UNCHANGED <<sizemcode, areas, pieces>>

\* A 64 bit constant out of reach is put at the bottom of the area; its place is
\* kept in the IR relative to mctop. emit_loadk64() commits it, the fused load
\* (asm_fuseloadk64) does not.
emit_loadk64(fuse) ==
  /\ asm.at = "emit" /\ asm.ks = {} /\ asm.bot + REDZONE + 1 <= asm.p
  /\ asm' = [asm EXCEPT !.bot = @ + 1, !.ks = {[at |-> asm.bot, i |-> asm.top - asm.bot]}]
  /\ jmc' = IF fuse THEN jmc ELSE [jmc EXCEPT !.bot = asm.bot + 1]
  /\ UNCHANGED <<sizemcode, areas, pieces>>

\* Mutant: the places of the constants are kept.
asm_again_keep(pad) ==
  /\ asm.at = "emit" /\ asm.p < asm.top
  /\ pad = 1 => "realign" \in MCOps /\ asm.top = jmc.top
  /\ asm' = [asm EXCEPT !.top = @ - pad, !.p = asm.top - pad]
  /\ UNCHANGED <<sizemcode, areas, jmc, pieces>>

\* Another pass: the IR copy was too small, or asm_loop_fixup() wants the loop
\* aligned, below a lower mctop. asm_setup_regsp() forgets where constants are.
asm_again(pad) ==
  /\ asm.at = "emit" /\ asm.p < asm.top
  /\ pad = 1 => "realign" \in MCOps /\ asm.top = jmc.top
  /\ asm' = [asm EXCEPT !.top = @ - pad, !.p = asm.top - pad, !.ks = {}]
  /\ UNCHANGED <<sizemcode, areas, jmc, pieces>>

\* The end of lj_asm_trace(); asm_tail_fixup() may drop some of the tail. A side
\* trace goes on to patch the exit of its parent.
lj_asm_trace(drop, parent) ==
  /\ asm.at = "emit" /\ asm.p < asm.top - drop
  /\ parent = 0 \/ \E x \in pieces : x.kind = "code" /\ x.area = parent
  /\ asm' = [asm EXCEPT !.at = "stop", !.top = @ - drop, !.patch = parent]
  /\ UNCHANGED <<sizemcode, areas, jmc, pieces>>

\* lj_asm_patchexit(): makes the area of the parent writable,
lj_mcode_patch ==
  /\ asm.at = "stop" /\ asm.patch # 0
  /\ IF Age(1) = asm.patch THEN mcode_protect("RW")
     ELSE /\ areas' = [i \in DOMAIN areas |-> IF Age(i) = asm.patch THEN [areas[i] EXCEPT !.prot = "RW"]
                                              ELSE areas[i]]
          /\ UNCHANGED jmc
  /\ asm' = [asm EXCEPT !.at = "patch"]
  /\ UNCHANGED <<sizemcode, pieces>>

\* Mutant: the area of the parent stays writable.
lj_mcode_patch_finish_none ==
  /\ asm.at = "patch"
  /\ IF Age(1) = asm.patch THEN mcode_protect("RX")
     ELSE /\ areas' = [i \in DOMAIN areas |-> IF Age(i) = asm.patch THEN areas[i]
                                              ELSE areas[i]]
          /\ UNCHANGED jmc
  /\ asm' = [asm EXCEPT !.at = "stop", !.patch = 0]
  /\ UNCHANGED <<sizemcode, pieces>>

\* and executable again.
lj_mcode_patch_finish ==
  /\ asm.at = "patch"
  /\ IF Age(1) = asm.patch THEN mcode_protect("RX")
     ELSE /\ areas' = [i \in DOMAIN areas |-> IF Age(i) = asm.patch THEN [areas[i] EXCEPT !.prot = "RX"]
                                              ELSE areas[i]]
          /\ UNCHANGED jmc
  /\ asm' = [asm EXCEPT !.at = "stop", !.patch = 0]
  /\ UNCHANGED <<sizemcode, pieces>>

lj_mcode_commit ==
  /\ asm.at = "stop" /\ asm.patch = 0
  /\ areas' = Cached(areas, "RX")
  /\ jmc' = [jmc EXCEPT !.top = asm.p, !.prot = "RX"]
  /\ pieces' = pieces \cup {[kind |-> "code", area |-> Len(areas), lo |-> asm.p, hi |-> asm.top]}
                      \cup {[kind |-> "k64", area |-> Len(areas), lo |-> k.at, hi |-> k.at + 1] : k \in asm.ks}
  /\ asm' = Idle
  /\ UNCHANGED sizemcode

\* Any other error while assembling, or before the exit is patched.
AsmFails ==
  /\ asm.at = "emit"
  /\ lj_mcode_abort
  /\ asm' = Idle
  /\ UNCHANGED <<sizemcode, pieces>>

lj_trace_flush_mcode ==
  /\ asm.at = "idle" /\ areas # <<>>
  /\ mcode_flush
  /\ UNCHANGED <<sizemcode, asm>>

jit_opt_start(sz) ==
  /\ asm.at = "idle" /\ sizemcode' = sz
  /\ UNCHANGED <<areas, jmc, pieces, asm>>

MCodeNext ==
  \/ lj_mcode_reserve \/ ReserveFails \/ AsmFails
  \/ \E g \in StubGroups : asm_exitstub_gen(g)
  \/ \E n \in 1 .. REDZONE : asm_ir(n)
  \/ \E fuse \in (IF "fusek64" \in MCOps THEN BOOLEAN ELSE {FALSE}) : emit_loadk64(fuse)
  \/ \E pad \in 0 .. 1 : asm_again(pad)
  \/ \E drop \in 0 .. 1, parent \in 0 .. Len(areas) : lj_asm_trace(drop, parent)
  \/ lj_mcode_patch \/ lj_mcode_patch_finish \/ lj_mcode_commit
  \/ lj_trace_flush_mcode
  \/ \E sz \in MCSizes : jit_opt_start(sz)

MCodeSpec == MCodeInit /\ [][MCodeNext]_mcodeVars

-----------------------------------------------------------------------------
(* Properties. *)

\* "Most of the time the memory pages holding machine code are executable, but
\* NONE of them is writable": whenever no code is generated, after every error
\* and patch; and J->mcprot never lies about the current area.
ExecutableWhenIdle ==
  /\ asm.at \in {"idle", "retry"} => \A i \in DOMAIN areas : areas[i].prot = "RX"
  /\ areas # <<>> => jmc.prot = areas[1].prot

\* While code is generated at most the current area, or the area of the parent
\* whose exit is patched, is writable.
FewWritable ==
  \A i \in DOMAIN areas : areas[i].prot = "RW" => i = 1 \/ (asm.at = "patch" /\ Age(i) = asm.patch)

\* Both halves of the W^X discipline of the areas, through failed allocations
\* and errors between mcode_protect() calls.
CodeProtected == ExecutableWhenIdle /\ FewWritable

\* Code, exit stubs and constants that exist stay out of what the assembler may
\* write next, and out of each other.
NothingOverwritten ==
  /\ \A x, y \in pieces : x # y /\ x.area = y.area => x.hi <= y.lo \/ y.hi <= x.lo
  /\ \A x \in pieces : x.area = Len(areas) => x.hi <= jmc.bot \/ x.lo >= jmc.top
  /\ asm.at = "emit" => asm.bot <= asm.p
  /\ \A k \in asm.ks : asm.at # "idle" => k.at + 1 <= asm.p

Mapped ==
  LET sum[k \in 0 .. Len(areas)] == IF k = 0 THEN 0 ELSE sum[k - 1] + areas[Age(k)].size
  IN sum[Len(areas)]

\* szallmcarea counts what is mapped; it exceeds maxmcode only by a first area
\* that is larger.
MCodeAccounted ==
  /\ jmc.all = Mapped
  /\ jmc.all <= MaxMCode \/ Len(areas) = 1

\* "lua_assert(*k == *(uint64_t*)(as->mctop - ir->i))": instructions of any pass
\* find a constant where they look for it.
ConstantInPlace == asm.at = "emit" => \A k \in asm.ks : asm.top - k.i = k.at

\* What was placed in an area stays whole, and is found where it was placed,
\* when asm_loop_fixup() moves mctop and the trace is assembled again.
CodeInPlace == NothingOverwritten /\ ConstantInPlace
=============================================================================
