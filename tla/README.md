# A verification development of TvmJIT

TvmJIT is a fork of LuaJIT 2.1: a virtual machine for the dynamically typed
language TP (S-expressions, compiled by `tj_lex.c` and `tj_parse.c`), with
front ends for Lua, LOLCODE and NQP written on top of it.  The core is an
interpreter in assembler (`vm_*.dasc`), a trace compiler (`lj_trace.c`,
`lj_record.c`, `lj_opt_*.c`, `lj_asm*.c`) and an incremental garbage collector
(`lj_gc.c`).  It is a single-threaded program; what makes it hard is that three
activities are interleaved in one thread of control, and each may be entered
from nearly everywhere:

* the *program*, interpreted or compiled, which allocates, stores, calls C,
  throws errors and runs hooks and finalizers;
* the *collector*, which does a bit of work at allocations, and calls finalizers
  that are programs again;
* the *trace compiler*, which watches the program run, patches its bytecode, and
  whose products are objects of the collector that machine code refers to by
  address.

All file names below are relative to `src/src/` of the repository.

## Inventory

| component | state | operations | correct if |
|---|---|---|---|
| collector `lj_gc.c` | `gc.state`, colours, `gray`, `grayagain`, `weak`, `mmudata`, sweep position, `currentwhite`, threshold | `lj_gc_step`, `gc_onestep`, `atomic`, `lj_gc_fullgc`, barriers, `gc_finalize` | nothing reachable is freed, all garbage is, each finalizer runs once |
| closures, upvalues `lj_func.c` | open list of a thread, `uvhead` ring, closed values | `func_finduv`, `lj_func_closeuv`, `lj_func_newL_gc` | an upvalue keeps its value and colour when it is closed, whichever phase it is |
| userdata `lj_udata.c` | flags, metatable, environment | create, separate, finalize, free | finalized at most once, alive until then |
| strings `lj_str.c` | hash chains of interned strings | `lj_str_new`, `lj_str_resize`, `gc_sweepstr` | one object per string, dead strings are revived |
| tables `lj_tab.c` | array part, hash part with Brent's variation | get, set, `lj_tab_newkey`, rehash, next, len | keys are found, traversal complete, dead keys harmless |
| coroutines, stacks `lj_state.c` | stack, frames, open upvalues | grow, shrink, relocate, free | no pointer to the old stack remains |
| trace table `lj_trace.c` | `J->trace[]`, `freetrace`, chains of roots and side traces, patched bytecode | start, stop, abort, flush, free | bytecode and code only lead to traces that exist |
| trace compiler state machine | `J->state`, `J->cur`, `parent`, `exitno`, pending patch, penalties | `lj_trace_ins`, `lj_trace_hot`, `lj_trace_exit`, stitching | every recording ends, one at a time |
| optimizer `lj_opt_*.c`, `lj_ir.c` | IR buffer, chains per opcode, `bpropcache` | `lj_opt_fold`, its rules, CSE, narrowing, loop, memory and sinking passes | optimized code computes what the recorded code does |
| recorder, assembler | slots, snapshots, registers | about one function per bytecode or IR instruction | compiled code computes what the interpreter does |
| machine code `lj_mcode.c` | areas, protection | reserve, commit, abort, patch, free | W^X, code in range |
| dispatch `lj_dispatch.c` | dispatch table, hook mask, flags | `lj_dispatch_update`, hooks, `luaJIT_setmode` | the table agrees with hooks, recording and profiler |
| profiler `lj_profile.c` | timer, `HOOK_PROFILE` | signal or thread, trigger, interpreter callback | no sample is lost for ever, no update of the hook mask either |
| errors `lj_err.c` | C frames, L->cframe | throw, unwind | the VM's state is unwound with the stack |
| FFI `lj_c*.c` | C types, callback slots | conversions, calls, callbacks | a slot belongs to one function |
| compiler for TP `tj_parse.c` | `FuncState`, registers, jump lists, variable stack | one function per special form | the code does what the program means |
| bytecode reader, writer `lj_bc*.c` | none but the buffer | load, dump | a round trip |
| pacing | threshold, debt, estimate | `lj_gc_step`, `lua_gc` | no wrap-around, the collector keeps up |

How they interact: stores call barriers (program → collector); `lj_gc_check()` at
allocations calls steps, and steps call finalizers (collector → program);
hot counts, exits and continuation frames of stitched calls start recordings
(program → compiler); recording runs inside the interpreter's dispatch and is
cancelled by clearing a bit of `J->state` (hooks, errors, finalizers); a finished
trace patches bytecode, the exit of another trace or the link of a stitched one
(compiler → program); GC steps in compiled code force an exit; the sweep frees
traces with their numbers (collector → compiler).

`PROJECT.json` lists all components, those that are left out with the reason,
and, under `hazards`, the places where the code could go wrong in a way that a
test would hardly reach.

## Modules

| module | what it is |
|---|---|
| `GC` | the collector, the object graph, the program's operations on it |
| `MCGC` | its instances for TLC |
| `GCSetUpvalue`, `MCGCSetUpvalue` | `GC` with `lua_setupvalue()`, kept apart because it breaks an invariant |
| `Numbers` | least members, induction, functions defined step by step: lemmas for the proofs |
| `GCProofs` | theorems about `GC` with TLAPS proofs: types, lists, finalizers |
| `GCSafety` | what the collector is for: the invariant of the heap's colours, and the theorems that follow |
| `TraceProofs`, `TraceTheorems` | the invariant of `Trace`, its types and table; the rest of the invariant and the theorems |
| `ControlProofs` | theorems about `Dispatch`, `Stack` and `MCode` |
| `Trace` | traces: numbers, bytecode, compiler states, flushes, sweep |
| `MCTrace` | its instances for TLC |
| `Dispatch` | the dispatch table, hooks, VM events, profiler, nested C frames |
| `MCode` | areas of machine code, their protection, what is placed in them |
| `Stack` | growth, overflow, the error handler's reserve, shrinking |
| `IR` | the IR buffer, what its instructions for integers and numbers compute |
| `Fold` | the fold engine, its rules, CSE, narrowing of conversions |
| `Emit` | streams of instructions that go through `Fold`, and what it means that the result is the same |
| `MCControl` | composes `Trace`, `Dispatch`, `MCode`, `Stack` and `Emit` |
| `TabMap`, `Tab` | a partial function; the table of `lj_tab.c` that implements it |
| `StrSet`, `StrTab` | a set of unique strings; the string table that implements it |
| `StrTabProofs` | theorems about `StrTab`: its chains, and that it implements `StrSet` |
| `TabProofs` | theorems about `Tab`: lookups, resizes, traversal, and that it implements `TabMap` |
| `MCTab` | an instance of `Tab` for one finding |
| `TPCode` | the compiler for TP: tree to bytecode |
| `TPVM` | the interpreter for that bytecode |
| `TPSem` | what a TP program means, without registers and jumps |
| `TPPrograms` | families of programs |
| `MCData` | composes `Tab`, `StrTab` and the TP programs |

### GC

State: an object is an address of `Obj` with a `kind`, a `color` and its
references.  `ent` holds pairs of key and value: the nodes of a table, the
closed value of an upvalue, upvalues and prototype of a function, constants and
links of a trace, environments.  A thread has a stack `stk` up to `top`, open
upvalues point to a `<<thread, slot>>`.  Metatables carry only what the
collector reads of them: `k`, `v` of `__mode`, and `gc`.  `cur`, `jitbase` and
`reg` are the recorder's constants, whether compiled code runs, and the one
reference that it holds in a register only.

Actions: each case of `gc_onestep()` is an action.  `atomic()` is a chain of
five (`gc_mark_uv`, `AtomicWeak`, `AtomicAgain`, `AtomicUdata`, `AtomicEnd`, in
the order of the code, with the position in `atomicpc`) during which nothing else is
enabled; splitting it keeps each step small.  Every other action is one
operation of the program together with the barrier that the code calls for it.
They are enabled only while `Mutating` holds.  Finalizers and `lj_gc_fullgc()`
are activations on `cstack`, so they nest.  The intrusive lists are sets: the
order in which they are walked is left open.  Every argument of an operation is
an object that the program can name (`Named`: reachable through the object
graph, the stale stack slots above `top` included, since the next frame
exposes them).

`Ops` selects the operations that a run allows on top of the basic ones:
`array` (stores with the backward barrier), `key` (new keys, rehash), `frame`
(pushing and popping frames), `meta`, `base` (metatables of base types), `env`,
`full`, `stop`, `intern`.

### Trace

State: the opcode and number of each hot bytecode instruction (`bc`: 0 as compiled,
1 the `I` form that is never hot again, 2 the `J` form that enters a trace), the
prototypes' flags and chain heads, the trace table with `freetrace` and
`sizetrace`, the fields of each `GCtrace` object, and the compiler: `state`,
`parent`, `exitno`, `cur`, the pending patch, penalties, `instunroll`, machine code
areas.  `run` is the trace whose machine code runs, `conts` the traces that
continuation frames of stitched calls hold.  `to` and `branch` of an object
are addresses in machine code: the tail jump and the patched exit.  They are
kept apart from the numbers `link` and `nextside`, because it is the job of the
numbers to keep the addresses valid.

Actions: `trace_start`, `trace_stop`, `trace_abort`, the flushes, `lj_trace_hot`,
`trace_hotside`, `lj_cont_stitch`, `lj_trace_free` are the functions of those names.
A state of `trace_state()` that runs the compiler is an action; between two of
them nothing else runs, except that the collector is not excluded while
recording, as in the code, where instructions in between are interpreted.
`lj_record_ins` is an instruction that is recorded; `lj_record_stop` and
`lj_trace_err` end the recording in all the ways that the recorder has, without
saying for which program.  `GCAtomic` picks any set of traces that nothing marks;
`lj_trace_free` sweeps them one by one.  A NULL pointer that the code would
dereference leads to the absorbing state `CRASH`; the configurations therefore
say `CHECK_DEADLOCK FALSE`.

`Ops` selects what the host program does: `flush` (`jit.flush(n)`), `flushall`, `mode`
(`jit.on/off/flush(f)`), `stitch` (calls of C functions that are stitched),
`downrec` (down-recursion), `throw` (errors that are caught below a stitched
call).  These calls come while no trace runs and nothing is recorded: a call of
`jit.*` is not recorded, it ends the recording first.  A hook written in C
that calls `luaJIT_setmode()` during a recording is not modelled.

### Dispatch, MCode, Stack

`Dispatch`: `disp` has one entry for each group of `GG_State.dispatch[]` that
`lj_dispatch_update()` treats alike (loops, returns, other instructions, function
headers of Lua and of C), dynamic and static, and the `dispatchmode` that it was
last written for.  `hookmask`, `jiton` and `jstate` are what it depends on;
`vmframes` is the stack of C calls that the VM is in (hook, event handler, profiler
callback, finalizer, protected call, coroutine), each with what it will restore.
An action is a C function that may run between two instructions, up to the point where
it calls back into the VM; what follows the call is the action that pops the frame.  An
error (`lj_err_throw`) unwinds to any protected frame.  `DispOps` selects `profile`,
`gc`, `vmevent`, `pcall`.  `TableFollowsState` computes from scratch what the table
has to be, and compares with what the incremental updates made of it;
`BitsFollowFrames` relates `hookmask` to the stack of frames.  The timer of the profiler acts between
two such steps only.  Some functions read, change and write `hookmask` without the profiler's lock (`lj_vmevent.c:42-54`,
`lua_sethook` at `lj_dispatch.c:337`); a timer that fires between the read and the write, whose bit is then lost, is not covered.

`MCode`: an area has a size and a protection; `jmc` are `mctop`, `mcbot` and what is
cached, `pieces` the intervals that later code relies on (code of traces, exit stubs,
the constants of `lj_asm_x86.h`), `asm` the assembler at work.  An action is a call of
`lj_mcode_reserve`, `commit`, `abort`, `patch`, `limiterr`, or one of the writes of the assembler
between them, including the second pass that starts over after realigning a loop.

`Stack`: sizes in slots; `lj_state_growstack`, `relimitstack`, `shrinkstack`, and
`lj_err_run`/`lj_err_throw` as they use `LJ_STACK_EXTRA` when the limit is exceeded.

### IR, Fold, Emit

`IR` has the constants, which are interned by bit pattern, and the instructions, with references
that order them as in the code, and says what a list of instructions computes (`Run`).  Integers have 4 bits instead of 32, long ones
8 instead of 64; a number counts sixteenths, with -0, infinities and NaN, so that overflow, the least
integer, unsigned comparison, signs of zero and unordered comparison all happen.
`Fold` is `lj_opt_fold()` with the table from keys to rules and the four lookups from the most to the least
specific key; a rule is an operator of the name of its C function, and returns NEXTFOLD, a reference, a retry
with another instruction, or DROP/FAIL for a guard.  `narrow_conv_backprop` and
`narrow_conv_emit` are the two passes of narrowing, with the cache of `J->bpropcache` and the strength of the check that each
entry had.  The platform is x64 without dual numbers.

In `Emit`, `raw` is the stream that the recorder emits, `Optimized(raw)` what the engine leaves of it.  A family of streams has slots, constants and
instructions of one kind: arithmetic with overflow checks, cancellation, bit operations, long integers (signed and unsigned),
numbers, powers, checked conversions, conversions for C integers and bit operations, array indexes with their bounds checks.
Except for the last, each instruction uses the result of the one before it, since rules look at operands.
`Sound` runs both for all values of the slots: they leave the trace in the same cases, and
otherwise each instruction has the same value.  Narrowed
checked conversions may leave more often, as the comment in `lj_opt_narrow.c` has it.  A C conversion of a number that is no
integer is undefined, and so is `TOBIT` of one; an index has to be integral, whether it fits is decided by the unsigned
bounds check behind it.

### Tab, StrTab and what they implement

`Tab` has the array part, the nodes with key, value and `next`, `freetop`, the
negative metamethod cache, and a traversal in progress.  The sizes, the order in which
`lj_tab_newkey()` looks for free nodes and Brent's variation are those of the code.
Removing a key leaves its node; `TabReintern` is the collector: a string whose node is
dead is freed and another one, with another hash value, interned at its address.
`TabMap` is a partial function with a store to some keys at once and a clear.  The history variable `stored` of `Tab` is
such a function: each operation of the table takes the step of `TabMap` that its caller asks for (`TabSet` stores one key, `BC_TSETM` two,
`lj_tab_clear` clears, resizing, rechaining, copying and traversing do nothing), whatever the operation does to array and nodes.
`TabImplementsMap` says that `stored` only takes such steps, and that at all times a lookup of any key by `lj_tab_get()` finds
what is stored under it.

`StrTab` has the chains, their order, the colors and the position of the sweep.
`StrSet` is the set of strings that exist: interning returns a string that exists or adds
one, nothing that is held goes away.  The mapping takes the set of texts on all chains.  That a text is on the chain of its hash value, where
interning looks for it, and only once, is not seen by this mapping; `StrChains` says that.

### TPCode, TPVM, TPSem, TPPrograms

`TPCode` translates `tj_parse.c` function by function: expression descriptors
with their two jump lists, `bcemit_*`, `expr_to*`, the variable stack with scopes, gotos
and labels, upvalues, and every special form.  A program is a tree instead of text.
`TPVM` executes its code, one case for each bytecode instruction; it also notes what code must never do (registers
outside of the frame, jumps nobody patched, returns with open upvalues).  `TPSem`
evaluates the tree in an environment of cells.  `Behaves(p, args)` compares results, calls of host functions in
order, and errors; for an illegal program it requires that the compiler rejects it.

`TPPrograms` combines the parts that interact: truth values in every context; targets of multiple
assignments that are each other's table or key; gotos, labels and captured
variables in nested scopes; loops with closures; calls that pass on all results; constants and nil in every position.
Left out, since the compiler gets them wrong, are the forms listed under "Observations".  What `CompiledBehaves` shows, that illegal programs are
rejected included, is shown for these families.

## Runs

Passing runs:

| run | bounds | properties | shows |
|---|---|---|---|
| `gc_tables` | 2 objects and the main thread, 2 slots, weak-keyed metatables | `NoDangling`, `WeakCleared` | the barrier of tables, weak keys, rehash with dead keys |
| `gc_finalizers` | 2 objects, 2 slots, depth 4, full collections, interned strings, weak values, array stores | `NoDangling`, `FinalizersDue`, `FinalizeOnce` | finalizers that resurrect, collect and throw; both barriers of tables |
| `gc_coroutines` | 3 objects: threads, functions, upvalues, strings, or two tables and a string, weak in keys and values; depth 2 | `NoDangling`, `TypeOK`, `ListsGray`, `AllWhite`, `FullIsComplete` | closing, sharing and sweeping of upvalues, full collections and what they leave in weak tables, stop and restart |
| `gc_stack_traces` | 3 objects, 2 slots, one object per sweep step | `TriColor`, `FreeUnreachable` | stale slots, revived upvalues, recorder and compiled code |
| `gc_live` | 2 objects, fairness | `CycleEnds`, `GarbageFreed` | every cycle ends, all garbage is freed |
| `trace` | one loop and one function of a prototype, 3 objects, 2 numbers, 1 area of code | `PatchedEntersTrace`, `ChainsAreRoots`, `OffIsOff`, `NoCrash` | root and side traces, flushes, blacklisting, running out of numbers and code |
| `trace_stitch` | a loop and a return in two prototypes, 3 objects, 2 numbers | `NumbersAreLive`, `CodeIsLive`, `TypeOK`, `TraceNumbers` | stitched traces, down-recursion, `jit.flush(n)` |
| `control` | 3 nested frames; areas of 7 or 9 cells up to 16; a stack of at most 24 slots; 2 traces; 11 families of streams of 1 to 5 instructions | `TableFollowsState`, `BitsFollowFrames`, `CodeProtected`, `CodeInPlace`, `MCodeAccounted`, `StackLimits`, `RecordsWhenOn`, `RecordingEnds`, `FoldSound` | the surroundings of the trace compiler; every recording ends; the fold engine preserves what a trace computes |
| `data` | 3 integer keys, integers up to 7, 2 strings that collide, 2 values; 3 texts, tables of 1 to 8 chains; some 7000 programs | `TabSound`, `NoMMSound`, `LenIsBoundary`, `TraversalOnce`, `StrChains`, `TabImplementsMap`, `StrTabImplementsSet`, `CompiledBehaves` | data structures implement what they promise; compiled programs do what they mean |

Each bound is the smallest that makes the hazard happen.  Two objects beside the
main thread are a referrer and a referent; three are two closures that share an
upvalue, or a thread, its upvalue and a closure.  `NSlots = 2` gives a slot below and one above
`top`.  `MaxEnt = 1` entries per object is enough for a chain through all objects.
The constraint `ThreadsOrTables` of `gc_coroutines` keeps its two halves apart: coroutines and closures without tables, or a table that may have an
entry and be its own metatable (weak in both halves or plain), another table that is at most a key or value, and a string.  While there are tables
the collector pauses or has been stopped, in whatever phase it was, so that only full collections move it; its interleaving with stores is the subject of `gc_tables`.
`MaxDepth = 4` is a finalizer in a full collection in a finalizer in a full
collection.  `GCSWEEPMAX = 1` lets the program run between any two objects swept;
3 sweeps all at once where another phase is in question.  Two trace numbers and
three trace objects are a trace, one that it links to, and one whose number was
reused while the old object is still around; a further recording finds no
number and flushes.  With one penalty slot and `PENALTY_MAX = 1` an
instruction is blacklisted at its third failure, and evicted by another one
before.  `hotexit = tryside = maxside = 1` reach a side trace, one that gives up,
and the last child.  `maxmcode = 1` has one retry with a new area and then the
flush.  `MaxFrames = 3` is, say, a protected call in a hook in a finalizer.  Areas
of 7 and 9 cells hold one group of exit stubs, a constant and two traces, or are too small for them;
`MaxMCode = 16` allows two areas but not three.  A stack of 24 slots, with
`LUA_MINSTACK = 3`, overflows from any height, with and without a handler.  The keys 1, 2, 4
divide an array part from the hash part at several sizes, and collide with both strings in tables of
up to four nodes.  Three texts grow the string table twice and let it shrink.  A program of `TPPrograms` has at most
300 instructions and 8 iterations of a loop; one that needs more would be an error of the
model, not a pass.  Streams of 2 instructions reach every rule that looks at one operand's operands, those
of 3 the cancellation of two sums, those of 4 and 5 a narrowed index that is used again; integers of 4
bits make each constant of a family a boundary case of some rule.  `NARROW_MAX_BACKPROP = 4` (100 in the code) and `MaxPow = 4` (65536) are
reached.

`control` and `data` compose components that share no variable: in each behaviour one of them
moves, and one check covers them all.

`CompiledBehaves` is an action property.  The step `RunChunk` loads and runs a program; the property
says of that step that the program behaves as it means.  `FoldSound` is one of the step that emits an instruction: the stream
that it extends is still computed after optimization.

State-space reductions, and why they are sound.  Objects are permuted
(`SYMMETRY`), in safety runs only, and never the main thread.  The view of `MCGC`
maps colours to their roles: the two whites swap in each cycle, and no guard or
property distinguishes them beyond `currentwhite`; `gc_tables`, whose two slots are both
always in use, also forgets which slot holds which value.  The view of `MCTrace` drops
those fields of the recorder that are assigned before they are read again, and, of a
trace that was flushed, everything but its link, the only field that is still read
(by a continuation frame).  Without `SYMMETRY`, the number of states that TLC finds
under these views does not depend on the order of the search, as it has to be if the view
hides nothing that matters.  The runs with a liveness property use neither.

Runs that find a disagreement, each with a finding in `PROJECT.json`:

* `gc_setupvalue`: `lua_setupvalue()` writes a closed upvalue of a Lua function
  and calls the barrier for the function.  If the upvalue is shared, and marked
  through the other function, it is black and gets a white value without a
  barrier.
* `trace_hotside`: the assertion of `trace_hotside()` that nothing is recorded
  does not hold after an error that is caught below a stitched call:
  `cont_stitch` enters the linked trace without a dispatch that would notice the
  aborted recording.
* `tab_reborn`: `lj_tab_newkey()` shall rechain string keys that a collected and reborn string
  has put on a wrong chain.  It looks for the keys that belong to the node that moved, and
  leaves behind others that were reached through the chain that it cuts: such a key is in the table, but a lookup
  does not find it.  The passing run `data` has one string that may be reborn, for which the code is right.

These three are found in small configurations whose only purpose is that run.
`throw` is not in the passing runs, since after that state the guarantees of the passing runs
do not hold.

Each property of a passing run was also checked against a mutation of the
model that a plausible bug would be (operators with a suffix, e.g.
`Marks_noside`), listed in `PROJECT.json`: it fails there.

## Observations

Places where the code and a comment, an assertion or the language's description disagree, or where a
guarantee does not hold, met while modelling.  They are left out of the passing runs, as said at the modules.

Collector: the assertion of `lj_gc_barrierf()` on the phase does not hold for userdata in
`mmudata`, which stay black through the sweep.

Traces: a C hook that flushes all traces in the one instruction for which `rec_func_jit()` has unpatched a
function lets the abort patch the number of the flushed trace back; C hooks during a recording are not modelled, and
`PatchedEntersTrace` does not cover them.  If the invoking trace of
a stitched recording is taken from its chain and collected before the recording ends, its number leads to NULL in
`trace_stop()` or `trace_abort()`; `trace_stitch` therefore does not state `NoCrash`.  TLC finds three ways to take it out:
`jit.flush(n)`, `jit.off(f)` or `jit.flush(f)`, and the recorder itself, where `check_call_unroll()` flushes the trace of a function
that only returns.  Without stitching none of them does harm, as `NoCrashCorrect` proves.

Machine code: `asm_fuseloadk64()` does not commit the constant it places (`fusek64`), so
that an error in a later pass leaves `mcbot` below it.

Optimizer, rules that are wrong for values outside of what `FoldSound` checks, or unreachable: `simplify_numsub_k` drops the
subtraction of -0 as well as of 0, which is wrong for -0 - (-0); `kfold_int64arith` folds BSHR, BROL and BROR in 32 bits, for a 64 bit
shift of a masked value (`simplify_shiftk_andk`); `simplify_nummuldiv_negneg` also matches division of 64 bit
integers, where (-a)/(-b) and a/b differ for the least integer; MIN and MAX of numbers are commuted and
reassociated, which NaN and signs of zero tell apart; `lj_opt_narrow_unm` makes 0 of -0 if the operand
changes to 0; x^(-k) becomes (1/x)^k, which rounds differently.

Compiler for TP, forms that the description of the language (`TP.md`) allows:

* `(!assign ...)` as an expression, e.g. `(!call f (!assign g 1))`: `parse_assign()` returns an expression whose
  register `bcemit_store()` has freed; it is freed again, and overwrites the function.
* `(!repeat ... (!call f))`: the call that is the condition gets its number of results after it was tested.
* `(!do ...)` as an expression: the end of the scope resets `freereg` below the register of the result.
* `!and`, `!or` as a statement leave their jumps unpatched; other expressions as statements may
  write register 0.
* `!letrec` with anything but a `!lambda` puts the value into the wrong register.
* A call or `(!vararg)` as the last operand of an operator that is compiled to a call (`!bnot`, `!idiv`, ...), e.g.
  `(!idiv 6 (!vararg))`: `tj_parse.c:1945-1947` and `2015-2017` emit a `CALLM` although the operand has been fixed to one result, so that the
  number of arguments comes from whatever set `MULTRES` last.

## Fairness

`GC`: strong fairness of `Collect`, because a program that goes on allocating passes
`lj_gc_check()` again and again, although each step is disabled while compiled code
runs or an operation is under way; compiled code exits (`lj_gc_step_jit()` forces it),
and a finalizer returns.  A program that does not allocate needs no collector.

`ControlSpec` (for `Trace`): weak fairness of `Compile`, since `lj_trace_ins()` loops until the
compiler waits for an instruction; and of the end of a recording, since
`JIT_P_maxrecord` and `JIT_P_maxirconst` limit its length.  Nothing is assumed of
the program, the collector or the host.  `RecordingEnds` allows the state
`DOWNREC`: at a down-recursion the next recording starts at once, at a
return instruction where none has started; the number of such restarts is not bounded
by the state machine alone.  `RecordsWhenOn` is a safety property of `Dispatch` and needs no fairness.

## Refinements

* `TabImplementsMap`: `Tab` implements `TabMap` with `map` the history variable `stored`, and `lj_tab_get()`
  computes the same function from the array and the nodes.  Rehashing, rechaining, what the collector does to dead keys and traversing leave
  `stored` alone, and so must leave every lookup alone.
* `StrTabImplementsSet`: `StrTab` implements `StrSet`.  Resizing is a stuttering step; a sweep step
  collects strings that nobody holds.
* `CompiledBehaves` relates two interpreters, `TPVM` after `TPCode` and `TPSem`, by what the host sees.

## Proofs

A theorem holds for all values of the constants that satisfy the named assumptions of the module:
any number of objects, slots, traces, areas, frames.  Each module of theorems has the inductive
invariant as a conjunction of named parts, a lemma that says what each step does to the state, and for each part a
lemma that the steps keep it.

`Numbers` has what several proofs need of finite sets of numbers: a least and a greatest member, and
induction in the form *a set of numbers that contains 0 and successors contains all numbers below a bound*, which
follows from the least member of its complement.  So what a recursive function over
numbers computes can be proved (`AccumulationExists`, `AccumulationUnique`: such a function exists, and is the only
one with its equations), although the induction theorems of the library, which take an
operator as a parameter, are out of reach.

`GCProofs`, from `GCAssumption`:

* `TypeCorrect`: `Spec => []TypeOK`.  Inductive as it stands.  `Named` is a
  subset of `Obj`, so that what the program stores is an object; the lemmas
  `RefsAreObjects`, `KidsAreObjects`, `MarkType` and `BarrierType` carry it over to the
  operators of the model.
* `ListsCorrect`: `Spec => []ListsGray`.  The inductive invariant `ListsInv` adds the
  kinds of what is listed (an open upvalue is gray without being on a list, and must
  not be taken for a listed object when it is closed), that userdata in `mmudata` are not in reach of
  the sweep (it would free what a later cycle lists), that nothing is left to sweep outside the
  sweep phases, and that `atomicpc` is only set in the atomic phase.
* `FinalizersCorrect`: `Spec => []FinalizersDue`, by `FinInv`: in the pause phase
  `mmudata` is empty, and while marking it is only non-empty after `AtomicUdata` or in a
  cycle that a full collection has started over pending finalizers.
* `FinalizedOnce`: `Spec => FinalizeOnce`, an action property: only `AtomicUdata`
  adds to `mmudata`, and only userdata that are not `finalized`.

`GCSafety`, from the same assumption: `NoDanglingCorrect`, `TriColorCorrect`, `AllWhiteCorrect`, `FullIsCompleteCorrect`, and the action
properties `FreeUnreachableCorrect` and `WeakClearedCorrect`.  All but `FullIsComplete` follow from one
invariant, `GCInv`, that is `TypeOK`, `ListsInv`, `FinInv` and the parts of `SafeInv`:

* `Shape`: which kind of object holds what; an object that is gone holds nothing.
* `Closed`: *live* objects (allocated and not of the old white) refer to live objects only, and the roots and `mmudata` are
  live.  `Reach` is the least closed set that contains the roots, so it is
  within the live ones: `NoDangling` (`ReachIsLive`).  That no upvalue is on a stack and that userdata refer to tables
  only is part of it: `gc_mark()` does upvalues and userdata at once, without the gray list, and one pass has to be enough.
* `Colours`: dead objects exist during a sweep only; a thread is never black, a userdata never gray.
* `Swept`: what the sweep has passed is current white.  An open upvalue is on no list of its own and is passed with
  its thread.
* `Marks`: while marking, what is black refers to nothing white, and what is gray is on a list, or a string, or an open upvalue.
  Userdata in `mmudata` are left out until `atomic()` has marked them again: they may be black from the cycle before.
* `Atomic`: one clause for each stage of `atomic()`: open upvalues that are gray have marked values; then the roots and the
  strong references of weak tables are marked, then all that stacks and running finalizers hold, then `mmudata`.  At the end
  nothing gray is left to traverse, and so what is white is referred to by weak entries, which are cleared, and by white objects only.

The program's operations are reduced to a few kinds of steps that each have a lemma (a new
object is born, references go away, a root or a slot gets a live value, a store with its barrier), and so is marking
(`MarkEffect`).  `SafeInv` was checked with TLC first, as an invariant of the runs `gc_tables` to `gc_stack_traces`.
`FullIsCompleteCorrect` is the converse: when `collectgarbage()` returns, no garbage is left.  It rests on `GCInv` and on `FullInv`:

* `NoWaste`: in the second cycle of `lj_gc_fullgc()`, which starts from a white heap (`FullStartInside`), what is marked is in *every* set that
  has the roots and, for each member, what the collector marks for it (`StrongSet`); and from the end of `atomic()` on, what is live is reachable.  Nothing but the
  collector runs in between, so that each of its steps need only stay inside such a set (`MarkSetInside`).
* A strong reference is one the traversal marks, `Reach` goes over all of them.  At the end of `atomic()` the two agree for a table with weak keys
  *and* values: an entry that is left has only strings and objects marked for other reasons (`ClearedKeepsStrong`, `NotCleared`).
  The exception are the string keys of nodes that are cleared, `DeadKeys`: the table is live and keeps the node, so that they stay in that set
  while the sweep goes on (`SweepDeadKeys`).
* `OpenBelowTop`: no open upvalue is above `top`, where a thread's traversal does not look (`MutateOpen`, `CollectOpen`).
* `NoUdata`: without userdata there is nothing to finalize, so no finalizer runs inside the collection and none nests another one.

The property used to be stated for all weak tables, and that is false: `gc_clearweak()` drops an entry of a table with weak keys
when the key is dead, but the value has been marked for it by then, and stays until the next collection (a weak-key table that is reachable, whose
only key is not, with a table as value).  Tables that are weak in one half only are now excepted.  Nor does it hold as it stands for a table that is weak in
both: `gc_mayclear()` marks a string when it tests the key of a node, and the node may then be cleared because its value is dead.  The string stays until
the next collection, in which the node counts as empty.  `DeadKeys` excepts it; it is a little wider, since a node that the program itself has set to
nil looks the same.  In `gc_coroutines` the property fails without `DeadKeys`.

`TraceProofs` and `TraceTheorems`, from `ConstantsOK`, `DistinctOK` and `ObjectsOK` (memory is finite), for a host program that does anything but
catch an error below a stitched call (`"throw" \notin Ops`; with it the recorder itself goes wrong, as the run `trace_hotside`
shows, and no invariant of the compiler is left):

* `TypesCorrect`, `TraceNumbersCorrect`, `NumbersAreLiveCorrect`, `PatchedEntersTraceCorrect`,
  `ChainsAreRootsCorrect`, `OffIsOffCorrect`, and the action property `StartsIdleCorrect`.  None of the properties is inductive; all follow
  from one invariant, `TraceInv`.  Its parts need each other:
  `Table`: an object with a number is in the table there, the vector has room below `sizetrace`;
  `Compiler`: what each state of `trace_state()` has left for the next, that nothing is patched or numbered outside
  of a recording, that the bytecode where a root trace starts is not patched while it is
  compiled, and that the link of `J->cur` is live;
  `Graph`: the chains of root traces hold live roots of their prototype and have no cycle, links and the chains
  of side traces from every root are live;
  `Code`: patched bytecode is in its chain, and none is in a prototype with `PROTO_NOJIT`.
* `TraceProofs` has the types and the table, and reduces each action to one of a few changes
  of the table (`Steps`): nothing, a number taken or dropped, a trace stored, one trace off its chain, all flushed,
  a sweep.  `TraceTheorems` proves the other parts of those changes, not of 30 actions.
* A chain is followed by `Walk`, which counts its steps.  The invariant says instead that the number is in every set
  closed under `nextroot` (`InChain`), and that every set of live numbers has one whose successor is
  outside (`NoCycle`): both are easy to keep when a trace is added or taken
  out.  That a walk of `maxtrace` steps then meets the end (`WalkEnds`) is the pigeonhole principle: the numbers it has visited
  would be more than there are.
* Marking is the whole argument of `GraphAtomic`: what `Marks` keeps is closed under links, `nextroot` and `nextside`, so
  that a trace that is about to be freed is in no set that the others reach.
* `CodeIsLiveCorrect`: machine code that runs or can be jumped to is that of a live trace with a number.
  `TraceInv` does not give that: it is about numbers, but the jumps of machine code are addresses, which stay when a number is
  flushed and which no collector marks.  `Jumps` is the second invariant, kept by every step from states of `TraceInv`.
  It speaks of the group of a root, the least set that has it and is closed under `nextside` (`InGroup`): patched exits stay in the group (`Groups`), the tail of a trace goes
  to a root (`Tails`), the code that runs is in a group (`Running`), a continuation frame holds a live trace whose
  machine code has no jump at its tail (`Held`), instructions that are not patched hold no number (`Unpatched`), and the trace that
  is recorded will be attached to the group it has been started for (`Attached`).  A group changes as a whole: its root is flushed, and all of it
  becomes unreachable, or a side trace is added.  `ReachedCode` then follows the jumps from what can be entered, and never leaves the groups.
  `Jumps` was checked with TLC first, as an invariant of the runs `trace` and `trace_stitch`.
* `NoCrashCorrect`, for programs without stitched calls (`"stitch" \notin Ops`; with them it is false, see "Observations").  The state
  `CRASH` is where the code dereferences the NULL of a number that names no trace: in `lj_record_setup()` and `trace_stop()` the parent and
  the root of a side trace, in `trace_abort()` the invoking trace, at `JLOOP` the trace of the instruction.  That nothing marks `J->parent` is the
  difficulty: the collector also runs between two recorded instructions.  But it has to find the parent from elsewhere.  `Kept(t)` says that `t` is in
  every set that has the heads of the chains of roots and is closed under what is marked, `KeptAt(t)` that `t` is in the group of
  a root that is kept, and `ParentKept` that this holds for the code that runs, for the parent of the side trace that starts,
  and for the parent of the one that is compiled as long as it may still be stored.  Patched bytecode enters a chain
  (`ChainKeptAt`), jumps lead from what is kept to what is kept (`JumpKept`), and the steps that a recording survives
  take nothing away (`Leaves`, `KeptAtStays`): whoever flushes a trace meanwhile ends the recording.  `ParentKept` was
  checked with TLC first, with the constants of `trace`.

`ControlProofs`, about `Dispatch`, from its assumption:

* `TableFollowsStateCorrect` and the action property `RecordsWhenOnCorrect`, by `TableInv`: the table is
  `Consistent` with the mode it was written for, that mode only lags behind hooks, `jiton` and the
  recorder where the table does not depend on it (`Lags`), and what frames will restore concerns no event.
* `BitsFollowFramesCorrect`, by `BitsInv`: each frame holds what it has to restore given those below it, so that an error
  that unwinds many frames restores the right bits.

`ControlProofs`, about `MCode`, from its assumption:

* `CodeProtectedCorrect`: the protection cached in `J->mcprot` is that of the first area, and only the
  first area, or the one patched, is ever writable.
* `MCodeAccountedCorrect`: `J->szallmcarea` is the sum of the sizes of the areas.  The sum is
  a recursive function over the list (`SumExists`, `SumUnique`).
* `CodeInPlaceCorrect`: pieces of code do not overlap and lie outside of what is free.  It has the hypothesis `"fusek64" \notin MCOps`:
  with `asm_fuseloadk64()` it is false, see "Observations".

`ControlProofs`, about `Stack`, from `StackAssumption` and `CatchAssumption`: `StackLimitsCorrect`.  Its invariant orders the protected calls and running
handlers by height, and lets a stack beyond the limit only exist for a handler that has its room there.  The proof has
shown that the model was imprecise: `lj_state_relimitstack()` only shrinks the stack if what was used
at the catching frame is below `LJ_STACK_MAX - 1`.  `lj_err_throw` of `Stack` now says so, and `CatchAssumption` that no
protected call is made in the last two slots; one that is would keep the large stack after an overflow.

`StrTabProofs`, from `StrTabAssumption`, for any texts, hash values and sizes of the table, and whether or not allocation fails:

* `StrChainsCorrect`: `StrTabSpec => []StrChains`.  The inductive invariant `StrInv` adds to it that exactly the strings on the chains have
  a color, that what is held is among them, and which colors each phase can meet: dead strings only while the sweep is on
  its way, in chains that it has not passed, and none of them held.  `StrInv` was checked as an invariant of `data` first.
* `StrTabImplementsSetCorrect`: the refinement of `StrSet`, step by step; every step keeps `StrInv` and is a step of the set of strings or none.

Both rest on what the loops of the code compute (`ResizeEffect`, `RowEffect`, `FlattenEffect`, `UndeadEffect`): a resize rebuilds all chains with the same
strings, which needs that no string is met twice; a sweep step takes the dead strings off one chain and leaves the others alone.  The sweep by
index stays right because `lj_str_resize()` refuses to run during it, and that is where the proof uses the phase.

`TabProofs`, from `TabAssumption`, for any keys, hash values, sizes of the table and bins of `rehashtab()`, with the hypothesis `Reborn = {}`: no string that is
in the table as a dead key only is collected and interned again with another hash value.  With several such strings the claim is false, see the
run `tab_reborn`; for one of them it is checked in `data`, and that is where `Rechain` does something.  Without, `Rechain` finds nothing to do, which is
a step of the proof (`RelinkedNodes`).

* All five follow from `TabInv`: the table is `Consistent`, the negative cache is right, and the traversal is where it should be (`Traversing`).
  `Consistent` says that the table is `Whole` and has not rehashed within a resize.  `Whole` has four parts.  `Sized`: the types, and the sizes of both parts.  `Keyed`: a key is in one place, chains join used nodes and never
  merge, and nodes that never had a key are below `freetop`, so that what the search for a free node has passed need not be searched again.
  `Chained`: the main position of every key, dead or live, is the head of a chain on which its node is (`Meets`: it is in every set that has the head and is closed under
  `next`).  `Ranked`: ranks fall along the chains, so that none has a cycle.
* `Seek` walks a chain with a budget of as many steps as there are nodes.  That it finds the key is induction over ranks (`SeekFinds`, `ChainNodes`).
* A new key is one of three cases (`NewKeyPlaced`): its main position is free, or taken by a node that is at home, or by one that has to move; the
  predecessor that is linked to its new place exists because of `Chained`.
* Resizing (`TableResized`) is an induction over the pairs that are inserted again: in each step the live keys so far and those still to come are those of the
  old table (`RefillStep`), and there is a free node for each one still to come (`RoomOutside`).  That `rehashtab()` asks for enough of them is a matter of
  counting (`LiveCount`, `Rehashed`): keys of the new array part are subtracted from the live ones, the new key is added.
* `TraversalOnceCorrect`: visited keys have an index (`keyindex`) that is not above that of the last key, those that are due have a greater one; a store to a
  live key keeps all indexes, those of dead keys included (`SameIndex`), so that the traversal may remove the key it is at.
* `LenIsBoundaryCorrect`: a bisection between an index that is present, or 0, and one that is not ends at a border (`BisectBorder`, by induction over the
  length of the interval), and the doubling search finds such an interval or exceeds `INT_MAX` (`SearchBorder`).  The model used to bound the search by a
  number that sparse keys exceed; it now has `INT_MAX`, and the linear search of the code beyond it.
* `TabImplementsMapCorrect`: that every lookup finds what is `stored` is a conjunct of `TabInv`, kept because each operation changes the lookups as it changes `stored`:
  a store to one key, to the keys of `BC_TSETM` at once (`Assigns`), or to none (`RoomFor` and the lemmas on resizing).

Two more assumptions came out of the proofs.  `minvec > 1` (`LJ_MIN_VECSZ` is 8, `lj_def.h:81`): with 1 the
vector of traces would start full and `trace_findfree()` would store behind its end.  `DistinctOK`: the markers
`Cur`, `Free` and `Nil` are no traces and no patches.

`NumbersAreLive` was at first stated for `nextside` of every live trace.  That is false beyond the bounds of the run: a
side trace that is recorded while its flushed root is collected gets the root's stale `nextside`
(4 objects, 4 numbers, `maxside` 2, stitched calls and `jit.flush(n)`).  Nothing reaches that field: `gc_traverse_trace()`
and `trace_stop()` follow the chain from a root in the table.  The property now says what the code relies on: the chain of side
traces that starts at a live root.

Model-checked only:

* liveness and whatever needs `ENABLED` (`RecordingEnds`, `CycleEnds`, `GarbageFreed`): out of reach of the prover;
* `CompiledBehaves` and `FoldSound`: `TPVM`, `TPSem` and `Fold` use RECURSIVE operators, which the prover
  does not handle;
* tables with strings that are interned again.

## Plan

Done, in this order: `GC` with its runs, `GCProofs`, `Trace` with its runs; `Dispatch`, `MCode`
and `Stack`; `Tab` and `StrTab` with what they implement; the compiler for TP; the fold engine; the proofs about
`Stack`, `MCode`, `Dispatch` and `Trace`; `GCSafety`; the proofs about `StrTab` and `Tab`.

Next:

1. Proofs: `NoCrash` of `Trace` with stitched traces, for programs in which nothing flushes a single trace or function.
2. The optimizer: memory (`lj_opt_mem.c`) and loops (`lj_opt_loop.c`) over `IR`, with PHIs.
3. `GCPace` and `Finalize`: threshold arithmetic with its widths; `lua_close()` and the
   cdata finalizers.
4. `CCallback` (slots), the bytecode writer and reader as a round trip, snapshots.

## Not modelled

What a machine instruction computes; register allocation; formats
and conversions; the allocator (dlmalloc); libraries; front ends, which only translate text.  In
`GC`: the debt arithmetic, cdata finalizers, `lua_close()`, and allocation failure.  In
`Trace`: handlers of VM events (`jit.attach`), which run Lua code inside the compiler;
prototypes that are collected; exits other than one per trace; the vararg and C function
headers, which are not compiled.  In `Dispatch`: which line a hook reports.  In `MCode`: the
encoding of instructions; of assembling, only where it writes.  In `IR` and `Fold`: rules for strings, buffers, pointers, loads,
barriers, PHIs and loops, minimum and maximum of numbers, arc tangents, conversions from 8 and 16 bits and
to `u32`, byte swaps, floats, the elimination of bounds checks by loop invariants (`abc_fwd`, `abc_invar`) and sign extensions by scalar evolution.  In `Stack`: what the slots hold.  In
`Tab`: numbers that are not integers and GC objects as keys, failed allocation.  In `TPCode`: the lexer,
limits on nesting, line and variable information, cdata constants; in `TPVM`: metamethods, coroutines, and the instructions that
the compiler does not emit.
