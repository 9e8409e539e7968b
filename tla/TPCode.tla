------------------------------- MODULE TPCode -------------------------------
(***************************************************************************)
(* The bytecode compiler for TP, tj_parse.c: one pass over the program,     *)
(* expression descriptors, jump lists, a stack of registers, scopes, gotos  *)
(* and upvalues.  A program is a tree: a node is a tuple that starts with   *)
(* the name of the special form.  Tokens are not modelled.                  *)
(*                                                                         *)
(* The state S of the compiler is a record: fs the function in progress,    *)
(* with the enclosing ones in fs.prev; vs the stack of variables, gotos and *)
(* labels; protos the finished prototypes; err the first error; bad whether *)
(* a lua_assert() failed; e, at and l what the last step left behind: an    *)
(* expression, the position of an instruction, a jump list.                *)
(*                                                                         *)
(* Positions start with 1, the header.  A jump list is the set of its       *)
(* positions.  An instruction has the operands a, b and c; c is D, with a   *)
(* jump's target as a position.  Variants of an instruction that differ by  *)
(* the type of an operand are one, with <<"r", register>> or                *)
(* <<"k", constant>> as the operand.                                       *)
(***************************************************************************)
EXTENDS Integers, Sequences, FiniteSets, SequencesExt

NO_REG == 255
LJ_MAX_SLOTS == 250

NilV == <<"nil">>
Bool(b) == IF b THEN <<"true">> ELSE <<"false">>
Num(n) == <<"num", n>>
Ins3(op, a, b, c) == [op |-> op, a |-> a, b |-> b, c |-> c]
Tuple(f) == SubSeq(f, 1, Len(f))  \* evaluated at once

-----------------------------------------------------------------------------
(* Expression descriptors. *)

Desc(k, info, aux) == [k |-> k, info |-> info, aux |-> aux, t |-> {}, f |-> {}]
Const(v) == Desc("VK", v, 0)
VVOID == Desc("VVOID", 0, 0)

expr_hasjump(e) == e.t # e.f
expr_isk(e) == e.k = "VK"
expr_isk_nojump(e) == expr_isk(e) /\ ~expr_hasjump(e)
expr_isnumk(e) == expr_isk(e) /\ e.info[1] = "num"
expr_isstrk(e) == expr_isk(e) /\ e.info[1] = "str"
FalseK(e) == expr_isk(e) /\ e.info[1] \in {"nil", "false"}
TrueK(e) == expr_isk(e) /\ e.info[1] \notin {"nil", "false"}

With(S, e) == [S EXCEPT !.e = e]
Fail(S, what) == [S EXCEPT !.err = IF @ = "" THEN what ELSE @]
lua_assert(S, ok) == [S EXCEPT !.bad = @ \/ ~ok]

-----------------------------------------------------------------------------
(* Jump lists. *)

PC(S) == Len(S.fs.code) + 1
Copies(q) == q.op \in {"ISTC", "ISFC"}

\* The jump at pc is preceded by an instruction that can leave a value behind.
Takes(code, pc) == Copies(code[pc - 1]) \/ code[pc - 1].a = NO_REG
jmp_novalue(code, list) == \E pc \in list : ~Takes(code, pc)

\* Mutant: a test that copies into the register it tests stays a copy.
jmp_patchtestreg_copy(code, list, reg) ==
  Tuple([i \in DOMAIN code |->
     LET q == code[i] IN
     IF i + 1 \in list /\ Copies(q)
     THEN IF reg # NO_REG THEN [q EXCEPT !.a = reg] ELSE [q EXCEPT !.op = IF @ = "ISTC" THEN "IST" ELSE "ISF"]
     ELSE IF i + 1 \in list /\ q.a = NO_REG
     THEN IF reg = NO_REG THEN Ins3("JMP", code[i + 1].a, 0, i + 1) ELSE [q EXCEPT !.a = reg]
     ELSE q])

jmp_patchtestreg(code, list, reg) ==
  Tuple([i \in DOMAIN code |->
     LET q == code[i] IN
     CASE i + 1 \in list /\ Copies(q) ->
            IF reg # NO_REG /\ reg # q.c THEN [q EXCEPT !.a = reg]
            ELSE [q EXCEPT !.op = IF @ = "ISTC" THEN "IST" ELSE "ISF", !.a = 0]
       [] i + 1 \in list /\ ~Copies(q) /\ q.a = NO_REG ->
            IF reg = NO_REG THEN Ins3("JMP", code[i + 1].a, 0, i + 1) ELSE [q EXCEPT !.a = reg]
       [] i \in list /\ ~Copies(code[i - 1]) /\ code[i - 1].a = NO_REG /\ reg # NO_REG /\ reg >= q.a ->
            [q EXCEPT !.a = reg + 1]
       [] OTHER -> q])

jmp_patchval(code, list, vtarget, reg, dtarget) ==
  IF list = {} THEN code
  ELSE LET patched == jmp_patchtestreg(code, list, reg)
       IN Tuple([i \in DOMAIN code |->
                   IF i \in list THEN [patched[i] EXCEPT !.c = IF Takes(code, i) THEN vtarget ELSE dtarget]
                   ELSE patched[i]])

jmp_patchins(S, pc, dest) == [S EXCEPT !.fs.code[pc].c = dest]
jmp_tohere(S, list) == [S EXCEPT !.fs.lasttarget = PC(S), !.fs.jpc = @ \cup list]
jmp_patch(S, list, target) ==
  IF target = PC(S) THEN jmp_tohere(S, list)
  ELSE [S EXCEPT !.fs.code = jmp_patchval(@, list, target, NO_REG, target)]

-----------------------------------------------------------------------------
(* Registers and instructions. *)

bcreg_bump(S, n) ==
  LET sz == S.fs.freereg + n
  IN IF sz > S.fs.framesize
     THEN [(IF sz >= LJ_MAX_SLOTS THEN Fail(S, "slots") ELSE S) EXCEPT !.fs.framesize = sz]
     ELSE S
bcreg_reserve(S, n) == [bcreg_bump(S, n) EXCEPT !.fs.freereg = @ + n]
bcreg_free(S, reg) ==
  IF reg >= S.fs.nactvar THEN lua_assert([S EXCEPT !.fs.freereg = @ - 1], reg = S.fs.freereg - 1) ELSE S
expr_free(S, e) == IF e.k = "VNONRELOC" THEN bcreg_free(S, e.info) ELSE S

\* "Using expr_free might cause asserts if the order is wrong."
FreeTemp(S, e) ==
  IF e.k = "VNONRELOC" /\ e.info >= S.fs.nactvar THEN [S EXCEPT !.fs.freereg = @ - 1] ELSE S

bcemit_INS(S, ins) ==
  LET pc == PC(S)
  IN [S EXCEPT !.fs.code = Append(jmp_patchval(@, S.fs.jpc, pc, NO_REG, pc), ins),
               !.fs.jpc = {}, !.at = pc]

Relocable(S, ins, e) ==
  LET S1 == bcemit_INS(S, ins) IN With(S1, [e EXCEPT !.k = "VRELOCABLE", !.info = S1.at])

expr_discharge(S, e) ==
  CASE e.k = "VUPVAL" -> Relocable(S, Ins3("UGET", 0, 0, e.info), e)
    [] e.k = "VGLOBAL" -> Relocable(S, Ins3("GGET", 0, 0, e.info), e)
    [] e.k = "VINDEXED" ->
         LET S1 == IF e.aux[1] = "r" THEN bcreg_free(S, e.aux[2]) ELSE S
         IN Relocable(bcreg_free(S1, e.info), Ins3("TGET", 0, e.info, e.aux), e)
    [] e.k = "VCALL" -> With(S, [e EXCEPT !.k = "VNONRELOC", !.info = e.aux])
    [] e.k = "VLOCAL" -> With(S, [e EXCEPT !.k = "VNONRELOC"])
    [] OTHER -> With(S, e)

\* Mutant: a jump to the current position does not keep the last KNIL apart.
bcemit_nil_merge(S, from, n) ==
  LET pc == Len(S.fs.code)
      q == S.fs.code[pc]
  IN IF q.op = "K" /\ q.c = NilV /\ (from = q.a + 1 \/ (from = q.a /\ n > 1))
     THEN [S EXCEPT !.fs.code[pc] = Ins3("KNIL", q.a, 0, from + n - 1)]
     ELSE IF q.op = "K" /\ q.c = NilV /\ from = q.a THEN S
     ELSE bcemit_INS(S, IF n = 1 THEN Ins3("K", from, 0, NilV) ELSE Ins3("KNIL", from, 0, from + n - 1))

\* Merges with the previous instruction where no jump comes between them.
bcemit_nil(S, from, n) ==
  LET pc == Len(S.fs.code)
      q == S.fs.code[pc]
      merge == PC(S) > S.fs.lasttarget
      kpri == merge /\ q.op = "K" /\ q.c = NilV
      last == from + n - 1
  IN CASE kpri /\ from = q.a /\ n = 1 -> S
       [] kpri /\ (from = q.a + 1 \/ (from = q.a /\ n > 1)) ->
            [S EXCEPT !.fs.code[pc] = Ins3("KNIL", q.a, 0, last)]
       [] merge /\ q.op = "KNIL" /\ q.a <= from /\ from <= q.c + 1 ->
            IF last > q.c THEN [S EXCEPT !.fs.code[pc].c = last] ELSE S
       [] OTHER -> bcemit_INS(S, IF n = 1 THEN Ins3("K", from, 0, NilV) ELSE Ins3("KNIL", from, 0, last))

expr_toreg_nobranch(S, e, reg) ==
  LET S1 == expr_discharge(S, e)
      d == S1.e
      In(S2) == With(S2, [d EXCEPT !.k = "VNONRELOC", !.info = reg])
  IN CASE d.k = "VRELOCABLE" -> In([S1 EXCEPT !.fs.code[d.info].a = reg])
       [] d.k = "VNONRELOC" -> IF reg = d.info THEN S1 ELSE In(bcemit_INS(S1, Ins3("MOV", reg, 0, d.info)))
       [] expr_isk(d) -> In(IF d.info = NilV THEN bcemit_nil(S1, reg, 1)
                            ELSE bcemit_INS(S1, Ins3("K", reg, 0, d.info)))
       [] OTHER -> S1

\* With UCLO as the last instruction the branch becomes part of it.
bcemit_jmp(S) ==
  LET n == Len(S.fs.code)
      S1 == IF n >= S.fs.lasttarget /\ S.fs.code[n].op = "UCLO"
            THEN [S EXCEPT !.fs.code[n].c = 0, !.fs.lasttarget = n + 1, !.fs.jpc = {}, !.at = n]
            ELSE bcemit_INS([S EXCEPT !.fs.jpc = {}], Ins3("JMP", S.fs.freereg, 0, 0))
  IN [S1 EXCEPT !.l = {S1.at} \cup S.fs.jpc]

\* The jumps of e arrive with the value in reg: each test copies it there, or
\* goes to an instruction that loads true or false.
expr_toreg(S, e, reg) ==
  LET S1 == expr_toreg_nobranch(S, e, reg)
      d == S1.e
      t == IF d.k = "VJMP" THEN d.t \cup d.aux ELSE d.t
      Load(S2, skip) ==
        LET S3 == bcemit_INS(S2, Ins3("K", reg, 0, Bool(FALSE)))
            S4 == bcemit_INS(S3, Ins3("JMP", S3.fs.freereg, 0, S3.at + 3))
        IN jmp_tohere(bcemit_INS(S4, Ins3("K", reg, 0, Bool(TRUE))), skip)
      novalue == jmp_novalue(S1.fs.code, t) \/ jmp_novalue(S1.fs.code, d.f)
      S5 == IF ~novalue THEN S1
            ELSE IF d.k = "VJMP" THEN Load(S1, {})
            ELSE LET S2 == bcemit_jmp(S1) IN Load(S2, S2.l)
      jend == PC(S5)
      S6 == [S5 EXCEPT !.fs.lasttarget = jend,
                       !.fs.code = jmp_patchval(jmp_patchval(@, d.f, jend, reg, jend - 3), t, jend, reg, jend - 1)]
  IN With(IF t # d.f THEN S6 ELSE S1, Desc("VNONRELOC", reg, 0))

expr_tonextreg(S, e) ==
  LET S1 == expr_discharge(S, e)
      S2 == bcreg_reserve(expr_free(S1, S1.e), 1)
  IN expr_toreg(S2, S1.e, S2.fs.freereg - 1)

expr_toanyreg(S, e) ==
  LET S1 == expr_discharge(S, e)
  IN CASE S1.e.k = "VNONRELOC" /\ ~expr_hasjump(S1.e) -> S1
       [] S1.e.k = "VNONRELOC" /\ expr_hasjump(S1.e) /\ S1.e.info >= S.fs.nactvar ->
            expr_toreg(S1, S1.e, S1.e.info)
       [] OTHER -> expr_tonextreg(S1, S1.e)

expr_toval(S, e) == IF expr_hasjump(e) THEN expr_toanyreg(S, e) ELSE expr_discharge(S, e)

\* A constant operand as it is, else a register.
Operand(e) == IF expr_isk(e) THEN <<"k", e.info>> ELSE <<"r", e.info>>

bcemit_store(S, var, e) ==
  LET S1 == CASE var.k = "VLOCAL" -> expr_toreg(expr_free(S, e), e, var.info)
              [] var.k = "VUPVAL" -> LET S2 == expr_toval(S, e)
                                     IN IF expr_isk(S2.e) THEN S2 ELSE expr_toanyreg(S2, S2.e)
              [] OTHER -> expr_toanyreg(S, e)
      d == S1.e
      Free(S2) == With(expr_free(S2, d), d)
      late == var.k = "VINDEXED" /\ var.aux[1] = "r" /\ d.info >= S1.fs.nactvar /\ var.aux[2] >= d.info
  IN CASE var.k = "VLOCAL" -> [S1 EXCEPT !.vs[var.aux].rw = TRUE]
       [] var.k = "VUPVAL" -> Free(bcemit_INS([S1 EXCEPT !.vs[var.aux].rw = TRUE],
                                              Ins3("USET", var.info, 0, Operand(d))))
       [] var.k = "VGLOBAL" -> Free(bcemit_INS(S1, Ins3("GSET", d.info, 0, var.info)))
       [] var.k = "VINDEXED" -> Free(bcemit_INS(IF late THEN bcreg_free(S1, var.aux[2]) ELSE S1,
                                                Ins3("TSET", d.info, var.info, var.aux)))

bcemit_method(S, e, key) ==
  LET S1 == expr_toanyreg(S, e)
      obj == S1.e.info
      S2 == expr_free(S1, S1.e)
      func == S2.fs.freereg
      S3 == bcreg_reserve(bcemit_INS(S2, Ins3("MOV", func + 1, 0, obj)), 2)
  IN With(bcemit_INS(S3, Ins3("TGET", func, obj, <<"k", key>>)), Desc("VNONRELOC", func, 0))

-----------------------------------------------------------------------------
(* Branches. *)

Opposite == [ISLT |-> "ISGE", ISGE |-> "ISLT", ISLE |-> "ISGT", ISGT |-> "ISLE",
            ISEQ |-> "ISNE", ISNE |-> "ISEQ"]
invertcond(S, e) == [S EXCEPT !.fs.code[e.info - 1].op = Opposite[@]]

bcemit_branch(S, e, cond) ==
  IF e.k = "VRELOCABLE" /\ S.fs.code[e.info].op = "NOT"
  THEN bcemit_jmp(With([S EXCEPT !.fs.code[e.info] = Ins3(IF cond THEN "ISF" ELSE "IST", 0, 0, @.c)], e))
  ELSE LET S1 == IF e.k = "VNONRELOC" THEN With(S, e)
                 ELSE LET S2 == bcreg_reserve(S, 1) IN expr_toreg_nobranch(S2, e, S2.fs.freereg - 1)
           S3 == bcemit_INS(S1, Ins3(IF cond THEN "ISTC" ELSE "ISFC", NO_REG, 0, S1.e.info))
       IN expr_free(bcemit_jmp(S3), S1.e)

\* Jump if e is a truth value that is not cond; go on if it is.
Branch(S, e, cond) ==
  LET S1 == expr_discharge(S, e)
      d == S1.e
  IN CASE (IF cond THEN TrueK(d) ELSE FalseK(d)) -> [S1 EXCEPT !.l = {}]
       [] d.k = "VJMP" -> [(IF cond THEN invertcond(S1, d) ELSE S1) EXCEPT !.l = d.aux]
       [] (IF cond THEN FalseK(d) ELSE TrueK(d)) -> bcemit_jmp(expr_toreg_nobranch(S1, d, NO_REG))
       [] OTHER -> bcemit_branch(S1, d, ~cond)

bcemit_branch_t(S, e) ==
  LET S1 == Branch(S, e, TRUE)
  IN With(jmp_tohere(S1, S1.e.t), [S1.e EXCEPT !.f = @ \cup S1.l, !.t = {}])
bcemit_branch_f(S, e) ==
  LET S1 == Branch(S, e, FALSE)
  IN With(jmp_tohere(S1, S1.e.f), [S1.e EXCEPT !.t = @ \cup S1.l, !.f = {}])

-----------------------------------------------------------------------------
(* Operators. *)

Arith(op, x, y) == CASE op = "sub" -> x - y [] op = "add" -> x + y

\* Tests of the first operand come first; results are e1's descriptor.
bcemit_arith(S, op, e1, e2) ==
  LET fold == expr_isnumk(e1) /\ ~expr_hasjump(e1) /\ expr_isnumk(e2) /\ ~expr_hasjump(e2)
      S1 == expr_toval(S, e2)
      S2 == IF expr_isnumk(S1.e) THEN S1 ELSE expr_toanyreg(S1, S1.e)
      d2 == S2.e
      S3 == expr_toval(S2, e1)
      S4 == IF expr_isnumk(S3.e) /\ ~expr_isnumk(d2) THEN S3 ELSE expr_toanyreg(S3, S3.e)
      d1 == S4.e
      S5 == FreeTemp(FreeTemp(S4, d1), d2)
  IN IF fold THEN With(S, Const(Num(Arith(op, e1.info[2], e2.info[2]))))
     ELSE Relocable(lua_assert(S5, expr_isnumk(e1) \/ e1.k = "VNONRELOC"),
                    Ins3(op, 0, Operand(d1), Operand(d2)), d1)

CompOp == [lt |-> "ISLT", ge |-> "ISGE", le |-> "ISLE", gt |-> "ISGT", eq |-> "ISEQ", ne |-> "ISNE"]

\* A comparison is a jump; two instructions.
Compare(S, ins, d1, d2) ==
  LET S1 == bcemit_jmp(bcemit_INS(FreeTemp(FreeTemp(S, d1), d2), ins))
  IN With(S1, Desc("VJMP", S1.at, S1.l))

bcemit_comp(S, op, e1, e2) ==
  LET S1 == expr_toval(S, e1)
      swap == IF op \in {"eq", "ne"} THEN expr_isk(S1.e) ELSE op \in {"ge", "gt"}
      x == IF swap THEN e2 ELSE S1.e
      y == IF swap THEN S1.e ELSE e2
      Eq == LET S2 == expr_toanyreg(S1, x)
                S3 == expr_toval(S2, y)
                S4 == IF expr_isk(S3.e) THEN S3 ELSE expr_toanyreg(S3, S3.e)
            IN Compare(S4, Ins3(CompOp[op], S2.e.info, 0, Operand(S4.e)), S2.e, S4.e)
      Less == LET S2 == IF swap THEN expr_toval(S1, x) ELSE With(S1, x)
                  S3 == expr_toanyreg(S2, y)
                  S4 == expr_toanyreg(S3, S2.e)
                  less == CASE op = "gt" -> "ISLT" [] op = "ge" -> "ISLE" [] OTHER -> CompOp[op]
              IN Compare(S4, Ins3(less, S4.e.info, 0, Operand(S3.e)), S4.e, S3.e)
  IN IF op \in {"eq", "ne"} THEN Eq ELSE Less

bcemit_binop_left(S, op, e) ==
  CASE op = "and" -> bcemit_branch_t(S, e)
    [] op = "or" -> bcemit_branch_f(S, e)
    [] op = "concat" -> expr_tonextreg(S, e)
    [] op \in {"eq", "ne"} -> IF expr_isk_nojump(e) THEN With(S, e) ELSE expr_toanyreg(S, e)
    [] OTHER -> IF expr_isnumk(e) /\ ~expr_hasjump(e) THEN With(S, e) ELSE expr_toanyreg(S, e)

\* Concatenations to the right are one instruction over their registers.
Concat(S, e1, e2) ==
  LET S1 == expr_toval(S, e2)
      d == S1.e
      q == S1.fs.code[d.info]
      S2 == expr_tonextreg(S1, d)
  IN IF d.k = "VRELOCABLE" /\ q.op = "CAT"
     THEN With([expr_free(lua_assert(S1, e1.info = q.b - 1), e1) EXCEPT !.fs.code[d.info].b = e1.info], d)
     ELSE Relocable(expr_free(expr_free(S2, S2.e), e1), Ins3("CAT", 0, e1.info, S2.e.info), e1)

bcemit_binop(S, op, e1, e2) ==
  CASE op = "and" ->
         LET S1 == expr_discharge(lua_assert(S, e1.t = {}), e2) IN With(S1, [S1.e EXCEPT !.f = @ \cup e1.f])
    [] op = "or" ->
         LET S1 == expr_discharge(lua_assert(S, e1.f = {}), e2) IN With(S1, [S1.e EXCEPT !.t = @ \cup e1.t])
    [] op = "concat" -> Concat(S, e1, e2)
    [] op \in DOMAIN CompOp -> bcemit_comp(S, op, e1, e2)
    [] OTHER -> bcemit_arith(S, op, e1, e2)

\* Mutant: the values on the jump lists are not dropped.
bcemit_not_keep(S, e) ==
  LET S1 == expr_discharge(S, [e EXCEPT !.t = e.f, !.f = e.t])
      d == S1.e
      S2 == bcreg_reserve(S1, 1)
      reg == S2.fs.freereg - 1
  IN CASE expr_isk(d) -> With(S1, [d EXCEPT !.info = Bool(FalseK(d))])
       [] d.k = "VJMP" -> invertcond(S1, d)
       [] d.k = "VRELOCABLE" ->
            Relocable(bcreg_free([S2 EXCEPT !.fs.code[d.info].a = reg], reg), Ins3("NOT", 0, 0, reg), d)
       [] OTHER -> Relocable(expr_free(S1, d), Ins3("NOT", 0, 0, d.info), d)

\* The jump lists change their places; what the tests leave behind is dropped.
bcemit_not(S, e) ==
  LET dropped == [S EXCEPT !.fs.code = jmp_patchtestreg(jmp_patchtestreg(@, e.t, NO_REG), e.f, NO_REG)]
      S1 == expr_discharge(dropped, [e EXCEPT !.t = e.f, !.f = e.t])
      d == S1.e
      S2 == bcreg_reserve(S1, 1)
      reg == S2.fs.freereg - 1
  IN CASE expr_isk(d) -> With(S1, [d EXCEPT !.info = Bool(FalseK(d))])
       [] d.k = "VJMP" -> invertcond(S1, d)
       [] d.k = "VRELOCABLE" ->
            Relocable(bcreg_free([S2 EXCEPT !.fs.code[d.info].a = reg], reg), Ins3("NOT", 0, 0, reg), d)
       [] OTHER -> Relocable(expr_free(S1, d), Ins3("NOT", 0, 0, d.info), d)

bcemit_unop(S, op, e) ==
  LET S1 == expr_toanyreg(S, e)
      d == S1.e
  IN IF op = "not" THEN bcemit_not(S, e)
     ELSE IF op = "neg" /\ expr_isnumk(e) /\ ~expr_hasjump(e) /\ e.info # Num(0)
     THEN With(S, Const(Num(-e.info[2])))
     ELSE Relocable(expr_free(S1, d), Ins3(IF op = "neg" THEN "UNM" ELSE "LEN", 0, 0, d.info), d)

\* b counts the results that are kept, plus one: one by default.
bcemit_call(S, e, args) ==
  LET base == e.info
      S1 == IF args.k \in {"VVOID", "VCALL"} THEN S ELSE expr_tonextreg(S, args)
      S2 == bcemit_INS(S1, IF args.k = "VCALL" THEN Ins3("CALLM", base, 2, args.aux - base - 1)
                           ELSE Ins3("CALL", base, 2, S1.fs.freereg - base))
  IN With([lua_assert(S2, e.k = "VNONRELOC") EXCEPT !.fs.freereg = base + 1], Desc("VCALL", S2.at, base))

-----------------------------------------------------------------------------
(* Variables.  vs is the stack of all variables, gotos and labels; varmap    *)
(* and uvmap lead from registers and upvalues to it.                        *)

Entry(name, kind) ==
  [name |-> name, kind |-> kind, final |-> FALSE, rw |-> FALSE, slot |-> 0, pc |-> 0, l |-> {}]

var_new(S, n, name, final) ==
  [S EXCEPT !.vs = Append(@, [Entry(name, "var") EXCEPT !.final = final]),
            !.fs.varmap = Append(SubSeq(@, 1, S.fs.nactvar + n), Len(S.vs) + 1)]

var_add(S, n) ==
  LET new == {S.fs.varmap[S.fs.nactvar + i] : i \in 1 .. n}
      Slot(v) == CHOOSE i \in 1 .. n : S.fs.varmap[S.fs.nactvar + i] = v
      Add(v) == [S.vs[v] EXCEPT !.slot = S.fs.nactvar + Slot(v) - 1, !.rw = FALSE]
  IN [S EXCEPT !.vs = Tuple([v \in DOMAIN @ |-> IF v \in new THEN Add(v) ELSE @[v]]),
               !.fs.nactvar = @ + n]

\* The innermost scope that begins at or below the register has an upvalue.
fscope_uvmark(fs, level) ==
  LET at == {i \in DOMAIN fs.bl : fs.bl[i].nactvar <= level}
  IN IF at = {} THEN fs
     ELSE [fs EXCEPT !.bl[CHOOSE i \in at : \A j \in at : j <= i].flags = @ \cup {"UPVAL"}]

var_lookup_uv(fs, vidx, e) ==
  IF \E i \in DOMAIN fs.uvmap : fs.uvmap[i] = vidx THEN fs
  ELSE [fs EXCEPT !.uvmap = Append(@, vidx),
                  !.uvtmp = Append(@, [up |-> e.k = "VUPVAL", i |-> IF e.k = "VLOCAL" THEN vidx ELSE e.info])]

\* Returns the function, changed where upvalues are new, and the expression.
RECURSIVE var_lookup_(_, _, _, _)
var_lookup_(fs, vs, name, first) ==
  LET regs == {r \in 1 .. fs.nactvar : vs[fs.varmap[r]].name = name}
      reg == CHOOSE r \in regs : \A r2 \in regs : r2 <= r
      outer == var_lookup_(fs.prev[1], vs, name, FALSE)
      fs1 == var_lookup_uv([fs EXCEPT !.prev = <<outer.fs>>], outer.e.aux, outer.e)
  IN IF regs # {}
     THEN [fs |-> IF first THEN fs ELSE fscope_uvmark(fs, reg - 1),
           e |-> Desc("VLOCAL", reg - 1, fs.varmap[reg])]
     ELSE IF fs.prev = <<>> THEN [fs |-> fs, e |-> Desc("VGLOBAL", name, 0)]
     ELSE IF outer.e.k = "VGLOBAL" THEN [fs |-> fs, e |-> outer.e]
     ELSE [fs |-> fs1,
           e |-> Desc("VUPVAL", CHOOSE i \in DOMAIN fs1.uvmap : fs1.uvmap[i] = outer.e.aux, outer.e.aux)]

var_lookup(S, name) ==
  LET r == var_lookup_(S.fs, S.vs, name, TRUE) IN With([S EXCEPT !.fs = r.fs], r.e)

-----------------------------------------------------------------------------
(* Gotos and labels. *)

NAME_BREAK == "break"
Scope(S) == Last(S.fs.bl)

gola_new(S, name, kind, pc, l) ==
  [S EXCEPT !.vs = Append(@, [Entry(name, kind) EXCEPT !.pc = pc, !.l = l, !.slot = S.fs.nactvar])]

gola_patch(S, vg, slot, pc) ==
  LET v == S.vs[vg]
  IN jmp_patch([S EXCEPT !.vs[vg].name = "", !.fs.code[v.pc].a = slot], v.l, pc)

\* A jump that leaves the scope of an upvalue becomes a UCLO; the other jumps
\* of its list go there.
gola_close(S, vg) ==
  LET v == S.vs[vg]
      S1 == [S EXCEPT !.fs.code[v.pc].a = v.slot]
      S2 == IF v.l = {v.pc} THEN S1 ELSE jmp_patch(S1, v.l \ {v.pc}, v.pc)
  IN IF S.fs.code[v.pc].op # "JMP" THEN lua_assert(S1, S.fs.code[v.pc].op = "UCLO")
     ELSE [S2 EXCEPT !.fs.code[v.pc].op = "UCLO", !.fs.code[v.pc].c = 0, !.vs[vg].l = {v.pc}]

Upto(m, n) == Tuple([i \in 1 .. (IF n < m THEN 0 ELSE n - m + 1) |-> m + i - 1])

\* Pending gotos of the scope bl to a new label.
gola_resolve(S, bl, label, last) ==
  FoldLeft(LAMBDA T, vg : CASE ~(T.vs[vg].kind = "goto" /\ T.vs[vg].name = label.name) -> T
                            [] OTHER -> IF T.vs[vg].slot < label.slot THEN Fail(T, "goto into scope")
                                        ELSE gola_patch(T, vg, label.slot, label.pc),
           S, Upto(bl.vstart, last))

\* What is left when the scope bl ends: backward gotos to its labels, and gotos
\* that leave it.
gola_fixup(S, bl) ==
  LET upval == "UPVAL" \in bl.flags
      Leave(T, v) ==
        LET T1 == [T EXCEPT !.vs[v].slot = bl.nactvar,
                            !.fs.bl[Len(T.fs.bl)].flags =
                               @ \cup {IF T.vs[v].name = NAME_BREAK THEN "BREAK" ELSE "GOLA"}]
        IN IF T.fs.bl = <<>> THEN Fail(T, "undefined label") ELSE IF upval THEN gola_close(T1, v) ELSE T1
      Fix(T, v) ==
        CASE T.vs[v].name = "" -> T
          [] T.vs[v].name # "" /\ T.vs[v].kind = "label" ->
               FoldLeft(LAMBDA U, vg :
                          IF ~(U.vs[vg].kind = "goto" /\ U.vs[vg].name = T.vs[v].name) THEN U
                          ELSE gola_patch(IF upval /\ U.vs[vg].slot > T.vs[v].slot THEN gola_close(U, vg) ELSE U,
                                          vg, T.vs[v].slot, T.vs[v].pc),
                        [T EXCEPT !.vs[v].name = ""], Upto(v + 1, Len(T.vs)))
          [] T.vs[v].name # "" /\ T.vs[v].kind = "goto" -> Leave(T, v)
          [] OTHER -> T
  IN FoldLeft(Fix, S, Upto(bl.vstart, Len(S.vs)))

gola_findlabel(S, name) ==
  {v \in Scope(S).vstart .. Len(S.vs) : S.vs[v].kind = "label" /\ S.vs[v].name = name}

-----------------------------------------------------------------------------
(* Scopes and functions. *)

fscope_begin(S, flags) ==
  [lua_assert(S, S.fs.freereg = S.fs.nactvar)
     EXCEPT !.fs.bl = Append(@, [nactvar |-> S.fs.nactvar, flags |-> flags, vstart |-> Len(S.vs) + 1])]

Flag(S, flag) == [S EXCEPT !.fs.bl[Len(S.fs.bl)].flags = @ \cup {flag}]

\* Mutant: upvalues are not closed at the end of a scope.
fscope_end_open(S) ==
  LET bl == Scope(S)
      S1 == [S EXCEPT !.fs.bl = Front(@), !.fs.nactvar = bl.nactvar, !.fs.freereg = bl.nactvar]
      S2 == IF "BREAK" \in bl.flags /\ "LOOP" \in bl.flags
            THEN gola_resolve(S1, bl, [name |-> NAME_BREAK, slot |-> S1.fs.nactvar, pc |-> PC(S1)], Len(S1.vs))
            ELSE S1
  IN IF {"BREAK", "LOOP"} \cap bl.flags = {"BREAK"} \/ "GOLA" \in bl.flags THEN gola_fixup(S2, bl) ELSE S2

fscope_end(S) ==
  LET bl == Scope(S)
      S1 == [S EXCEPT !.fs.bl = Front(@), !.fs.nactvar = bl.nactvar, !.fs.freereg = bl.nactvar]
      S2 == IF bl.flags \cap {"UPVAL", "NOCLOSE"} = {"UPVAL"}
            THEN bcemit_INS(S1, Ins3("UCLO", bl.nactvar, 0, PC(S1) + 1)) ELSE S1
      S3 == IF "BREAK" \in bl.flags /\ "LOOP" \in bl.flags
            THEN gola_resolve(S2, bl, [name |-> NAME_BREAK, slot |-> S2.fs.nactvar, pc |-> PC(S2)], Len(S2.vs))
            ELSE S2
  IN IF {"BREAK", "LOOP"} \cap bl.flags = {"BREAK"} \/ "GOLA" \in bl.flags THEN gola_fixup(S3, bl) ELSE S3

bcopisret(op) == op \in {"CALLMT", "CALLT", "RETM", "RET", "RET0", "RET1"}

\* Mutant: the first function of a scope does not matter to earlier returns.
FixupReturns_none(S, lastpc) == S

\* Returns that were compiled before the first function go to a copy behind the
\* code, by way of a UCLO.
FixupReturns(S, lastpc) ==
  LET uclos == {pc \in 2 .. lastpc - 1 : S.fs.code[pc].op = "UCLO"}
      returns == SelectSeq(Upto(2, lastpc - 1), LAMBDA pc : bcopisret(S.fs.code[pc].op) /\ \A u \in uclos : pc < u)
      Move(T, pc) ==
        LET T1 == bcemit_INS(T, T.fs.code[pc]) IN [T1 EXCEPT !.fs.code[pc] = Ins3("UCLO", 0, 0, T1.at)]
  IN IF "FIXUP_RETURN" \in S.fs.flags THEN FoldLeft(Move, S, returns) ELSE S

fs_fixup_ret(S) ==
  LET lastpc == PC(S)
      open == lastpc <= S.fs.lasttarget \/ ~bcopisret(S.fs.code[lastpc - 1].op)
      S1 == IF open /\ "UPVAL" \in Scope(S).flags THEN bcemit_INS(S, Ins3("UCLO", 0, 0, PC(S) + 1)) ELSE S
      S2 == IF open THEN bcemit_INS(S1, Ins3("RET0", 0, 0, 1)) ELSE S1
  IN FixupReturns(fscope_end(Flag(S2, "NOCLOSE")), lastpc)

\* Upvalues of the children: those that are locals here and never assigned are
\* immutable.
fs_fixup_uv2(S) ==
  LET mine == {S.fs.code[pc].c : pc \in {i \in DOMAIN S.fs.code : S.fs.code[i].op = "FNEW"}}
      Fix(u) == IF u.up THEN [u EXCEPT !.imm = FALSE]
                ELSE [u EXCEPT !.i = S.vs[u.i].slot, !.imm = ~S.vs[u.i].rw]
      FixAll(pt) == [pt EXCEPT !.uv = Tuple([u \in DOMAIN @ |-> Fix(@[u])])]
  IN [S EXCEPT !.protos = Tuple([p \in DOMAIN @ |-> IF p \in mine THEN FixAll(@[p]) ELSE @[p]])]

fs_finish(S) ==
  LET S1 == fs_fixup_uv2(fs_fixup_ret(S))
      fs == S1.fs
      pt == [code |-> fs.code, framesize |-> fs.framesize, numparams |-> fs.numparams,
             vararg |-> "VARARG" \in fs.flags,
             uv |-> Tuple([u \in DOMAIN fs.uvtmp |-> [up |-> fs.uvtmp[u].up, i |-> fs.uvtmp[u].i, imm |-> FALSE]])]
  IN [S1 EXCEPT !.protos = Append(@, pt), !.vs = SubSeq(@, 1, fs.vbase)]

fs_init(prev, vs) ==
  [prev |-> prev, vbase |-> Len(vs), code |-> <<Ins3("FUNC", 0, 0, 0)>>, lasttarget |-> 1, jpc |-> {},
   freereg |-> 0, nactvar |-> 0, framesize |-> 1, numparams |-> 0, flags |-> {},
   varmap |-> <<>>, uvmap |-> <<>>, uvtmp |-> <<>>, bl |-> <<>>]

-----------------------------------------------------------------------------
(* Parsing.  Parse_X(S, ...) leaves the expression in S.e. *)

\* Indexing with a constant or the register of e, which has a value.
expr_index(S, t, e) ==
  LET S1 == IF expr_isstrk(e) \/ expr_isnumk(e) THEN With(S, e) ELSE expr_toanyreg(S, e)
  IN With(S1, [t EXCEPT !.k = "VINDEXED", !.aux = Operand(S1.e)])

Unops == {"neg", "not", "len"}
Binops == {"add", "sub", "concat", "eq", "lt", "le", "ne", "gt", "ge", "and", "or"}
Emulated == {"idiv", "band", "bor", "bxor", "shl", "shr", "bnot"}

\* gen_setoneret: of a call only the first result.
SetOneRet(S, e) ==
  CASE e.k = "VCALL" /\ S.fs.code[e.info].op = "VARG" ->
         With([S EXCEPT !.fs.freereg = @ - 1], [e EXCEPT !.k = "VRELOCABLE"])
    [] e.k = "VCALL" /\ S.fs.code[e.info].op # "VARG" -> With(S, [e EXCEPT !.k = "VNONRELOC", !.info = e.aux])
    [] OTHER -> With(S, e)

RECURSIVE expr(_, _), parse_stmt(_, _), expr_list(_, _), parse_chunk(_, _), parse_assignment_(_, _, _, _)

\* The last expression of the list is left open.
expr_list(S, es) ==
  LET S1 == expr(S, es[1])
  IN IF Len(es) = 1 \/ S1.err # "" THEN S1 ELSE expr_list(expr_tonextreg(S1, S1.e), Tail(es))

expr_next(S, x) == LET S1 == expr(S, x) IN expr_tonextreg(S1, S1.e)

parse_args(S, es) ==
  LET S1 == expr_list(S, es)
  IN IF es = <<>> THEN With(S, VVOID)
     ELSE IF S1.e.k = "VCALL" THEN [S1 EXCEPT !.fs.code[S1.e.info].b = 0] ELSE S1

\* The condition: jumps to the list S.l if it is false.
CondJump(S, e) == LET S1 == bcemit_branch_t(S, IF expr_isk(e) /\ e.info = NilV THEN [e EXCEPT !.info = Bool(FALSE)] ELSE e)
                  IN [S1 EXCEPT !.l = S1.e.f]
expr_cond(S, x) == LET S1 == expr(S, x) IN CondJump(S1, S1.e)

index4emulated(S, fct) ==
  LET S1 == expr_toanyreg(S, Desc("VGLOBAL", "tvm", 0))
      S2 == expr_index(S1, S1.e, Const(<<"str", fct>>))
      S3 == expr_discharge(S2, S2.e)
  IN expr_tonextreg(S3, S3.e)

\* (!idiv a b) is (!call1 (!index tvm "idiv") a b).
parse_emulated(S, fct, args) ==
  LET S1 == index4emulated(S, fct)
      S2 == IF Len(args) = 2 THEN expr_next(S1, args[1]) ELSE S1
      S3 == expr(S2, Last(args))
      S4 == bcemit_call(S3, S1.e, S3.e)
  IN SetOneRet(S4, S4.e)

parse_binop(S, op, x, y) ==
  LET S1 == expr(S, x)
      S2 == bcemit_binop_left(S1, op, S1.e)
      S3 == expr(S2, y)
  IN bcemit_binop(S3, op, S2.e, S3.e)

parse_unop(S, op, x) == LET S1 == expr(S, x) IN bcemit_unop(S1, op, S1.e)

parse_mconcat(S, xs) ==
  LET S1 == expr_next(S, xs[1])
      S2 == FoldLeft(expr_next, S1, Tail(xs))
      n == S2.e.info - S1.e.info + 1
      S3 == FoldLeft(LAMBDA T, i : bcreg_free(T, S2.e.info - i + 1), S2, Upto(1, n))
  IN Relocable(S3, Ins3("CAT", 0, S1.e.info, S2.e.info), S1.e)

parse_index(S, t, key) ==
  LET S1 == expr(S, t)
      S2 == expr_toanyreg(S1, S1.e)
      S3 == expr(S2, key)
      S4 == expr_toval(S3, S3.e)
  IN expr_index(S4, S2.e, S4.e)

parse_call(S, fct, args) ==
  LET S1 == expr_next(S, fct)
      S2 == parse_args(S1, args)
  IN bcemit_call(S2, S1.e, S2.e)

parse_callmeth(S, obj, key, args) ==
  LET S1 == expr(S, obj)
      S2 == expr_discharge(S1, S1.e)
      S3 == bcemit_method(S2, S2.e, key)
      S4 == parse_args(S3, args)
  IN bcemit_call(S4, S3.e, S4.e)

\* A function: <<"lambda", parameters, statements>>.
parse_lambda(S, params, stmts) ==
  LET names == SelectSeq(params, LAMBDA x : x # "vararg")
      n == Len(names)
      new == [fs_init(<<S.fs>>, S.vs) EXCEPT !.numparams = n, !.flags = IF n < Len(params) THEN {"VARARG"} ELSE {}]
      S1 == fscope_begin([S EXCEPT !.fs = new], {})
      S2 == FoldLeft(LAMBDA T, i : var_new(T, i - 1, names[i], FALSE), S1, Upto(1, n))
      S3 == fs_finish(parse_chunk(bcreg_reserve(var_add(S2, n), n), stmts))
      S4 == Relocable([S3 EXCEPT !.fs = S3.fs.prev[1]], Ins3("FNEW", 0, 0, Len(S3.protos)), Const(NilV))
      flags == S4.fs.flags
  IN [S4 EXCEPT !.fs.flags =
        @ \cup (IF flags \cap {"CHILD", "HAS_RETURN"} = {"HAS_RETURN"} THEN {"FIXUP_RETURN"} ELSE {}) \cup {"CHILD"}]

\* A table: <<"table", entries>>; an entry is <<"pair", key, value>> or
\* <<"item", value>>.  Constant pairs go into the template of the TNEW (TDUP).
TableEntry(T, freg, entry) ==
  LET S0 == T.s
      pair == entry[1] = "pair"
      S1 == IF pair THEN LET S2 == expr(S0, entry[2]) IN expr_toval(S2, S2.e)
            ELSE With(S0, Const(Num(T.narr)))
      key == S1.e
      S3 == IF expr_isk(key) THEN With(S1, T.e) ELSE expr_index(S1, T.e, key)
      var == S3.e
      S4 == expr(S3, entry[IF pair THEN 3 ELSE 2])
      val == S4.e
      template == expr_isk(key) /\ key.info # NilV /\ expr_isk_nojump(val)
      S5 == IF val.k = "VCALL" THEN S4 ELSE expr_toanyreg(S4, val)
      S6 == IF expr_isk(key) THEN expr_index(S5, var, key) ELSE With(S5, var)
      S7 == bcemit_store(S6, S6.e, S5.e)
      Done(S8) == [S8 EXCEPT !.fs.freereg = freg]
  IN [e |-> IF template THEN var ELSE S6.e,
      narr |-> IF pair THEN T.narr ELSE T.narr + 1,
      vcall |-> ~pair /\ ~template /\ val.k = "VCALL",
      const |-> IF template THEN Append(T.const, <<key.info, val.info>>) ELSE T.const,
      s |-> Done(IF template THEN S4 ELSE S7)]

expr_table(S, entries) ==
  LET freg == S.fs.freereg + 1
      S1 == bcemit_INS(S, Ins3("TNEW", S.fs.freereg, 0, <<>>))
      pc == S1.at
      T == FoldLeft(LAMBDA U, entry : TableEntry(U, freg, entry),
                    [s |-> bcreg_reserve(S1, 1), e |-> Desc("VNONRELOC", S.fs.freereg, 0),
                     narr |-> 1, vcall |-> FALSE, const |-> <<>>], entries)
      n == Len(T.s.fs.code)
      S2 == [T.s EXCEPT !.fs.code[pc].c = T.const]
      \* All results of a call at the end are stored.
      S3 == IF T.vcall THEN [S2 EXCEPT !.fs.code[n] = Ins3("TSETM", freg, 0, T.narr - 1), !.fs.code[n - 1].b = 0]
            ELSE S2
  IN IF pc = n THEN With([S3 EXCEPT !.fs.freereg = freg - 1], Desc("VRELOCABLE", pc, 0))
     ELSE With(S3, Desc("VNONRELOC", freg - 1, 0))

expr(S, x) ==
  CASE x[1] \in {"nil", "false", "true", "num", "str"} -> With(S, Const(x))
    [] x[1] = "name" -> var_lookup(S, x[2])
    [] x[1] = "vararg" ->
         LET S1 == bcreg_reserve(IF "VARARG" \in S.fs.flags THEN S ELSE Fail(S, "dots"), 1)
             S2 == bcemit_INS(S1, Ins3("VARG", S1.fs.freereg - 1, 2, S1.fs.numparams))
         IN With(S2, Desc("VCALL", S2.at, S1.fs.freereg - 1))
    [] OTHER -> parse_stmt(S, x)

-----------------------------------------------------------------------------
(* Assignments. *)

checkfinal(S, v) ==
  IF v.k \in {"VLOCAL", "VUPVAL"} /\ S.vs[v.aux].final THEN Fail(S, "final") ELSE S
Assignable(S, v) ==
  checkfinal(IF v.k \in {"VLOCAL", "VUPVAL", "VGLOBAL", "VINDEXED"} THEN S ELSE Fail(S, "syntax"), v)

\* Mutant: only tables are compared with the new target.
assign_hazard_key(S, lhs, v) ==
  LET hit == \E i \in DOMAIN lhs : lhs[i].k = "VINDEXED" /\ lhs[i].info = v.info
      tmp == S.fs.freereg
  IN [s |-> IF hit THEN bcreg_reserve(bcemit_INS(S, Ins3("MOV", tmp, 0, v.info)), 1) ELSE S,
      lhs |-> Tuple([i \in DOMAIN lhs |-> IF lhs[i].k = "VINDEXED" /\ lhs[i].info = v.info
                                          THEN [lhs[i] EXCEPT !.info = tmp] ELSE lhs[i]])]

\* The local v is also assigned: targets that use it as table or key use a copy.
assign_hazard(S, lhs, v) ==
  LET InTab(x) == x.k = "VINDEXED" /\ x.info = v.info
      InKey(x) == x.k = "VINDEXED" /\ x.aux = <<"r", v.info>>
      hit == \E i \in DOMAIN lhs : InTab(lhs[i]) \/ InKey(lhs[i])
      tmp == S.fs.freereg
  IN [s |-> IF hit THEN bcreg_reserve(bcemit_INS(S, Ins3("MOV", tmp, 0, v.info)), 1) ELSE S,
      lhs |-> Tuple([i \in DOMAIN lhs |->
                       [lhs[i] EXCEPT !.info = IF InTab(lhs[i]) THEN tmp ELSE @,
                                      !.aux = IF InKey(lhs[i]) THEN <<"r", tmp>> ELSE @]])]

assign_adjust(S, nvars, nexps, e) ==
  LET extra == nvars - nexps
      more == IF extra + 1 < 0 THEN 0 ELSE extra + 1
      S1 == [S EXCEPT !.fs.code[e.info].b = more + 1]
      S2 == IF more > 1 THEN bcreg_reserve(S1, more - 1) ELSE S1
      S3 == IF e.k = "VVOID" THEN S ELSE expr_tonextreg(S, e)
      S4 == IF extra > 0 THEN bcemit_nil(bcreg_reserve(S3, extra), S3.fs.freereg, extra) ELSE S3
      S5 == IF e.k = "VCALL" THEN S2 ELSE S4
  IN IF nexps > nvars THEN [S5 EXCEPT !.fs.freereg = @ - (nexps - nvars)] ELSE S5

\* Mutant: the last value goes to the first variable.
StoreAll_first(S, lhs) ==
  FoldLeft(LAMBDA T, v : bcemit_store(T, v, Desc("VNONRELOC", T.fs.freereg - 1, 0)), S, lhs)

\* The values are on top of the stack; the last one is stored first.
StoreAll(S, lhs) ==
  FoldLeft(LAMBDA T, v : bcemit_store(T, v, Desc("VNONRELOC", T.fs.freereg - 1, 0)), S, Reverse(lhs))

\* lhs are the targets so far, in order; the rest of them and the values follow.
parse_assignment_(S, lhs, targets, es) ==
  LET S1 == Assignable(S, Last(lhs))
      S2 == expr(S1, targets[1])
      v == S2.e
      h == IF v.k = "VLOCAL" THEN assign_hazard(S2, lhs, v) ELSE [s |-> S2, lhs |-> lhs]
      S3 == expr_list(S1, es)
      S4 == SetOneRet(S3, S3.e)
      S5 == bcemit_store(S4, Last(lhs), S4.e)
  IN IF S1.err # "" THEN S1
     ELSE IF targets # <<>> THEN parse_assignment_(h.s, Append(h.lhs, v), Tail(targets), es)
     ELSE IF Len(es) = Len(lhs) THEN StoreAll(S5, Front(lhs))
     ELSE StoreAll(assign_adjust(S3, Len(lhs), Len(es), S3.e), lhs)

parse_massign(S, targets, es) ==
  LET S1 == expr(S, targets[1]) IN parse_assignment_(S1, <<S1.e>>, Tail(targets), es)

parse_assign(S, target, x) ==
  LET S1 == expr(S, target)
      S2 == expr(Assignable(S1, S1.e), x)
      S3 == SetOneRet(S2, S2.e)
  IN IF S2.err # "" THEN S2 ELSE bcemit_store(S3, S1.e, S3.e)

\* define, mdefine, let, mlet.
parse_define(S, names, final, es) ==
  LET n == Len(names)
      S1 == FoldLeft(LAMBDA T, i : var_new(T, i - 1, names[i], final), S, Upto(1, n))
      S2 == IF es = <<>> THEN With(S1, VVOID) ELSE expr_list(S1, es)
  IN var_add(assign_adjust(S2, n, Len(es), S2.e), n)

parse_letrec(S, name, x) ==
  LET S1 == expr(var_add(var_new(S, 0, name, TRUE), 1), x) IN assign_adjust(S1, 1, 1, S1.e)

-----------------------------------------------------------------------------
(* Control. *)

\* A call whose results are all passed on becomes a tail call.
parse_return(S, es) ==
  LET S0 == [S EXCEPT !.fs.flags = @ \cup {"HAS_RETURN"}]
      S1 == expr_list(S0, es)
      e == S1.e
      q == S1.fs.code[e.info]
      base == S1.fs.nactvar
      tail == Len(es) = 1 /\ e.k = "VCALL" /\ q.op # "VARG"
      all == e.k = "VCALL" /\ ~tail
      S2 == IF Len(es) = 1 THEN expr_toanyreg(S1, e) ELSE expr_tonextreg(S1, e)
      S3 == CASE es = <<>> -> S0
              [] es # <<>> /\ tail -> [S1 EXCEPT !.fs.code = Front(@)]
              [] es # <<>> /\ all -> [S1 EXCEPT !.fs.code[e.info].b = 0]
              [] OTHER -> S2
      ins == CASE es = <<>> -> Ins3("RET0", 0, 0, 1)
               [] es # <<>> /\ tail -> Ins3(IF q.op = "CALL" THEN "CALLT" ELSE "CALLMT", q.a, 0, q.c)
               [] es # <<>> /\ all -> Ins3("RETM", base, 0, e.aux - base)
               [] OTHER -> IF Len(es) = 1 THEN Ins3("RET1", S2.e.info, 0, 2) ELSE Ins3("RET", base, 0, Len(es) + 1)
      S4 == IF "CHILD" \in S3.fs.flags THEN bcemit_INS(S3, Ins3("UCLO", 0, 0, PC(S3) + 1)) ELSE S3
  IN bcemit_INS(S4, ins)

NewGoto(S, name) == LET S1 == bcemit_jmp(S) IN gola_new(S1, name, "goto", S1.at, S1.l)

parse_break(S) == NewGoto(Flag(S, "BREAK"), NAME_BREAK)

parse_goto(S, name) ==
  LET vl == gola_findlabel(S, name)
      S1 == IF vl = {} THEN S ELSE bcemit_INS(S, Ins3("LOOP", S.vs[CHOOSE v \in vl : TRUE].slot, 0, 0))
  IN NewGoto(Flag(S1, "GOLA"), name)

parse_label(S, name) ==
  LET S1 == Flag([S EXCEPT !.fs.lasttarget = PC(S)], "GOLA")
      S2 == gola_new(IF gola_findlabel(S, name) = {} THEN S1 ELSE Fail(S1, "duplicate label"),
                     name, "label", PC(S), {})
  IN gola_resolve(S2, Scope(S2), Last(S2.vs), Len(S.vs))

parse_block(S, stmts) == fscope_end(parse_chunk(fscope_begin(S, {}), stmts))

parse_while(S, cond, stmts) ==
  LET start == PC(S)
      S1 == expr_cond([S EXCEPT !.fs.lasttarget = start], cond)
      S2 == fscope_begin(S1, {"LOOP"})
      loop == PC(S2)
      S3 == bcemit_jmp(parse_block(bcemit_INS(S2, Ins3("LOOP", S2.fs.nactvar, 0, 0)), stmts))
      S4 == jmp_tohere(fscope_end(jmp_patch(S3, S3.l, start)), S1.l)
  IN jmp_patchins(S4, loop, PC(S4))

\* Mutant: upvalues of the body stay open when the loop goes on.
parse_repeat_open(S, stmts) ==
  LET loop == PC(S)
      S1 == fscope_begin(fscope_begin([S EXCEPT !.fs.lasttarget = loop], {"LOOP"}), {})
      S2 == bcemit_INS(S1, Ins3("LOOP", S1.fs.nactvar, 0, 0))
      S3 == parse_chunk(S2, stmts)
      S4 == CondJump(S3, S3.e)
      S5 == fscope_end(S4)
      S6 == jmp_patch(S5, S4.l, loop)
  IN fscope_end(jmp_patchins(S6, loop, PC(S6)))

\* The last statement is the condition, in the scope of the body.  With upvalues
\* in it both ways out of the body close them.
parse_repeat(S, stmts) ==
  LET loop == PC(S)
      S1 == fscope_begin(fscope_begin([S EXCEPT !.fs.lasttarget = loop], {"LOOP"}), {})
      S2 == bcemit_INS(S1, Ins3("LOOP", S1.fs.nactvar, 0, 0))
      S3 == parse_chunk(S2, stmts)
      S4 == CondJump(S3, S3.e)
      S5 == bcemit_jmp(fscope_end(jmp_tohere(NewGoto(Flag(S4, "BREAK"), NAME_BREAK), S4.l)))
      S6 == IF "UPVAL" \in Scope(S4).flags THEN jmp_patch(S5, S5.l, loop) ELSE jmp_patch(fscope_end(S4), S4.l, loop)
  IN fscope_end(jmp_patchins(S6, loop, PC(S6)))

\* Hidden variables of loops.
Hidden(S, from, n) ==
  FoldLeft(LAMBDA T, i : var_new(T, from + i - 1, "(for)", FALSE), S, Upto(1, n))

parse_loop(S, name, init, stop, step, stmts) ==
  LET base == S.fs.freereg
      S1 == var_new(Hidden(fscope_begin(S, {"LOOP"}), 0, 3), 3, name, TRUE)
      S2 == bcemit_INS(var_add(expr_next(expr_next(expr_next(S1, init), stop), step), 3), Ins3("FORI", base, 0, 0))
      S3 == bcreg_reserve(var_add(fscope_begin(S2, {}), 1), 1)
      S4 == bcemit_INS(fscope_end(parse_block(S3, stmts)), Ins3("FORL", base, 0, S2.at + 1))
  IN fscope_end(jmp_patchins(S4, S2.at, PC(S4)))

parse_for(S, names, es, stmts) ==
  LET base == S.fs.freereg + 3
      n == Len(names)
      S1 == FoldLeft(LAMBDA T, i : var_new(T, i + 2, names[i], TRUE), Hidden(fscope_begin(S, {"LOOP"}), 0, 3), Upto(1, n))
      S2 == expr_list(S1, es)
      S3 == bcemit_INS(var_add(bcreg_bump(assign_adjust(S2, 3, Len(es), S2.e), 3), 3), Ins3("JMP", base, 0, 0))
      S4 == fscope_end(parse_block(bcreg_reserve(var_add(fscope_begin(S3, {}), n), n), stmts))
      S5 == bcemit_INS(jmp_patchins(S4, S3.at, PC(S4)), Ins3("ITERC", base, n + 1, 3))
  IN fscope_end(bcemit_INS(S5, Ins3("ITERL", base, 0, S3.at + 1)))

\* A clause is <<condition, statements>>.
parse_cond(S, clauses) ==
  LET Clause(T, i) ==
        LET S1 == expr_cond(T.s, clauses[i][1])
            S2 == parse_block(S1, clauses[i][2])
            S3 == IF i < Len(clauses) THEN bcemit_jmp(S2) ELSE [S2 EXCEPT !.l = {}]
        IN [s |-> jmp_tohere(S3, S1.l), escape |-> T.escape \cup S3.l]
      T == FoldLeft(Clause, [s |-> S, escape |-> {}], Upto(1, Len(clauses)))
  IN jmp_tohere(T.s, T.escape)

parse_if(S, cond, branches) ==
  LET S1 == expr_cond(S, cond)
      Branch1(T, stmt) == fscope_end(parse_stmt(fscope_begin(T, {}), stmt))
      S2 == Branch1(S1, branches[1])
      S3 == bcemit_jmp(S2)
      S4 == Branch1(jmp_tohere(S3, S1.l), branches[2])
  IN IF Len(branches) = 1 THEN jmp_tohere(S2, S1.l) ELSE jmp_tohere(S4, S3.l)

parse_stmt(S, x) ==
  LET op == x[1]
      Called(S1) == IF op \in {"call1", "callmeth1"} THEN SetOneRet(S1, S1.e) ELSE S1
      NoValue(S1) == With(S1, Const(NilV))
  IN CASE op \in Unops -> parse_unop(S, op, x[2])
       [] op \in Binops -> parse_binop(S, op, x[2], x[3])
       [] op \in Emulated -> parse_emulated(S, op, Tail(x))
       [] op = "assign" -> parse_assign(S, x[2], x[3])
       [] op = "break" -> NoValue(parse_break(S))
       [] op \in {"call", "call1"} -> Called(parse_call(S, x[2], x[3]))
       [] op \in {"callmeth", "callmeth1"} -> Called(parse_callmeth(S, x[2], x[3], x[4]))
       [] op = "cond" -> NoValue(parse_cond(S, x[2]))
       [] op = "do" -> parse_block(S, x[2])
       [] op \in {"define", "let"} -> NoValue(parse_define(S, x[2], op = "let", x[3]))
       [] op = "for" -> NoValue(parse_for(S, x[2], x[3], x[4]))
       [] op = "goto" -> NoValue(parse_goto(S, x[2]))
       [] op = "if" -> NoValue(parse_if(S, x[2], x[3]))
       [] op = "index" -> parse_index(S, x[2], x[3])
       [] op = "label" -> NoValue(parse_label(S, x[2]))
       [] op = "lambda" -> parse_lambda(S, x[2], x[3])
       [] op = "letrec" -> NoValue(parse_letrec(S, x[2], x[3]))
       [] op = "loop" -> NoValue(parse_loop(S, x[2], x[3], x[4], x[5], x[6]))
       [] op = "massign" -> NoValue(parse_massign(S, x[2], x[3]))
       [] op = "mconcat" -> parse_mconcat(S, x[2])
       [] op = "repeat" -> NoValue(parse_repeat(S, x[2]))
       [] op = "return" -> NoValue(parse_return(S, x[2]))
       [] op = "while" -> NoValue(parse_while(S, x[2], x[3]))
       [] op = "table" -> expr_table(S, x[2])

\* Temporary registers end with the statement.  The last statement of a repeat
\* may be any expression.
parse_chunk(S, stmts) ==
  LET S1 == expr(With(S, Const(NilV)), stmts[1])
      S2 == IF S1.e.k = "VCALL" THEN [S1 EXCEPT !.fs.code[S1.e.info].b = 1] ELSE S1
      S3 == lua_assert(S2, S2.fs.framesize >= S2.fs.freereg /\ S2.fs.freereg >= S2.fs.nactvar)
  IN IF stmts = <<>> \/ S.err # "" THEN S
     ELSE parse_chunk([S3 EXCEPT !.fs.freereg = S3.fs.nactvar], Tail(stmts))

\* The prototype of a program is the last one.
lj_parse(stmts) ==
  LET S0 == [fs |-> [fs_init(<<>>, <<>>) EXCEPT !.flags = {"VARARG"}], vs |-> <<>>, protos |-> <<>>,
             err |-> "", bad |-> FALSE, e |-> VVOID, at |-> 1, l |-> {}]
  IN fs_finish(parse_chunk(fscope_begin(S0, {}), stmts))
=============================================================================
