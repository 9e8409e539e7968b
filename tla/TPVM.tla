-------------------------------- MODULE TPVM --------------------------------
(***************************************************************************)
(* The interpreter for the code of TPCode: one case of Step for each        *)
(* bytecode that the compiler emits, as in vm_x86.dasc.  Metamethods are    *)
(* not modelled: an operand of the wrong type is an error.                  *)
(*                                                                         *)
(* The machine M is a record: stk the stack; base, pt, pc, va and uv the    *)
(* registers, prototype, position, extra arguments and upvalues of the      *)
(* running function; frames what its callers resume with; ups, tabs and     *)
(* funs the objects; multres how many values a return or VARG has left;     *)
(* log the calls of functions of the host, which is all that can be seen of *)
(* a program besides its results; bad whether the code did what code never  *)
(* may: use a register outside of its frame, take a jump that was not       *)
(* patched, return with open upvalues, change an immutable upvalue.         *)
(***************************************************************************)
EXTENDS TPCode, TLC

CONSTANTS MaxStack,  \* slots of the stack
          MaxSteps   \* instructions of one execution

Junk == <<"junk">>
IsNum(v) == v[1] = "num"
Truth(v) == v # NilV /\ v # Bool(FALSE)
None == <<>>

-----------------------------------------------------------------------------
(* What the interpreter and the meaning of the language share: objects and   *)
(* the functions of the host.  They change the fields tabs and log.         *)

At(f, k, v) == IF k \in DOMAIN f THEN f[k] ELSE v
Put(f, k, v) == IF v = NilV THEN [j \in DOMAIN f \ {k} |-> f[j]] ELSE (k :> v) @@ f

\* References are not compared with those of another execution.
Show(v) == IF v[1] \in {"tab", "fun"} THEN <<v[1]>> ELSE v

\* Values of a concatenation.
Parts(v) == IF v[1] = "cat" THEN v[2] ELSE <<v>>
Cat(vs) == <<"cat", FoldLeft(LAMBDA p, v : p \o Parts(v), <<>>, vs)>>
Catable(v) == v[1] \in {"num", "str", "cat"}

Border(t) == CHOOSE n \in 0 .. Cardinality(DOMAIN t) :
               Num(n + 1) \notin DOMAIN t /\ \A i \in 1 .. n : Num(i) \in DOMAIN t

\* Each call is logged.  iter counts up to its first argument.
Host(M, name, args) ==
  LET v == CASE name = "id" -> args
             [] name = "two" -> <<Num(1), Num(2)>>
             [] name = "iter" /\ args[2][2] < args[1][2] -> <<Num(args[2][2] + 1), <<"str", "v">>>>
             [] name \in {"iter", "none"} -> <<>>
             [] OTHER -> <<Num(Len(args))>>
  IN [M EXCEPT !.log = Append(@, <<name, [i \in DOMAIN args |-> Show(args[i])]>>), !.v = v]

HostNames == {"id", "two", "iter", "none"}
Globals0 == [g \in HostNames \cup {"tvm"} |-> IF g = "tvm" THEN <<"tab", 1>> ELSE <<"host", g>>]
Tvm == [k \in {<<"str", f>> : f \in Emulated} |-> <<"host", k[2]>>]
World == [tabs |-> <<Tvm>>, globals |-> Globals0, log |-> <<>>, v |-> <<>>, status |-> "run"]

-----------------------------------------------------------------------------
(* Registers, calls and returns. *)

Reg(M, r) == M.stk[M.base + r]
Frame(M) == M.protos[M.pt].framesize
Bad(M, b) == [M EXCEPT !.bad = @ \/ b]
Next1(M) == [M EXCEPT !.pc = @ + 1]
Set(M, r, v) ==
  IF r < Frame(M) THEN [M EXCEPT !.stk[M.base + r] = v] ELSE [Bad(M, TRUE) EXCEPT !.status = "stuck"]
Load(M, r, v) == Next1(Set(M, r, v))
Throw(M) == [M EXCEPT !.status = "error"]
Jump(M, pc) == IF pc \in 2 .. Len(M.protos[M.pt].code) THEN [M EXCEPT !.pc = pc]
               ELSE [Bad(M, TRUE) EXCEPT !.status = "stuck"]
\* A test goes on to the jump after it, or past it.
Test(M, cond) == [M EXCEPT !.pc = @ + (IF cond THEN 1 ELSE 2)]
Operand1(M, x) == IF x[1] = "r" THEN Reg(M, x[2]) ELSE x[2]

\* The values vs from the slot at; n is what the call wants, plus one.
Results(M, at, vs, n) ==
  LET k == IF n = 0 THEN Len(vs) ELSE n - 1
      New(s) == IF s - at < Len(vs) THEN vs[s - at + 1] ELSE NilV
  IN [M EXCEPT !.stk = Tuple([s \in DOMAIN @ |-> IF s \in at .. at + k - 1 THEN New(s) ELSE @[s]]),
               !.multres = IF n = 0 THEN k ELSE @]

\* A return moves all values, and counts them in multres, however many the call wants.
Returned(M, at, vs, n) ==
  [Results(M, at, vs, IF n > Len(vs) THEN n ELSE 0) EXCEPT !.multres = Len(vs)]

Values(M, r, n) == Tuple([i \in 1 .. n |-> Reg(M, r + i - 1)])

lj_func_closeuv(M, level) ==
  LET Close(u) == IF u.open /\ u.at >= level THEN [u EXCEPT !.open = FALSE, !.v = M.stk[u.at]] ELSE u
  IN [M EXCEPT !.ups = Tuple([u \in DOMAIN @ |-> Close(@[u])])]

\* FUNCF, FUNCV: parameters that are not given are nil; the rest are extra arguments.
Enter(M, f, args, base) ==
  LET fun == M.funs[f]
      pt == M.protos[fun.pt]
      n == pt.numparams
      M1 == Results(M, base, args, n + 1)
  IN IF base + pt.framesize > MaxStack THEN [M EXCEPT !.status = "overflow"]
     ELSE [M1 EXCEPT !.base = base, !.pt = fun.pt, !.pc = 2, !.uv = fun.uv,
                     !.va = IF pt.vararg THEN SubSeq(args, n + 1, Len(args)) ELSE <<>>]

\* A frame keeps what the call wanted.
Return(M, vs) ==
  LET M1 == Bad(M, \E u \in DOMAIN M.ups : M.ups[u].open /\ M.ups[u].at >= M.base)
      fr == Last(M.frames)
  IN IF M.frames = <<>> THEN [M1 EXCEPT !.status = "done", !.v = vs]
     ELSE [Returned(M1, M.base - 1, vs, fr.want)
             EXCEPT !.frames = Front(@), !.base = fr.base, !.pt = fr.pt, !.pc = fr.pc, !.uv = fr.uv, !.va = fr.va]

\* Calls the function in register r; the results go there.
Call(M, r, nargs, want) ==
  LET f == Reg(M, r)
      args == Values(M, r + 1, nargs)
      H == Host(M, f[2], args)
      fr == [base |-> M.base, pt |-> M.pt, pc |-> M.pc + 1, uv |-> M.uv, va |-> M.va, want |-> want]
  IN CASE f[1] = "fun" -> Enter([M EXCEPT !.frames = Append(@, fr)], f[2], args, M.base + r + 1)
       [] f[1] = "host" -> Next1(Returned(H, M.base + r, H.v, want))
       [] OTHER -> Throw(M)

\* The frame of the caller is reused.
TailCall(M, r, nargs) ==
  LET f == Reg(M, r)
      args == Values(M, r + 1, nargs)
      H == Host(M, f[2], args)
      M1 == Bad(M, \E u \in DOMAIN M.ups : M.ups[u].open /\ M.ups[u].at >= M.base)
  IN CASE f[1] = "fun" -> Enter([M1 EXCEPT !.multres = nargs], f[2], args, M.base)
       [] f[1] = "host" -> Return(H, H.v)
       [] OTHER -> Throw(M)

-----------------------------------------------------------------------------
(* Upvalues. *)

Upvalue(M, i) == M.ups[M.uv[i]]

\* One upvalue object for each slot that is captured while it is open.
func_finduv(M, slot, imm) ==
  LET have == {u \in DOMAIN M.ups : M.ups[u].open /\ M.ups[u].at = slot}
  IN IF have # {} THEN [m |-> M, u |-> CHOOSE u \in have : TRUE]
     ELSE [m |-> [M EXCEPT !.ups = Append(@, [open |-> TRUE, at |-> slot, v |-> NilV, imm |-> imm, seen |-> None])],
           u |-> Len(M.ups) + 1]

lj_func_newL_gc(M, p) ==
  LET Bind(T, d) == IF d.up THEN [T EXCEPT !.uv = Append(@, M.uv[d.i])]
                    ELSE LET r == func_finduv(T.m, M.base + d.i, d.imm) IN [m |-> r.m, uv |-> Append(T.uv, r.u)]
      T == FoldLeft(Bind, [m |-> M, uv |-> <<>>], M.protos[p].uv)
  IN [T.m EXCEPT !.funs = Append(@, [pt |-> p, uv |-> T.uv]), !.v = <<<<"fun", Len(M.funs) + 1>>>>]

UGET(M, q) ==
  LET u == Upvalue(M, q.c)
      v == IF u.open THEN M.stk[u.at] ELSE u.v
  IN [Load(Bad(M, u.imm /\ u.seen \notin {None, <<v>>}), q.a, v) EXCEPT !.ups[M.uv[q.c]].seen = <<v>>]

USET(M, q) ==
  LET u == Upvalue(M, q.a)
      v == Operand1(M, q.c)
      M1 == Next1(Bad(M, u.imm))
  IN IF u.open THEN [M1 EXCEPT !.stk[u.at] = v] ELSE [M1 EXCEPT !.ups[M.uv[q.a]].v = v]

-----------------------------------------------------------------------------
(* Loops. *)

ForGoesOn(idx, stop, step) == IF step >= 0 THEN idx <= stop ELSE stop <= idx

FORI(M, q) ==
  LET v(i) == Reg(M, q.a + i)
  IN IF ~(IsNum(v(0)) /\ IsNum(v(1)) /\ IsNum(v(2))) THEN Throw(M)
     ELSE LET M1 == Set(M, q.a + 3, v(0))
          IN IF ForGoesOn(v(0)[2], v(1)[2], v(2)[2]) THEN Next1(M1) ELSE Jump(M1, q.c)

FORL(M, q) ==
  LET v(i) == Reg(M, q.a + i)[2]
      idx == v(0) + v(2)
      M1 == Set(Set(M, q.a, Num(idx)), q.a + 3, Num(idx))
  IN IF ForGoesOn(idx, v(1), v(2)) THEN Jump(M1, q.c) ELSE Next1(M1)

\* The iterator, the state and the control variable are below the registers of the call.
ITERC(M, q) ==
  LET M1 == Set(Set(Set(M, q.a, Reg(M, q.a - 3)), q.a + 1, Reg(M, q.a - 2)), q.a + 2, Reg(M, q.a - 1))
  IN Call(M1, q.a, q.c - 1, q.b)

ITERL(M, q) == IF Reg(M, q.a) = NilV THEN Next1(M) ELSE Jump(Set(M, q.a - 1, Reg(M, q.a)), q.c)

-----------------------------------------------------------------------------
(* Instructions. *)

Less(x, y, op) == CASE op = "ISLT" -> x < y [] op = "ISLE" -> x <= y [] op = "ISGT" -> x > y [] op = "ISGE" -> x >= y

TabOf(M, r) == M.tabs[Reg(M, r)[2]]
IsTab(M, r) == Reg(M, r)[1] = "tab"
NewTab(M, t) == [M EXCEPT !.tabs = Append(@, t)]
\* Constant entries of a table; a later one replaces an earlier one.
FromPairs(ps) == FoldLeft(LAMBDA t, p : Put(t, p[1], p[2]), <<>>, ps)

TSET(M, t, k, v) == IF k = NilV THEN Throw(M) ELSE [M EXCEPT !.tabs[t] = Put(@, k, v)]
TSETM(M, q) ==
  [M EXCEPT !.tabs[Reg(M, q.a - 1)[2]] =
     FoldLeft(LAMBDA t, i : Put(t, Num(q.c + i), Reg(M, q.a + i)), @, [i \in 1 .. M.multres |-> i - 1])]

Step(M) ==
  LET q == M.protos[M.pt].code[M.pc]
      R(r) == Reg(M, r)
      V(x) == Operand1(M, x)
      F == lj_func_newL_gc(M, q.c)
  IN CASE q.op = "MOV" -> Load(M, q.a, R(q.c))
       [] q.op = "K" -> Load(M, q.a, q.c)
       [] q.op = "KNIL" -> Next1(FoldLeft(LAMBDA T, r : Set(T, r, NilV), M, Upto(q.a, q.c)))
       [] q.op \in {"IST", "ISF"} -> Test(M, Truth(R(q.c)) = (q.op = "IST"))
       [] q.op \in {"ISTC", "ISFC"} ->
            IF Truth(R(q.c)) = (q.op = "ISTC") THEN Load(M, q.a, R(q.c)) ELSE Test(M, FALSE)
       [] q.op \in {"ISEQ", "ISNE"} -> Test(M, (R(q.a) = V(q.c)) = (q.op = "ISEQ"))
       [] q.op \in {"ISLT", "ISLE", "ISGT", "ISGE"} ->
            IF IsNum(R(q.a)) /\ IsNum(V(q.c)) THEN Test(M, Less(R(q.a)[2], V(q.c)[2], q.op)) ELSE Throw(M)
       [] q.op = "NOT" -> Load(M, q.a, Bool(~Truth(R(q.c))))
       [] q.op = "UNM" -> IF IsNum(R(q.c)) THEN Load(M, q.a, Num(-R(q.c)[2])) ELSE Throw(M)
       [] q.op = "LEN" -> IF IsTab(M, q.c) THEN Load(M, q.a, Num(Border(TabOf(M, q.c)))) ELSE Throw(M)
       [] q.op \in {"add", "sub"} ->
            IF IsNum(V(q.b)) /\ IsNum(V(q.c)) THEN Load(M, q.a, Num(Arith(q.op, V(q.b)[2], V(q.c)[2]))) ELSE Throw(M)
       [] q.op = "CAT" ->
            LET vs == Values(M, q.b, q.c - q.b + 1)
            IN IF \A i \in DOMAIN vs : Catable(vs[i]) THEN Load(M, q.a, Cat(vs)) ELSE Throw(M)
       [] q.op = "GGET" -> Load(M, q.a, At(M.globals, q.c, NilV))
       [] q.op = "GSET" -> Next1([M EXCEPT !.globals = Put(@, q.c, R(q.a))])
       [] q.op = "UGET" -> UGET(M, q)
       [] q.op = "USET" -> USET(M, q)
       [] q.op = "UCLO" -> Jump(lj_func_closeuv(M, M.base + q.a), q.c)
       [] q.op = "FNEW" -> Load(F, q.a, F.v[1])
       [] q.op = "TNEW" -> Load(NewTab(M, FromPairs(q.c)), q.a, <<"tab", Len(M.tabs) + 1>>)
       [] q.op = "TGET" -> IF IsTab(M, q.b) THEN Load(M, q.a, At(TabOf(M, q.b), V(q.c), NilV)) ELSE Throw(M)
       [] q.op = "TSET" -> IF IsTab(M, q.b) THEN Next1(TSET(M, R(q.b)[2], V(q.c), R(q.a))) ELSE Throw(M)
       [] q.op = "TSETM" -> Next1(TSETM(M, q))
       [] q.op = "CALL" -> Call(M, q.a, q.c - 1, q.b)
       [] q.op = "CALLM" -> Call(M, q.a, q.c + M.multres, q.b)
       [] q.op = "CALLT" -> TailCall(M, q.a, q.c - 1)
       [] q.op = "CALLMT" -> TailCall(M, q.a, q.c + M.multres)
       [] q.op = "VARG" -> Next1(Results(M, M.base + q.a, M.va, q.b))
       [] q.op = "RET0" -> Return(M, <<>>)
       [] q.op = "RET1" -> Return(M, <<R(q.a)>>)
       [] q.op = "RET" -> Return(M, Values(M, q.a, q.c - 1))
       [] q.op = "RETM" -> Return(M, Values(M, q.a, q.c + M.multres))
       [] q.op = "FORI" -> FORI(M, q)
       [] q.op = "FORL" -> FORL(M, q)
       [] q.op = "ITERC" -> ITERC(M, q)
       [] q.op = "ITERL" -> ITERL(M, q)
       [] q.op = "LOOP" -> Next1(M)
       [] q.op = "JMP" -> Jump(M, q.c)

RECURSIVE Execute(_, _)
Execute(M, n) == IF n = 0 \/ M.status # "run" THEN M ELSE Execute(Step(M), n - 1)

\* The program as a function without upvalues, called with args.
Start(S, args) ==
  LET M == [World EXCEPT !.v = <<>>] @@
           [protos |-> S.protos, funs |-> <<[pt |-> Len(S.protos), uv |-> <<>>]>>, ups |-> <<>>,
            stk |-> Tuple([s \in 1 .. MaxStack + 8 |-> Junk]), base |-> 2, pt |-> Len(S.protos), pc |-> 2,
            uv |-> <<>>, va |-> <<>>, frames |-> <<>>, multres |-> 0, bad |-> FALSE]
  IN Enter(M, 1, args, 2)

Run(S, args) == Execute(Start(S, args), MaxSteps)
=============================================================================
