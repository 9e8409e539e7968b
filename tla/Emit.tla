-------------------------------- MODULE Emit --------------------------------
(***************************************************************************)
(* Streams of instructions that go through the fold engine.  raw is what   *)
(* the recorder emits, family the kind of code it comes from; what the     *)
(* trace gets is Optimized(raw).                                            *)
(***************************************************************************)
EXTENDS Fold

CONSTANT Families

VARIABLES raw, family

irVars == <<raw, family>>

-----------------------------------------------------------------------------
(* The families: slots, constants, and the instructions that are emitted,  *)
(* each with the types of its operands.                                    *)

Op(o, t, a, b) == [ins |-> Ins(o, t, FALSE, LIT, LIT), a |-> a, b |-> b]
Guard(op) == [op EXCEPT !.ins.g = TRUE]
LitOp(o, t, lit) == [Op(o, t, t, "none") EXCEPT !.ins.lit = lit]
Binary(os, t) == {Op(o, t, t, t) : o \in os}
Checks(os, t) == {Guard(op) : op \in Binary(os, t)}
ConvOp(lit, sx, cv) ==
  [Op("CONV", Dst(lit), Src(lit), "none") EXCEPT !.ins = Conv(lit, cv \in {IRCONV_INDEX, IRCONV_CHECK}, LIT, sx, cv)]
FromKey == [ConvOp("NUM_INT", FALSE, 0) EXCEPT !.a = "key"]
Shifts(t, os) == {Op(o, t, t, "int") : o \in os}
K(o, t, ks) == [i \in DOMAIN ks |-> [o |-> o, t |-> t, k |-> ks[i]]]
KInt(ks) == K("KINT", "int", ks)
KLong(ks, t) == K("KINT64", t, ks)
KNum(ks) == K("KNUM", "num", ks)
KTobit == K("KNUM", "tobit", <<TobitBias>>)
IntOps == {"ADD", "SUB", "MUL", "MOD", "MIN", "MAX"}
BitOps == {"BAND", "BOR", "BXOR"}

Menu ==
  [arith |-> [slots |-> <<"i1", "i2">>, ks |-> KInt(<<0, 1, 2>>), len |-> 2,
     ops |-> Binary(IntOps, "int") \cup {Op("NEG", "int", "int", "same")} \cup Checks({"ADDOV", "SUBOV"}, "int"),
     checks |-> Checks(Comparisons, "int")],
   cancel |-> [slots |-> <<"i1", "i2">>, ks |-> KInt(<<-8>>), len |-> 3,
     ops |-> Binary({"ADD", "SUB"}, "int"), checks |-> {}],
   bits |-> [slots |-> <<"i1", "i2">>, ks |-> KInt(<<0, 1, 3, -1>>), len |-> 2,
     ops |-> Binary(BitOps, "int") \cup Shifts("int", ShiftOps) \cup {Op("BNOT", "int", "int", "none")},
     checks |-> {}],
   long |-> [slots |-> <<"l1", "l2">>, ks |-> KLong(<<0, 2, -1>>, "i64") \o KInt(<<5>>), len |-> 2,
     ops |-> Binary({"ADD", "SUB", "MUL", "MOD"} \cup BitOps, "i64") \cup Shifts("i64", {"BSHL", "BSAR"})
             \cup {Op("NEG", "i64", "i64", "same"), Op("BNOT", "i64", "i64", "none"), ConvOp("INT_I64", FALSE, 0)},
     checks |-> Checks(Comparisons, "i64")],
   ulong |-> [slots |-> <<"v1", "v2">>, ks |-> KLong(<<0, 3, -128>>, "u64"), len |-> 2,
     ops |-> Binary({"ADD", "SUB", "DIV", "MOD"}, "u64"), checks |-> Checks({"EQ", "NE", "ULT", "ULE"}, "u64")],
   float |-> [slots |-> <<"n1", "n2">>, len |-> 2,
     ks |-> KNum(<<0, One, -One, 2 * One, One \div 4>>),
     ops |-> Binary({"ADD", "SUB", "MUL", "DIV"}, "num") \cup {LitOp("FPMATH", "num", m) : m \in Roundings}
             \cup {LitOp("NEG", "num", Ksimd), LitOp("ABS", "num", Ksimd)},
     checks |-> Checks(Comparisons, "num")],
   power |-> [slots |-> <<"n1", "i1">>, len |-> 1,
     ks |-> KNum(<<One, 2 * One, -One>>) \o KInt(<<-1, 0, 1, 2, 3, 4>>),
     ops |-> {Op("POW", "num", "num", "int")}, checks |-> {}],
   check |-> [slots |-> <<"k1", "c1">>, ks |-> K("KNUM", "knum", <<One>>), len |-> 4,
     ops |-> {FromKey, ConvOp("NUM_INT", FALSE, 0), ConvOp("INT_NUM", FALSE, IRCONV_CHECK), Op("SUB", "num", "knum", "num")}
             \cup {Op("ADD", "num", "num", t) : t \in {"num", "knum"}},
     checks |-> {}],
   any |-> [slots |-> <<"i1", "u1", "m1">>, ks |-> KNum(<<One>>) \o KTobit, len |-> 3,
     ops |-> {ConvOp("NUM_INT", FALSE, 0), ConvOp("NUM_U32", FALSE, 0), ConvOp("INT_NUM", FALSE, IRCONV_ANY),
              ConvOp("I64_NUM", FALSE, IRCONV_ANY), ConvOp("U64_NUM", FALSE, IRCONV_ANY), ConvOp("I64_INT", TRUE, 0), ConvOp("INT_I64", FALSE, 0),
              ConvOp("U32_I64", FALSE, 0), Op("TOBIT", "int", "num", "tobit")} \cup Binary({"ADD"}, "num"),
     checks |-> {}],
   index |-> [slots |-> <<"k1", "a1">>, ks |-> K("KNUM", "knum", <<One, -4 * One>>), len |-> 5,
     ops |-> {FromKey, ConvOp("INT_NUM", FALSE, IRCONV_INDEX), ConvOp("INT_NUM", FALSE, IRCONV_CHECK),
              Op("ADD", "num", "num", "knum")},
     checks |-> {Guard(Op(o, "asize", "asize", "int")) : o \in {"ABC", "ULE"}}],
   bounds |-> [slots |-> <<"a1", "i2">>, ks |-> KInt(<<0, 1, 2>>), len |-> 3, ops |-> {},
     checks |-> {Guard(Op("ABC", "asize", "asize", "int"))}]]

\* An asize or a key is an int, too.
SlotType == [i1 |-> "int", i2 |-> "int", n1 |-> "num", n2 |-> "num", m1 |-> "num", c1 |-> "num", l1 |-> "i64", l2 |-> "i64",
             v1 |-> "u64", v2 |-> "u64", u1 |-> "u32", a1 |-> "asize", k1 |-> "key"]

-----------------------------------------------------------------------------
(* Recording. *)

M == Menu[family]
Slot(name) == [Ins("SLOAD", SlotType[name], FALSE, LIT, LIT) EXCEPT !.lit = name]
Recent == Len(raw.ins)
Steps == Recent - Len(M.slots)

EmitInit ==
  /\ family \in Families
  /\ raw = [EmptyIR EXCEPT !.ins = [i \in DOMAIN Menu[family].slots |-> Slot(Menu[family].slots[i])],
                           !.k = Menu[family].ks]

Refs(t) == {r \in 1 .. Recent : raw.ins[r].t = t /\ ~IsCheck(raw.ins[r].o)}
           \cup {-i : i \in {j \in DOMAIN raw.k : raw.k[j].t = t}}
Pairs(op) ==
  CASE op.b = "none" -> Refs(op.a) \X {LIT}
    [] op.b = "same" -> {<<r, r>> : r \in Refs(op.a)}
    [] OTHER -> Refs(op.a) \X Refs(op.b)

\* Every operation but the first uses the result of the one before; array accesses
\* come in any order.
AnyOrder == family \in {"index", "bounds"}
Emit(op, a, b) ==
  /\ AnyOrder \/ (IF Steps = 0 THEN 1 \in {a, b} \/ M.len > 2 ELSE Recent \in {a, b})
  /\ raw' = lj_ir_emit(raw, [op.ins EXCEPT !.op1 = a, !.op2 = b]).J
  /\ UNCHANGED family
Chainable == Steps < M.len /\ (Steps > 0 /\ ~AnyOrder => ~IsCheck(raw.ins[Recent].o))
EmitNext ==
  /\ Chainable
  /\ \E op \in M.ops \cup M.checks : \E p \in Pairs(op) : Emit(op, p[1], p[2])

-----------------------------------------------------------------------------
(* What becomes of it. *)

\* A reference of the stream in the buffer.
Mapped(stream, s, ref) ==
  CASE ref = LIT -> [J |-> s.J, ref |-> LIT]
    [] irref_isk(ref) -> LET c == stream.k[-ref]
                  IN Intern(s.J, c.o, IF c.o = "KNUM" THEN "num" ELSE IF c.o = "KINT" THEN "int" ELSE "i64", c.k)
    [] OTHER -> [J |-> s.J, ref |-> s.map[ref]]
Fed(stream, s, ins) ==
  LET A == Mapped(stream, s, ins.op1)
      B == Mapped(stream, [s EXCEPT !.J = A.J], ins.op2)
      R == IF ins.o = "SLOAD" THEN lj_ir_emit(s.J, ins)
           ELSE lj_opt_fold(B.J, [ins EXCEPT !.op1 = A.ref, !.op2 = B.ref])
  IN IF s.J.fail THEN s ELSE [J |-> R.J, map |-> Append(s.map, R.ref)]
Optimized(stream) == FoldLeft(LAMBDA s, ins : Fed(stream, s, ins), [J |-> EmptyIR, map |-> <<>>], stream.ins)

SlotVals == [i1 |-> {-8, -1, 0, 3, 6}, i2 |-> {-3, 0, 1, 7}, l1 |-> {-128, -3, 0, 5, 72}, l2 |-> {-16, 0, 1, 7},
             v1 |-> {-128, -3, 0, 5, 72}, v2 |-> {-16, 0, 1, 7}, n1 |-> {NegZero, 0, 24, -2 * One, NaN, Inf},
             n2 |-> {NegZero, 3 * One, NaN}, m1 |-> {NegZero, 24, -5 * One, 4 * One}, c1 |-> {24, -2 * One, 5 * One},
             u1 |-> {-8, 0, 3, -1}, a1 |-> {0, 1, 3}, k1 |-> {-8, 0, 3, 7}]

\* The value of a reference as a value of type t.
Same(J, run, ref, t, v) ==
  LET w == IF ref < 0 THEN J.k[-ref].k ELSE run.vals[ref]
  IN CASE t = "num" -> w = v
       [] Is64(t) -> Signed(IF ref > 0 /\ ~Is64(J.ins[ref].t) THEN U(w, IntBits) ELSE w, LongBits) = v
       [] OTHER -> Signed(w, IntBits) = v

\* Conversions to a C integer are undefined when it cannot hold the number, bit
\* operations for numbers that are not integers.
Defined(stream, run) == \A r \in DOMAIN stream.ins :
  LET ins == stream.ins[r]
      x == Operand(stream, run.vals, ins.op1, FALSE)
  IN /\ ins.cv = IRCONV_ANY => NumEq(x, FromInt(run.vals[r]))
     /\ ins.o = "TOBIT" => Finite(x) /\ NumEq(x, FromInt(Trunc(x)))

\* An index that is no int; bounds checks fail for all of them.
Overflows(stream, run, r) ==
  /\ stream.ins[r].cv = IRCONV_INDEX
  /\ ~NumEq(Operand(stream, run.vals, stream.ins[r].op1, FALSE), FromInt(run.vals[r]))

\* The trace leaves where the stream would, and otherwise computes the same.  It
\* may leave more often when a checked conversion was narrowed: the narrowed
\* operations may overflow though the number fits.
Narrows == {"check", "index"}
SameAs(stream, f, O, slots) ==
  LET want == Run(stream, slots, TRUE)
      have == Run(O.J, slots, FALSE)
      same == \A r \in DOMAIN stream.ins :
                IsCheck(stream.ins[r].o) \/ Overflows(stream, want, r) \/ Same(O.J, have, O.map[r], stream.ins[r].t, want.vals[r])
  IN \/ ~Defined(stream, want)
     \/ IF O.J.fail THEN ~want.ok
        ELSE IF have.ok THEN want.ok /\ same ELSE want.ok => f \in Narrows
Inputs == [f \in DOMAIN Menu |->
  FoldLeft(LAMBDA ins, n : {i @@ (n :> v) : i \in ins, v \in SlotVals[n]}, {<<>>}, Menu[f].slots)]
Sound(stream, f) == LET O == Optimized(stream) IN \A slots \in Inputs[f] : SameAs(stream, f, O, slots)
=============================================================================
