--------------------------------- MODULE IR ---------------------------------
(***************************************************************************)
(* The intermediate representation of traces, as far as numbers and         *)
(* integers go: its buffer of constants and instructions (lj_ir.c), and     *)
(* what the instructions compute.                                          *)
(*                                                                         *)
(* A reference is an integer: constants are below 0, newer ones lower, and  *)
(* instructions above, as in the code.  An operand that is a literal or     *)
(* absent is LIT, below every reference; the literal is in the field lit.   *)
(* The further bits of a conversion are in sx (IRCONV_SEXT) and cv (the     *)
(* kind of its check).  The skip-list chain of an opcode is the set of its  *)
(* references.                                                             *)
(*                                                                         *)
(* Integers have IntBits, long ones LongBits bits; both are kept signed and *)
(* U makes them unsigned.  A number is a float with four bits after the     *)
(* point, counted in sixteenths; -0, the infinities and NaN have codes of   *)
(* their own, and results are rounded towards 0.                            *)
(***************************************************************************)
EXTENDS Integers, Sequences, SequencesExt

\* Widths: 32 and 64 in the code.
IntBits == 4
LongBits == 8

-----------------------------------------------------------------------------
(* Integers. *)

Is64(t) == t \in {"i64", "u64"}
Bits(t) == IF Is64(t) THEN LongBits ELSE IntBits
Signed(x, b) == ((x + 2^(b - 1)) % (2^b)) - 2^(b - 1)
U(x, b) == x % (2^b)
IntMin(b) == -(2^(b - 1))
Magn(x) == IF x < 0 THEN -x ELSE x

\* Bitwise operations, four bits at a time.
Bit(x, i) == (x \div 2^i) % 2
Nibbles(Op(_, _)) ==
  [x \in 0 .. 15 |-> [y \in 0 .. 15 |->
    LET d(i) == Op(Bit(x, i), Bit(y, i)) * 2^i IN d(0) + d(1) + d(2) + d(3)]]
NibbleOp == [BAND |-> Nibbles(LAMBDA p, q : p * q),
             BOR |-> Nibbles(LAMBDA p, q : p + q - p * q),
             BXOR |-> Nibbles(LAMBDA p, q : (p + q) % 2)]
Bitwise(op, x, y, b) ==
  LET d(i) == NibbleOp[op][(x \div 16^i) % 16][(y \div 16^i) % 16] * 16^i
  IN Signed(d(0) + d(1), b)

\* Shifts and rotations, by the low bits of the count.
Shift(op, x, count, b) ==
  LET n == count % b
      rol(m) == Signed(U(x, b) * 2^m + U(x, b) \div 2^(b - m), b)
  IN CASE op = "BSHL" -> Signed(x * 2^n, b)
       [] op = "BSHR" -> Signed(U(x, b) \div 2^n, b)
       [] op = "BSAR" -> x \div 2^n
       [] op = "BROL" -> rol(n)
       [] op = "BROR" -> rol((-n) % b)

\* Truncating division of C, its remainder, and the floored modulo of TP.
DivC(x, y) == LET q == Magn(x) \div Magn(y) IN IF (x < 0) # (y < 0) THEN -q ELSE q
lj_vm_modi(x, y, b) ==
  Signed(CASE y > 0 -> x % y [] y < 0 -> -((-x) % (-y)) [] y = 0 -> 0, b)

lj_carith_div64(x, y, t) ==
  LET b == LongBits
  IN IF y = 0 \/ (t = "i64" /\ x = IntMin(b) /\ y = -1) THEN IntMin(b)
     ELSE IF t = "i64" THEN DivC(x, y) ELSE Signed(U(x, b) \div U(y, b), b)
lj_carith_mod64(x, y, t) ==
  IF y = 0 THEN IntMin(LongBits)
  ELSE IF t = "i64" THEN x - y * DivC(x, y) ELSE Signed(U(x, LongBits) % U(y, LongBits), LongBits)

-----------------------------------------------------------------------------
(* Numbers. *)

One == 16
NumLimit == 4400
TobitBias == 6000
NegZero == 7000
Inf == 8000
NaN == 9000

Finite(a) == a = NegZero \/ (a < NumLimit /\ a > -NumLimit)
IsZero(a) == a \in {0, NegZero}
Negative(a) == a = NegZero \/ a < 0
Minus(a) == CASE a = NegZero -> 0 [] a = 0 -> NegZero [] a = NaN -> NaN [] OTHER -> -a
Real(a) == IF a = NegZero THEN 0 ELSE a
Mag(a) == Magn(Real(a))
\* The number of magnitude q; what is too large is infinite.
Rounded(q, neg) ==
  CASE q = 0 -> IF neg THEN NegZero ELSE 0
    [] q >= NumLimit -> IF neg THEN -Inf ELSE Inf
    [] OTHER -> IF neg THEN -q ELSE q

NumAdd(a, b) ==
  CASE a = NaN \/ b = NaN -> NaN
    [] ~Finite(a) -> IF b = -a THEN NaN ELSE a
    [] ~Finite(b) -> b
    [] a = NegZero /\ b = NegZero -> NegZero
    [] OTHER -> LET s == Real(a) + Real(b) IN Rounded(Magn(s), s < 0)
NumMul(a, b) ==
  LET neg == Negative(a) # Negative(b)
  IN CASE a = NaN \/ b = NaN -> NaN
       [] ~Finite(a) \/ ~Finite(b) -> IF IsZero(a) \/ IsZero(b) THEN NaN ELSE IF neg THEN -Inf ELSE Inf
       [] OTHER -> Rounded((Mag(a) * Mag(b)) \div One, neg)
NumDiv(a, b) ==
  LET neg == Negative(a) # Negative(b)
  IN CASE a = NaN \/ b = NaN \/ (IsZero(a) /\ IsZero(b)) \/ (~Finite(a) /\ ~Finite(b)) -> NaN
       [] ~Finite(a) \/ IsZero(b) -> IF neg THEN -Inf ELSE Inf
       [] ~Finite(b) -> IF neg THEN NegZero ELSE 0
       [] OTHER -> Rounded((Mag(a) * One) \div Mag(b), neg)
NumPow(a, k) ==
  LET p == FoldLeft(LAMBDA acc, i : NumMul(acc, a), One, [i \in 1 .. Magn(k) |-> i])
  IN IF k < 0 THEN NumDiv(One, p) ELSE p
lj_vm_foldarith(op, a, b) ==
  CASE op = "ADD" -> NumAdd(a, b)
    [] op = "SUB" -> NumAdd(a, Minus(b))
    [] op = "MUL" -> NumMul(a, b)
    [] op = "DIV" -> NumDiv(a, b)
    [] op = "NEG" -> Minus(a)
    [] op = "ABS" -> IF Negative(a) THEN Minus(a) ELSE a
    [] op = "LDEXP" -> IF Real(b) < 0 THEN NumDiv(a, NumPow(2 * One, -(Real(b) \div One)))
                                      ELSE NumMul(a, NumPow(2 * One, Real(b) \div One))

NumLt(a, b) == a # NaN /\ b # NaN /\ Real(a) < Real(b)
NumEq(a, b) == a # NaN /\ b # NaN /\ Real(a) = Real(b)

\* floor, ceil and trunc; those of -0 and of small negative numbers are -0.
lj_vm_foldfpm(a, mode) ==
  IF a = NegZero \/ ~Finite(a) THEN a
  ELSE LET up == mode = "CEIL" \/ (mode = "TRUNC" /\ a < 0)
       IN Rounded(One * Magn(IF up THEN -((-a) \div One) ELSE a \div One), a < 0)

FromInt(k) == Rounded(Magn(k) * One, k < 0)
\* Conversion by truncation; what does not fit becomes the least integer.
Trunc(a) == DivC(Real(a), One)
lj_num2int(a, b) == IF Finite(a) /\ Signed(Trunc(a), b) = Trunc(a) THEN Trunc(a) ELSE IntMin(b)
lj_num2u64(a) == IF Finite(a) THEN Signed(Trunc(a), LongBits) ELSE IntMin(LongBits)
\* Round to even, then wrap.
lj_num2bit(a) ==
  IF ~Finite(a) THEN 0
  ELSE LET q == Real(a) \div One
           r == 2 * (Real(a) % One)
       IN Signed(IF r > One \/ (r = One /\ q % 2 = 1) THEN q + 1 ELSE q, IntBits)

-----------------------------------------------------------------------------
(* Comparisons, unordered ones with a U for numbers, unsigned for integers. *)

Swap == [LT |-> "GT", GE |-> "LE", LE |-> "GE", GT |-> "LT",
         ULT |-> "UGT", UGE |-> "ULE", ULE |-> "UGE", UGT |-> "ULT"]
Equalities == {"EQ", "NE"}
Comparisons == Equalities \cup DOMAIN Swap

lj_ir_numcmp(op, a, b) ==
  CASE op = "EQ" -> NumEq(a, b)
    [] op = "NE" -> ~NumEq(a, b)
    [] op = "LT" -> NumLt(a, b)
    [] op = "GE" -> NumLt(b, a) \/ NumEq(a, b)
    [] op = "LE" -> NumLt(a, b) \/ NumEq(a, b)
    [] op = "GT" -> NumLt(b, a)
    [] op = "ULT" -> ~(NumLt(b, a) \/ NumEq(a, b))
    [] op = "UGE" -> ~NumLt(a, b)
    [] op = "ULE" -> ~NumLt(b, a)
    [] op = "UGT" -> ~(NumLt(a, b) \/ NumEq(a, b))
IntCmp(op, x, y, b) ==
  CASE op = "EQ" -> x = y
    [] op = "NE" -> x # y
    [] op = "LT" -> x < y
    [] op = "GE" -> x >= y
    [] op = "LE" -> x <= y
    [] op = "GT" -> x > y
    [] op = "ULT" -> U(x, b) < U(y, b)
    [] op = "UGE" -> U(x, b) >= U(y, b)
    [] op = "ULE" -> U(x, b) <= U(y, b)
    [] op \in {"UGT", "ABC"} -> U(x, b) > U(y, b)

-----------------------------------------------------------------------------
(* Constants and instructions. *)

LIT == -1000
DROP == -999
Ins(o, t, g, a, b) == [o |-> o, t |-> t, g |-> g, op1 |-> a, op2 |-> b, lit |-> "", sx |-> FALSE, cv |-> 0]
WithLit(ins, lit) == [ins EXCEPT !.op2 = LIT, !.lit = lit]
\* The mask of the sign bit that negation and absolute value refer to.
Ksimd == "FLOAD"

\* Destination and source of the conversions; modes by strength of the check.
ConvTypes ==
  [NUM_INT |-> <<"num", "int">>, NUM_U32 |-> <<"num", "u32">>, NUM_I64 |-> <<"num", "i64">>,
   NUM_U64 |-> <<"num", "u64">>, INT_NUM |-> <<"int", "num">>, I64_NUM |-> <<"i64", "num">>,
   U64_NUM |-> <<"u64", "num">>, I64_INT |-> <<"i64", "int">>, U64_INT |-> <<"u64", "int">>,
   I64_U32 |-> <<"i64", "u32">>, U64_U32 |-> <<"u64", "u32">>, INT_I64 |-> <<"int", "i64">>,
   INT_U64 |-> <<"int", "u64">>, U32_I64 |-> <<"u32", "i64">>, U32_U64 |-> <<"u32", "u64">>,
   INT_U32 |-> <<"int", "u32">>, U32_INT |-> <<"u32", "int">>]
Dst(lit) == ConvTypes[lit][1]
Src(lit) == ConvTypes[lit][2]
IRCONV_TOBIT == 0
IRCONV_ANY == 1
IRCONV_INDEX == 2
IRCONV_CHECK == 3
Conv(lit, g, a, sx, cv) ==
  [Ins("CONV", Dst(lit), g, a, LIT) EXCEPT !.lit = lit, !.sx = sx, !.cv = cv]

\* The buffer, the cache of lj_opt_narrow.c, and whether recording failed; where
\* the loop begins, or 0, and the instructions marked as left operands of PHIs.
EmptyIR == [k |-> <<>>, ins |-> <<>>, bpc |-> <<>>, fail |-> FALSE, loop |-> 0, phi |-> {}]
IRAt(J, ref) == IF ref < 0 THEN J.k[-ref] ELSE J.ins[ref]
irref_isk(ref) == ref < 0 /\ ref > DROP
Chain(J, Test(_)) == {r \in DOMAIN J.ins : Test(J.ins[r])}
Newest(refs) == CHOOSE r \in refs : \A q \in refs : q <= r

\* Constants are interned by kind and bit pattern.
Intern(J, o, t, k) ==
  LET c == [o |-> o, t |-> t, g |-> FALSE, k |-> k, op1 |-> LIT, op2 |-> LIT, lit |-> "", sx |-> FALSE, cv |-> 0]
      found == {i \in DOMAIN J.k : J.k[i].o = o /\ J.k[i].k = k}
  IN IF found # {} THEN [J |-> J, ref |-> -(CHOOSE i \in found : TRUE)]
     ELSE [J |-> [J EXCEPT !.k = Append(@, c)], ref |-> -(Len(J.k) + 1)]
lj_ir_kint(J, k) == Intern(J, "KINT", "int", k)
lj_ir_kint64(J, k) == Intern(J, "KINT64", "i64", k)
lj_ir_knum(J, a) == Intern(J, "KNUM", "num", a)

lj_ir_emit(J, ins) == [J |-> [J EXCEPT !.ins = Append(@, ins)], ref |-> Len(J.ins) + 1]

-----------------------------------------------------------------------------
(* What a trace computes. *)

Convert(x, lit, sx) ==
  LET dt == Dst(lit)
      n == CASE Src(lit) = "int" -> IF Is64(dt) /\ ~sx THEN U(x, IntBits) ELSE x
             [] Src(lit) = "u32" -> U(x, IntBits)
             [] Src(lit) = "u64" -> U(x, LongBits)
             [] OTHER -> x
  IN IF Src(lit) = "num"
     THEN IF dt = "u64" THEN lj_num2u64(x) ELSE lj_num2int(x, Bits(dt))
     ELSE IF dt = "num" THEN FromInt(n) ELSE Signed(n, Bits(dt))

kfold_intop(op, x, y, b) ==
  CASE op = "ADD" -> Signed(x + y, b)
    [] op = "SUB" -> Signed(x - y, b)
    [] op = "MUL" -> Signed(x * y, b)
    [] op = "NEG" -> Signed(-x, b)
    [] op = "MOD" -> lj_vm_modi(x, y, b)
    [] op \in {"BAND", "BOR", "BXOR"} -> Bitwise(op, x, y, b)
    [] op = "MIN" -> IF x < y THEN x ELSE y
    [] op = "MAX" -> IF x > y THEN x ELSE y
    [] OTHER -> Shift(op, x, y, b)

ShiftOps == {"BSHL", "BSHR", "BSAR", "BROL", "BROR"}
OverflowOps == [ADDOV |-> "ADD", SUBOV |-> "SUB", MULOV |-> "MUL"]
Exactly(op, x, y) == CASE op = "ADDOV" -> x + y [] op = "SUBOV" -> x - y [] op = "MULOV" -> x * y

\* The value of an instruction for its operands' values.
Value(ins, x, y) ==
  CASE ins.o = "CONV" -> Convert(x, ins.lit, ins.sx)
    [] ins.o = "TOBIT" -> lj_num2bit(x)
    [] ins.o = "FPMATH" -> lj_vm_foldfpm(x, ins.lit)
    [] ins.o = "POW" -> NumPow(x, y)
    [] ins.t = "num" -> lj_vm_foldarith(ins.o, x, y)
    [] ins.o \in DOMAIN OverflowOps -> Signed(Exactly(ins.o, x, y), IntBits)
    [] ins.o = "BNOT" -> -x - 1
    [] Is64(ins.t) /\ ins.o = "DIV" -> lj_carith_div64(x, y, ins.t)
    [] Is64(ins.t) /\ ins.o = "MOD" -> lj_carith_mod64(x, y, ins.t)
    [] OTHER -> kfold_intop(ins.o, x, y, Bits(ins.t))

\* What a recorded index must be is that it is integral; if it fits is up to the
\* check of bounds that follows, which is unsigned.
Passes(ins, x, y, lax) ==
  CASE ins.cv = IRCONV_INDEX /\ lax -> Finite(x) /\ FromInt(Trunc(x)) = Real(x)
    [] ins.o = "CONV" -> NumEq(x, FromInt(Convert(x, ins.lit, FALSE)))
    [] ins.o \in DOMAIN OverflowOps -> Signed(Exactly(ins.o, x, y), IntBits) = Exactly(ins.o, x, y)
    [] ins.t = "num" -> lj_ir_numcmp(ins.o, x, y)
    [] OTHER -> IntCmp(ins.o, x, y, Bits(ins.t))

\* An integer in a 64 bit register is zero-extended, on x64.
Operand(J, vals, ref, wide) ==
  CASE ref = LIT -> 0
    [] ref < 0 -> J.k[-ref].k
    [] OTHER -> IF wide /\ ~Is64(J.ins[ref].t) THEN U(vals[ref], IntBits) ELSE vals[ref]

Wide(ins) == IF ins.o = "CONV" THEN Is64(Src(ins.lit)) ELSE Is64(ins.t)
IsCheck(o) == o \in Comparisons \cup {"ABC"}

\* Values of all instructions for the values of the slots, and if no guard fails.
Run(J, slots, lax) ==
  FoldLeft(LAMBDA s, ins :
      LET x == Operand(J, s.vals, ins.op1, Wide(ins))
          y == Operand(J, s.vals, ins.op2, Wide(ins) /\ ins.o \notin ShiftOps)
      IN IF ins.o = "SLOAD" THEN [s EXCEPT !.vals = Append(@, slots[ins.lit])]
         ELSE [vals |-> Append(s.vals, IF IsCheck(ins.o) THEN 0 ELSE Value(ins, x, y)),
               ok |-> s.ok /\ (ins.g => Passes(ins, x, y, lax))],
    [vals |-> <<>>, ok |-> TRUE], J.ins)
=============================================================================
