-------------------------------- MODULE Fold --------------------------------
(***************************************************************************)
(* The fold engine (lj_opt_fold.c) with its rules for numbers, integers and *)
(* conversions, common subexpressions, array bounds checks, and the         *)
(* narrowing of conversions (lj_opt_narrow.c), on x64 without dual numbers. *)
(*                                                                         *)
(* A rule is a set of keys <<opcode, left, right>> and an operator of the   *)
(* same name.                                                              *)
(***************************************************************************)
EXTENDS IR

CONSTANTS NARROW_MAX_BACKPROP, MaxPow

-----------------------------------------------------------------------------
(* The table of keys. *)

IntArith == {"ADD", "SUB", "MUL", "BAND", "BOR", "BXOR"}
Ordered == DOMAIN Swap
Roundings == {"FLOOR", "CEIL", "TRUNC"}
ToInt64 == {"I64_NUM", "U64_NUM"}
Narrowing == {"INT_I64", "INT_U64", "U32_I64", "U32_U64"}

Rules ==
  [kfold_numarith |-> {"ADD", "SUB", "MUL", "DIV", "LDEXP"} \X {"KNUM"} \X {"KNUM"},
   kfold_numabsneg |-> {"NEG", "ABS"} \X {"KNUM"} \X {Ksimd},
   kfold_fpmath |-> {<<"FPMATH", "KNUM", "any">>},
   kfold_numpow |-> {<<"POW", "KNUM", "KINT">>},
   kfold_numcomp |-> Comparisons \X {"KNUM"} \X {"KNUM"},
   kfold_intarith |-> (IntArith \cup ShiftOps \cup {"MOD", "NEG", "MIN", "MAX"}) \X {"KINT"} \X {"KINT"},
   kfold_intovarith |-> (DOMAIN OverflowOps) \X {"KINT"} \X {"KINT"},
   kfold_bnot |-> {<<"BNOT", "KINT", "">>},
   kfold_intcomp |-> (Ordered \cup {"ABC"}) \X {"KINT"} \X {"KINT"},
   kfold_intcomp0 |-> {"UGE"} \X {"any"} \X {"KINT", "KINT64"},
   kfold_int64arith |-> (IntArith \cup {"DIV", "MOD"}) \X {"KINT64"} \X {"KINT64"},
   kfold_int64shift |-> ShiftOps \X {"KINT64"} \X {"KINT"},
   kfold_bnot64 |-> {<<"BNOT", "KINT64", "">>},
   kfold_int64comp |-> Ordered \X {"KINT64"} \X {"KINT64"},
   kfold_tobit |-> {<<"TOBIT", "KNUM", "KNUM">>},
   kfold_conv |-> ({"CONV"} \X {"KINT"} \X {"NUM_INT", "NUM_U32", "I64_INT", "U64_INT", "I64_U32", "U64_U32"})
             \cup ({"CONV"} \X {"KINT64"} \X {"NUM_I64", "NUM_U64", "INT_I64", "U32_I64"})
             \cup ({"CONV"} \X {"KNUM"} \X ToInt64),
   kfold_conv_knum_int_num |-> {<<"CONV", "KNUM", "INT_NUM">>},
   cse_fload |-> Equalities \X {"FLOAD"} \X {"KNULL"},
   kfold_kref |-> UNION {Equalities \X p[1] \X p[2] : p \in {<<{"any"}, {"KNULL"}>>, <<{"KNULL"}, {"any"}>>,
                           <<{"KINT"}, {"KINT"}>>, <<{"KINT64"}, {"KINT64"}>>, <<{"KGC"}, {"KGC"}>>}},
   shortcut_round |-> {"FPMATH"} \X {"FPMATH"} \X Roundings,
   shortcut_left |-> {<<"ABS", "ABS", Ksimd>>},
   shortcut_dropleft |-> {<<"ABS", "NEG", Ksimd>>},
   shortcut_leftleft |-> {<<"NEG", "NEG", "any">>, <<"BNOT", "BNOT", "">>},
   simplify_numadd_negx |-> {<<"ADD", "NEG", "any">>},
   simplify_numadd_xneg |-> {<<"ADD", "any", "NEG">>},
   simplify_numsub_k |-> {<<"SUB", "any", "KNUM">>},
   simplify_numsub_negk |-> {<<"SUB", "NEG", "KNUM">>},
   simplify_numsub_xneg |-> {<<"SUB", "any", "NEG">>},
   simplify_nummuldiv_k |-> {"MUL", "DIV"} \X {"any"} \X {"KNUM"},
   simplify_nummuldiv_negk |-> {"MUL", "DIV"} \X {"NEG"} \X {"KNUM"},
   simplify_nummuldiv_negneg |-> {"MUL", "DIV"} \X {"NEG"} \X {"NEG"},
   simplify_numpow_xk |-> {<<"POW", "any", "KINT">>},
   simplify_numpow_kx |-> {<<"POW", "KNUM", "any">>},
   shortcut_conv_num_int |-> {<<"CONV", "CONV", "NUM_INT">>},
   simplify_conv_int_num |-> {<<"CONV", "CONV", "INT_NUM">>},
   simplify_conv_i64_num |-> {"CONV"} \X {"CONV"} \X ToInt64,
   simplify_conv_int_i64 |-> {"CONV"} \X {"CONV"} \X Narrowing,
   simplify_tobit_conv |-> {<<"TOBIT", "CONV", "KNUM">>},
   simplify_floor_conv |-> {"FPMATH"} \X {"CONV"} \X Roundings,
   simplify_conv_narrow |-> {"CONV"} \X {"ADD", "SUB", "MUL"} \X Narrowing,
   cse_conv |-> {<<"CONV", "any", "any">>},
   narrow_convert |-> ({"TOBIT"} \X {"ADD", "SUB"} \X {"KNUM"})
                 \cup ({"CONV"} \X {"ADD", "SUB"} \X {"INT_NUM", "I64_NUM"}),
   simplify_intadd_k |-> ({"ADD", "ADDOV", "SUBOV"} \X {"any"} \X {"KINT"}) \cup {<<"ADD", "any", "KINT64">>},
   simplify_intmulov_k |-> {<<"MULOV", "any", "KINT">>},
   simplify_intsub_k |-> {"SUB"} \X {"any"} \X {"KINT", "KINT64"},
   simplify_intsub_kleft |-> {"SUB"} \X {"KINT", "KINT64"} \X {"any"},
   simplify_intmul_k |-> {"MUL"} \X {"any"} \X {"KINT", "KINT64"},
   simplify_intmod_k |-> {<<"MOD", "any", "KINT">>},
   simplify_intmod_kleft |-> {<<"MOD", "KINT", "any">>},
   simplify_intsub |-> {"SUB", "SUBOV"} \X {"any"} \X {"any"},
   simplify_intsubadd_leftcancel |-> {<<"SUB", "ADD", "any">>},
   simplify_intsubsub_leftcancel |-> {<<"SUB", "SUB", "any">>},
   simplify_intsubsub_rightcancel |-> {<<"SUB", "any", "SUB">>},
   simplify_intsubadd_rightcancel |-> {<<"SUB", "any", "ADD">>},
   simplify_intsubaddadd_cancel |-> {<<"SUB", "ADD", "ADD">>},
   simplify_band_k |-> {"BAND"} \X {"any"} \X {"KINT", "KINT64"},
   simplify_bor_k |-> {"BOR"} \X {"any"} \X {"KINT", "KINT64"},
   simplify_bxor_k |-> {"BXOR"} \X {"any"} \X {"KINT", "KINT64"},
   simplify_shift_ik |-> ShiftOps \X {"any"} \X {"KINT"},
   simplify_shift_andk |-> ShiftOps \X {"any"} \X {"BAND"},
   simplify_shift_ki |-> ShiftOps \X {"KINT", "KINT64"} \X {"any"},
   simplify_shiftk_andk |-> (ShiftOps \ {"BSAR"}) \X {"BAND"} \X {"KINT"},
   simplify_andk_shiftk |-> {"BAND"} \X {"BSHL", "BSHR"} \X {"KINT"},
   simplify_andor_k |-> ({"BAND"} \X {"BOR"} \X {"KINT", "KINT64"})
                   \cup ({"BOR"} \X {"BAND"} \X {"KINT", "KINT64"}),
   reassoc_intarith_k |-> {<<o, o, k>> : o \in IntArith \ {"SUB"}, k \in {"KINT", "KINT64"}},
   reassoc_dup |-> {<<o, o, "any">> : o \in {"MIN", "MAX", "BAND", "BOR"}},
   reassoc_bxor |-> {<<"BXOR", "BXOR", "any">>},
   reassoc_shift |-> {<<o, o, "KINT">> : o \in ShiftOps},
   reassoc_minmax_k |-> {<<o, o, "KINT">> : o \in {"MIN", "MAX"}},
   reassoc_minmax_left |-> {<<"MIN", "MAX", "any">>, <<"MAX", "MIN", "any">>},
   reassoc_minmax_right |-> {<<"MIN", "any", "MAX">>, <<"MAX", "any", "MIN">>},
   abc_fwd |-> {<<"ABC", "any", "ADD">>},
   abc_k |-> {<<"ABC", "any", "KINT">>},
   abc_invar |-> {<<"ABC", "any", "any">>},
   comm_swap |-> {"ADD", "MUL", "ADDOV", "MULOV"} \X {"any"} \X {"any"},
   comm_equal |-> Equalities \X {"any"} \X {"any"},
   comm_comp |-> Ordered \X {"any"} \X {"any"},
   comm_dup |-> {"BAND", "BOR", "MIN", "MAX"} \X {"any"} \X {"any"},
   comm_bxor |-> {<<"BXOR", "any", "any">>}]

\* Rules that do not look through PHIs, by the operand (PHIBARRIER).
BarredLeft ==
  {"shortcut_dropleft", "shortcut_leftleft", "simplify_numadd_negx", "simplify_numsub_negk", "simplify_nummuldiv_negk",
   "simplify_nummuldiv_negneg", "shortcut_conv_num_int", "simplify_conv_i64_num", "simplify_conv_int_i64",
   "simplify_conv_narrow", "narrow_convert", "simplify_intsubadd_leftcancel", "simplify_intsubsub_leftcancel",
   "simplify_intsubaddadd_cancel", "simplify_shiftk_andk", "simplify_andor_k", "reassoc_bxor", "reassoc_shift"}
BarredRight ==
  {"simplify_numadd_xneg", "simplify_numsub_xneg", "simplify_nummuldiv_negneg", "simplify_intsubsub_rightcancel",
   "simplify_intsubadd_rightcancel", "simplify_intsubaddadd_cancel", "simplify_shift_andk"}
PHIBARRIER(J, f, rule) == (rule \in BarredLeft /\ f.op1 \in J.phi) \/ (rule \in BarredRight /\ f.op2 \in J.phi)

FoldTable == [key \in UNION {Rules[r] : r \in DOMAIN Rules} |-> CHOOSE r \in DOMAIN Rules : key \in Rules[r]]

-----------------------------------------------------------------------------
(* Results of rules. *)

NEXTFOLD == [kind |-> "next"]
Ref(R) == [kind |-> "ref", R |-> R]
Use(J, ref) == Ref([J |-> J, ref |-> ref])
RETRYFOLD(J, f) == [kind |-> "retry", J |-> J, f |-> f]
DROPFOLD(J) == Use(J, DROP)
FAILFOLD(J) == Use([J EXCEPT !.fail = TRUE], DROP)
CONDFOLD(J, cond) == IF cond THEN DROPFOLD(J) ELSE FAILFOLD(J)
LEFTFOLD(J, f) == Use(J, f.op1)
RIGHTFOLD(J, f) == Use(J, f.op2)
KFold(J, t, k) == Ref(IF Is64(t) THEN lj_ir_kint64(J, k) ELSE lj_ir_kint(J, k))
\* Retry with another constant, of the type t, on the right.
RetryK(J, f, t, k) ==
  LET K == CASE t = "num" -> lj_ir_knum(J, k) [] Is64(t) -> lj_ir_kint64(J, k) [] OTHER -> lj_ir_kint(J, k)
  IN RETRYFOLD(K.J, [f EXCEPT !.op2 = K.ref])

NotNum(f) == f.t # "num"
PowerOf2(n) == \E i \in 0 .. LongBits : n = 2^i
Log2(n) == CHOOSE i \in 0 .. LongBits : n = 2^i

-----------------------------------------------------------------------------
(* Constants. *)

kfold_num(J, f, l, r) == Ref(lj_ir_knum(J, lj_vm_foldarith(f.o, l.k, r.k)))
kfold_intovarith(J, f, l, r) ==
  LET n == lj_vm_foldarith(OverflowOps[f.o], FromInt(l.k), FromInt(r.k))
      k == lj_num2int(n, IntBits)
  IN IF NumEq(n, FromInt(k)) THEN KFold(J, "int", k) ELSE FAILFOLD(J)
\* 64 bit folding goes by 32 bits for BSHR, BROL and BROR.
kfold_int64arith(op, x, y, t) ==
  CASE op = "DIV" -> lj_carith_div64(x, y, t)
    [] op = "MOD" -> lj_carith_mod64(x, y, t)
    [] op \in {"BSHR", "BROL", "BROR"} -> Shift(op, Signed(x, IntBits), y, IntBits)
    [] OTHER -> kfold_intop(op, x, y, LongBits)
kfold_conv_knum_int_num(J, f, l) ==
  LET k == lj_num2int(l.k, IntBits)
  IN IF f.g /\ ~NumEq(l.k, FromInt(k)) THEN FAILFOLD(J) ELSE KFold(J, "int", k)
kfold_conv(J, f, l) ==
  LET v == Convert(l.k, f.lit, f.sx)
  IN IF f.t = "num" THEN Ref(lj_ir_knum(J, v)) ELSE KFold(J, f.t, v)

-----------------------------------------------------------------------------
(* Numbers. *)

simplify_nummuldiv_k(J, f, r) ==
  CASE r.k = One -> LEFTFOLD(J, f)
    [] r.k = -One -> RETRYFOLD(J, WithLit([f EXCEPT !.o = "NEG"], Ksimd))
    [] f.o = "MUL" /\ r.k = 2 * One -> RETRYFOLD(J, [f EXCEPT !.o = "ADD", !.op2 = f.op1])
    [] f.o = "DIV" /\ Finite(r.k) /\ PowerOf2(Mag(r.k)) /\ Mag(r.k) <= One * One ->
         RetryK(J, [f EXCEPT !.o = "MUL"], "num", NumDiv(One, r.k))  \* exact
    [] OTHER -> NEXTFOLD

-----------------------------------------------------------------------------
(* Conversions. *)

simplify_conv_i64_num(J, f, l) ==
  CASE Src(l.lit) = "int" ->
         RETRYFOLD(J, [f EXCEPT !.op1 = l.op1, !.lit = "I64_INT", !.sx = TRUE, !.cv = 0])
    [] Src(l.lit) = "u32" -> Use(J, l.op1)
    [] OTHER -> NEXTFOLD
simplify_conv_int_i64(J, f, l) ==
  IF Src(l.lit) \notin {"int", "u32"} THEN NEXTFOLD
  ELSE IF Src(l.lit) = Dst(f.lit) THEN Use(J, l.op1)
  ELSE RETRYFOLD(J, [f EXCEPT !.op1 = l.op1, !.sx = FALSE, !.cv = 0,
                              !.lit = CHOOSE c \in DOMAIN ConvTypes : ConvTypes[c] = <<Dst(f.lit), Src(l.lit)>>])
simplify_tobit_conv(J, f, l) ==
  CASE Src(l.lit) = "int" -> Use(J, l.op1)
    [] Src(l.lit) = "u32" -> RETRYFOLD(J, [f EXCEPT !.o = "CONV", !.op1 = l.op1, !.op2 = LIT, !.lit = "INT_U32"])
    [] OTHER -> NEXTFOLD
\* An existing conversion with a stronger check will do.
SameConv(f, ins) == ins.o = "CONV" /\ ins.op1 = f.op1 /\ ins.lit = f.lit /\ ins.sx = f.sx /\ (f.g => ins.g)
cse_conv(J, f) ==
  LET same == Chain(J, LAMBDA ins : SameConv(f, ins))
  IN IF same # {} THEN Use(J, Newest(same)) ELSE Ref(lj_ir_emit(J, f))

-----------------------------------------------------------------------------
(* Integers. *)

simplify_intmulov_k(J, f, r) ==
  CASE r.k = 0 -> RIGHTFOLD(J, f)
    [] r.k = 1 -> LEFTFOLD(J, f)
    [] r.k = 2 -> RETRYFOLD(J, [f EXCEPT !.o = "ADDOV", !.op2 = f.op1])
    [] OTHER -> NEXTFOLD
simplify_intsub_k(J, f, r) ==
  IF r.k = 0 THEN LEFTFOLD(J, f)
  ELSE RetryK(J, [f EXCEPT !.o = "ADD"], r.t, Signed(-r.k, Bits(r.t)))
simplify_intmul_k(J, f, r) ==
  CASE r.k < 0 \/ r.k >= 2^(IntBits - 1) -> NEXTFOLD
    [] r.k = 0 -> RIGHTFOLD(J, f)
    [] r.k = 1 -> LEFTFOLD(J, f)
    [] OTHER -> IF PowerOf2(r.k) THEN RetryK(J, [f EXCEPT !.o = "BSHL"], "int", Log2(r.k)) ELSE NEXTFOLD
simplify_intmod_k(J, f, r) ==
  IF r.k > 0 /\ PowerOf2(r.k) THEN RetryK(J, [f EXCEPT !.o = "BAND"], "int", r.k - 1) ELSE NEXTFOLD
simplify_intsub(J, f) == IF f.op1 = f.op2 /\ NotNum(f) THEN KFold(J, f.t, 0) ELSE NEXTFOLD

ZeroMinus(J, f, ref) ==
  LET K == lj_ir_kint(J, 0) IN RETRYFOLD(K.J, [f EXCEPT !.op1 = K.ref, !.op2 = ref])
simplify_intsubadd_leftcancel(J, f, l) ==
  CASE NotNum(f) /\ f.op2 = l.op1 -> Use(J, l.op2)
    [] NotNum(f) /\ f.op2 = l.op2 -> Use(J, l.op1)
    [] OTHER -> NEXTFOLD
simplify_intsubadd_rightcancel(J, f, r) ==
  CASE NotNum(f) /\ f.op1 = r.op1 -> ZeroMinus(J, f, r.op2)
    [] NotNum(f) /\ f.op1 = r.op2 -> ZeroMinus(J, f, r.op1)
    [] OTHER -> NEXTFOLD
simplify_intsubaddadd_cancel(J, f, l, r) ==
  LET sub(a, b) == RETRYFOLD(J, [f EXCEPT !.op1 = a, !.op2 = b])
  IN CASE NotNum(f) /\ l.op1 = r.op1 -> sub(l.op2, r.op2)
       [] NotNum(f) /\ l.op1 = r.op2 -> sub(l.op2, r.op1)
       [] NotNum(f) /\ l.op2 = r.op1 -> sub(l.op1, r.op2)
       [] NotNum(f) /\ l.op2 = r.op2 -> sub(l.op1, r.op1)
       [] OTHER -> NEXTFOLD

\* The neutral and the absorbing constant of BAND and BOR.
BitK(J, f, r, neutral, absorbing) ==
  CASE r.k = absorbing -> RIGHTFOLD(J, f) [] r.k = neutral -> LEFTFOLD(J, f) [] OTHER -> NEXTFOLD
simplify_bxor_k(J, f, r) ==
  CASE r.k = 0 -> LEFTFOLD(J, f)
    [] r.k = -1 -> RETRYFOLD(J, [f EXCEPT !.o = "BNOT", !.op2 = LIT])
    [] OTHER -> NEXTFOLD
simplify_shift_ik(J, f, r) ==
  LET k == r.k % Bits(f.t)
  IN CASE k = 0 -> LEFTFOLD(J, f)
       [] k = 1 /\ f.o = "BSHL" -> RETRYFOLD(J, [f EXCEPT !.o = "ADD", !.op2 = f.op1])
       [] k # r.k -> RetryK(J, f, "int", k)
       [] f.o = "BROR" -> RetryK(J, [f EXCEPT !.o = "BROL"], "int", (-k) % Bits(f.t))
       [] OTHER -> NEXTFOLD
simplify_shift_andk(J, f, r) ==
  LET irk == IRAt(J, r.op2)
  IN IF irk.o = "KINT" /\ irk.k % Bits(f.t) = Bits(f.t) - 1 THEN RETRYFOLD(J, [f EXCEPT !.op2 = r.op1])
     ELSE NEXTFOLD
simplify_shift_ki(J, f, l) ==
  IF l.k = 0 \/ (l.k = -1 /\ f.o \notin {"BSHL", "BSHR"}) THEN LEFTFOLD(J, f) ELSE NEXTFOLD
simplify_andk_shiftk(J, f, l, r) ==
  LET irk == IRAt(J, l.op2)
  IN IF irk.o = "KINT" /\ kfold_intop(l.o, -1, irk.k, IntBits) = r.k THEN LEFTFOLD(J, f) ELSE NEXTFOLD
simplify_andor_k(J, f, l, r) ==
  LET irk == IRAt(J, l.op2)
  IN IF irk.o = r.o /\ kfold_intop(f.o, irk.k, r.k, Bits(r.t)) = (IF f.o = "BAND" THEN 0 ELSE -1)
     THEN RETRYFOLD(J, [f EXCEPT !.op1 = l.op1]) ELSE NEXTFOLD

reassoc_intarith_k(J, f, l, r) ==
  LET irk == IRAt(J, l.op2)
      k == kfold_intop(f.o, irk.k, r.k, Bits(r.t))
  IN CASE irk.o # r.o -> NEXTFOLD
       [] irk.o = r.o /\ irk.o = "KINT" /\ k = irk.k -> LEFTFOLD(J, f)
       [] irk.o = r.o /\ ~(irk.o = "KINT" /\ k = irk.k) /\ f.op1 \in J.phi -> NEXTFOLD
       [] OTHER -> RetryK(J, [f EXCEPT !.op1 = l.op1], r.t, k)
OneOf(ref, ins) == ref \in {ins.op1, ins.op2}
reassoc_bxor(J, f, l) ==
  CASE f.op2 = l.op1 -> Use(J, l.op2) [] f.op2 = l.op2 -> Use(J, l.op1) [] OTHER -> NEXTFOLD
ShiftMasked(J, f, l, r) ==
  LET irk == IRAt(J, l.op2)
  IN IF irk.o # "KINT" THEN NEXTFOLD
     ELSE RetryK(J, [f EXCEPT !.op1 = l.op1], "int", (irk.k + r.k) % Bits(f.t))
reassoc_shift(J, f, l, r) ==
  LET irk == IRAt(J, l.op2)
      b == Bits(f.t)
      k == (irk.k % b) + (r.k % b)
      to(n) == RetryK(J, [f EXCEPT !.op1 = l.op1], "int", n)
  IN CASE irk.o # "KINT" -> NEXTFOLD
       [] irk.o = "KINT" /\ k < b -> to(k)
       [] OTHER -> CASE f.o \in {"BSHL", "BSHR"} -> KFold(J, f.t, 0)
                     [] f.o = "BSAR" -> to(b - 1)
                     [] OTHER -> to(k % b)
reassoc_minmax_k(J, f, l, r) ==
  LET irk == IRAt(J, l.op2)
      y == kfold_intop(f.o, irk.k, r.k, IntBits)
  IN CASE irk.o # "KINT" -> NEXTFOLD
       [] irk.o = "KINT" /\ y = irk.k -> LEFTFOLD(J, f)
       [] irk.o = "KINT" /\ y # irk.k /\ f.op1 \in J.phi -> NEXTFOLD
       [] OTHER -> RetryK(J, [f EXCEPT !.op1 = l.op1], "int", y)

-----------------------------------------------------------------------------
(* Array bounds checks. *)

\* ABC(asize, (i+k)-k) is ABC(asize, i), if that is there.
abc_fwd(J, f, r) ==
  LET add2 == IRAt(J, r.op1)
      opposite == irref_isk(r.op2) /\ add2.o = "ADD" /\ irref_isk(add2.op2) /\ IRAt(J, r.op2).k = -IRAt(J, add2.op2).k
  IN IF opposite /\ Chain(J, LAMBDA ins : ins.o = "ABC" /\ ins.op1 = f.op1 /\ ins.op2 = add2.op1) # {}
     THEN DROPFOLD(J) ELSE NEXTFOLD
FirstWins(J, f, r) ==
  LET same == Chain(J, LAMBDA ins : ins.o = "ABC" /\ ins.op1 = f.op1 /\ irref_isk(ins.op2))
  IN IF same = {} THEN Ref(lj_ir_emit(J, f)) ELSE DROPFOLD(J)
\* A check of another constant for the same array is made to check the larger one.
abc_k(J, f, r) ==
  LET same == Chain(J, LAMBDA ins : ins.o = "ABC" /\ ins.op1 = f.op1 /\ irref_isk(ins.op2))
  IN IF same = {} THEN Ref(lj_ir_emit(J, f))
     ELSE LET ref == Newest(same)
          IN DROPFOLD(IF r.k > IRAt(J, J.ins[ref].op2).k THEN [J EXCEPT !.ins[ref].op2 = f.op2] ELSE J)

-----------------------------------------------------------------------------
(* Commutativity: the lower reference goes to the right. *)

comm_swap(J, f) ==
  IF f.op1 < f.op2 THEN RETRYFOLD(J, [f EXCEPT !.op1 = f.op2, !.op2 = f.op1]) ELSE NEXTFOLD
comm_equal(J, f) ==
  IF f.op1 = f.op2 /\ NotNum(f) THEN CONDFOLD(J, f.o = "EQ") ELSE comm_swap(J, f)
CompUnswapped(J, f) ==
  CASE f.op1 = f.op2 /\ NotNum(f) -> CONDFOLD(J, f.o \in {"GE", "LE", "UGE", "ULE"})
    [] f.op1 < f.op2 -> RETRYFOLD(J, [f EXCEPT !.op1 = f.op2, !.op2 = f.op1])
    [] OTHER -> NEXTFOLD
comm_comp(J, f) ==
  CASE f.op1 = f.op2 /\ NotNum(f) -> CONDFOLD(J, f.o \in {"GE", "LE", "UGE", "ULE"})
    [] f.op1 < f.op2 -> RETRYFOLD(J, [f EXCEPT !.o = Swap[f.o], !.op1 = f.op2, !.op2 = f.op1])
    [] OTHER -> NEXTFOLD
comm_dup(J, f) == IF f.op1 = f.op2 THEN LEFTFOLD(J, f) ELSE comm_swap(J, f)
comm_bxor(J, f) == IF f.op1 = f.op2 THEN KFold(J, f.t, 0) ELSE comm_swap(J, f)

\* Type and guard do not matter to common subexpressions.
SameIns(f, ins) == ins.o = f.o /\ ins.op1 = f.op1 /\ ins.op2 = f.op2 /\ ins.lit = f.lit /\ ins.sx = f.sx /\ ins.cv = f.cv
lj_opt_cse(J, f) ==
  LET same == Chain(J, LAMBDA ins : SameIns(f, ins))
  IN IF same # {} THEN [J |-> J, ref |-> Newest(same)] ELSE lj_ir_emit(J, f)

-----------------------------------------------------------------------------
(* Rules that emit further instructions. *)

RECURSIVE lj_opt_fold(_, _)

\* x^k by repeated squaring, from the low bit of k.
RECURSIVE Squares(_, _, _, _)
Squares(J, ref, tmp, k) ==
  LET mul(R, a, b) == lj_opt_fold(R.J, Ins("MUL", "num", FALSE, a, b))
      D == [J |-> J]
  IN CASE tmp = 0 /\ k % 2 = 0 -> LET S == mul(D, ref, ref) IN Squares(S.J, S.ref, 0, k \div 2)
       [] tmp = 0 /\ k = 1 -> [J |-> J, ref |-> ref]
       [] tmp = 0 /\ k > 1 /\ k % 2 = 1 -> LET S == mul(D, ref, ref) IN Squares(S.J, ref, S.ref, k \div 2)
       [] tmp # 0 /\ k = 1 -> mul(D, ref, tmp)
       [] OTHER -> LET A == IF k % 2 = 1 THEN mul(D, ref, tmp) ELSE [J |-> J, ref |-> ref]
                       S == mul(A, tmp, tmp)
                   IN Squares(S.J, A.ref, S.ref, k \div 2)
simplify_numpow_xk(J, f, r) ==
  LET one == lj_ir_knum(J, One)
      inv == lj_opt_fold(one.J, Ins("DIV", "num", FALSE, one.ref, f.op1))
  IN CASE r.k = 0 -> Ref(one)
       [] r.k = 1 -> LEFTFOLD(J, f)
       [] r.k \notin -MaxPow .. MaxPow -> NEXTFOLD
       [] r.k < 0 -> Ref(Squares(inv.J, inv.ref, 0, -r.k))
       [] OTHER -> Ref(Squares(J, f.op1, 0, r.k))
simplify_numpow_kx(J, f, l) ==
  IF l.k # 2 * One THEN NEXTFOLD
  ELSE LET C == lj_opt_fold(J, WithLit([f EXCEPT !.o = "CONV", !.op1 = f.op2], "NUM_INT"))
           K == lj_ir_knum(C.J, One)
       IN RETRYFOLD(K.J, [f EXCEPT !.o = "LDEXP", !.op1 = K.ref, !.op2 = C.ref])
simplify_conv_narrow(J, f, l) ==
  LET conv(R, ref) == lj_opt_fold(R.J, [f EXCEPT !.t = "int", !.g = FALSE, !.op1 = ref])
      A == conv([J |-> J], l.op1)
      B == conv(A, l.op2)
  IN RETRYFOLD(B.J, Ins(l.o, f.t, FALSE, A.ref, B.ref))
simplify_shiftk_andk(J, f, l, r) ==
  LET irk == IRAt(J, l.op2)
      A == lj_opt_fold(J, [f EXCEPT !.op1 = l.op1])
  IN CASE irk.o = "KINT" ->
            RetryK(A.J, Ins("BAND", "int", FALSE, A.ref, LIT), "int", kfold_intop(f.o, irk.k, r.k, IntBits))
       [] irk.o = "KINT64" ->
            RetryK(A.J, Ins("BAND", l.t, FALSE, A.ref, LIT), "i64", kfold_int64arith(f.o, irk.k, r.k, l.t))
       [] OTHER -> NEXTFOLD

-----------------------------------------------------------------------------
(* Narrowing of conversions: code for a stack machine is collected first.   *)
(* nc has the mode of the conversion (cv, lit), its type, and fins.         *)

BPROP_SLOTS == 16
AnyCheck(J, key, lit, sx, cv) == {e \in ToSet(J.bpc) : e.key = key /\ e.lit = lit /\ e.sx = sx}
narrow_bpc_get(J, key, lit, sx, cv) ==
  {e \in ToSet(J.bpc) : e.key = key /\ e.lit = lit /\ e.sx = sx /\ e.cv >= cv}
narrow_bpc_set(J, key, val, lit, cv) ==
  LET all == Append(J.bpc, [key |-> key, val |-> val, lit |-> lit, sx |-> FALSE, cv |-> cv])
  IN [J EXCEPT !.bpc = IF Len(all) > BPROP_SLOTS THEN Tail(all) ELSE all]
TobitMode(f) == f.o = "TOBIT"
\* The mode that an entry of the cache has.
CacheLit(f) == IF TobitMode(f) THEN "" ELSE f.lit
Some(entries) == CHOOSE e \in entries : TRUE
Push(sp, op, ref) == Append(sp, [op |-> op, t |-> "int", ref |-> ref])
PushOp(sp, op, t, ref) == Append(sp, [op |-> op, t |-> t, ref |-> ref])

RECURSIVE narrow_stripov_backprop(_, _, _, _, _)
narrow_stripov_backprop(J, f, sp, ref, depth) ==
  LET ir == IRAt(J, ref)
      bp == narrow_bpc_get(J, ref, "", FALSE, IRCONV_TOBIT)
      left == narrow_stripov_backprop(J, f, sp, ir.op1, depth + 1)
      right == narrow_stripov_backprop(J, f, left, ir.op2, depth + 1)
  IN CASE ir.o \notin DOMAIN OverflowOps \/ (ir.o = "MULOV" /\ f.cv # IRCONV_ANY) -> Push(sp, "REF", ref)
       [] bp # {} -> Push(sp, "REF", Some(bp).val)
       [] depth + 1 >= NARROW_MAX_BACKPROP -> Push(sp, "REF", ref)
       [] OTHER -> Push(right, OverflowOps[ir.o], ref)

\* A constant of 16 bits, or any integer for bit operations.
NarrowK(f, a) ==
  LET k == lj_num2int(a, IntBits)
  IN IF TobitMode(f) THEN Finite(a) /\ NumEq(a, FromInt(Trunc(a)))
     ELSE NumEq(a, FromInt(k)) /\ k \in -(2^(IntBits - 2)) .. 2^(IntBits - 2) - 1

TooDeep(sp) == [sp |-> sp, n |-> 10]
RECURSIVE narrow_conv_backprop(_, _, _, _, _)
narrow_conv_backprop(J, f, sp, ref, depth) ==
  LET ir == IRAt(J, ref)
      done(s) == [sp |-> s, n |-> 0]
      undone == IF f.cv <= IRCONV_ANY THEN narrow_stripov_backprop(J, f, sp, ir.op1, depth + 1)
                ELSE Push(sp, "REF", ir.op1)
      crefs == Chain(J, LAMBDA c : c.o = f.o /\ c.op1 = ref
                   /\ (TobitMode(f) \/ (c.lit = f.lit /\ c.sx = f.sx /\ (f.g => c.g))))
      cv == IF f.cv = IRCONV_INDEX /\ depth > 0 THEN IRCONV_CHECK ELSE f.cv
      bp == narrow_bpc_get(J, ref, CacheLit(f), f.sx, cv)
      ext == narrow_bpc_get(J, ref, "INT_NUM", FALSE, IRCONV_INDEX)
      a == narrow_conv_backprop(J, f, sp, ir.op1, depth + 1)
      b == narrow_conv_backprop(J, f, a.sp, ir.op2, depth + 1)
      conv == [sp |-> Push(sp, "CONV", ref), n |-> 1]
  IN CASE ir.o = "CONV" /\ Src(ir.lit) = "int" -> done(IF f.t = "i64" THEN Push(undone, "SEXT", 0) ELSE undone)
       [] ir.o = "KNUM" -> IF NarrowK(f, ir.k) THEN done(Push(sp, "INT", Signed(Trunc(ir.k), IntBits)))
                           ELSE TooDeep(sp)
       [] crefs # {} -> done(Push(sp, "REF", Newest(crefs)))
       [] OTHER -> CASE ir.o \notin {"ADD", "SUB"} -> conv
                     [] bp # {} -> done(Push(sp, "REF", Some(bp).val))
                     [] ext # {} /\ f.t = "i64" -> done(Push(Push(sp, "REF", Some(ext).val), "SEXT", 0))
                     [] depth + 1 < NARROW_MAX_BACKPROP /\ a.n + b.n <= 1 ->
                          [sp |-> PushOp(b.sp, ir.o, f.t, ref), n |-> a.n + b.n]
                     [] OTHER -> conv

\* A check for overflow that the array bounds check makes superfluous.
SmallK(J, ref) == irref_isk(ref) /\ IRAt(J, ref).k \in -(2^(IntBits - 2)) .. 2^(IntBits - 2) - 1

RECURSIVE narrow_conv_emit(_, _, _, _)
narrow_conv_emit(J, f, code, sp) ==
  IF code = <<>> THEN [J |-> J, ref |-> sp[1]]
  ELSE
    LET c == Head(code)
        last == Len(code) = 1
        n == Len(sp)
        push(R) == narrow_conv_emit(R.J, f, Tail(code), Append(sp, R.ref))
        index == f.cv = IRCONV_INDEX
        small == index /\ last /\ SmallK(J, sp[n])
        guard == f.g /\ ~small
        R == lj_opt_fold(J, Ins(IF guard THEN (CHOOSE o \in DOMAIN OverflowOps : OverflowOps[o] = c.op) ELSE c.op,
                                c.t, guard, sp[n - 1], sp[n]))
        S == lj_opt_fold(J, Conv("I64_INT", FALSE, sp[n], TRUE, 0))
    IN CASE c.op = "REF" -> push([J |-> J, ref |-> c.ref])
         [] c.op = "CONV" -> push(lj_ir_emit(J, [f EXCEPT !.op1 = c.ref]))
         [] c.op = "SEXT" -> narrow_conv_emit(S.J, f, Tail(code), [sp EXCEPT ![n] = S.ref])
         [] c.op = "INT" -> push(IF f.t = "i64" THEN lj_ir_kint64(J, c.ref) ELSE lj_ir_kint(J, c.ref))
         [] OTHER -> narrow_conv_emit(
              narrow_bpc_set(R.J, c.ref, R.ref, CacheLit(f), IF index /\ ~small THEN IRCONV_CHECK ELSE f.cv),
              f, Tail(code), Append(SubSeq(sp, 1, n - 2), R.ref))

narrow_convert(J, f) ==
  LET nc == narrow_conv_backprop(J, f, <<>>, f.op1, 0)
  IN IF J.loop = 0 /\ nc.n <= 1 THEN Ref(narrow_conv_emit(J, f, nc.sp, <<>>)) ELSE NEXTFOLD

-----------------------------------------------------------------------------
(* The engine. *)

Apply(rule, J, f, l, r) ==
  CASE rule \in {"kfold_numarith", "kfold_numabsneg"} -> kfold_num(J, f, l, r)
    [] rule = "kfold_fpmath" -> Ref(lj_ir_knum(J, lj_vm_foldfpm(l.k, f.lit)))
    [] rule = "kfold_numpow" -> Ref(lj_ir_knum(J, NumPow(l.k, r.k)))
    [] rule = "kfold_numcomp" -> CONDFOLD(J, lj_ir_numcmp(f.o, l.k, r.k))
    [] rule = "kfold_intarith" -> KFold(J, "int", kfold_intop(f.o, l.k, r.k, IntBits))
    [] rule = "kfold_intovarith" -> kfold_intovarith(J, f, l, r)
    [] rule \in {"kfold_bnot", "kfold_bnot64"} -> KFold(J, l.t, -l.k - 1)
    [] rule = "kfold_intcomp" -> CONDFOLD(J, IntCmp(f.o, l.k, r.k, IntBits))
    [] rule = "kfold_intcomp0" -> IF r.k = 0 THEN DROPFOLD(J) ELSE NEXTFOLD
    [] rule = "kfold_int64arith" -> KFold(J, "i64", kfold_int64arith(f.o, l.k, r.k, f.t))
    [] rule = "kfold_int64shift" -> KFold(J, "i64", Shift(f.o, l.k, r.k, LongBits))
    [] rule = "kfold_int64comp" -> CONDFOLD(J, IntCmp(f.o, l.k, r.k, LongBits))
    [] rule = "kfold_tobit" -> KFold(J, "int", lj_num2bit(l.k))
    [] rule = "kfold_conv" -> kfold_conv(J, f, l)
    [] rule = "kfold_conv_knum_int_num" -> kfold_conv_knum_int_num(J, f, l)
    [] rule = "kfold_kref" -> CONDFOLD(J, (f.op1 = f.op2) # (f.o = "NE"))
    [] rule = "shortcut_round" -> IF l.lit \in Roundings THEN LEFTFOLD(J, f) ELSE NEXTFOLD
    [] rule = "shortcut_left" -> LEFTFOLD(J, f)
    [] rule = "shortcut_dropleft" -> RETRYFOLD(J, [f EXCEPT !.op1 = l.op1])
    [] rule = "shortcut_leftleft" -> Use(J, l.op1)
    [] rule = "simplify_numadd_negx" -> RETRYFOLD(J, [f EXCEPT !.o = "SUB", !.op1 = f.op2, !.op2 = l.op1])
    [] rule = "simplify_numadd_xneg" -> RETRYFOLD(J, [f EXCEPT !.o = "SUB", !.op2 = r.op1])
    [] rule = "simplify_numsub_k" -> IF IsZero(r.k) THEN LEFTFOLD(J, f) ELSE NEXTFOLD
    [] rule = "simplify_numsub_negk" ->
         LET K == lj_ir_knum(J, Minus(r.k)) IN RETRYFOLD(K.J, [f EXCEPT !.op1 = K.ref, !.op2 = l.op1])
    [] rule = "simplify_numsub_xneg" -> RETRYFOLD(J, [f EXCEPT !.o = "ADD", !.op2 = r.op1])
    [] rule = "simplify_nummuldiv_k" -> simplify_nummuldiv_k(J, f, r)
    [] rule = "simplify_nummuldiv_negk" -> RetryK(J, [f EXCEPT !.op1 = l.op1], "num", Minus(r.k))
    [] rule = "simplify_nummuldiv_negneg" -> RETRYFOLD(J, [f EXCEPT !.op1 = l.op1, !.op2 = r.op1])
    [] rule = "simplify_numpow_xk" -> simplify_numpow_xk(J, f, r)
    [] rule = "simplify_numpow_kx" -> simplify_numpow_kx(J, f, l)
    [] rule = "shortcut_conv_num_int" -> IF Src(l.lit) = "num" /\ l.g THEN Use(J, l.op1) ELSE NEXTFOLD
    [] rule = "simplify_conv_int_num" -> IF Src(l.lit) = Dst(f.lit) THEN Use(J, l.op1) ELSE NEXTFOLD
    [] rule = "simplify_conv_i64_num" -> simplify_conv_i64_num(J, f, l)
    [] rule = "simplify_conv_int_i64" -> simplify_conv_int_i64(J, f, l)
    [] rule = "simplify_tobit_conv" -> simplify_tobit_conv(J, f, l)
    [] rule = "simplify_floor_conv" -> IF Src(l.lit) \in {"int", "u32"} THEN LEFTFOLD(J, f) ELSE NEXTFOLD
    [] rule = "simplify_conv_narrow" -> simplify_conv_narrow(J, f, l)
    [] rule = "cse_conv" -> cse_conv(J, f)
    [] rule = "narrow_convert" -> narrow_convert(J, f)
    [] rule = "simplify_intadd_k" -> IF r.k = 0 THEN LEFTFOLD(J, f) ELSE NEXTFOLD
    [] rule = "simplify_intmulov_k" -> simplify_intmulov_k(J, f, r)
    [] rule = "simplify_intsub_k" -> simplify_intsub_k(J, f, r)
    [] rule = "simplify_intsub_kleft" ->
         IF l.k = 0 THEN RETRYFOLD(J, [f EXCEPT !.o = "NEG", !.op1 = f.op2]) ELSE NEXTFOLD
    [] rule = "simplify_intmul_k" -> simplify_intmul_k(J, f, r)
    [] rule = "simplify_intmod_k" -> simplify_intmod_k(J, f, r)
    [] rule = "simplify_intmod_kleft" -> IF l.k = 0 THEN KFold(J, "int", 0) ELSE NEXTFOLD
    [] rule = "simplify_intsub" -> simplify_intsub(J, f)
    [] rule = "simplify_intsubadd_leftcancel" -> simplify_intsubadd_leftcancel(J, f, l)
    [] rule = "simplify_intsubsub_leftcancel" ->
         IF NotNum(f) /\ f.op2 = l.op1 THEN ZeroMinus(J, f, l.op2) ELSE NEXTFOLD
    [] rule = "simplify_intsubsub_rightcancel" -> IF NotNum(f) /\ f.op1 = r.op1 THEN Use(J, r.op2) ELSE NEXTFOLD
    [] rule = "simplify_intsubadd_rightcancel" -> simplify_intsubadd_rightcancel(J, f, r)
    [] rule = "simplify_intsubaddadd_cancel" -> simplify_intsubaddadd_cancel(J, f, l, r)
    [] rule = "simplify_band_k" -> BitK(J, f, r, -1, 0)
    [] rule = "simplify_bor_k" -> BitK(J, f, r, 0, -1)
    [] rule = "simplify_bxor_k" -> simplify_bxor_k(J, f, r)
    [] rule = "simplify_shift_ik" -> simplify_shift_ik(J, f, r)
    [] rule = "simplify_shift_andk" -> simplify_shift_andk(J, f, r)
    [] rule = "simplify_shift_ki" -> simplify_shift_ki(J, f, l)
    [] rule = "simplify_shiftk_andk" -> simplify_shiftk_andk(J, f, l, r)
    [] rule = "simplify_andk_shiftk" -> simplify_andk_shiftk(J, f, l, r)
    [] rule = "simplify_andor_k" -> simplify_andor_k(J, f, l, r)
    [] rule = "reassoc_intarith_k" -> reassoc_intarith_k(J, f, l, r)
    [] rule = "reassoc_dup" -> IF OneOf(f.op2, l) THEN LEFTFOLD(J, f) ELSE NEXTFOLD
    [] rule = "reassoc_bxor" -> reassoc_bxor(J, f, l)
    [] rule = "reassoc_shift" -> reassoc_shift(J, f, l, r)
    [] rule = "reassoc_minmax_k" -> reassoc_minmax_k(J, f, l, r)
    [] rule = "reassoc_minmax_left" -> IF OneOf(f.op2, l) THEN RIGHTFOLD(J, f) ELSE NEXTFOLD
    [] rule = "reassoc_minmax_right" -> IF OneOf(f.op1, r) THEN LEFTFOLD(J, f) ELSE NEXTFOLD
    [] rule = "cse_fload" -> Ref(lj_opt_cse(J, f))
    [] rule = "abc_fwd" -> abc_fwd(J, f, r)
    [] rule = "abc_k" -> abc_k(J, f, r)
    [] rule = "abc_invar" -> IF f.t # "int" /\ f.op1 < J.loop /\ f.op1 \notin J.phi THEN DROPFOLD(J) ELSE NEXTFOLD
    [] rule = "comm_swap" -> comm_swap(J, f)
    [] rule = "comm_equal" -> comm_equal(J, f)
    [] rule = "comm_comp" -> comm_comp(J, f)
    [] rule = "comm_dup" -> comm_dup(J, f)
    [] rule = "comm_bxor" -> comm_bxor(J, f)

\* Keys are tried from the most specific to the least specific one.
lj_opt_fold(J, f) ==
  LET left == IF f.op1 = LIT THEN "" ELSE IRAt(J, f.op1).o
      right == IF f.op2 = LIT THEN f.lit ELSE IRAt(J, f.op2).o
      try(key) == IF key \notin DOMAIN FoldTable THEN NEXTFOLD
                  ELSE IF PHIBARRIER(J, f, FoldTable[key]) THEN NEXTFOLD
                  ELSE Apply(FoldTable[key], J, f, IRAt(J, f.op1), IRAt(J, f.op2))
      r1 == try(<<f.o, left, right>>)
      r2 == IF r1.kind # "next" THEN r1 ELSE try(<<f.o, "any", right>>)
      r3 == IF r2.kind # "next" THEN r2 ELSE try(<<f.o, left, "any">>)
      r4 == IF r3.kind # "next" THEN r3 ELSE try(<<f.o, "any", "any">>)
  IN CASE r4.kind = "next" -> lj_opt_cse(J, f)
       [] r4.kind = "retry" -> lj_opt_fold(r4.J, r4.f)
       [] r4.kind = "ref" -> r4.R
=============================================================================
