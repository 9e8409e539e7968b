----------------------------- MODULE TPPrograms -----------------------------
(***************************************************************************)
(* Families of small TP programs, each built from every choice of its       *)
(* parts.  A program gets the arguments 5 and 6.                            *)
(*                                                                         *)
(* Left out: expressions that read a local a call in the same expression    *)
(* assigns (operands are read late, as in Lua), tables with a key twice,    *)
(* and the forms that the compiler is known to get wrong: assignments and   *)
(* blocks as expressions, logical expressions as statements, a call as the  *)
(* condition of a repeat, a letrec without a function, an open call or      *)
(* vararg as the last operand of an operator that is compiled to a call.    *)
(***************************************************************************)
EXTENDS TPSem

N(x) == <<"name", x>>
K(n) == <<"num", n>>
Txt(s) == <<"str", s>>
T == <<"true">>
F == <<"false">>
Args == <<K(5), K(6)>>

Id(xs) == <<"call1", N("id"), xs>>
Log(xs) == <<"call", N("id"), xs>>
Two == <<"call", N("two"), <<>>>>
Def(x, e) == <<"define", <<x>>, <<e>>>>
Ret(xs) == <<"return", xs>>
Fun(ps, stmts) == <<"lambda", ps, stmts>>
Ix(t, k) == <<"index", t, k>>
Set1(t, e) == <<"assign", t, e>>

-----------------------------------------------------------------------------
(* Truth values: two levels of operators in every context. *)

Atoms == {F, N("x"), Id(<<K(1)>>), Id(<<NilV>>)}
Level1 == {<<"not", a>> : a \in Atoms} \cup {<<op, a, b>> : op \in {"and", "or", "eq"}, a \in Atoms, b \in Atoms \ {F}}
          \cup {<<"lt", N("x"), K(5)>>, <<"ge", K(5), N("x")>>, T, N("g")}
Level2 == {<<"not", a>> : a \in Level1}
          \cup {<<op, a, b>> : op \in {"and", "or", "eq"}, a \in Level1, b \in {N("x"), Id(<<NilV>>)}}
          \cup {<<op, b, a>> : op \in {"and", "or", "ne"}, a \in Level1, b \in {N("x"), F}}

Contexts(e) ==
  { << Ret(<<e>>) >>,
    << Def("y", e), Set1(N("x"), e), Ret(<<N("x"), N("y")>>) >>,
    << <<"if", e, <<Log(<<K(7)>>), Log(<<K(8)>>)>>>>, Ret(<<K(9), e>>) >>,
    << <<"while", e, << Set1(N("x"), NilV), <<"break">> >>>>, Log(<<e, <<"not", e>>>>) >> }

TruthPrograms == {<<Def("x", <<"vararg">>)>> \o p : p \in UNION {Contexts(e) : e \in Level1 \cup Level2}}

-----------------------------------------------------------------------------
(* Assignments to several targets, which can be each other's table or key. *)

Targets == {N("t"), N("i"), N("u"), N("g"), Ix(N("t"), N("i")), Ix(N("t"), K(1)), Ix(N("u"), Txt("k"))}
Sources == {<<K(1), K(2)>>, <<N("i"), N("u")>>, <<Two>>, <<Id(<<N("i")>>), Two>>, <<NilV>>, <<K(1), K(2), Id(<<K(3)>>)>>,
            <<N("u"), <<"vararg">>>>}
Observe == Ret(<<<<"eq", N("t"), N("t1")>>, Ix(N("t1"), K(1)), Ix(N("t1"), K(2)), N("i"), N("g"), <<"eq", N("u"), N("t1")>>>>)
Massigns(ts) == {<<"massign", ts, es>> : es \in Sources}
Tables == << Def("t", <<"table", <<<<"item", K(3)>>>>>>), <<"let", <<"t1">>, <<N("t")>>>>, <<"define", <<"i", "u">>, <<K(2), N("t")>>>> >>

AssignPrograms ==
  {Tables \o <<m, Observe>> : m \in UNION {Massigns(<<a, b>>) : a \in Targets, b \in Targets}}
  \cup {Tables \o << Def("f", Fun(<<>>, <<m>>)), <<"call", N("f"), <<>>>>, Observe >> :
          m \in UNION {Massigns(<<a, b, c>>) : a \in {N("t"), Ix(N("t"), N("i"))}, b \in {N("i"), Ix(N("u"), Txt("k"))}, c \in {N("u"), N("t1")}}}

-----------------------------------------------------------------------------
(* Loops whose bodies leave them, jump and make functions. *)

Keep(x) == Set1(N("h"), Fun(<<>>, << Set1(N(x), <<"add", N(x), K(10)>>), Ret(<<N(x)>>) >>))
\* The variable of the function around the function around it.
Keep2(x) == Set1(N("h"), Fun(<<>>, << Ret(<<<<"call", Fun(<<>>, << Set1(N(x), <<"sub", N(x), K(1)>>), Ret(<<N(x)>>) >>), <<>>>>>>) >>))
Steps == { Log(<<N("n"), N("y")>>), Def("y", N("n")), Keep("y"), Keep("z"), <<"let", <<"z">>, <<N("n")>>>>,
           <<"if", <<"eq", N("n"), K(2)>>, <<<<"break">>>>>>,
           <<"if", <<"eq", N("n"), K(2)>>, <<<<"goto", "next">>, Log(<<K(0)>>)>>>>,
           <<"do", <<Def("y", K(3)), Keep("y")>>>>,
           <<"do", << <<"define", <<"y">>, <<>>>>, Def("z", NilV), Log(<<N("y"), N("z")>>) >>>>,
           <<"if", <<"eq", N("n"), K(1)>>, <<Keep2("y"), <<"do", <<Def("y", K(1)), Keep("y"), <<"goto", "next">>>>>>>>>>,
           <<"loop", "m", K(2), K(1), K(-1), <<Set1(N("h"), Fun(<<>>, <<Ret(<<N("m"), N("n")>>)>>)), <<"if", N("y"), <<<<"break">>>>>>>>>>,
           <<"label", "next">> }
Bodies == {<<a, b>> : a \in Steps, b \in Steps} \cup {<<a, b, c>> : a \in {Def("y", N("n")), <<"let", <<"z">>, <<N("n")>>>>},
                                                        b \in Steps, c \in Steps}
Up == Set1(N("n"), <<"add", N("n"), K(1)>>)
Loops(body) ==
  { <<"while", <<"lt", N("n"), K(3)>>, <<Up>> \o body>>,
    <<"repeat", <<Up>> \o body \o << <<"ge", N("n"), K(3)>> >>>>,
    <<"loop", "k", K(1), K(3), K(1), <<Def("n", N("k"))>> \o body>>,
    <<"for", <<"n", "w">>, <<N("iter"), K(3), K(0)>>, body>>,
    <<"do", << Def("q", NilV), <<"label", "again">>, <<"define", <<"r">>, <<>>>>, Log(<<N("r")>>), Set1(N("r"), N("n")), Up >> \o body \o << <<"if", <<"lt", N("n"), K(3)>>, <<<<"goto", "again">>>>>> >>>> }
Calls == << <<"if", N("h"), <<Log(<<<<"call", N("h"), <<>>>>>>)>>>>, Ret(<<N("n"), N("y"), N("z")>>) >>

LoopPrograms == {<< <<"define", <<"n", "y">>, <<K(0), K(4)>>>>, Def("z", K(6)), l >> \o Calls :
                   l \in UNION {Loops(b) : b \in Bodies}}

-----------------------------------------------------------------------------
(* Functions: what they return, before and after the first function they     *)
(* make, and the calls that pass everything on.                             *)

Ways == { Ret(<<N("a"), N("b")>>), Ret(<<<<"call", N("two"), <<<<"vararg">>>>>>>>), Ret(<<N("a"), <<"vararg">>>>),
          Ret(<<<<"vararg">>>>), Ret(<<Id(<<N("a"), <<"vararg">>>>)>>), Ret(<<N("b"), <<"call", N("h"), <<>>>>>>),
          Ret(<<<<"call", N("f"), <<<<"vararg">>>>>>>>), Ret(<<>>) }
Inner == { Def("d", N("a")), Keep("a"), Set1(N("b"), Fun(<<>>, <<Ret(<<N("a"), N("x")>>)>>)),
           <<"do", <<Def("a", K(2)), Keep("a")>>>>, Set1(N("x"), N("a")),
           <<"letrec", "r", Fun(<<"m">>, << <<"cond", << <<<<"lt", N("m"), K(1)>>, <<Ret(<<N("x")>>)>>>>,
                                                        <<T, <<Ret(<<<<"call", N("r"), <<<<"sub", N("m"), K(1)>>>>>>>>)>>>> >>>> >>)>>,
           Log(<<<<"idiv", N("a"), N("x")>>, <<"vararg">>>>) }
Bodies2 == {<< <<"if", N("a"), <<w>>>>, i, w2 >> : w \in Ways, i \in Inner, w2 \in Ways}
           \cup {<< <<"while", T, << <<"if", N("b"), <<w>>>>, i, Set1(N("b"), K(1)) >>>> >> : i \in Inner, w \in Ways}
           \cup {<< i, j, <<"if", <<"not", N("b")>>, <<w>>>> >> : i \in Inner, j \in Inner, w \in Ways}

FunctionPrograms ==
  {<< Set1(N("h"), N("two")), <<"define", <<"f", "x">>, <<N("id"), K(1)>>>>, <<"let", <<"p">>, <<Fun(<<"a", "b", "vararg">>, body)>>>>,
      Log(<<K(0), <<"call", N("p"), <<K(1), K(2), K(3), K(4)>>>>>>), <<"call", N("h"), <<>>>>, Ret(<<<<"call", N("p"), <<>>>>>>) >> :
     body \in Bodies2}

-----------------------------------------------------------------------------
(* Values: tables, concatenations, methods, the order of operands. *)

Values0 == {K(1), N("x"), Id(<<K(2)>>), Two, <<"vararg">>, <<"index", N("o"), Txt("k")>>, <<"add", N("x"), Id(<<K(3)>>)>>, NilV}
Entries == {<<"item", v>> : v \in Values0} \cup {<<"pair", Txt("k"), v>> : v \in Values0}
           \cup {<<"pair", Id(<<K(9)>>), K(8)>>, <<"pair", N("x"), Id(<<K(8)>>)>>}
TablePrograms ==
  {<< Def("x", K(9)), Def("o", <<"table", <<<<"pair", Txt("k"), N("two")>>>>>>), Def("t", <<"table", es>>),
      Ret(<<Ix(N("t"), K(1)), Ix(N("t"), K(2)), Ix(N("t"), K(3)), Ix(N("t"), K(9)), Ix(N("t"), Txt("k"))>>) >> :
     es \in {<<a, b>> : a \in Entries, b \in {e \in Entries : e[1] = "item" \/ e[2] # Txt("k")}}}

Words == {Txt("a"), K(1), N("x"), Id(<<Txt("b")>>), <<"concat", Txt("c"), N("x")>>}
Exprs == {<<"mconcat", <<a, b, c>>>> : a \in Words, b \in Words, c \in Words}
         \cup {<<"concat", a, <<"concat", b, c>>>> : a \in Words, b \in Words, c \in Words}
         \cup {<<op, a, b>> : op \in {"sub", "lt", "gt", "le", "shl"}, a \in {K(1), N("x"), Id(<<K(7)>>)}, b \in {K(2), N("x"), Id(<<K(4)>>)}}
         \cup {<<"neg", <<"add", a, Two>>>> : a \in {K(1), N("x")}}
         \cup {<<"callmeth", N("o"), Txt("m"), args>> : args \in {<<>>, <<Two>>, <<N("x"), <<"vararg">>>>}}
         \cup {<<"len", N("o")>>, <<"bnot", N("x")>>}
ValuePrograms ==
  {<< Def("x", K(9)), Def("o", <<"table", <<<<"pair", Txt("m"), N("id")>>, <<"item", K(3)>>>>>>), s >> :
     s \in UNION {{Ret(<<e>>), Log(<<N("x"), e>>), Def("y", e)} : e \in Exprs}}

Programs == TruthPrograms \cup AssignPrograms \cup LoopPrograms \cup FunctionPrograms \cup TablePrograms \cup ValuePrograms
=============================================================================
