-------------------------------- MODULE TPSem --------------------------------
(***************************************************************************)
(* What a TP program means, said without registers, jumps or upvalues: the  *)
(* value of a tree in an environment that maps names to cells.  Compiled    *)
(* programs have to behave like this.                                       *)
(*                                                                         *)
(* The state st has the world of TPVM and: cells, the values of the         *)
(* variables; clos, the closures; v, the values of what was evaluated last; *)
(* status, "run" as long as nothing else happens, else "break", "return",   *)
(* "goto" with the label lab, or "error".                                   *)
(***************************************************************************)
EXTENDS TPVM

CONSTANT MaxLoops  \* iterations of one loop, and backward jumps of a block

Is(st, vs) == [st EXCEPT !.v = vs]
First1(vs) == IF vs = <<>> THEN NilV ELSE vs[1]
Adjust(vs, n) == Tuple([i \in 1 .. n |-> IF i <= Len(vs) THEN vs[i] ELSE NilV])
Runs(st) == st.status = "run"
Stop(st, status) == [st EXCEPT !.status = status]

\* New variables: names is a sequence, vs the values.
Bind(st, env, names, vs) ==
  LET n == Len(st.cells)
      Pos(x) == CHOOSE i \in DOMAIN names : names[i] = x /\ \A j \in DOMAIN names : names[j] = x => j <= i
  IN [st |-> [st EXCEPT !.cells = @ \o Adjust(vs, Len(names))],
      env |-> [env EXCEPT !.names = [x \in {names[i] : i \in DOMAIN names} |-> n + Pos(x)] @@ @]]

RECURSIVE Eval(_, _, _), EvalAll(_, _, _), Exec(_, _, _), Block(_, _, _), Repeat(_, _, _, _), Clauses(_, _, _)

One(st, env, x) == LET s == Eval(st, env, x) IN IF Runs(s) THEN Is(s, <<First1(s.v)>>) ELSE s

\* One value of each expression.
Each(st, env, xs) ==
  FoldLeft(LAMBDA s, x : LET s1 == One(s, env, x) IN IF ~Runs(s) THEN s ELSE IF ~Runs(s1) THEN s1 ELSE Is(s1, s.v \o s1.v),
           Is(st, <<>>), xs)

\* All values of the last one.
EvalAll(st, env, xs) ==
  LET s == Each(st, env, Front(xs))
      s1 == Eval(s, env, Last(xs))
  IN IF xs = <<>> THEN Is(st, <<>>) ELSE IF ~Runs(s) THEN s ELSE IF ~Runs(s1) THEN s1 ELSE Is(s1, s.v \o s1.v)

Apply(st, f, args) ==
  LET fun == st.clos[f[2]]
      n == Len(fun.params)
      b == Bind(st, fun.env, fun.params, args)
      r == Block(b.st, [b.env EXCEPT !.va = IF fun.vararg THEN SubSeq(args, n + 1, Len(args)) ELSE <<>>], fun.body).st
  IN CASE f[1] = "host" -> Host(st, f[2], args)
       [] f[1] = "fun" -> IF r.status = "return" THEN Stop(r, "run") ELSE IF Runs(r) THEN Is(r, <<>>) ELSE r
       [] OTHER -> Stop(st, "error")

Arithmetic(st, op, x, y) == IF IsNum(x) /\ IsNum(y) THEN Is(st, <<Num(Arith(op, x[2], y[2]))>>) ELSE Stop(st, "error")

Compare2(st, op, x, y) ==
  CASE op = "eq" -> Is(st, <<Bool(x = y)>>)
    [] op = "ne" -> Is(st, <<Bool(x # y)>>)
    [] OTHER -> IF IsNum(x) /\ IsNum(y) THEN Is(st, <<Bool(Less(x[2], y[2], CompOp[op]))>>) ELSE Stop(st, "error")

Binary(st, op, x, y) ==
  CASE op \in {"add", "sub"} -> Arithmetic(st, op, x, y)
    [] op = "concat" -> IF Catable(x) /\ Catable(y) THEN Is(st, <<Cat(<<x, y>>)>>) ELSE Stop(st, "error")
    [] OTHER -> Compare2(st, op, x, y)

Unary(st, op, x) ==
  CASE op = "not" -> Is(st, <<Bool(~Truth(x))>>)
    [] op = "neg" /\ IsNum(x) -> Is(st, <<Num(-x[2])>>)
    [] op = "len" /\ x[1] = "tab" -> Is(st, <<Num(Border(st.tabs[x[2]]))>>)
    [] OTHER -> Stop(st, "error")

Fetch(st, t, k) == IF t[1] = "tab" THEN Is(st, <<At(st.tabs[t[2]], k, NilV)>>) ELSE Stop(st, "error")
StoreTab(st, t, k, v) ==
  IF t[1] = "tab" /\ k # NilV THEN [st EXCEPT !.tabs[t[2]] = Put(@, k, v)] ELSE Stop(st, "error")

\* A function expression followed by its arguments; self goes before them.
CallOf(st, env, args, f, self) ==
  LET s == EvalAll(st, env, args) IN IF Runs(s) THEN Apply(s, f, self \o s.v) ELSE s

\* Entries are stored in order, all results of a call at the end.
Fill(st, env, entries, t) ==
  LET Entry1(T, i) ==
        LET entry == entries[i]
            pair == entry[1] = "pair"
            k == One(T.st, env, entry[2])
            s == Eval(IF pair THEN k ELSE T.st, env, Last(entry))
            vs == IF pair \/ i < Len(entries) THEN <<First1(s.v)>> ELSE s.v
            key == IF pair THEN k.v[1] ELSE Num(T.n)
        IN IF ~Runs(T.st) \/ ~Runs(s) THEN [T EXCEPT !.st = IF Runs(T.st) THEN s ELSE @]
           ELSE [n |-> IF pair THEN T.n ELSE T.n + 1,
                 st |-> IF pair THEN StoreTab(s, t, key, vs[1])
                        ELSE FoldLeft(LAMBDA u, j : StoreTab(u, t, Num(T.n + j - 1), vs[j]), s, Upto(1, Len(vs)))]
  IN FoldLeft(Entry1, [st |-> st, n |-> 1], Upto(1, Len(entries))).st

Eval(st, env, x) ==
  LET op == x[1]
      cell == env.names[x[2]]
      s1 == One(st, env, x[2])
      s2 == One(s1, env, x[3])
      Both(v1, v2) == IF ~Runs(s1) THEN s1 ELSE IF ~Runs(s2) THEN s2 ELSE Binary(s2, op, v1, v2)
      t == <<"tab", Len(st.tabs) + 1>>
      filled == Fill([st EXCEPT !.tabs = Append(@, <<>>)], env, x[2], t)
  IN CASE ~Runs(st) -> st
       [] op \in {"nil", "false", "true", "num", "str"} -> Is(st, <<x>>)
       [] op = "name" -> Is(st, <<IF x[2] \in DOMAIN env.names THEN st.cells[cell] ELSE At(st.globals, x[2], NilV)>>)
       [] op = "vararg" -> Is(st, env.va)
       [] op = "and" -> IF ~Runs(s1) \/ ~Truth(s1.v[1]) THEN s1 ELSE s2
       [] op = "or" -> IF ~Runs(s1) \/ Truth(s1.v[1]) THEN s1 ELSE s2
       [] op \in Unops -> IF Runs(s1) THEN Unary(s1, op, s1.v[1]) ELSE s1
       [] op \in Binops -> Both(s1.v[1], s2.v[1])
       [] op \in Emulated -> LET s == Each(st, env, Tail(x))
                             IN IF Runs(s) THEN Apply(s, <<"host", op>>, s.v) ELSE s
       [] op = "mconcat" -> LET s == Each(st, env, x[2])
                            IN IF ~Runs(s) THEN s
                               ELSE IF \A i \in DOMAIN s.v : Catable(s.v[i]) THEN Is(s, <<Cat(s.v)>>) ELSE Stop(s, "error")
       [] op = "index" -> IF Runs(s2) THEN Fetch(s2, s1.v[1], s2.v[1]) ELSE s2
       [] op = "call" -> IF Runs(s1) THEN CallOf(s1, env, x[3], s1.v[1], <<>>) ELSE s1
       [] op = "call1" -> One(st, env, <<"call", x[2], x[3]>>)
       [] op = "callmeth" -> LET f == Fetch(s1, s1.v[1], x[3])
                             IN IF ~Runs(s1) THEN s1 ELSE IF Runs(f) THEN CallOf(f, env, x[4], f.v[1], s1.v) ELSE f
       [] op = "callmeth1" -> One(st, env, <<"callmeth", x[2], x[3], x[4]>>)
       [] op = "table" -> IF Runs(filled) THEN Is(filled, <<t>>) ELSE filled
       [] op = "lambda" -> [Is(st, <<<<"fun", Len(st.clos) + 1>>>>)
                              EXCEPT !.clos = Append(@, [params |-> SelectSeq(x[2], LAMBDA p : p # "vararg"),
                                                         vararg |-> "vararg" \in ToSet(x[2]), body |-> x[3], env |-> env])]

-----------------------------------------------------------------------------
(* Statements.  Exec returns the state and the environment for what follows. *)

\* What a target designates: a variable, or a table and a key.
Place(st, env, x) ==
  LET s1 == One(st, env, x[2])
      s2 == One(s1, env, x[3])
  IN IF x[1] = "name" THEN Is(st, x)
     ELSE IF ~Runs(s1) \/ ~Runs(s2) THEN (IF Runs(s1) THEN s2 ELSE s1) ELSE Is(s2, <<"index", s1.v[1], s2.v[1]>>)

StoreAt(st, env, place, v) ==
  IF place[1] = "index" THEN StoreTab(st, place[2], place[3], v)
  ELSE IF place[2] \in DOMAIN env.names THEN [st EXCEPT !.cells[env.names[place[2]]] = v]
  ELSE [st EXCEPT !.globals = Put(@, place[2], v)]

\* Targets first, then the values, then the last store first.
Assign(st, env, targets, es) ==
  LET Next2(T, x) == LET s == Place(T.st, env, x) IN IF Runs(T.st) THEN [st |-> s, ps |-> Append(T.ps, s.v)] ELSE T
      T == FoldLeft(Next2, [st |-> st, ps |-> <<>>], targets)
      s == EvalAll(T.st, env, es)
      vs == Adjust(s.v, Len(targets))
  IN IF ~Runs(T.st) THEN T.st ELSE IF ~Runs(s) THEN s
     ELSE FoldLeft(LAMBDA u, i : IF Runs(u) THEN StoreAt(u, env, T.ps[i], vs[i]) ELSE u, s, Reverse(Upto(1, Len(targets))))

\* What a loop makes of the state after its body.
AfterBody(st) == IF st.status = "break" THEN Stop(st, "run") ELSE st

RECURSIVE While(_, _, _, _, _), Count(_, _, _, _, _, _, _, _), Iterate(_, _, _, _, _, _, _)
While(st, env, cond, stmts, n) ==
  LET c == One(st, env, cond)
      b == Block(c, env, stmts).st
  IN IF n = 0 THEN Stop(st, "loops")
     ELSE IF ~Runs(c) \/ ~Truth(c.v[1]) THEN c
     ELSE IF Runs(b) THEN While(b, env, cond, stmts, n - 1) ELSE AfterBody(b)

\* The condition is the last statement, in the scope of the body.
Repeat(st, env, stmts, n) ==
  LET b == Block(st, env, Front(stmts))
      c == One(b.st, b.env, Last(stmts))
  IN IF n = 0 THEN Stop(st, "loops")
     ELSE IF ~Runs(b.st) THEN AfterBody(b.st)
     ELSE IF ~Runs(c) \/ Truth(c.v[1]) THEN c ELSE Repeat(c, env, stmts, n - 1)

Count(st, env, x, i, stop, step, stmts, n) ==
  LET b == Bind(st, env, <<x>>, <<Num(i)>>)
      s == Block(b.st, b.env, stmts).st
  IN IF n = 0 THEN Stop(st, "loops")
     ELSE IF ~ForGoesOn(i, stop, step) THEN st
     ELSE IF Runs(s) THEN Count(s, env, x, i + step, stop, step, stmts, n - 1) ELSE AfterBody(s)

\* A new set of variables for each iteration.
Iterate(st, env, names, f, ctl, stmts, n) ==
  LET r == Apply(st, f[1], <<f[2], ctl>>)
      b == Bind(r, env, names, r.v)
      s == Block(b.st, b.env, stmts).st
  IN IF n = 0 THEN Stop(st, "loops")
     ELSE IF ~Runs(r) \/ First1(r.v) = NilV THEN r
     ELSE IF Runs(s) THEN Iterate(s, env, names, f, r.v[1], stmts, n - 1) ELSE AfterBody(s)

Clauses(st, env, clauses) ==
  LET c == One(st, env, clauses[1][1])
  IN IF clauses = <<>> THEN st
     ELSE IF ~Runs(c) THEN c
     ELSE IF Truth(c.v[1]) THEN Block(c, env, clauses[1][2]).st ELSE Clauses(c, env, Tail(clauses))

Exec(st, env, x) ==
  LET op == x[1]
      Same(s) == [st |-> s, env |-> env]
      vs == EvalAll(st, env, x[3])
      empty == Bind(st, env, <<x[2]>>, <<>>)
      rec == Eval(empty.st, empty.env, x[3])
      c == One(st, env, x[2])
      branch == IF Truth(c.v[1]) THEN <<x[3][1]>> ELSE IF Len(x[3]) = 2 THEN <<x[3][2]>> ELSE <<>>
      limits == Each(st, env, <<x[3], x[4], x[5]>>)
      it == EvalAll(st, env, x[3])
      ret == EvalAll(st, env, x[2])
  IN CASE op = "assign" -> Same(Assign(st, env, <<x[2]>>, <<x[3]>>))
       [] op = "massign" -> Same(Assign(st, env, x[2], x[3]))
       [] op \in {"define", "let"} -> IF Runs(vs) THEN Bind(vs, env, x[2], vs.v) ELSE Same(vs)
       [] op = "letrec" -> IF Runs(rec) THEN [empty EXCEPT !.st = StoreAt(rec, empty.env, <<"name", x[2]>>, First1(rec.v))]
                           ELSE Same(rec)
       [] op = "do" -> Same(Block(st, env, x[2]).st)
       [] op = "while" -> Same(While(st, env, x[2], x[3], MaxLoops))
       [] op = "repeat" -> Same(Repeat(st, env, x[2], MaxLoops))
       [] op = "loop" ->
            Same(IF ~Runs(limits) THEN limits
                 ELSE IF \E i \in 1 .. 3 : ~IsNum(limits.v[i]) THEN Stop(limits, "error")
                 ELSE Count(limits, env, x[2], limits.v[1][2], limits.v[2][2], limits.v[3][2], x[6], MaxLoops))
       [] op = "for" -> Same(IF Runs(it) THEN LET f == Adjust(it.v, 3) IN Iterate(it, env, x[2], f, f[3], x[4], MaxLoops) ELSE it)
       [] op = "if" -> Same(IF Runs(c) THEN Block(c, env, branch).st ELSE c)
       [] op = "cond" -> Same(Clauses(st, env, x[2]))
       [] op = "return" -> Same(IF Runs(ret) THEN Stop(ret, "return") ELSE ret)
       [] op = "break" -> Same(Stop(st, "break"))
       [] op = "goto" -> Same([Stop(st, "goto") EXCEPT !.lab = x[2]])
       [] op = "label" -> Same(st)
       [] OTHER -> Same(Eval(st, env, x))

\* From statement i on, with the environments envs at the statements before it.
RECURSIVE From(_, _, _, _, _)
From(st, stmts, i, envs, n) ==
  LET r == Exec(st, envs[i], stmts[i])
      to == {j \in DOMAIN stmts : stmts[j] = <<"label", r.st.lab>>}
      j == CHOOSE k \in to : TRUE
      \* No variable is defined between the jump and a label behind it.
      envs1 == Tuple([k \in 1 .. Len(stmts) + 1 |-> IF k <= i THEN envs[k] ELSE envs[i]])
  IN IF i > Len(stmts) THEN [st |-> st, env |-> envs[i]]
     ELSE IF r.st.status = "goto" /\ to # {}
     THEN IF n = 0 THEN [st |-> Stop(st, "loops"), env |-> envs[i]] ELSE From(Stop(r.st, "run"), stmts, j, envs1, n - 1)
     ELSE IF Runs(r.st) THEN From(r.st, stmts, i + 1, [envs EXCEPT ![i + 1] = r.env], n)
     ELSE [st |-> r.st, env |-> envs[i]]

Block(st, env, stmts) ==
  IF Runs(st) THEN From(st, stmts, 1, Tuple([k \in 1 .. Len(stmts) + 1 |-> env]), MaxLoops) ELSE [st |-> st, env |-> env]

Meaning(stmts, args) ==
  LET st0 == World @@ [cells |-> <<>>, clos |-> <<>>, lab |-> ""]
      s == Block(st0, [names |-> <<>>, va |-> args], stmts).st
  IN IF s.status = "return" THEN Stop(s, "done") ELSE IF Runs(s) THEN Is(Stop(s, "done"), <<>>) ELSE s
-----------------------------------------------------------------------------
(* What the compiler rejects.  c is the context of a tree: the variables in   *)
(* scope, each with whether it is final; whether a loop and a function with   *)
(* extra arguments surround it; the labels a goto can reach.                 *)

Declared(x) ==
  CASE x[1] \in {"define", "let"} -> [y \in ToSet(x[2]) |-> x[1] = "let"]
    [] x[1] = "letrec" -> [y \in {x[2]} |-> TRUE]
    [] OTHER -> <<>>

Plain(names, final) == [y \in ToSet(names) |-> final]

RECURSIVE Legal(_, _), LegalBlock(_, _)

LegalAll(xs, c) == \A i \in DOMAIN xs : Legal(xs[i], c)
Target(x, c) ==
  /\ x[1] \in {"name", "index"} /\ Legal(x, c)
  /\ x[1] = "name" => ~At(c.locals, x[2], FALSE)

\* A goto reaches the labels of its block with no declaration in between, and
\* those of the blocks around it that have no namesake in the block.
LegalBlock(stmts, c) ==
  LET labels == {i \in DOMAIN stmts : stmts[i][1] = "label"}
      Reach(i) == {stmts[j][2] : j \in {j \in labels : \A k \in i + 1 .. j : Declared(stmts[k]) = <<>>}}
      Around(i) == [c EXCEPT !.locals = FoldLeft(LAMBDA l, j : Declared(stmts[j]) @@ l, @, Upto(1, i - 1)),
                             !.labels = Reach(i) \cup (@ \ {stmts[j][2] : j \in labels})]
  IN /\ \A i, j \in labels : i # j => stmts[i] # stmts[j]
     /\ \A i \in DOMAIN stmts : Legal(stmts[i], Around(i))

Legal(x, c) ==
  LET op == x[1]
      loop == [c EXCEPT !.loop = TRUE]
      In(names) == [loop EXCEPT !.locals = Plain(names, TRUE) @@ @]
  IN CASE op \in {"nil", "false", "true", "num", "str", "name", "label"} -> TRUE
       [] op = "vararg" -> c.va
       [] op \in Unops \cup Binops \cup Emulated \cup {"index"} -> LegalAll(Tail(x), c)
       [] op \in {"mconcat", "return"} -> LegalAll(x[2], c)
       [] op \in {"call", "call1"} -> Legal(x[2], c) /\ LegalAll(x[3], c)
       [] op \in {"callmeth", "callmeth1"} -> Legal(x[2], c) /\ LegalAll(x[4], c)
       [] op = "table" -> \A i \in DOMAIN x[2] : LegalAll(Tail(x[2][i]), c)
       [] op = "lambda" -> LegalBlock(x[3], [locals |-> Plain(x[2], FALSE) @@ c.locals, loop |-> FALSE,
                                            va |-> "vararg" \in ToSet(x[2]), labels |-> {}])
       [] op = "assign" -> Target(x[2], c) /\ Legal(x[3], c)
       [] op = "massign" -> LegalAll(x[3], c) /\ \A i \in DOMAIN x[2] : Target(x[2][i], c)
       [] op \in {"define", "let"} -> LegalAll(x[3], c)
       [] op = "letrec" -> Legal(x[3], [c EXCEPT !.locals = Declared(x) @@ @])
       [] op = "do" -> LegalBlock(x[2], c)
       [] op = "while" -> Legal(x[2], c) /\ LegalBlock(x[3], loop)
       [] op = "repeat" -> LegalBlock(x[2], loop)
       [] op = "loop" -> LegalAll(<<x[3], x[4], x[5]>>, c) /\ LegalBlock(x[6], In(<<x[2]>>))
       [] op = "for" -> LegalAll(x[3], c) /\ LegalBlock(x[4], In(x[2]))
       [] op = "if" -> Legal(x[2], c) /\ \A i \in DOMAIN x[3] : LegalBlock(<<x[3][i]>>, c)
       [] op = "cond" -> \A i \in DOMAIN x[2] : Legal(x[2][i][1], c) /\ LegalBlock(x[2][i][2], c)
       [] op = "break" -> c.loop
       [] op = "goto" -> x[2] \in c.labels

LegalProgram(stmts) == LegalBlock(stmts, [locals |-> <<>>, loop |-> FALSE, va |-> TRUE, labels |-> {}])

-----------------------------------------------------------------------------

Outcome(r) == [status |-> r.status, log |-> r.log,
               v |-> IF r.status = "done" THEN [i \in DOMAIN r.v |-> Show(r.v[i])] ELSE <<>>]

\* The compiler accepts the legal programs.  Its code does what the program
\* means: it makes the same calls in the same order and has the same results.
\* No assertion of the compiler fails, and the code is sound.  Programs that
\* loop too often are compiled only.
Behaves(stmts, args) ==
  LET S == lj_parse(stmts)
      M == Run(S, args)
      R == Meaning(stmts, args)
  IN IF LegalProgram(stmts)
     THEN S.err = "" /\ ~S.bad /\ (R.status # "loops" => ~M.bad /\ Outcome(M) = Outcome(R))
     ELSE S.err # ""
=============================================================================
