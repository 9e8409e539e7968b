------------------------------ MODULE MCTrace ------------------------------
(***************************************************************************)
(* Instances of Trace for TLC.                                             *)
(***************************************************************************)
EXTENDS Trace, TLC

CONSTANTS p1, p2, loop, func, ret, t1, t2, t3

Tr2 == {t1, t2}
Tr3 == {t1, t2, t3}
SymTr3 == Permutations(Tr3)

\* A function with a loop, and one without a loop and another one with it.
OneProto == [pc \in PC |-> p1]
TwoProtos == [pc \in PC |-> IF pc = loop THEN p2 ELSE p1]

\* The fields of the recorder that are read before they are assigned again, and
\* what is read of a trace that was flushed.
CompilerView ==
  CASE state \in {"IDLE", "MCODEAL", "CRASH"} -> <<>>
    [] state = "START" -> <<jpc, parent, exitno>>
    [] state = "DOWNREC" -> <<jpc>>
    [] state = "ERR" -> <<parent, exitno, cur, unroll, err, IF err = "DOWNREC" THEN jpc ELSE Nil>>
    [] OTHER -> <<parent, exitno, cur, unroll>>
ObjView == [t \in Tr |-> IF obj[t] # Free /\ obj[t].no = 0 THEN obj[t].link ELSE obj[t]]
View == <<codeVars, trace, sizetrace, freetrace, ObjView, dead, state, penVars, mcarea, run, conts,
          patch, cur.no, CompilerView>>
=============================================================================
