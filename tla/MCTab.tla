------------------------------- MODULE MCTab -------------------------------
(***************************************************************************)
(* A table whose string keys die, are collected and interned again.        *)
(***************************************************************************)
EXTENDS Tab

CONSTANTS s1, s2, s3, s4, s5

NoInts == [k \in IntKeys |-> 0]
Colliding == [s \in StrKeys |-> IF s = s5 THEN 5 ELSE 0]
EightNodes == {<<0, 3>>}
=============================================================================
