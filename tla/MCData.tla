------------------------------- MODULE MCData -------------------------------
(***************************************************************************)
(* Instances of the data structures; in each behaviour one of them moves.  *)
(* The third part are the TP programs: one step compiles and runs one.     *)
(***************************************************************************)
EXTENDS Tab, StrTab, TLC

CONSTANTS w1, w2, w3, MaxStack, MaxSteps, MaxLoops

VARIABLES part, prog

TP == INSTANCE TPPrograms

\* Hash values: the keys 4 and w1, and 1, 2 and w2, collide in small tables.
IntHashes == [k \in IntKeys |-> (3 * k) % 4]
StrHashes1 == [s \in StrKeys |-> 1]
Hashes == [t \in Texts |-> CASE t = w1 -> 0 [] t = w2 -> 3 [] t = w3 -> 5]
EmptyTab == {<<0, 0>>, <<2, 1>>}

DataInit ==
  /\ part \in {"tab", "str", "tp"}
  /\ prog \in IF part = "tp" THEN TP!Programs ELSE {<<>>}
  /\ TabInit /\ StrTabInit
  /\ part # "tab" => tab = newtab(0, 0)
  /\ part # "str" => Size(strhash) = 1

\* A chunk is loaded, called and gone.
RunChunk == prog # <<>> /\ prog' = <<>>

DataNext ==
  /\ UNCHANGED part
  /\ \/ part = "tab" /\ TabNext /\ UNCHANGED <<strVars, prog>>
     \/ part = "str" /\ StrTabNext /\ UNCHANGED <<tabVars, prog>>
     \/ part = "tp" /\ RunChunk /\ UNCHANGED <<tabVars, strVars>>

DataSpec == DataInit /\ [][DataNext]_<<tabVars, strVars, part, prog>>

\* Of the programs of TPPrograms, the compiler of tj_parse.c accepts exactly the
\* legal ones, and what it makes of them behaves as the programs mean: registers,
\* jump lists, scopes, gotos and upvalues are in order.
CompiledBehaves == [][prog # prog' => TP!Behaves(prog, TP!Args)]_<<part, prog>>
=============================================================================
