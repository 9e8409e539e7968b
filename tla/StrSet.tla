------------------------------- MODULE StrSet -------------------------------
(***************************************************************************)
(* What the string table promises to the program: interning a text makes   *)
(* the string exist, and a string that the program holds is not collected. *)
(***************************************************************************)
CONSTANT Texts

VARIABLES interned, held

SetInit == interned = {} /\ held = {}

SetIntern(t) == interned' = interned \cup {t} /\ held' = held \cup {t}

\* A string that was created but whose reference got lost in an error.
SetLose(t) == interned' = interned \cup {t} /\ UNCHANGED held

SetDrop(t) == held' = held \ {t} /\ UNCHANGED interned

SetCollect == interned' \subseteq interned /\ held \subseteq interned' /\ UNCHANGED held

SetNext == SetCollect \/ \E t \in Texts : SetIntern(t) \/ SetLose(t) \/ SetDrop(t)

SetSpec == SetInit /\ [][SetNext]_<<interned, held>>
=============================================================================
