------------------------------- MODULE TabMap -------------------------------
(***************************************************************************)
(* What a table promises: a partial function from keys to values.  A store *)
(* assigns to some keys at once, storing nil removes a key, and clearing   *)
(* the table removes all of them.                                          *)
(***************************************************************************)
CONSTANTS MapKeys, MapVals, MapNil,
  MapRuns       \* sets of keys that one instruction assigns together

VARIABLE map

MapInit == map = [k \in MapKeys |-> MapNil]

\* The keys in the domain of the argument are assigned.
MapStore(f) == map' = [k \in MapKeys |-> IF k \in DOMAIN f THEN f[k] ELSE map[k]]

MapClear == map' = [k \in MapKeys |-> MapNil]

MapNext == MapClear \/ \E ks \in MapRuns : \E f \in [ks -> MapVals \cup {MapNil}] : MapStore(f)

MapSpec == MapInit /\ [][MapNext]_map
=============================================================================
