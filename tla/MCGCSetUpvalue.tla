--------------------------- MODULE MCGCSetUpvalue ---------------------------
(***************************************************************************)
(* Instances of GCSetUpvalue for TLC.                                      *)
(***************************************************************************)
EXTENDS GCSetUpvalue, MCGC
=============================================================================
