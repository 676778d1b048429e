---------------------------- MODULE MCPiAdapter ----------------------------
(***************************************************************************)
(* PiAdapter for TLC.  Routes and sessions are model values; the adapter   *)
(* only compares them, so the safety runs take them up to renaming.        *)
(***************************************************************************)
EXTENDS PiAdapter

Symmetry == Permutations(Models) \cup Permutations(Sessions)
=============================================================================
