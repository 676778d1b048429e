------------------------------ MODULE MCPiAuth ------------------------------
(***************************************************************************)
(* PiAuth for TLC.                                                         *)
(***************************************************************************)
EXTENDS PiAuth
=============================================================================
