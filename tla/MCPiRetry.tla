----------------------------- MODULE MCPiRetry -----------------------------
(***************************************************************************)
(* PiRetry for TLC.  Sessions are only compared.                           *)
(***************************************************************************)
EXTENDS PiRetry, TLC

Symmetry == Permutations(Sessions)
=============================================================================
