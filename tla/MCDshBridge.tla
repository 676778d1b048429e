---------------------------- MODULE MCDshBridge ----------------------------
(* The bridge with one client, a few messages and two connections. *)
EXTENDS DshBridge
=============================================================================
