--------------------------- MODULE MCSideSession ---------------------------
(***************************************************************************)
(* SideSession for TLC.                                                    *)
(***************************************************************************)
EXTENDS SideSession
=============================================================================
