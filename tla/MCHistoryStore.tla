--------------------------- MODULE MCHistoryStore ---------------------------
(***************************************************************************)
(* HistoryStore for TLC.                                                   *)
(***************************************************************************)
EXTENDS HistoryStore
=============================================================================
