--------------------------- MODULE MCPromptRoutes ---------------------------
(***************************************************************************)
(* PromptRoutes for TLC.                                                   *)
(***************************************************************************)
EXTENDS PromptRoutes
=============================================================================
