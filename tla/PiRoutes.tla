------------------------------ MODULE PiRoutes ------------------------------
(***************************************************************************)
(* The adapter with a record of the route the conversation should be on.   *)
(* A compaction with a route of its own borrows Pi's, and restores it when *)
(* it is over (compaction.rs); what it has to restore is not always what   *)
(* it borrowed, for the user may select a route meanwhile.  `due` is that  *)
(* route, kept from what happens and not from the fields of the adapter    *)
(* that are to restore it.  It is a history variable: no action is held or *)
(* changed by it.                                                          *)
(***************************************************************************)
EXTENDS PiAdapter

VARIABLE due    \* history: Pi's route, as it has to be when no compaction borrows it

\* "... the original conversation route is the fallback, and each newer
\* authoritatively confirmed conversation selection supersedes it"
\* (doco/specs/interaction-and-sessions.md).  Outside a compaction the route is
\* due that Pi has; during one, what the last confirmed selection brought.
Track == due' = IF compaction.stage = "none" \/ SelectionConfirm THEN piModel' ELSE due

RoutesInit == Init /\ due = piModel
RoutesNext == Next /\ Track

RoutesSpec == RoutesInit /\ [][RoutesNext]_<<vars, due>>
FairRoutesSpec ==
  /\ RoutesSpec
  /\ WF_<<vars, due>>(draining /\ Route /\ Track)
  /\ WF_<<vars, due>>(Pi /\ Track)

-----------------------------------------------------------------------------
(* Properties *)

\* However a compaction ends -- done, refused at any step, cancelled, with
\* selections confirmed or failed in it -- Pi is on the route due, unless the
\* compaction ends as failed and holds what depends on the route.
RouteRestored == compaction.stage = "none" => piModel = due

\* No prompt leaves while Pi is on a route the compaction borrowed.
PromptsOnRoute == (\E c \in Sent : c.kind \in Bodies) => piModel' = due'

\* Outside a compaction, with no change of route or session under way, the
\* route shown is the route Pi uses.
RouteMirrored ==
  compaction.stage = "none" /\ attached # None /\ (\A c \in inflight : c.kind \notin Chain)
    => model = piModel

\* A compaction gives back the route it borrowed, or the one selected meanwhile,
\* before any prompt leaves, and that route is shown.
RouteReturned == [][RouteRestored' /\ RouteMirrored' /\ PromptsOnRoute]_<<vars, due>>
=============================================================================
