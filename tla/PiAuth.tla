------------------------------ MODULE PiAuth ------------------------------
(***************************************************************************)
(* Native authentication: the login page of the frontend                   *)
(* (e-tui/src/login.rs), AuthManager in the session worker                 *)
(* (e-pi/src/auth.rs), the helper process that runs the login and changes  *)
(* the stored credential (auth_helper.mjs), and the companion in the       *)
(* running Pi that refreshes its models afterwards (auth_companion.mjs).   *)
(*                                                                         *)
(* A flow is one login or logout.  Page, worker, helper and Pi run side by *)
(* side over ordered channels; the helper may crash, its replacement may   *)
(* not start, and Pi may take longer for a refresh than the worker waits.  *)
(* A request takes effect as it is sent, and what Pi writes is read as it  *)
(* is written: with the answers still on their way both directions cross   *)
(* as they do when either waits.  Providers, methods, notices and the      *)
(* values typed are left out.                                              *)
(***************************************************************************)
EXTENDS Integers, Sequences, FiniteSets

CONSTANTS
  MaxFlows,      \* bound: flows
  MaxSessions,   \* bound: native sessions of the conversation
  MaxOpens,      \* bound: times the page is opened
  MaxContexts,   \* bound: contexts Pi publishes
  MaxEvents      \* bound: openings of the page, prompts, contexts and crashes in all

ASSUME BoundsAssumption == {MaxFlows, MaxSessions, MaxOpens, MaxContexts, MaxEvents} \subseteq Nat

VARIABLES
  page,        \* the login page: its kind, flow, prompt, and whether it lists providers
  toPage,      \* events of the worker
  auth,        \* AuthManager
  queued,      \* its queued actions
  helper,      \* the helper process
  outbox,      \* what the worker has not read of the helper
  pi,          \* the session of Pi, and the rest of its context
  refreshing,  \* flows the companion refreshes for
  opens, flows, prompts, contexts, crashes,   \* counters
  \* history
  stored,      \* flows that changed the stored credential
  refreshed,   \* flows the running Pi was refreshed for
  reported,    \* the outcomes reported, by flow
  lapses       \* the ways the code is known to lose a flow, as they happened

machine   == <<helper, outbox>>
companion == <<pi, refreshing, contexts>>
history   == <<stored, refreshed, reported, lapses>>
vars == <<page, toPage, auth, queued, helper, outbox, pi, refreshing, opens, flows, prompts,
          contexts, crashes, stored, refreshed, reported, lapses>>

-----------------------------------------------------------------------------
Budget == opens + prompts + contexts + crashes < MaxEvents

None    == 0
Refused == -1      \* the names "busy" and "blocked"
Flows   == 1..MaxFlows

Closed          == [kind |-> "closed", flow |-> None, prompt |-> None, listed |-> FALSE]
Providers(list) == [kind |-> "providers", flow |-> None, prompt |-> None, listed |-> list]
Waiting(flow)   == [kind |-> "waiting", flow |-> flow, prompt |-> None, listed |-> FALSE]
Asking(flow, p) == [kind |-> "prompt", flow |-> flow, prompt |-> p, listed |-> FALSE]
Ended           == [kind |-> "outcome", flow |-> None, prompt |-> None, listed |-> FALSE]

Message(kind, flow, arg) == [kind |-> kind, flow |-> flow, arg |-> arg]
Started(flow)            == Message("started", flow, opens)
Finished(flow, verdict)  == [kind |-> "finished", flow |-> flow, arg |-> verdict]

NoContext == [session |-> 0, trusted |-> FALSE]

NoHelper == [alive |-> FALSE, flow |-> None, asking |-> None, aborted |-> FALSE,
             stored |-> FALSE]
NewHelper == [NoHelper EXCEPT !.alive = TRUE]

\* the worker's side of the helper: there is one, and its writer still writes
Sends(ok) == IF ~auth.helper THEN ok = FALSE
             ELSE helper.alive => ok = TRUE

Report(event) == IF event.kind = "finished" /\ event.flow # Refused
                 THEN [reported EXCEPT ![event.flow] = Append(@, event.arg)]
                 ELSE reported

-----------------------------------------------------------------------------
(* AuthManager *)

\* events of one handler go out together, in their order
Publish(events) ==
  /\ toPage' = toPage \o events
  /\ reported' = IF events = << >> THEN reported ELSE Report(events[Len(events)])

\* dropping the process kills it, and what it wrote is gone
DropHelper == helper' = NoHelper /\ outbox' = << >>

\* the helper, and what it writes, once it has read a request
Tell(state, records) ==
  IF helper.alive THEN helper' = state /\ outbox' = outbox \o records
  ELSE UNCHANGED machine

Withdrawn == Message("withdrawn", helper.flow, helper.asking)

\* AuthGet
GetCatalog ==
  LET id == auth.next IN
  \E ok \in BOOLEAN :
    /\ Sends(ok)
    /\ IF ok
       THEN /\ auth' = [auth EXCEPT !.last = TRUE, !.next = id + 1, !.catalog = id,
                                    !.catalogDue = TRUE]
            /\ Tell(helper, <<Message("catalog", None, id)>>)
            /\ Publish(<< >>)
            /\ UNCHANGED lapses
       ELSE /\ auth' = [auth EXCEPT !.last = TRUE, !.next = id + 1, !.catalog = None,
                                    !.catalogDue = FALSE, !.helper = FALSE]
            /\ DropHelper
            /\ Publish(<<Message("catalog", None, 0)>>)
            /\ lapses' = IF auth.active # None THEN lapses \cup {"helper"} ELSE lapses

Outcome(flow, committed, verdict) ==
  [kind |-> "outcome", flow |-> flow, arg |-> verdict, committed |-> committed]

\* one mutation at a time
Begun(flow) == IF helper.flow = None THEN Tell([helper EXCEPT !.flow = flow], << >>)
               ELSE Tell(helper, <<Outcome(flow, FALSE, "failed")>>)

Anyway == TRUE
Free == auth.active = None

\* AuthStart; the worker refuses it itself while the conversation works
StartFlow ==
  LET flow == flows + 1 IN
  \/ /\ Publish(<<Started(Refused), Finished(Refused, "failed")>>)
     /\ UNCHANGED <<auth, machine, flows, lapses>>
  \/ /\ Free /\ flows < MaxFlows
     /\ flows' = flow
     /\ \E ok \in BOOLEAN :
          /\ Sends(ok)
          /\ IF ok
             THEN /\ auth' = [auth EXCEPT !.active = flow]
                  /\ Begun(flow)
                  /\ Publish(<<Started(flow)>>)
             ELSE /\ auth' = [auth EXCEPT !.helper = FALSE]
                  /\ DropHelper
                  /\ Publish(<<Started(flow), Finished(flow, "failed")>>)
     /\ UNCHANGED lapses

\* AuthReply and AuthCancel; `Effect` is what the helper makes of it
PassOn(Effect) ==
  \E ok \in BOOLEAN :
    /\ Sends(ok)
    /\ IF ok
       THEN /\ Effect
            /\ Publish(<< >>)
            /\ UNCHANGED <<auth, lapses>>
       ELSE IF auth.active # None
       THEN /\ auth' = [auth EXCEPT !.helper = FALSE, !.active = None]
            /\ DropHelper
            /\ Publish(<<Finished(auth.active, "unknown")>>)
            /\ lapses' = IF auth.pending # None THEN lapses \cup {"helper"} ELSE lapses
       ELSE /\ Publish(<< >>)
            /\ UNCHANGED <<auth, machine, lapses>>

Answered(prompt) ==
  Tell(IF helper.asking = prompt THEN [helper EXCEPT !.asking = None] ELSE helper, << >>)

AbortedAsking ==
  IF helper.flow = None \/ helper.asking = None THEN UNCHANGED machine
  ELSE Tell([helper EXCEPT !.aborted = TRUE, !.asking = None], <<Withdrawn>>)
Aborted ==
  IF helper.flow = None THEN UNCHANGED machine
  ELSE Tell([helper EXCEPT !.aborted = TRUE, !.asking = None],
            IF helper.asking = None THEN << >> ELSE <<Withdrawn>>)

-----------------------------------------------------------------------------
(* The login page; its requests are AuthManager's, further up *)

\* /login and /logout
Open ==
  /\ page.kind = "closed" /\ opens < MaxOpens /\ Budget
  /\ opens' = opens + 1
  /\ page' = Providers(FALSE)
  /\ GetCatalog
  /\ UNCHANGED <<queued, companion, flows, prompts, crashes, stored, refreshed>>

\* the method of a provider, or the confirmed logout
Choose ==
  /\ page.kind = "providers" /\ page.listed
  /\ page' = Waiting(None)
  /\ StartFlow
  /\ UNCHANGED <<queued, companion, opens, prompts, crashes, stored, refreshed>>

Answer ==
  /\ page.kind = "prompt"
  /\ page' = Waiting(page.flow)
  /\ IF page.flow = auth.active
     THEN PassOn(Answered(page.prompt))
     ELSE UNCHANGED <<toPage, auth, machine, reported, lapses>>
  /\ UNCHANGED <<queued, companion, opens, flows, prompts, crashes, stored, refreshed>>

\* leaving a prompt cancels the flow and waits, leaving the wait cancels and closes
Leave ==
  /\ page.kind \in {"prompt", "waiting"}
  /\ page' = IF page.kind = "prompt" THEN Waiting(page.flow) ELSE Closed
  /\ PassOn(Aborted)
  /\ UNCHANGED <<queued, companion, opens, flows, prompts, crashes, stored, refreshed>>

Exit ==
  /\ page.kind \in {"providers", "outcome"}
  /\ page' = Closed
  /\ UNCHANGED <<toPage, auth, queued, machine, companion, opens, flows, prompts, crashes,
                 history>>

\* a question of an extension takes the place of the page
Replaced ==
  /\ page.kind # "closed"
  /\ page' = Closed
  /\ lapses' = IF page.kind \in {"prompt", "waiting"} THEN lapses \cup {"page"} ELSE lapses
  /\ UNCHANGED <<toPage, auth, queued, machine, companion, opens, flows, prompts, crashes,
                 stored, refreshed, reported>>

Accepts(flow) == page.kind \in {"waiting", "prompt"} /\ page.flow = flow /\ flow # None

Shown(event) ==
  CASE event.kind = "started" -> IF page.kind = "closed" THEN page ELSE Waiting(event.flow)
    [] event.kind = "prompt" ->
         IF Accepts(event.flow) THEN Asking(event.flow, event.arg) ELSE page
    [] event.kind = "withdrawn" ->
         IF page.kind = "prompt" /\ page.flow = event.flow /\ page.prompt = event.arg
         THEN Waiting(event.flow) ELSE page
    [] event.kind = "finished" -> IF Accepts(event.flow) THEN Ended ELSE page
    [] event.kind = "catalog" ->
         IF page.kind = "closed" THEN page ELSE Providers(event.arg = 1)

\* a catalog takes the place of a flow, or a page opened again shows a flow
\* that the page before it asked for
Misplaced(event) ==
  \/ event.kind = "catalog" /\ page.kind \in {"waiting", "prompt"}
  \/ event.kind = "started" /\ page.kind # "closed" /\ event.arg # opens

PageApplies ==
  /\ toPage # << >>
  /\ page' = Shown(Head(toPage))
  /\ toPage' = Tail(toPage)
  /\ lapses' = IF Misplaced(Head(toPage)) THEN lapses \cup {"page"} ELSE lapses
  /\ UNCHANGED <<auth, queued, machine, companion, opens, flows, prompts, crashes,
                 stored, refreshed, reported>>

-----------------------------------------------------------------------------
\* what was queued goes out before anything else is received
TakeQueued ==
  /\ queued # << >>
  /\ queued' = Tail(queued)
  /\ Publish(<<Head(queued)>>)
  /\ UNCHANGED <<page, auth, machine, companion, opens, flows, prompts, crashes,
                 stored, refreshed, lapses>>

\* Fatal and Eof
LoseHelperOnly ==
  /\ auth' = [auth EXCEPT !.helper = FALSE]
  /\ DropHelper
  /\ Publish(<< >>)
  /\ UNCHANGED refreshing
LoseHelperQuietly ==
  /\ auth' = [auth EXCEPT !.active = None, !.pending = None, !.refreshDue = FALSE,
                          !.helper = FALSE]
  /\ DropHelper
  /\ Publish(IF auth.active = None \/ auth.pending # None THEN << >>
             ELSE <<Finished(auth.active, "unknown")>>)
  /\ UNCHANGED refreshing
LoseHelper ==
  /\ auth' = [auth EXCEPT !.active = None, !.pending = None, !.refreshDue = FALSE,
                          !.helper = FALSE]
  /\ DropHelper
  /\ Publish(IF auth.active = None THEN << >> ELSE <<Finished(auth.active, "unknown")>>)
  /\ UNCHANGED refreshing

Anyones(record) == TRUE
Ours(record) == record.flow = auth.active

\* the flow's outcome: a changed credential is reported when Pi has refreshed
ConcludeEarly(record) ==
  /\ Ours(record)
  /\ auth' = [auth EXCEPT !.active = None]
  /\ refreshing' = IF record.committed THEN refreshing \cup {record.flow} ELSE refreshing
  /\ Publish(<<Finished(record.flow, record.arg)>>)
Conclude(record) ==
  IF ~Ours(record)
  THEN Publish(<< >>) /\ UNCHANGED <<auth, refreshing>>
  ELSE IF record.committed
  THEN /\ auth' = [auth EXCEPT !.pending = record.flow, !.refreshDue = TRUE]
       /\ refreshing' = refreshing \cup {record.flow}
       /\ Publish(<< >>)
  ELSE /\ auth' = [auth EXCEPT !.active = None]
       /\ Publish(<<Finished(record.flow, record.arg)>>)
       /\ UNCHANGED refreshing

List(record) ==
  IF record.arg = auth.catalog
  THEN /\ auth' = [auth EXCEPT !.catalog = None, !.catalogDue = FALSE]
       /\ \E listed \in {0, 1} : Publish(<<Message("catalog", None, listed)>>)
  ELSE Publish(<< >>) /\ UNCHANGED auth

\* AuthManager::record, and recv
TakeRecord ==
  LET record == Head(outbox) IN
  /\ auth.helper /\ outbox # << >> /\ queued = << >>
  /\ \/ record.kind = "eof" /\ LoseHelper
     \/ /\ record.kind # "eof"
        /\ outbox' = Tail(outbox)
        /\ UNCHANGED helper
        /\ \/ record.kind = "outcome" /\ Conclude(record)
           \/ record.kind = "catalog" /\ List(record) /\ UNCHANGED refreshing
           \/ /\ record.kind \in {"prompt", "withdrawn"}
              /\ Publish(IF Ours(record) THEN <<record>> ELSE << >>)
              /\ UNCHANGED <<auth, refreshing>>
  /\ UNCHANGED <<page, queued, pi, contexts, opens, flows, prompts, crashes,
                 stored, refreshed, lapses>>

\* expire_deadlines
RefreshForgotten ==
  /\ auth.refreshDue /\ queued = << >>
  /\ auth' = [auth EXCEPT !.refreshDue = FALSE]
  /\ Publish(<< >>)
  /\ UNCHANGED <<page, queued, machine, companion, opens, flows, prompts, crashes,
                 stored, refreshed, lapses>>
RefreshOverdue ==
  /\ auth.refreshDue /\ queued = << >>
  /\ IF auth.pending = None
     THEN auth' = [auth EXCEPT !.refreshDue = FALSE] /\ Publish(<< >>)
     ELSE /\ auth' = [auth EXCEPT !.refreshDue = FALSE, !.pending = None, !.active = None]
          /\ Publish(<<Finished(auth.pending, "changed")>>)
  /\ UNCHANGED <<page, queued, machine, companion, opens, flows, prompts, crashes,
                 stored, refreshed, lapses>>

CatalogOverdue ==
  /\ auth.catalogDue /\ queued = << >>
  /\ auth' = [auth EXCEPT !.catalogDue = FALSE, !.catalog = None]
  /\ Publish(IF auth.catalog = None THEN << >> ELSE <<Message("catalog", None, 0)>>)
  /\ UNCHANGED <<page, queued, machine, companion, opens, flows, prompts, crashes,
                 stored, refreshed, lapses>>

\* AuthControl::Refresh
TakeRefresh ==
  \E flow \in refreshing, answer \in {"done", "failed", "none"} :
    /\ refreshing' = refreshing \ {flow}
    /\ refreshed' = IF answer = "done" THEN refreshed \cup {flow} ELSE refreshed
    /\ IF answer = "none"
       THEN Publish(<< >>) /\ UNCHANGED <<auth, lapses>>
       ELSE IF auth.pending = flow
       THEN /\ auth' = [auth EXCEPT !.pending = None, !.active = None, !.refreshDue = FALSE]
            /\ Publish(<<Finished(flow, IF answer = "done" THEN "succeeded" ELSE "changed")>>)
            /\ UNCHANGED lapses
       ELSE /\ auth' = [auth EXCEPT !.pending = None]
            /\ Publish(<< >>)
            /\ lapses' = IF auth.pending = None THEN lapses ELSE lapses \cup {"refresh"}
    /\ UNCHANGED <<page, queued, machine, pi, contexts, opens, flows, prompts, crashes, stored>>

Moved(context) == auth.context # NoContext /\ auth.context.session # context.session

\* configure: the old helper has ended when the new one starts; what it was
\* doing it may have finished before
Configure(context) ==
  LET moved == Moved(context)
      base  == [auth EXCEPT !.active = None, !.pending = None, !.refreshDue = FALSE,
                            !.last = IF moved THEN FALSE ELSE @,
                            !.catalog = IF moved THEN None ELSE @,
                            !.catalogDue = IF moved THEN FALSE ELSE @]
  IN
  /\ queued' = (IF moved THEN << >> ELSE queued) \o
               (IF auth.active = None THEN << >>
                ELSE <<Finished(auth.active, IF moved THEN "unchanged" ELSE "unknown")>>)
  /\ lapses' = IF moved /\ queued # << >> THEN lapses \cup {"queued"} ELSE lapses
  /\ \E late \in SUBSET ({helper.flow} \ {None}) : stored' = stored \cup late
  /\ \/ \* a helper starts, and lists the providers for the page again
        /\ helper' = NewHelper
        /\ outbox' = IF base.last THEN <<Message("catalog", None, auth.next)>> ELSE << >>
        /\ auth' = [base EXCEPT !.helper = TRUE, !.context = context,
                                !.next = IF base.last THEN @ + 1 ELSE @,
                                !.catalog = IF base.last THEN auth.next ELSE @,
                                !.catalogDue = base.last \/ @]
     \/ \* it does not start, and the old one is over
        /\ helper' = NoHelper
        /\ outbox' = IF helper.alive THEN Append(outbox, Message("eof", None, None)) ELSE outbox
        /\ auth' = base

\* the context is asked for whenever the commands of Pi are read again
TakeContext ==
  /\ contexts < MaxContexts /\ Budget
  /\ contexts' = contexts + 1
  /\ \E context \in {pi, [pi EXCEPT !.session = @ + 1], [pi EXCEPT !.trusted = ~@]} :
       /\ context.session <= MaxSessions
       /\ pi' = context
       /\ IF auth.context = context /\ auth.helper
          THEN UNCHANGED <<auth, queued, machine, stored, lapses>>
          ELSE Configure(context)
  /\ UNCHANGED <<page, toPage, refreshing, opens, flows, prompts, crashes, refreshed, reported>>

-----------------------------------------------------------------------------
(* The helper *)

Write(records) == outbox' = outbox \o records

\* a prompt of a flow that was aborted is withdrawn at once
HelperAsks ==
  LET id == prompts + 1 IN
  /\ helper.flow # None /\ ~helper.stored /\ helper.asking = None /\ Budget
  /\ prompts' = id
  /\ helper' = IF helper.aborted THEN helper ELSE [helper EXCEPT !.asking = id]
  /\ Write(<<Message("prompt", helper.flow, id)>>
           \o (IF helper.aborted THEN <<Message("withdrawn", helper.flow, id)>> ELSE << >>))
  /\ UNCHANGED <<page, toPage, auth, queued, companion, opens, flows, crashes,
                 history>>

\* the provider has its answer from elsewhere
HelperWithdraws ==
  /\ helper.asking # None
  /\ helper' = [helper EXCEPT !.asking = None]
  /\ Write(<<Withdrawn>>)
  /\ UNCHANGED <<page, toPage, auth, queued, companion, opens, flows, prompts,
                 crashes, history>>

\* Pi stores the credential; an abort may come too late
HelperStores ==
  /\ helper.flow # None /\ helper.asking = None /\ ~helper.stored
  /\ helper' = [helper EXCEPT !.stored = TRUE]
  /\ stored' = stored \cup {helper.flow}
  /\ UNCHANGED <<page, toPage, auth, queued, outbox, companion, opens, flows,
                 prompts, crashes, refreshed, reported, lapses>>

\* mutate settles; Pi may fail to synchronize what it has stored
HelperEnds ==
  /\ helper.flow # None /\ helper.asking = None
  /\ \E verdict \in {"succeeded", "cancelled", "failed"} :
       /\ verdict = "succeeded" => helper.stored
       /\ helper.aborted => verdict # "failed"
       /\ Write(<<Outcome(helper.flow, helper.stored, verdict)>>)
  /\ helper' = [helper EXCEPT !.flow = None, !.stored = FALSE, !.aborted = FALSE]
  /\ UNCHANGED <<page, toPage, auth, queued, companion, opens, flows, prompts,
                 crashes, history>>

\* what it wrote may be lost with it
HelperCrashes ==
  /\ helper.alive /\ Budget
  /\ crashes' = crashes + 1
  /\ helper' = NoHelper
  /\ \E n \in 0..Len(outbox) :
       outbox' = Append(SubSeq(outbox, 1, n), Message("eof", None, None))
  /\ UNCHANGED <<page, toPage, auth, queued, companion, opens, flows, prompts,
                 history>>

-----------------------------------------------------------------------------
Init ==
  /\ page = Closed /\ toPage = << >>
  /\ auth = [active |-> None, pending |-> None, refreshDue |-> FALSE,
             catalog |-> None, catalogDue |-> FALSE, last |-> FALSE, next |-> 1,
             helper |-> FALSE, context |-> NoContext]
  /\ queued = << >>
  /\ helper = NoHelper /\ outbox = << >>
  /\ pi = [session |-> 1, trusted |-> FALSE]
  /\ refreshing = {}
  /\ opens = 0 /\ flows = 0 /\ prompts = 0 /\ contexts = 0 /\ crashes = 0
  /\ stored = {} /\ refreshed = {} /\ reported = [flow \in Flows |-> << >>] /\ lapses = {}

Step ==
  \/ Open \/ Choose \/ Answer \/ Leave \/ Exit \/ Replaced \/ PageApplies
  \/ TakeQueued \/ TakeRecord \/ RefreshOverdue \/ CatalogOverdue
  \/ TakeRefresh \/ TakeContext
  \/ HelperAsks \/ HelperWithdraws \/ HelperStores
  \/ HelperEnds \/ HelperCrashes

\* a behaviour is followed until a flow is lost
Next == lapses = {} /\ Step

Spec == Init /\ [][Next]_vars

\* The loops of the page and of the worker go on, deadlines pass, a running
\* helper reads its requests and a login ends that waits for nobody; the user
\* answers a prompt or leaves it.  Nothing is assumed of Pi's refreshes.
Respond == page.kind = "prompt" /\ (Answer \/ Leave)

FairSpec ==
  /\ Spec
  /\ WF_vars(PageApplies) /\ WF_vars(Respond)
  /\ WF_vars(TakeQueued) /\ WF_vars(TakeRecord)
  /\ WF_vars(RefreshOverdue)
  /\ WF_vars(HelperEnds)

-----------------------------------------------------------------------------
(* Properties *)

\* An outcome is reported once for a flow, and says what became of the
\* credential: a success means that the credential changed and the running Pi
\* knows, a plain failure or cancellation that it did not change.
VerdictTrue ==
  \A flow \in Flows :
    /\ Len(reported[flow]) <= 1
    /\ \A i \in DOMAIN reported[flow] :
         /\ reported[flow][i] = "succeeded" => flow \in stored \cap refreshed
         /\ reported[flow][i] = "changed" => flow \in stored
         /\ reported[flow][i] \in {"cancelled", "failed"} => flow \notin stored

\* A flow the worker holds is still owed an outcome: its request, the helper's
\* run, the helper's outcome or end, or the refresh stands between it and the
\* user.  Four paths of the code lose it (lapses).
Owed(flow) ==
  \/ helper.flow = flow
  \/ \E i \in DOMAIN outbox : \/ outbox[i].kind = "eof"
                              \/ outbox[i].kind = "outcome" /\ outbox[i].flow = flow
  \/ auth.pending = flow /\ auth.refreshDue
FlowOwed == auth.active # None /\ lapses = {} => Owed(auth.active)

\* Once a flow's outcome is on its way to the page, nothing of the flow follows.
NothingAfter ==
  \A i, j \in DOMAIN toPage :
    i < j /\ toPage[i].kind = "finished" /\ toPage[i].flow # Refused
      => toPage[j].flow # toPage[i].flow

\* The helper runs no flow but the one the worker holds.
OneMutation == helper.flow # None => helper.flow = auth.active

\* A flow that runs, waits for an answer of the user and is not being left has
\* its prompt on the page, or on the way there.
Reachable(flow) ==
  \/ Accepts(flow)
  \/ \E i \in DOMAIN toPage : toPage[i].kind = "started" /\ toPage[i].flow = flow
  \/ helper.aborted
FlowReachable ==
  helper.flow # None /\ helper.flow = auth.active /\ lapses = {}
    => Reachable(helper.flow)

\* There is one flow; it can be answered and cancelled, it is owed an outcome,
\* and the outcome is its last word.
FlowSound == FlowOwed /\ NothingAfter /\ OneMutation /\ FlowReachable

\* A flow comes to an end, however helper, Pi and user behave.
FlowFinishes ==
  \A flow \in Flows : auth.active = flow ~> (auth.active # flow \/ lapses # {})

\* The outcome of a flow that changed the credential is reported.
ChangeReported ==
  \A flow \in Flows : flow \in stored ~> (reported[flow] # << >> \/ lapses # {})
=============================================================================
