---------------------------- MODULE PromptRoutes ----------------------------
(***************************************************************************)
(* The other half of the Record protocol: what the frontend does with the  *)
(* adapter's events (controller/agent.rs), the adapter and Pi it talks to  *)
(* (external), and the specification of the whole.                         *)
(***************************************************************************)
EXTENDS PromptRecord

-----------------------------------------------------------------------------
(* Events: one is applied at a time, in the order the adapter made them *)

Event(kind, id, ok, to, ids) == [kind |-> kind, id |-> id, ok |-> ok, to |-> to, ids |-> ids]
Told(kind, id, ok) == Event(kind, id, ok, None, {})

Incoming(kinds) == toTui # <<>> /\ Head(toTui).kind \in kinds /\ toTui' = Tail(toTui)

\* SessionEvent::Status; a run's start and end also start and settle its turn.
OnStatus ==
  LET e == Head(toTui) IN
    /\ Incoming({"started", "settled", "status"})
    /\ running' = e.ok
    /\ interruptPending' = (interruptPending /\ e.ok)
    /\ working' = CASE e.kind = "started"           -> TRUE
                    [] e.kind = "settled"           -> FALSE
                    [] ~e.ok /\ pendingSub = <<>>   -> FALSE
                    [] OTHER                        -> working
    /\ owner' = IF temp.phase # "active" THEN owner
                ELSE [owner EXCEPT !.runObserved = IF e.ok THEN Owned ELSE @ /\ owner.consumed,
                                   !.awaitingRun = @ /\ ~(e.ok /\ owner.consumed)]
    /\ UNCHANGED <<pending, composer, pendingSub, current, temp, toAgent, pi, history>>

\* CatalogEvent::Models and model::confirm
OnCatalog ==
  LET e == Head(toTui) IN
    /\ Incoming({"catalog"})
    /\ current' = e.to
    /\ CASE temp.phase = "selecting" /\ e.to = temp.target ->
              temp' = [temp EXCEPT !.phase = "ready"] /\ UNCHANGED owner
         [] temp.phase \in {"restoring", "failed"} /\ e.to = temp.original ->
              temp' = NoTemp /\ owner' = NoOwner
         [] OTHER -> UNCHANGED <<temp, owner>>
    /\ UNCHANGED <<pending, composer, status, pendingSub, toAgent, pi, history>>

Borrowed(route) == [phase |-> "ready", original |-> route, target |-> route]

\* record::captured: the route to give back; or, after an interrupt, the proof
\* that the owner's prompt is over.
OnCaptured ==
  LET e == Head(toTui)
      waiting == Owned /\ owner.id = e.id
      queued == {i \in DOMAIN local : local[i].rec = e.id}
      kept == \E i \in DOMAIN failed : failed[i].rec = e.id IN
    /\ Incoming({"captured"})
    /\ CASE waiting /\ owner.cancel ->
              /\ owner' = IF e.ok THEN [owner EXCEPT !.cancel = FALSE, !.awaitingRun = FALSE,
                                                     !.recovered = TRUE]
                          ELSE owner
              /\ UNCHANGED <<temp, local>> /\ KeepBack
         [] waiting /\ owner.snapshot /\ ~owner.cancel /\ queued = {} /\ ~kept ->
              owner' = NoOwner /\ UNCHANGED <<temp, local>> /\ KeepBack
         [] waiting /\ owner.snapshot /\ ~owner.cancel /\ (queued # {} \/ kept) /\ e.ok ->
              /\ temp' = Borrowed(e.to)
              /\ owner' = [owner EXCEPT !.snapshot = FALSE]
              /\ UNCHANGED local /\ KeepBack
         [] waiting /\ owner.snapshot /\ ~owner.cancel /\ (queued # {} \/ kept) /\ ~e.ok ->
              /\ owner' = NoOwner
              /\ IF queued = {} THEN UNCHANGED local /\ KeepBack
                 ELSE \E i \in queued : local' = RemoveAt(local, i) /\ GiveBack(local[i])
              /\ UNCHANGED temp
         [] OTHER -> UNCHANGED <<owner, temp, local>> /\ KeepBack
    /\ UNCHANGED <<remote, sending, clearing, clearSent, status, pendingSub, current, toAgent, pi,
                   submitted, interrupts, ran, dropped>>

\* PromptDispatched: from here on the owner is admitted by name.
OnDispatched ==
  LET e == Head(toTui) IN
    /\ Incoming({"dispatched"})
    /\ owner' = IF Owned /\ owner.id = e.id /\ owner.sent /\ owner.admission = 0
                  THEN [owner EXCEPT !.admission = e.id, !.admitted = FALSE] ELSE owner
    /\ UNCHANGED <<pending, composer, status, pendingSub, current, temp, toAgent, pi, history>>

\* PromptAdmission: a run is expected, or Pi handled the prompt without one.
OnAdmission ==
  LET e == Head(toTui)
      mine == Owned /\ owner.admission = e.id IN
    /\ Incoming({"admission"})
    /\ owner' = IF ~mine THEN owner
                ELSE [owner EXCEPT
                        !.admitted = TRUE,
                        !.awaitingRun = e.ok /\ (~owner.consumed \/ ~owner.runObserved),
                        !.consumed = @ \/ ~e.ok,
                        !.commandPending = @ \/ ~e.ok]
    /\ pendingSub' = IF mine /\ ~e.ok THEN <<>> ELSE pendingSub
    /\ working' = (working /\ ~(mine /\ ~e.ok /\ ~running))
    /\ UNCHANGED <<pending, composer, running, interruptPending, current, temp, toAgent, pi, history>>

\* PromptSettlement of a prompt handled without a run
SettlesUnadmitted(e) == Owned /\ owner.admission = e.id /\ ~owner.admitted
Settles(e) == Owned /\ owner.admission = e.id /\ owner.commandPending
OnSettlement ==
  LET e == Head(toTui) IN
    /\ Incoming({"settlement"})
    /\ owner' = IF Settles(e) THEN [owner EXCEPT !.commandPending = FALSE] ELSE owner
    /\ UNCHANGED <<pending, composer, status, pendingSub, current, temp, toAgent, pi, history>>

\* AsapQueue: Pi's queue, and the result of a submission or clear if it is one.
Submitted(e) ==
  IF Owned /\ owner.id = sending.rec
    THEN [owner EXCEPT !.admitted = TRUE, !.awaitingRun = @ /\ e.ok, !.recovered = @ \/ ~e.ok]
    ELSE owner
ClearedKept(e) == owner
Cleared(e) ==
  IF e.ok /\ owner.sent /\ owner.admitted /\ ~owner.consumed
    THEN [owner EXCEPT !.awaitingRun = FALSE, !.consumed = TRUE, !.recovered = TRUE] ELSE owner

RefusedUnqueued(e) == e.kind = "submitted" /\ sending.id \notin e.ids \cup {0}
Refused(e) == e.kind = "submitted" /\ ~e.ok /\ sending.id # 0

OnAsapQueue ==
  LET e == Head(toTui)
      clears == clearing /\ (e.kind = "cleared") IN
    /\ Incoming({"queue", "submitted", "cleared"})
    /\ remote' = e.ids
    /\ owner' = CASE e.kind = "submitted" -> Submitted(e)
                  [] e.kind = "cleared" -> Cleared(e)
                  [] OTHER -> owner
    /\ sending' = IF e.kind = "submitted" THEN NoPrompt ELSE sending
    /\ failed' = IF Refused(e) /\ ~clearing THEN Append(failed, sending) ELSE failed
    /\ returned' = IF Refused(e) /\ ~clearing THEN returned \cup {sending.id} ELSE returned
    /\ dropped' = IF Refused(e) /\ clearing THEN dropped \cup {sending.id} ELSE dropped
    /\ clearing' = (clearing /\ e.kind # "cleared")
    /\ LET ask == clearing' /\ ~clearSent /\ sending'.id = 0 IN
         /\ clearSent' = ((clearSent /\ e.kind # "cleared") \/ ask)
         /\ toAgent' = IF ask THEN Append(toAgent, Request("clear", NoPrompt, None)) ELSE toAgent
    /\ UNCHANGED <<local, composer, status, pendingSub, current, temp, pi, submitted, interrupts, ran>>

\* The echo of a user message: record::observe, and the submission it settles.
OnUser ==
  LET e == Head(toTui)
      echoed == {i \in DOMAIN pendingSub : Looks(pendingSub[i], e.id)}
      left == IF echoed = {} THEN pendingSub
              ELSE RemoveAt(pendingSub, CHOOSE i \in echoed : \A j \in echoed : i <= j) IN
    /\ Incoming({"user"})
    /\ owner' = IF owner.sent /\ ~owner.consumed /\ ~owner.commandPending
                     /\ Looks(owner.prompt, e.id)
                  THEN [owner EXCEPT !.consumed = TRUE, !.awaitingRun = ~owner.runObserved,
                                     !.admitted = @ \/ owner.admission = 0]
                  ELSE owner
    /\ pendingSub' = left
    /\ working' = (working /\ (running \/ left # <<>>))
    /\ UNCHANGED <<pending, composer, running, interruptPending, current, temp, toAgent, pi, history>>

\* The owner's submission is not over: the error is taken to be its refusal.
RefusesOwner == Owned /\ (owner.commandPending \/ owner.awaitingRun \/ owner.runObserved)

\* apply_agent_error "pi-rpc-prompt": an admission was refused.  The user reads
\* of a prompt that is not given back.
OnPromptError ==
  LET e == Head(toTui)
      hit == RefusesOwner IN
    /\ Incoming({"prompt-error"})
    /\ owner' = IF hit THEN [owner EXCEPT !.commandPending = FALSE, !.awaitingRun = FALSE,
                                          !.recovered = TRUE]
                ELSE owner
    /\ IF hit /\ ~owner.recovered
         THEN GiveBack([NoPrompt EXCEPT !.id = owner.prompt, !.delivery = "after"]) ELSE KeepBack
    /\ pendingSub' = <<>>
    /\ working' = (working /\ running)
    /\ dropped' = IF hit THEN dropped ELSE dropped \cup {e.id}
    /\ UNCHANGED <<local, remote, sending, clearing, clearSent, running, interruptPending, current,
                   temp, toAgent, pi, submitted, interrupts, ran>>

\* The prompts a failed selection takes out of the queue (at most one).
Unroutable ==
  LET hit == {i \in DOMAIN local : IF Owned THEN local[i].rec = owner.id
                                            ELSE local[i].mark = temp.target} IN
    {i \in hit : \A j \in hit : i <= j}

\* apply_agent_error "model-failed": no body is sent, and what may have been
\* half selected is restored; a restoration that fails holds the barrier.
OnModelError ==
  /\ Incoming({"model-error"})
  /\ CASE temp.phase = "restoring" ->
            /\ temp' = [temp EXCEPT !.phase = "failed"]
            /\ UNCHANGED <<local, toAgent>> /\ KeepBack
       [] temp.phase = "selecting" ->
            /\ IF Unroutable = {} THEN UNCHANGED local /\ KeepBack
               ELSE \E i \in Unroutable : local' = RemoveAt(local, i) /\ GiveBack(local[i])
            /\ Restore
       [] OTHER -> UNCHANGED <<temp, local, toAgent>> /\ KeepBack
  /\ UNCHANGED <<remote, sending, clearing, clearSent, status, pendingSub, current, owner, pi,
                 submitted, interrupts, ran, dropped>>

-----------------------------------------------------------------------------
(* The adapter and Pi, external *)

Takes(kind) == toAgent # <<>> /\ Head(toAgent).kind = kind /\ toAgent' = Tail(toAgent)
Emit(events) == toTui' = toTui \o events
tui == <<pending, composer, status, pendingSub, current, temp, owner, submitted, interrupts, returned>>

\* What a state read reports.
State(live, route) == <<Told("status", 0, live), Event("catalog", 0, TRUE, route, {})>>

\* A refused change may have been carried out in part.
TakeModel ==
  LET r == Head(toAgent) IN
    /\ Takes("model")
    /\ \/ piRoute' = r.to /\ Emit(State(piRunning, r.to))
       \/ /\ (IF r.to = Base THEN "restore" ELSE "select") \in Failures
          /\ piRoute' \in {piRoute, r.to}
          /\ Emit(<<Told("model-error", 0, FALSE)>>)
    /\ UNCHANGED <<tui, piRunning, piQueue, starting, ran, dropped>>

TakeCapture ==
  LET r == Head(toAgent) IN
    /\ Takes("capture")
    /\ \/ Emit(State(piRunning, piRoute) \o <<Event("captured", r.p.rec, TRUE, piRoute, {})>>)
       \/ "capture" \in Failures /\ Emit(<<Told("captured", r.p.rec, FALSE)>>)
    /\ UNCHANGED <<tui, pi, ran, dropped>>

TakeInput ==
  LET r == Head(toAgent) IN
    /\ Takes("input")
    /\ starting' = starting \cup {[id |-> r.p.id, to |-> r.to]}
    /\ Emit(IF r.p.rec # 0 THEN <<Told("dispatched", r.p.id, TRUE)>> ELSE <<>>)
    /\ UNCHANGED <<tui, piRoute, piRunning, piQueue, ran, dropped>>

Ran(p) == ran' = ran \cup {[id |-> p.id, promised |-> p.to, under |-> piRoute]}

\* Pi accepts p and says so: p joins the queue of the run there is, or starts
\* one at once, before Pi reads another command.
Joining(p) == IF piRunning THEN Append(piQueue, p) ELSE piQueue
Accept(p, answer) ==
  /\ piQueue' = Joining(p)
  /\ piRunning' = TRUE
  /\ IF piRunning THEN Emit(answer) /\ UNCHANGED ran
     ELSE /\ Ran(p)
          /\ Emit(answer \o <<Told("started", 0, TRUE), Told("user", p.id, TRUE)>>)

\* While the adapter waits for the answer it keeps queue updates to itself.
TakeSteer ==
  LET r == Head(toAgent)
      p == [id |-> r.p.id, to |-> r.to] IN
    /\ Takes("steer")
    /\ \/ Accept(p, <<Event("submitted", 0, TRUE, None, Ids(Joining(p)))>>)
       \/ /\ "steer" \in Failures
          /\ Emit(<<Event("submitted", 0, FALSE, None, Ids(piQueue))>>)
          /\ UNCHANGED <<piRunning, piQueue, ran>>
    /\ UNCHANGED <<tui, piRoute, starting, dropped>>

TakeClear ==
  /\ Takes("clear")
  /\ \/ /\ piQueue' = <<>>
        /\ dropped' = dropped \cup Ids(piQueue)
        /\ Emit(<<Event("cleared", 0, TRUE, None, {})>>)
     \/ /\ "clear" \in Failures
        /\ Emit(<<Event("cleared", 0, FALSE, None, Ids(piQueue))>>)
        /\ UNCHANGED <<piQueue, dropped>>
  /\ UNCHANGED <<tui, piRoute, piRunning, starting, ran>>

\* Interrupt overtakes what waits at the adapter's gate; it ends the run, and
\* with it perhaps Pi's queue.
TakeInterrupt ==
  \E i \in DOMAIN toAgent :
    /\ toAgent[i].kind = "interrupt"
    /\ i > 1 => Head(toAgent).kind \in {"model", "capture", "steer", "clear"}
    /\ toAgent' = RemoveAt(toAgent, i)
    /\ piRunning' = FALSE
    /\ piQueue' \in {piQueue, <<>>}
    /\ Emit((IF piRunning THEN <<Told("settled", 0, FALSE)>> ELSE <<>>)
            \o (IF piQueue' # piQueue THEN <<Event("queue", 0, TRUE, None, {})>> ELSE <<>>)
            \o State(FALSE, piRoute))
    /\ UNCHANGED <<tui, piRoute, starting, ran, dropped>>

\* The preflight of a prompt ends: Pi accepts it ...
PiAccept ==
  \E p \in starting :
    /\ starting' = starting \ {p}
    /\ Accept(p, (IF piRunning THEN <<Event("queue", 0, TRUE, None, Ids(Joining(p)))>> ELSE <<>>)
                 \o <<Told("admission", p.id, TRUE)>>)
    /\ UNCHANGED <<tui, toAgent, piRoute, dropped>>

\* ... or refuses it ...
PiRefuse ==
  \E p \in starting :
    /\ "prompt" \in Failures
    /\ starting' = starting \ {p}
    /\ Emit(<<Told("prompt-error", p.id, FALSE)>>)
    /\ UNCHANGED <<tui, toAgent, piRoute, piRunning, piQueue, ran, dropped>>

\* ... or deals with it without a run.
PiHandle ==
  \E p \in starting :
    /\ Handled
    /\ starting' = starting \ {p}
    /\ Ran(p)
    /\ Emit(<<Told("admission", p.id, FALSE)>> \o State(piRunning, piRoute)
            \o <<Told("settlement", p.id, TRUE)>>)
    /\ UNCHANGED <<tui, toAgent, piRoute, piRunning, piQueue, dropped>>

PiConsume ==
  /\ piRunning /\ piQueue # <<>>
  /\ piQueue' = Tail(piQueue)
  /\ Ran(Head(piQueue))
  /\ Emit(<<Event("queue", 0, TRUE, None, Ids(piQueue')), Told("user", Head(piQueue).id, TRUE)>>)
  /\ UNCHANGED <<tui, toAgent, piRoute, piRunning, starting, dropped>>

PiSettle ==
  /\ piRunning /\ piQueue = <<>>
  /\ piRunning' = FALSE
  /\ Emit(<<Told("settled", 0, FALSE)>>)
  /\ UNCHANGED <<tui, toAgent, piRoute, piQueue, starting, ran, dropped>>

-----------------------------------------------------------------------------
Init ==
  /\ local = <<>> /\ remote = {} /\ sending = NoPrompt /\ failed = <<>>
  /\ clearing = FALSE /\ clearSent = FALSE /\ composer = 0
  /\ running = FALSE /\ working = FALSE /\ interruptPending = FALSE
  /\ pendingSub = <<>> /\ current = Base /\ temp = NoTemp /\ owner = NoOwner
  /\ toAgent = <<>> /\ toTui = <<>>
  /\ piRoute = Base /\ piRunning = FALSE /\ piQueue = <<>> /\ starting = {}
  /\ submitted = 0 /\ interrupts = 0 /\ ran = {} /\ returned = {} /\ dropped = {}

User == SubmitRecord \/ SubmitPlain \/ CancelAsap \/ CancelLatest \/ Interrupt \/ EmptyComposer
Dispatch ==
  \/ DispatchRestore \/ DispatchCapture \/ DispatchFail \/ DispatchSelect \/ DispatchSend
  \/ PlainRestore \/ PlainSelect \/ PlainSend
Receive ==
  \/ OnStatus \/ OnCatalog \/ OnCaptured \/ OnDispatched \/ OnAdmission \/ OnSettlement
  \/ OnAsapQueue \/ OnUser \/ OnPromptError \/ OnModelError
Take == TakeModel \/ TakeCapture \/ TakeInput \/ TakeSteer \/ TakeClear \/ TakeInterrupt
Answer == PiAccept \/ PiRefuse \/ PiHandle
Run == PiConsume \/ PiSettle

Next == User \/ Dispatch \/ Receive \/ Take \/ Answer \/ Run

Spec == Init /\ [][Next]_vars
FairSpec ==
  /\ Spec
  /\ WF_vars(Dispatch) /\ WF_vars(Receive) /\ WF_vars(Take) /\ WF_vars(Answer) /\ WF_vars(Run)

-----------------------------------------------------------------------------
(* Properties *)

\* A prompt with a promised route runs under it.
RightRoute == \A r \in ran : r.promised \in {None, r.under} \/ r.id \in dropped

\* A prompt given back to the user never runs as well.
NotTwice == \A r \in ran : r.id \notin returned

\* While Pi uses a borrowed route the frontend knows it has to give it back.
LoanKnown == piRoute # Base => temp.phase # "none"

\* The routes a Record borrows and those it returns keep to what was promised.
RoutesKept == RightRoute /\ LoanKnown

\* Every Record's barrier is lowered in the end.
BarrierLowered == Owned ~> (~Owned \/ temp.phase = "failed" \/ owner.cancel)

\* No prompt is forgotten.
Over(p) == p \in returned \cup dropped \/ \E r \in ran : r.id = p
NoneStranded ==
  \A p \in 1..MaxPrompts :
    submitted >= p ~> (Over(p) \/ temp.phase = "failed" \/ failed # <<>> \/ owner.cancel)

\* Records let the queue behind them go, and every prompt gets its turn.
QueueMoves == BarrierLowered /\ NoneStranded
=============================================================================
