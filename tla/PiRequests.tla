----------------------------- MODULE PiRequests ----------------------------
(***************************************************************************)
(* The request gate of crates/e-pi/src/adapter: which frontend requests    *)
(* may reach the Pi child now, which wait, and how Pi's responses, matched *)
(* by id, let the waiting ones go.                                         *)
(*                                                                         *)
(* The adapter is one object driven by one thread of the session worker:   *)
(* every handler runs to its end.  A handler that ends in `drain_deferred` *)
(* leaves draining = TRUE while that loop still has a request to route;    *)
(* nothing else is enabled until it is FALSE again.                        *)
(*                                                                         *)
(* Pi (external) reads its commands in order.  A state or history read is  *)
(* answered at once, so nothing sent after it overtakes it; every other    *)
(* command takes effect and is answered when Pi is ready.  A Pi step and   *)
(* the adapter's handling of the record it writes are one action here: the *)
(* records travel in order, and the adapter's own steps only add commands  *)
(* behind those Pi already has, so the delay between them is not visible.  *)
(***************************************************************************)
EXTENDS Integers, Sequences, FiniteSets, SequencesExt

CONSTANTS
  Kinds,          \* the AgentRequest variants the frontend uses in this run
  Models,         \* routes (provider, model and thinking level together)
  Sessions,       \* native sessions that exist at start; a new one is named by a number
  None,           \* no route, no session
  Dispositions,   \* what Pi says of an accepted prompt: see AllDispositions
  Failures,       \* the commands Pi may refuse in this run
  MaxDeferred,    \* capacity of deferred_requests (64 in the code)
  MaxAdmissions,  \* MAX_PENDING_PROMPT_ADMISSIONS (64 in the code)
  MaxRequests,    \* bound: requests the frontend makes
  MaxRuns         \* bound: native agent runs

PromptKinds     == {"input", "command", "skill"}
LineKinds       == {"command", "skill", "compact", "fork", "reload"}  \* AgentRequest::Command
ModelControls   == {"model", "modelEffort", "modelGet"}
Gated           == PromptKinds \cup ModelControls
                     \cup LineKinds
                     \cup {"steer", "clear", "new", "attach", "ping", "capture"}
RequestKinds    == Gated \cup {"interrupt"}
AllDispositions == {"started", "queued", "handled", "unknown"}

ASSUME ConstantsAssumption ==
  /\ Kinds \subseteq RequestKinds
  /\ Dispositions \subseteq AllDispositions
  /\ Dispositions # {}
  /\ None \notin Models \cup Sessions \cup Nat
  /\ Models # {} /\ Sessions # {}
  /\ MaxDeferred \in Nat /\ MaxAdmissions \in Nat
  /\ MaxRequests \in Nat /\ MaxRuns \in Nat

VARIABLES
  \* PiAdapter's fields; an id is a number of next_id, 0 stands for None
  deferred,       \* deferred_requests
  configuration,  \* configuration_request
  interrupt,      \* pending_interrupt with its interrupt_context
  resume,         \* pending_resume
  queueOp,        \* pending_queue.operation
  skillPrompt,    \* pending_skill_prompt
  admissions,     \* pending_prompt_admissions
  commandStates,  \* pending_command_states
  commandPrompt,  \* pending_command_prompt
  promptState,    \* pending_prompt_state
  compaction,     \* pending_compaction
  branch,         \* pending_fork
  reload,         \* the id of pending_reload
  session,        \* session_id
  attached,       \* last_attached_session
  model,          \* current_model and thinking_level
  generation,     \* run_generation
  nextId,         \* next_id
  draining,       \* inside the loop of drain_deferred
  \* the frontend and what it has been told of each request
  submitted, told,
  \* Pi and the pipe to it
  inflight, piSession, piModel

tables  == <<admissions, commandStates, commandPrompt>>
mirror  == <<session, attached, model>>
pi      == <<piSession, piModel>>
vars    == <<deferred, configuration, interrupt, resume, queueOp, skillPrompt,
             tables, promptState, compaction, branch, reload, mirror, generation, nextId,
             draining, submitted, told, inflight, pi>>

-----------------------------------------------------------------------------
Stages == {"none", "abort", "snapshot", "select", "compact",
           "restore-model", "restore-effort", "verify", "failed"}

NoInterrupt   == [id |-> 0, session |-> None, generation |-> 0]
NoQueueOp     == [id |-> 0, n |-> 0, session |-> None]
NoPromptState == [id |-> 0, n |-> 0, session |-> None]
NoSelection   == [id |-> 0, to |-> None]
NoCompaction  == [stage |-> "none", id |-> 0, route |-> None, target |-> None,
                  session |-> None, open |-> FALSE, finished |-> FALSE,
                  cancelled |-> FALSE, selection |-> NoSelection]

\* How far a /fork or /clone has come; "choice" is the user's.
BranchStages == {"none", "messages", "choice", "replace", "state", "history", "models",
                 "commands", "prompt"}
NoBranch == [stage |-> "none", id |-> 0, n |-> 0, source |-> None, target |-> None,
             message |-> FALSE, interrupted |-> FALSE]
Branching == branch.stage # "none"

SessionIds == Sessions \cup Nat \cup {None}
Routes     == Models \cup {None}

Targets(kind) ==
  CASE kind \in {"model", "modelEffort"} -> Models
    [] kind = "attach"                   -> Sessions
    [] OTHER                             -> {None}

\* A frontend request; n is its place in the order the frontend made them.
Request == {r \in [n : 0..MaxRequests, kind : RequestKinds, to : Models \cup Sessions \cup {None}] :
              r.to \in Targets(r.kind)}

\* The refresh the adapter makes for itself when it starts.
StartupRequest == [n |-> 0, kind |-> "ping", to |-> None]

\* Commands that Pi answers at once, in the order it reads them.
StateReads == {"state", "configuration-state", "new-state", "command-state",
               "handled-state", "resume-state", "interrupt-state",
               "prompt-state", "snapshot", "verify", "branch-state", "reload-state"}
Reads      == StateReads \cup {"resume-history", "branch-messages", "branch-history", "branch-models",
                               "branch-commands", "reload-models", "reload-commands"}
\* Commands that change the native session or route before they are answered.
Effects    == {"new", "resume-switch", "model", "new-model", "select", "restore-model",
               "branch-replace"}
\* The commands a reload, and a fork once it is chosen, consist of.
ReloadKinds == {"reload", "reload-state", "reload-models", "reload-commands"}
BranchKinds == {"branch-replace", "branch-state", "branch-history", "branch-models",
                "branch-commands"}
\* The commands a model change, a new session and an attach are made of.
Chain      == {"new", "new-model", "new-thinking", "new-state", "model", "thinking",
               "configuration-state", "resume-switch", "resume-state", "resume-history"}
                \cup ReloadKinds \cup BranchKinds
\* The commands that carry a prompt.
Bodies     == {"prompt", "command", "asap", "branch-prompt"}
CommandKinds == Reads \cup Chain \cup Bodies
                  \cup {"abort", "interrupt-abort", "select", "compact", "restore-model",
                        "restore-effort", "plain-compact", "branch-abort"}

CommandType ==
  {c \in [id : Nat \ {0}, kind : CommandKinds, req : Request, to : Routes \cup Sessions,
          done : BOOLEAN] :
     c.to \in IF c.kind = "resume-switch" THEN Sessions ELSE Routes}

Command(id, kind, r, to) ==
  [id |-> id, kind |-> kind, req |-> r, to |-> to, done |-> FALSE]

Send(kind, r, to) ==
  /\ inflight' = inflight \cup {Command(nextId, kind, r, to)}
  /\ nextId' = nextId + 1

Outcomes == {"command", "capture", "steer", "clear", "fork", "reload", "captured", "capture-failed",
             "queue-ok", "queue-failed", "success", "cancelled", "unconfirmed", "settled", "unsettled", "error"}

\* told[n] opens with the kind of a request that has an outcome of its own ...
Asked(kind) ==
  IF kind \in {"command", "capture", "steer", "clear", "fork", "reload"} THEN <<kind>> ELSE <<>>
\* ... and grows with every outcome reported.
Tell(n, what) == told' = [told EXCEPT ![n] = Append(@, what)]

\* queue::session_key
SessionKey == IF attached = None THEN session ELSE attached

-----------------------------------------------------------------------------
(* The gate *)

\* PiAdapter::request: a gated request waits while one of these is pending.
BlockedWithoutConfiguration ==
  interrupt.id # 0 \/ resume # 0 \/ queueOp.id # 0 \/ skillPrompt # 0 \/ compaction.stage # "none"
BlockedWithoutResume ==
  configuration # 0 \/ interrupt.id # 0 \/ queueOp.id # 0 \/ skillPrompt # 0
    \/ compaction.stage # "none"
BlockedWithoutCompaction ==
  configuration # 0 \/ interrupt.id # 0 \/ resume # 0 \/ queueOp.id # 0 \/ skillPrompt # 0
Blocked ==
  \/ configuration # 0
  \/ interrupt.id # 0
  \/ resume # 0
  \/ queueOp.id # 0
  \/ skillPrompt # 0
  \/ compaction.stage # "none"

\* The loop condition of drain_deferred.
Held ==
  \/ configuration # 0
  \/ interrupt.id # 0
  \/ resume # 0
  \/ queueOp.id # 0
  \/ skillPrompt # 0
  \/ Branching

\* compaction::controls_open
ControlsOpen ==
  /\ compaction.stage = "compact"
  /\ compaction.open
  /\ ~compaction.finished
  /\ ~compaction.cancelled
  /\ compaction.session = session

\* response::model_control_index: the model controls no session change,
\* new session or command stands before.
ReadyControlsAnywhere ==
  {i \in DOMAIN deferred : ControlsOpen /\ deferred[i].kind \in ModelControls}
ReadyControls ==
  {i \in DOMAIN deferred :
     /\ ControlsOpen
     /\ deferred[i].kind \in ModelControls
     /\ \A j \in 1..(i - 1) :
          deferred[j].kind \notin ModelControls
                                    \cup {"attach", "new"} \cup LineKinds}

\* The places of deferred the loop may take its next request from (at most one).
Drainable ==
  IF Held THEN {}
  ELSE IF compaction.stage = "none" THEN DOMAIN deferred \cap {1}
  ELSE ReadyControls

\* The end of a handler that calls drain_deferred.
StartDrain == draining' = (Drainable' # {})

\* r starts to be routed: just received, or taken by the loop.
Taken(r) ==
  \/ /\ ~draining
     /\ ~Blocked /\ ~Branching
     /\ r.n = submitted + 1
     /\ submitted < MaxRequests
     /\ submitted' = r.n
     /\ told' = [told EXCEPT ![r.n] = Asked(r.kind)]
     /\ UNCHANGED deferred
  \/ /\ draining
     /\ \E i \in Drainable : r = deferred[i] /\ deferred' = RemoveAt(deferred, i)
     /\ UNCHANGED <<submitted, told>>

\* The end of the routing of one request: back in the loop, or done.
RoutedOnce == draining' = FALSE
Routed == draining' = (draining /\ Drainable' # {})

\* The requests of these kinds the frontend may make next or the loop may take.
Offered(kinds) ==
  {r \in Range(deferred) : r.kind \in kinds}
    \cup UNION {[n : {submitted + 1}, kind : {k}, to : Targets(k)] : k \in kinds \cap Kinds}

\* What a request that will never run is told, where it has an outcome of its own.
\* "error" is the CommandResult of a fork or reload under way, and here the plain
\* Error event with which a refused one ends.
RefusalQueueOnly(kind) == IF kind \in {"steer", "clear"} THEN <<"queue-failed">> ELSE <<>>
Refusal(kind) ==
  CASE kind = "capture"            -> <<"capture-failed">>
    [] kind \in {"fork", "reload"}  -> <<"error">>
    [] kind \in {"steer", "clear"} -> <<"queue-failed">>
    [] OTHER                       -> <<>>

\* deferred_requests.push_back
EnqueuedFirst(r) == <<r>> \o deferred
Enqueued(r) == Append(deferred, r)

\* PiAdapter::request while something is pending: queue the request, or refuse it.
Defer ==
  \E r \in Offered(Gated) :
    /\ ~draining
    /\ Blocked /\ ~Branching
    /\ r.n = submitted + 1
    /\ submitted < MaxRequests
    /\ submitted' = r.n
    /\ IF Len(deferred) < MaxDeferred
         THEN /\ deferred' = Enqueued(r)
              /\ told' = [told EXCEPT ![r.n] = Asked(r.kind)]
         ELSE /\ told' = [told EXCEPT ![r.n] = Asked(r.kind) \o Refusal(r.kind)]
              /\ UNCHANGED deferred
    /\ UNCHANGED <<configuration, interrupt, resume, queueOp, skillPrompt, tables,
                   promptState, compaction, mirror, branch, reload, generation, nextId, inflight, pi>>
    /\ StartDrain

-----------------------------------------------------------------------------
(* request::route: one action per AgentRequest variant *)

\* The bound request::route and prompt_command check before a prompt is sent.
AdmissionsFullLate == Cardinality(admissions) + Cardinality(commandStates) > MaxAdmissions
AdmissionsFull == Cardinality(admissions) + Cardinality(commandStates) >= MaxAdmissions

Admission(id, r, counted) == [id |-> id, n |-> r.n, session |-> session, counted |-> counted]

RouteInput ==
  \E r \in Offered({"input"}) :
    /\ Taken(r)
    /\ IF AdmissionsFull
         THEN nextId' = nextId + 1 /\ UNCHANGED <<admissions, inflight>>
         ELSE /\ admissions' = admissions \cup {Admission(nextId, r, FALSE)}
              /\ Send("prompt", r, None)
    /\ UNCHANGED <<configuration, interrupt, resume, queueOp, skillPrompt, commandStates,
                   commandPrompt, promptState, compaction, mirror, branch, reload, generation, pi>>
    /\ Routed

\* command_line and prompt_command: a slash command, or a skill, which holds
\* later requests until Pi has admitted it when a message came with it.
RouteCommand ==
  \E r \in Offered({"command", "skill"}) :
    /\ Taken(r)
    /\ IF AdmissionsFull
         THEN /\ nextId' = nextId + 1
              /\ commandPrompt' = 0
              /\ UNCHANGED <<admissions, skillPrompt, inflight>>
         ELSE /\ commandPrompt' = nextId
              /\ admissions' = admissions \cup {Admission(nextId, r, r.kind = "command")}
              /\ skillPrompt' \in IF r.kind = "skill" THEN {nextId, skillPrompt} ELSE {skillPrompt}
              /\ Send("command", r, None)
    /\ UNCHANGED <<configuration, interrupt, resume, queueOp, commandStates,
                   promptState, compaction, mirror, branch, reload, generation, pi>>
    /\ Routed

RouteQueueOp ==
  \E r \in Offered({"steer", "clear"}) :
    /\ Taken(r)
    /\ queueOp' = [id |-> nextId, n |-> r.n, session |-> SessionKey]
    /\ Send("asap", r, None)
    /\ UNCHANGED <<configuration, interrupt, resume, skillPrompt, tables, promptState,
                   compaction, mirror, branch, reload, generation, pi>>
    /\ Routed

\* The submission takes the current route along, to restore it in the new session.
RouteNew ==
  \E r \in Offered({"new"}) :
    /\ Taken(r)
    /\ configuration' = nextId
    /\ Send("new", r, model)
    /\ UNCHANGED <<interrupt, resume, queueOp, skillPrompt, tables, promptState,
                   compaction, mirror, branch, reload, generation, pi>>
    /\ Routed

RouteAttach ==
  \E r \in Offered({"attach"}) :
    /\ Taken(r)
    /\ attached' = None
    /\ resume' = nextId
    /\ Send("resume-switch", r, r.to)
    /\ UNCHANGED <<configuration, interrupt, queueOp, skillPrompt, tables, promptState,
                   compaction, session, model, branch, reload, generation, pi>>
    /\ Routed

\* ModelSet; begin_model_selection records it in an open compaction.
RouteModel ==
  \E r \in Offered({"model", "modelEffort"}) :
    /\ Taken(r)
    /\ configuration' = nextId
    /\ compaction' =
         IF /\ compaction.stage = "compact" /\ compaction.open /\ ~compaction.finished
            /\ compaction.selection.id = 0 /\ compaction.session = session
           THEN [compaction EXCEPT !.selection = [id |-> nextId, to |-> r.to]]
           ELSE compaction
    /\ Send("model", r, r.to)
    /\ UNCHANGED <<interrupt, resume, queueOp, skillPrompt, tables, promptState,
                   mirror, branch, reload, generation, pi>>
    /\ Routed

\* ModelGet and Ping: read Pi's state (an open compaction answers ModelGet
\* from the catalog the adapter has).
RouteRead ==
  \E r \in Offered({"modelGet", "ping"}) :
    /\ Taken(r)
    /\ IF r.kind = "modelGet" /\ ControlsOpen
         THEN UNCHANGED <<nextId, inflight>>
         ELSE Send("state", r, None)
    /\ UNCHANGED <<configuration, interrupt, resume, queueOp, skillPrompt, tables,
                   promptState, compaction, mirror, branch, reload, generation, pi>>
    /\ Routed

CaptureFenceSwapped(id, r) == [id |-> r.n, n |-> id, session |-> session]
CaptureFence(id, r) == [id |-> id, n |-> r.n, session |-> session]

\* CapturePromptState: the fence that reads a Record's recovery baseline.
RouteCapture ==
  \E r \in Offered({"capture"}) :
    /\ Taken(r)
    /\ promptState' = CaptureFence(nextId, r)
    /\ configuration' = nextId
    /\ Send("prompt-state", r, None)
    /\ UNCHANGED <<interrupt, resume, queueOp, skillPrompt, tables,
                   compaction, mirror, branch, reload, generation, pi>>
    /\ Routed

\* `/compact`: with an override route, a transaction that opens with an abort.
RouteCompact ==
  \E r \in Offered({"compact"}) : \E target \in Models \cup {None} :
    /\ Taken(r)
    /\ IF target = None
         THEN Send("plain-compact", r, None) /\ UNCHANGED compaction
         ELSE /\ compaction' = [NoCompaction EXCEPT !.stage = "abort", !.id = nextId,
                                   !.target = target, !.session = session]
              /\ Send("abort", r, None)
    /\ UNCHANGED <<configuration, interrupt, resume, queueOp, skillPrompt, tables,
                   promptState, mirror, branch, reload, generation, pi>>
    /\ Routed

\* Interrupt is never queued: it cancels a compaction and raises its own fence.
Interrupt ==
  \E r \in Offered({"interrupt"}) :
    /\ ~draining /\ ~Branching
    /\ submitted < MaxRequests
    /\ submitted' = r.n
    /\ compaction' = IF compaction.stage = "none" THEN compaction
                     ELSE [compaction EXCEPT !.cancelled = TRUE, !.open = FALSE]
    /\ skillPrompt' = 0
    /\ interrupt' = [id |-> nextId, session |-> session, generation |-> generation]
    /\ Send("interrupt-abort", r, None)
    /\ UNCHANGED <<deferred, configuration, resume, queueOp, tables, promptState,
                   mirror, branch, reload, generation, draining, told, pi>>

-----------------------------------------------------------------------------
(* /reload, /fork and /clone *)

\* A slash command that is answered at once: just received, or taken by the loop.
Answered(r, what) ==
  /\ \/ /\ ~draining /\ ~Blocked /\ ~Branching
        /\ r.n = submitted + 1 /\ submitted < MaxRequests
        /\ submitted' = r.n
        /\ told' = [told EXCEPT ![r.n] = Append(Asked(r.kind), what)]
        /\ UNCHANGED deferred
     \/ /\ draining
        /\ \E i \in Drainable : r = deferred[i] /\ deferred' = RemoveAt(deferred, i)
        /\ Tell(r.n, what)
        /\ UNCHANGED submitted
  /\ UNCHANGED <<configuration, interrupt, resume, queueOp, skillPrompt, tables, promptState,
                 compaction, branch, reload, mirror, generation, nextId, inflight, pi>>
  /\ Routed

\* fork::command and command_line: Pi is not idle.  Streaming, Pi's own queue and
\* its dialogs are not modelled, so either command may be refused.
RouteBusy ==
  \E r \in Offered({"fork", "reload"}) : Answered(r, "error")

\* What a fork must not start with, of what is modelled.
Unsettled == attached = None \/ commandPrompt # 0 \/ deferred' # <<>>

\* fork::command: /fork asks for the messages to choose from, /clone goes ahead.
RouteFork ==
  \E r \in Offered({"fork"}) : \E stage \in {"messages", "replace"}, message \in BOOLEAN :
    /\ Taken(r)
    /\ ~Unsettled
    /\ branch' = [NoBranch EXCEPT !.stage = stage, !.id = nextId, !.n = r.n, !.source = session,
                                  !.message = message]
    /\ Send(IF stage = "messages" THEN "branch-messages" ELSE "branch-replace", r, None)
    /\ UNCHANGED <<configuration, interrupt, resume, queueOp, skillPrompt, tables, promptState,
                   compaction, reload, mirror, generation, pi>>
    /\ Routed

RouteReload ==
  \E r \in Offered({"reload"}) :
    /\ Taken(r)
    /\ configuration' = nextId
    /\ reload' = nextId
    /\ Send("reload", r, None)
    /\ UNCHANGED <<interrupt, resume, queueOp, skillPrompt, tables, promptState, compaction,
                   branch, mirror, generation, pi>>
    /\ Routed

\* PiAdapter::request while a fork is pending: refused, not queued.
Refuse ==
  \E r \in Offered(Gated) :
    /\ ~draining
    /\ Branching
    /\ r.n = submitted + 1
    /\ submitted < MaxRequests
    /\ submitted' = r.n
    /\ told' = [told EXCEPT ![r.n] = Asked(r.kind) \o Refusal(r.kind)]
    /\ UNCHANGED <<deferred, configuration, interrupt, resume, queueOp, skillPrompt, tables,
                   promptState, compaction, branch, reload, mirror, generation, nextId, draining,
                   inflight, pi>>

\* fork::finish
FinishKept(outcome) == UNCHANGED branch /\ Tell(branch.n, outcome)
Finish(outcome) == branch' = NoBranch /\ Tell(branch.n, outcome)

\* fork::answer, with a choice that is good in the session it was made for.
Choose ==
  /\ ~draining
  /\ branch.stage = "choice"
  /\ \/ /\ branch.source = session
        /\ branch' = [branch EXCEPT !.stage = "replace", !.id = nextId]
        /\ Send("branch-replace", [n |-> branch.n, kind |-> "fork", to |-> None], None)
        /\ UNCHANGED told
     \/ Finish("error") /\ UNCHANGED <<nextId, inflight>>
  /\ UNCHANGED <<deferred, configuration, interrupt, resume, queueOp, skillPrompt, tables,
                 promptState, compaction, reload, mirror, generation, draining, submitted, pi>>

\* fork::interrupt: nothing is lost before the choice; after it the fork goes on
\* to its end, for the session may have been replaced already.
InterruptBranch ==
  \E r \in Offered({"interrupt"}) :
    /\ ~draining
    /\ Branching
    /\ submitted < MaxRequests
    /\ submitted' = r.n
    /\ IF branch.stage \in {"messages", "choice"}
         THEN Finish("cancelled") /\ UNCHANGED <<nextId, inflight>>
         ELSE /\ branch' = [branch EXCEPT !.interrupted = TRUE]
              /\ Send("branch-abort", r, None)
              /\ UNCHANGED told
    /\ UNCHANGED <<deferred, configuration, interrupt, resume, queueOp, skillPrompt, tables,
                   promptState, compaction, reload, mirror, generation, draining, pi>>

-----------------------------------------------------------------------------
(* Pi, external *)

\* Pi may act on c now: the reads it was sent before are answered.
Answers(c) ==
  /\ ~draining
  /\ c \in inflight
  /\ ~\E d \in inflight : d.kind \in Reads /\ d.id < c.id

\* Pi switches the session or the route a command asks for, before it answers;
\* a session comes with a route of its own.  A fork may report success in the old one.
PiApply ==
  \E c \in inflight :
    /\ Answers(c)
    /\ c.kind \in Effects
    /\ ~c.done
    /\ inflight' = (inflight \ {c}) \cup {[c EXCEPT !.done = TRUE]}
    /\ \/ c.kind \in {"new", "branch-replace"} /\ piSession' = c.id /\ piModel' \in Routes
       \/ c.kind = "branch-replace" /\ UNCHANGED pi
       \/ c.kind = "resume-switch" /\ piSession' = c.to /\ piModel' \in Routes
       \/ c.kind \notin {"new", "resume-switch", "branch-replace"} /\ piModel' = c.to /\ UNCHANGED piSession
    /\ UNCHANGED <<deferred, configuration, interrupt, resume, queueOp, skillPrompt, tables,
                   promptState, compaction, mirror, branch, reload, generation, nextId, draining,
                   submitted, told>>

\* agent_start: a native run begins.
PiAgentStart ==
  /\ ~draining
  /\ generation < MaxRuns
  /\ generation' = generation + 1
  /\ UNCHANGED <<deferred, configuration, interrupt, resume, queueOp, skillPrompt, tables,
                 promptState, compaction, branch, reload, mirror, nextId, draining, submitted, told,
                 inflight, pi>>

\* compaction_start with reason "manual"; compaction::manual_started.
PiCompactionStart ==
  \E c \in inflight :
    /\ Answers(c)
    /\ c.kind = "compact"
    /\ ~c.done
    /\ inflight' = (inflight \ {c}) \cup {[c EXCEPT !.done = TRUE]}
    /\ compaction' =
         IF /\ compaction.stage = "compact" /\ ~compaction.finished /\ ~compaction.cancelled
            /\ ~compaction.open /\ compaction.session = session
           THEN [compaction EXCEPT !.open = TRUE]
           ELSE compaction
    /\ UNCHANGED <<deferred, configuration, interrupt, resume, queueOp, skillPrompt, tables,
                   promptState, mirror, branch, reload, generation, nextId, submitted, told, pi>>
    /\ StartDrain
=============================================================================
