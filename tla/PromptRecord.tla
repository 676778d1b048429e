---------------------------- MODULE PromptRecord ----------------------------
(***************************************************************************)
(* A Record is a prompt the frontend owns together with the route it must  *)
(* run under (crates/e-tui/src/runtime/controller/record.rs and model.rs): *)
(* the route is borrowed, the prompt sent, its progress followed through   *)
(* the adapter's events, and the route given back.  PendingPromptQueue     *)
(* (interaction.rs) holds what waits.                                      *)
(*                                                                         *)
(* The frontend is one loop: it applies one event or key at a time and     *)
(* then calls dispatch_next_queued; nothing is interleaved with a handler. *)
(* Requests and events travel in two ordered channels.  The adapter and Pi *)
(* (external) carry requests out one by one, as PiAdapter shows its gate   *)
(* does; a prompt, once handed to Pi, goes its own way: its admission is   *)
(* answered, and its body runs, when Pi is ready.                          *)
(*                                                                         *)
(* One session; no draft of a new one, no slash command, skill or          *)
(* compaction.  A prompt's text is not modelled: prompts are alike or not. *)
(***************************************************************************)
EXTENDS Integers, Sequences, FiniteSets, SequencesExt

CONSTANTS
  Models,       \* routes: provider, model and effort together
  Base,         \* the route in use at start, which the user never changes here
  None,         \* no route asked for
  Unavailable,  \* routes the catalog no longer offers when a Record comes up
  Kinds,        \* how prompts are submitted: "macro", "plain", "marked"
  Failures,     \* what may be refused: "select", "restore", "capture", "prompt", "steer", "clear"
  Alike,        \* whether all prompts have the same text
  Handled,      \* whether Pi may handle a prompt without a run
  MaxPrompts,   \* bound: prompts the user submits
  MaxInterrupts \* bound: times the user interrupts

ASSUME ConstantsAssumption ==
  /\ Base \in Models /\ None \notin Models
  /\ Unavailable \subseteq Models \ {Base}
  /\ Kinds \subseteq {"macro", "plain", "marked"}
  /\ Alike \in BOOLEAN /\ Handled \in BOOLEAN
  /\ MaxPrompts \in Nat /\ MaxInterrupts \in Nat

VARIABLES
  \* InteractionModel: the PendingPromptQueue and the prompt the composer was given back
  local, remote, sending, failed, clearing, clearSent, composer,
  \* SessionModel and CatalogModel
  running,           \* status is Running (else Idle)
  working, interruptPending, pendingSub, current,
  temp,              \* temporary_model
  owner,             \* macro_execution
  \* the two channels
  toAgent, toTui,
  \* the adapter and Pi
  piRoute, piRunning, piQueue,
  starting,         \* prompts whose preflight Pi has not finished
  \* history: prompts submitted; those that ran, with the route promised and the
  \* route used; those given back to the user; those the user gave up
  submitted, interrupts, ran, returned, dropped

pending == <<local, remote, sending, failed, clearing, clearSent>>
status  == <<running, working, interruptPending>>
pi      == <<piRoute, piRunning, piQueue, starting>>
history == <<submitted, interrupts, ran, returned, dropped>>
vars    == <<pending, composer, status, pendingSub, current, temp, owner, toAgent, toTui, pi, history>>

-----------------------------------------------------------------------------
Routes == Models \cup {None}

\* interaction::Record; mark is its `model`, route its `prompt_state`, rec its
\* record_id (0: none).  Record identities are unique, so the prompt's own does.
Prompt ==
  [id : 1..MaxPrompts, rec : 0..MaxPrompts, delivery : {"asap", "after"}, mark : Routes, route : Routes]
NoPrompt == [id |-> 0, rec |-> 0, delivery |-> "asap", mark |-> None, route |-> None]

NoTemp == [phase |-> "none", original |-> None, target |-> None]

\* RecordExecution
NewOwner(p) ==
  [id |-> p.rec, prompt |-> p.id, snapshot |-> FALSE, cancel |-> FALSE, sent |-> FALSE,
   admitted |-> FALSE, consumed |-> FALSE, awaitingRun |-> FALSE, runObserved |-> FALSE,
   commandPending |-> FALSE, admission |-> 0, recovered |-> FALSE]
NoOwner == NewOwner(NoPrompt)
Owned   == owner.id # 0

\* Every prompt looks like p, or only p itself does.
Looks(p, q) == p = q \/ Alike

-----------------------------------------------------------------------------
(* What the frontend's handlers test *)

\* RuntimeState::is_agent_idle
AgentIdle == ~running /\ ~working /\ ~interruptPending
\* PendingPromptQueue::has_backend, is_empty, has_asap
HasBackend == sending.id # 0 \/ remote # {}
QueueEmpty == local = <<>> /\ failed = <<>> /\ ~HasBackend /\ ~clearing
HasAsap ==
  \/ clearing \/ HasBackend
  \/ \E i \in DOMAIN local : local[i].delivery = "asap"
  \/ \E i \in DOMAIN failed : failed[i].delivery = "asap"

\* PendingPromptQueue::next_index, called with asap_only = ~is_fully_idle.
Asaps == {i \in DOMAIN local : local[i].delivery = "asap"}
NextIndex ==
  IF sending.id # 0 \/ clearing THEN {}
  ELSE IF Asaps # {} THEN {i \in Asaps : \A j \in Asaps : i <= j}
  ELSE IF AgentIdle /\ remote = {} /\ failed = <<>> THEN DOMAIN local \cap {1}
  ELSE {}

\* model::blocked
BlockedLax == owner.snapshot \/ owner.cancel \/ temp.phase \in {"selecting", "failed"}
Blocked == owner.snapshot \/ owner.cancel \/ temp.phase \in {"selecting", "restoring", "failed"}

\* The owner's submission is still out: command, admission or run to come.
Unfinished ==
  owner.commandPending \/ owner.awaitingRun \/ (owner.sent /\ ~owner.admitted /\ ~owner.recovered)

\* model::should_restore, for a next prompt marked `mark`.
ShouldRestore(mark) ==
  /\ temp.phase # "none"
  /\ ~Blocked
  /\ AgentIdle
  /\ ~HasBackend
  /\ Owned => ~Unfinished
  /\ temp.phase = "active" \/ mark # temp.target

\* model::select has nothing to ask for: the route is already held.
Selected(target) ==
  /\ temp.target = target
  /\ temp.phase \in {"ready", "active"}
  /\ Owned => current = target

Ask(request)    == toAgent' = Append(toAgent, request)
Request(kind, p, to) == [kind |-> kind, p |-> p, to |-> to]

\* model::restore
Restore ==
  /\ temp' = [temp EXCEPT !.phase = "restoring"]
  /\ Ask(Request("model", NoPrompt, temp.original))

\* The prompt goes back to an empty composer, or stays visible as failed.
GiveBack(p) ==
  /\ IF composer = 0
       THEN composer' = p.id /\ UNCHANGED failed
       ELSE failed' = Append(failed, p) /\ UNCHANGED composer
  /\ returned' = returned \cup {p.id}
KeepBack == UNCHANGED <<failed, composer, returned>>

\* admit_submission
Admit(p) == pendingSub' = Append(pendingSub, p.id) /\ working' = (working \/ AgentIdle)

-----------------------------------------------------------------------------
(* The user *)

Fresh(rec, delivery, mark, route) ==
  [id |-> submitted + 1, rec |-> IF rec THEN submitted + 1 ELSE 0, delivery |-> delivery,
   mark |-> mark, route |-> route]

Submits == submitted < MaxPrompts /\ submitted' = submitted + 1

\* enqueue_record: a macro; and, while a Record owns the route, any prompt.
SubmitRecord ==
  \E delivery \in {"asap", "after"}, route \in Routes :
    /\ Submits
    /\ \/ "macro" \in Kinds
       \/ Owned /\ (IF route = None THEN "plain" ELSE "marked") \in Kinds
    /\ local' = Append(local, Fresh(TRUE, delivery, None, route))
    /\ UNCHANGED <<remote, sending, failed, clearing, clearSent, composer, status, pendingSub,
                   current, temp, owner, toAgent, toTui, pi, interrupts, ran, returned, dropped>>

\* submit_prompt without an owner: a marked prompt waits for its route; a plain
\* one goes at once, or waits (enqueue_or_immediate).
SubmitPlain ==
  \E delivery \in {"asap", "after"}, mark \in Routes :
    LET p == Fresh(FALSE, delivery, mark, None) IN
      /\ ~Owned
      /\ (IF mark = None THEN "plain" ELSE "marked") \in Kinds
      /\ Submits
      /\ IF mark = None /\ QueueEmpty /\ temp.phase = "none" /\ AgentIdle
           THEN Admit(p) /\ Ask(Request("input", p, None)) /\ UNCHANGED local
           ELSE local' = Append(local, p) /\ UNCHANGED <<pendingSub, working, toAgent>>
      /\ UNCHANGED <<remote, sending, failed, clearing, clearSent, composer, running,
                     interruptPending, current, temp, owner, toTui, pi, interrupts, ran,
                     returned, dropped>>

Ids(s) == {s[i].id : i \in DOMAIN s}

\* s without its ASAP prompts.
Afters(s) ==
  LET kept[n \in 0..Len(s)] ==
        IF n = 0 THEN <<>>
        ELSE IF s[n].delivery = "asap" THEN kept[n - 1] ELSE Append(kept[n - 1], s[n])
  IN kept[Len(s)]

\* Escape over a queue that holds ASAP prompts (cancel_asap, take_clear_request) ...
CancelAsap ==
  /\ HasAsap /\ ~clearing
  /\ local' = Afters(local)
  /\ failed' = Afters(failed)
  /\ dropped' = dropped \cup {local[i].id : i \in Asaps} \cup remote \cup ({sending.id} \ {0})
  /\ clearing' = HasBackend
  /\ clearSent' = (HasBackend /\ sending.id = 0)
  /\ toAgent' = IF HasBackend /\ sending.id = 0
                  THEN Append(toAgent, Request("clear", NoPrompt, None)) ELSE toAgent
  /\ UNCHANGED <<remote, sending, composer, status, pendingSub, current, temp, owner, toTui, pi,
                 submitted, interrupts, ran, returned>>

\* ... or none (cancel_latest).
CancelLatest ==
  /\ ~QueueEmpty /\ ~HasAsap
  /\ IF local # <<>>
       THEN local' = Front(local) /\ dropped' = dropped \cup {Last(local).id} /\ UNCHANGED failed
       ELSE failed' = Front(failed) /\ UNCHANGED <<local, dropped>>
  /\ UNCHANGED <<remote, sending, clearing, clearSent, composer, status, pendingSub, current,
                 temp, owner, toAgent, toTui, pi, submitted, interrupts, ran, returned>>

\* InputAction::Interrupt, with nothing queued, while not idle.  A Record that
\* was sent stays, and reads the state behind the abort.
Interrupt ==
  /\ QueueEmpty
  /\ Owned \/ running
  /\ interrupts < MaxInterrupts
  /\ interrupts' = interrupts + 1
  /\ interruptPending' = TRUE
  /\ pendingSub' = <<>>
  /\ dropped' = dropped \cup ((1..submitted) \ ({r.id : r \in ran} \cup returned))
  /\ IF owner.sent
       THEN /\ owner' = [owner EXCEPT !.cancel = TRUE]
            /\ toAgent' = toAgent \o <<Request("interrupt", NoPrompt, None),
                                       Request("capture", [NoPrompt EXCEPT !.rec = owner.id], None)>>
       ELSE Ask(Request("interrupt", NoPrompt, None)) /\ UNCHANGED owner
  /\ UNCHANGED <<pending, composer, running, working, current, temp, toTui, pi,
                 submitted, ran, returned>>

\* The user takes what the composer was given back, to edit and submit as new.
EmptyComposer ==
  /\ composer # 0
  /\ composer' = 0
  /\ UNCHANGED <<pending, status, pendingSub, current, temp, owner, toAgent, toTui, pi, history>>

-----------------------------------------------------------------------------
(* record::dispatch *)

RecordPath == Owned \/ \E i \in NextIndex : local[i].rec # 0
RecordHeld == (~Owned /\ pendingSub # <<>>) \/ HasBackend \/ Blocked

\* A Record that was sent may only be replaced by an ASAP prompt, once it was
\* admitted and consumed.
Replaceable ==
  /\ owner.admitted /\ owner.consumed
  /\ ~owner.awaitingRun /\ ~owner.commandPending
  /\ \E i \in NextIndex : local[i].delivery = "asap"
HoldsTurn == owner.sent /\ ~Replaceable

RecordOpen == ~interruptPending /\ RecordPath /\ ~RecordHeld

\* A prompt queued outside the Record chain joins it, at the front.
Joined(p) ==
  IF p.rec # 0 THEN p ELSE [p EXCEPT !.rec = p.id, !.route = p.mark, !.mark = None]
JoinedQueue(i) ==
  IF local[i].rec # 0 THEN local ELSE <<Joined(local[i])>> \o RemoveAt(local, i)

Current(i) == RecordOpen /\ ~HoldsTurn /\ i \in NextIndex /\ (AgentIdle \/ running)

\* command::record_route: a Record without overrides runs under the baseline.
TargetCurrent(p) == IF p.route = None THEN current ELSE p.route
Target(p) == IF p.route = None THEN temp.original ELSE p.route

Heir(p) == IF owner.id = p.rec THEN owner ELSE NewOwner(p)

DispatchRestore ==
  /\ RecordOpen
  /\ temp.phase # "none"
  /\ \/ HoldsTurn /\ ShouldRestore(None)
     \/ ~HoldsTurn /\ NextIndex = {}
  /\ Restore
  /\ UNCHANGED <<pending, composer, status, pendingSub, current, owner, toTui, pi, history>>

\* No route is borrowed yet: read the one to give back.
DispatchCapture ==
  \E i \in NextIndex :
    LET p == Joined(local[i]) IN
      /\ Current(i)
      /\ temp.phase = "none"
      /\ local' = JoinedQueue(i)
      /\ owner' = [NewOwner(p) EXCEPT !.snapshot = TRUE]
      /\ Ask(Request("capture", p, None))
      /\ UNCHANGED <<remote, sending, failed, clearing, clearSent, composer, status, pendingSub,
                     current, temp, toTui, pi, history>>

\* record_route fails: the model is gone from the catalog.
DispatchFail ==
  \E i \in NextIndex :
    LET p == Joined(local[i]) IN
      /\ Current(i)
      /\ temp.phase # "none"
      /\ Target(p) \in Unavailable
      /\ local' = RemoveAt(local, i)
      /\ GiveBack(p)
      /\ UNCHANGED <<remote, sending, clearing, clearSent, status, pendingSub, current, temp,
                     owner, toAgent, toTui, pi, submitted, interrupts, ran, dropped>>

DispatchSelect ==
  \E i \in NextIndex :
    LET p == Joined(local[i]) IN
      /\ Current(i)
      /\ temp.phase # "none"
      /\ Target(p) \notin Unavailable
      /\ owner' = Heir(p)
      /\ ~(Selected(Target(p)) /\ current = Target(p))
      /\ local' = JoinedQueue(i)
      /\ temp' = [temp EXCEPT !.target = Target(p), !.phase = "selecting"]
      /\ Ask(Request("model", NoPrompt, Target(p)))
      /\ UNCHANGED <<remote, sending, failed, clearing, clearSent, composer, status, pendingSub,
                     current, toTui, pi, history>>

\* The prompt leaves: it steers the run there is, or is the input of the next.
Promised(p) == IF p.route = None THEN Base ELSE p.route
Deliver(p, steering) ==
  IF steering
    THEN sending' = p /\ Ask(Request("steer", p, Promised(p))) /\ UNCHANGED <<pendingSub, working>>
    ELSE Admit(p) /\ Ask(Request("input", p, Promised(p))) /\ UNCHANGED sending

SentOwner(p) ==
  [Heir(p) EXCEPT !.sent = TRUE, !.runObserved = running, !.awaitingRun = TRUE]

DispatchSend ==
  \E i \in NextIndex :
    LET p == Joined(local[i]) IN
      /\ Current(i)
      /\ temp.phase # "none"
      /\ Target(p) \notin Unavailable
      /\ Selected(Target(p)) /\ current = Target(p)
      /\ owner' = SentOwner(p)
      /\ temp' = [temp EXCEPT !.phase = "active"]
      /\ local' = RemoveAt(local, i)
      /\ Deliver(p, p.delivery = "asap" /\ ~AgentIdle)
      /\ UNCHANGED <<remote, failed, clearing, clearSent, composer, running, interruptPending,
                     current, toTui, pi, history>>

-----------------------------------------------------------------------------
(* dispatch_next_queued outside a Record chain: marked and plain prompts *)

PlainOpen == ~interruptPending /\ ~RecordPath /\ ~Blocked
NextMark  == IF \E i \in NextIndex : TRUE THEN local[CHOOSE i \in NextIndex : TRUE].mark ELSE None

PlainRestore ==
  /\ PlainOpen
  /\ ShouldRestore(NextMark)
  /\ Restore
  /\ UNCHANGED <<pending, composer, status, pendingSub, current, owner, toTui, pi, history>>

PlainCurrent(i) == PlainOpen /\ ~ShouldRestore(NextMark) /\ i \in NextIndex /\ (AgentIdle \/ running)

PlainSelect ==
  \E i \in NextIndex :
    /\ PlainCurrent(i)
    /\ local[i].mark # None
    /\ ~Selected(local[i].mark)
    /\ temp' = [phase |-> "selecting", target |-> local[i].mark,
                original |-> IF temp.phase = "none" THEN current ELSE temp.original]
    /\ Ask(Request("model", NoPrompt, local[i].mark))
    /\ UNCHANGED <<pending, composer, status, pendingSub, current, owner, toTui, pi, history>>

\* A steered mark may be overtaken by the next mark while Pi still queues it, so
\* it is promised no route; a Record is held back instead (RecordHeld).
PlainSend ==
  \E i \in NextIndex :
    LET p == local[i] IN
      /\ PlainCurrent(i)
      /\ p.mark # None => Selected(p.mark)
      /\ temp' = IF p.mark # None THEN [temp EXCEPT !.phase = "active"] ELSE temp
      /\ local' = RemoveAt(local, i)
      /\ IF p.delivery = "asap" /\ (~AgentIdle \/ HasBackend)
           THEN sending' = p /\ Ask(Request("steer", p, None)) /\ UNCHANGED <<pendingSub, working>>
           ELSE Admit(p) /\ Ask(Request("input", p, p.mark)) /\ UNCHANGED sending
      /\ UNCHANGED <<remote, failed, clearing, clearSent, composer, running, interruptPending,
                     current, owner, toTui, pi, history>>
=============================================================================
