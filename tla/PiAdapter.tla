----------------------------- MODULE PiAdapter -----------------------------
(***************************************************************************)
(* The other half of the adapter: what it does with Pi's responses, and    *)
(* the specification of the whole.  response::dispatch tries the owners of *)
(* a response in order (interrupt fence, prompt state, compaction, queue,  *)
(* then the rest); here each owner is an action, and the command kinds an  *)
(* action names are those whose id its owner matches.                      *)
(***************************************************************************)
EXTENDS PiRequests

-----------------------------------------------------------------------------
(* What every handler of a response does *)

\* Pi carries c out, or refuses it; what has an effect is refused before it.
Succeeds(c) == Answers(c) /\ (c.kind \in Effects \cup {"compact"} => c.done)
Fails(c)    == Answers(c) /\ c.kind \in Failures /\ (c.kind \in Effects => ~c.done)

\* The response to c is consumed, and nothing is sent ...
Consume(c) == inflight' = inflight \ {c} /\ UNCHANGED nextId
\* ... or the adapter goes on with a command of its own for the same request.
Follow(c, kind, to) ==
  /\ inflight' = (inflight \ {c}) \cup {Command(nextId, kind, c.req, to)}
  /\ nextId' = nextId + 1

\* configuration_request once the response to c is dealt with
ClearedNever(c) == configuration
Cleared(c) == IF configuration = c.id THEN 0 ELSE configuration

\* The frontend hears the outcomes in a set of [n, what] records, one per request.
TellAll(outcomes) ==
  told' = [n \in DOMAIN told |->
             IF \E o \in outcomes : o.n = n
               THEN Append(told[n], (CHOOSE o \in outcomes : o.n = n).what)
               ELSE told[n]]

-----------------------------------------------------------------------------
(* session::state_response, and the admissions a state read settles *)

\* Pi is in another session than the one last reported to the frontend.
Switched == attached # piSession

TakeStateWithoutRoute ==
  session' = piSession /\ attached' = piSession /\ UNCHANGED model
TakeState ==
  /\ session' = piSession
  /\ attached' = piSession
  /\ model' = piModel

\* A switch forgets all work that belongs to the session left.
TakeTables ==
  /\ queueOp' = IF Switched THEN NoQueueOp ELSE queueOp
  /\ skillPrompt' = IF Switched THEN 0 ELSE skillPrompt
  /\ commandPrompt' = IF Switched THEN 0 ELSE commandPrompt
  /\ admissions' = IF Switched THEN {} ELSE admissions

\* settlement_event
Settlement(e, confirmed) ==
  [n |-> e.n, what |-> CASE e.counted /\ confirmed   -> "success"
                         [] e.counted /\ ~confirmed  -> "unconfirmed"
                         [] ~e.counted /\ confirmed  -> "settled"
                         [] ~e.counted /\ ~confirmed -> "unsettled"]

Own(c) == {e \in commandStates : e.id = c.id}

\* The entries a successful state read confirms: its own, and those an earlier
\* state read failed to confirm in the same session.
Confirmed(c) ==
  {e \in Own(c) : e.session = piSession}
    \cup {e \in commandStates : ~Switched /\ e.failed /\ e.session = piSession /\ e.id < c.id}

SettleStatesKeepingFailed(c) ==
  /\ commandStates' = IF Switched THEN {} ELSE commandStates \ Own(c)
  /\ TellAll({Settlement(e, TRUE) : e \in Confirmed(c)})
SettleStates(c) ==
  /\ commandStates' = IF Switched THEN {} ELSE commandStates \ (Own(c) \cup Confirmed(c))
  /\ TellAll({Settlement(e, TRUE) : e \in Confirmed(c)})

-----------------------------------------------------------------------------
(* The interrupt fence *)

InterruptCurrent(c) ==
  /\ interrupt.id = c.id
  /\ interrupt.session = session
  /\ interrupt.generation = generation

\* Abort confirmed: read the state it left Pi in, still behind the fence.
InterruptAborted ==
  \E c \in inflight :
    /\ c.kind = "interrupt-abort"
    /\ Succeeds(c)
    /\ InterruptCurrent(c)
    /\ interrupt' = [id |-> nextId, session |-> session, generation |-> generation]
    /\ Follow(c, "interrupt-state", None)
    /\ UNCHANGED <<deferred, configuration, resume, queueOp, skillPrompt, tables, promptState,
                   compaction, mirror, branch, reload, generation, draining, submitted, told, pi>>

\* The fence falls without a state: the session or run it was raised for is
\* over, or the state read is of another session.
InterruptReleased ==
  \E c \in inflight :
    /\ c.kind \in {"interrupt-abort", "interrupt-state"}
    /\ interrupt.id = c.id
    /\ \/ ~InterruptCurrent(c) /\ (Succeeds(c) \/ Fails(c))
       \/ c.kind = "interrupt-state" /\ piSession # session /\ Succeeds(c)
    /\ interrupt' = NoInterrupt
    /\ Consume(c)
    /\ UNCHANGED <<deferred, configuration, resume, queueOp, skillPrompt, tables, promptState,
                   compaction, mirror, branch, reload, generation, submitted, told, pi>>
    /\ StartDrain

\* The response of an interrupt that a later one replaced.
InterruptReplaced ==
  \E c \in inflight :
    /\ c.kind \in {"interrupt-abort", "interrupt-state"}
    /\ interrupt.id # c.id
    /\ Succeeds(c) \/ Fails(c)
    /\ Consume(c)
    /\ UNCHANGED <<deferred, configuration, interrupt, resume, queueOp, skillPrompt, tables,
                   promptState, compaction, mirror, branch, reload, generation, draining, submitted, told, pi>>

-----------------------------------------------------------------------------
(* prompt_state::response and queue::response *)

PromptStateReply ==
  \E c \in inflight :
    /\ c.kind = "prompt-state"
    /\ Succeeds(c) \/ Fails(c)
    /\ Consume(c)
    /\ IF promptState.id # c.id
         THEN UNCHANGED <<configuration, promptState, told, mirror, tables, queueOp, skillPrompt>>
         ELSE /\ promptState' = NoPromptState
              /\ configuration' = Cleared(c)
              /\ \/ /\ Succeeds(c) /\ promptState.session = session /\ piSession = session
                    /\ piModel # None
                    /\ Tell(promptState.n, "captured")
                    /\ TakeState
                    /\ TakeTables
                    /\ commandStates' = IF Switched THEN {} ELSE commandStates
                 \/ /\ Fails(c) \/ promptState.session # session \/ piSession # session \/ piModel = None
                    /\ Tell(promptState.n, "capture-failed")
                    /\ UNCHANGED <<mirror, tables, queueOp, skillPrompt>>
    /\ UNCHANGED <<deferred, interrupt, resume, compaction, branch, reload, generation, submitted, pi>>
    /\ StartDrain

QueueReply ==
  \E c \in inflight : \E what \in {"queue-ok", "queue-failed"} :
    /\ c.kind = "asap"
    /\ IF what = "queue-ok" THEN Succeeds(c) ELSE Fails(c)
    /\ Consume(c)
    /\ queueOp' = IF queueOp.id = c.id THEN NoQueueOp ELSE queueOp
    /\ IF queueOp.id = c.id /\ queueOp.session = SessionKey
         THEN Tell(queueOp.n, what)
         ELSE UNCHANGED told
    /\ UNCHANGED <<deferred, configuration, interrupt, resume, skillPrompt, tables, promptState,
                   compaction, mirror, branch, reload, generation, submitted, pi>>
    /\ StartDrain

-----------------------------------------------------------------------------
(* Responses to prompts and slash commands *)

\* dispatch returns early: the prompt is not one of this session's admissions.
PromptReplyStale ==
  \E c \in inflight :
    /\ c.kind \in {"prompt", "command"}
    /\ Succeeds(c) \/ Fails(c)
    /\ ~\E a \in admissions : a.id = c.id /\ a.session = session
    /\ Consume(c)
    /\ UNCHANGED <<deferred, configuration, interrupt, resume, queueOp, skillPrompt, tables,
                   promptState, compaction, mirror, branch, reload, generation, draining, submitted, told, pi>>

\* pending_skill_prompt once the response to the prompt c is dealt with
SkillClearedNever(c) == skillPrompt
SkillCleared(c) == IF skillPrompt = c.id THEN 0 ELSE skillPrompt

\* Pi admits the prompt.  A command, and a prompt Pi handled by itself, is
\* followed by a state read that settles it; when that read is required it
\* becomes the configuration request.
PromptAdmitted ==
  \E c \in inflight : \E a \in admissions : \E d \in Dispositions :
    /\ c.kind \in {"prompt", "command"}
    /\ Succeeds(c)
    /\ a.id = c.id /\ a.session = session
    /\ admissions' = admissions \ {a}
    /\ commandPrompt' = IF commandPrompt = c.id THEN 0 ELSE commandPrompt
    /\ skillPrompt' = SkillCleared(c)
    /\ LET required == a.counted \/ d = "handled"
       IN IF c.kind = "command" \/ d = "handled"
            THEN /\ commandStates' = commandStates \cup
                      {[id |-> nextId, n |-> a.n, session |-> session, counted |-> a.counted,
                        required |-> required, failed |-> FALSE]}
                 /\ configuration' = IF required THEN nextId ELSE configuration
                 /\ Follow(c, IF commandPrompt = c.id THEN "command-state" ELSE "handled-state", None)
            ELSE Consume(c) /\ UNCHANGED <<commandStates, configuration>>
    /\ UNCHANGED <<deferred, interrupt, resume, queueOp, promptState, compaction, mirror,
                   branch, reload, generation, submitted, told, pi>>
    /\ StartDrain

PromptRefused ==
  \E c \in inflight : \E a \in admissions :
    /\ c.kind \in {"prompt", "command"}
    /\ Fails(c)
    /\ a.id = c.id /\ a.session = session
    /\ admissions' = admissions \ {a}
    /\ commandPrompt' = IF commandPrompt = c.id THEN 0 ELSE commandPrompt
    /\ skillPrompt' = SkillCleared(c)
    /\ IF a.counted THEN Tell(a.n, "error") ELSE UNCHANGED told
    /\ Consume(c)
    /\ UNCHANGED <<deferred, configuration, interrupt, resume, queueOp, commandStates,
                   promptState, compaction, mirror, branch, reload, generation, submitted, pi>>
    /\ StartDrain

-----------------------------------------------------------------------------
(* State reads *)

\* A model selection made during a compaction waits for this response.
Selecting(c) == compaction.selection.id = c.id

\* An entry of pending_command_states is missing: dispatch returns early.
StateReplyStale ==
  \E c \in inflight :
    /\ c.kind \in {"command-state", "handled-state"}
    /\ Succeeds(c) \/ Fails(c)
    /\ Own(c) = {}
    /\ Consume(c)
    /\ UNCHANGED <<deferred, configuration, interrupt, resume, queueOp, skillPrompt, tables,
                   promptState, compaction, mirror, branch, reload, generation, draining, submitted, told, pi>>

StateReply ==
  \E c \in inflight :
    /\ c.kind \in {"state", "configuration-state", "command-state", "handled-state",
                   "resume-state", "interrupt-state", "reload-state"}
    /\ Succeeds(c)
    /\ c.kind = "reload-state" => reload # c.id
    /\ c.kind \in {"command-state", "handled-state"} => Own(c) # {}
    /\ c.kind = "interrupt-state" => InterruptCurrent(c) /\ piSession = session
    /\ ~Selecting(c)
    /\ TakeState
    /\ TakeTables
    /\ SettleStates(c)
    /\ configuration' = Cleared(c)
    /\ interrupt' = IF interrupt.id = c.id THEN NoInterrupt ELSE interrupt
    /\ IF resume = c.id
         THEN resume' = nextId /\ Follow(c, "resume-history", None)
         ELSE Consume(c) /\ UNCHANGED resume
    /\ UNCHANGED <<deferred, promptState, compaction, branch, reload, generation, submitted, pi>>
    /\ StartDrain

-----------------------------------------------------------------------------
(* Attach, a new session, and the model controls: chains of commands, each *)
(* sent when the one before it succeeds                                    *)

ResumeReply ==
  \E c \in inflight :
    /\ Succeeds(c)
    /\ \/ /\ c.kind = "resume-switch" /\ resume = c.id
          /\ resume' = nextId
          /\ Follow(c, "resume-state", None)
       \/ /\ c.kind = "resume-switch" /\ resume # c.id
          /\ Consume(c) /\ UNCHANGED resume
       \/ /\ c.kind = "resume-history"
          /\ resume' = IF resume = c.id THEN 0 ELSE resume
          /\ Consume(c)
    /\ UNCHANGED <<deferred, configuration, interrupt, queueOp, skillPrompt, tables, promptState,
                   compaction, mirror, branch, reload, generation, submitted, told, pi>>
    /\ StartDrain

\* Pi has not made the session: new_session was cancelled there.
NewCancelled ==
  \E c \in inflight :
    /\ c.kind = "new"
    /\ Answers(c) /\ ~c.done
    /\ "new" \in Failures
    /\ configuration' = Cleared(c)
    /\ Consume(c)
    /\ UNCHANGED <<deferred, interrupt, resume, queueOp, skillPrompt, tables, promptState,
                   compaction, mirror, branch, reload, generation, submitted, told, pi>>
    /\ StartDrain

\* The steps that may follow the command c of a chain.  A new session gets the
\* route the old one had, as far as it was known (a model and a thinking level
\* may each be known without the other); then Pi's state is read.
NextSteps(c) ==
  CASE c.kind = "new" /\ c.to # None                      -> {"new-model"}
    [] c.kind = "new" /\ c.to = None                      -> {"new-thinking", "new-state"}
    [] c.kind = "new-model"                               -> {"new-thinking", "new-state"}
    [] c.kind = "new-thinking"                            -> {"new-state"}
    [] c.kind = "model" /\ c.req.kind = "modelEffort"     -> {"thinking"}
    [] OTHER                                              -> {"configuration-state"}

ChainStep ==
  \E c \in inflight :
    /\ c.kind \in {"new", "new-model", "new-thinking", "model", "thinking"}
    /\ Succeeds(c)
    /\ model' = IF c.kind \in {"model", "new-model"} /\ ~Selecting(c) THEN c.to ELSE model
    /\ configuration' = nextId
    /\ compaction' = IF Selecting(c) THEN [compaction EXCEPT !.selection.id = nextId]
                                     ELSE compaction
    /\ \E next \in NextSteps(c) : Follow(c, next, c.to)
    /\ UNCHANGED <<deferred, interrupt, resume, queueOp, skillPrompt, tables, promptState,
                   session, attached, branch, reload, generation, submitted, told, pi>>
    /\ StartDrain

\* The new session is confirmed: its first prompt goes out, unless the bound on
\* admissions is reached.  A skill in it holds later requests.
NewStateReply ==
  \E c \in inflight : \E skill \in {FALSE, "skill" \in Kinds} :
    /\ c.kind = "new-state"
    /\ Succeeds(c)
    /\ TakeState
    /\ SettleStates(c)
    /\ queueOp' = IF Switched THEN NoQueueOp ELSE queueOp
    /\ LET kept == IF Switched THEN {} ELSE admissions
           full == Cardinality(kept) + Cardinality(IF Switched THEN {} ELSE commandStates)
                     >= MaxAdmissions
       IN /\ IF full THEN Consume(c) ELSE Follow(c, "prompt", None)
          /\ admissions' = IF full THEN kept
                           ELSE kept \cup {[id |-> nextId, n |-> c.req.n,
                                            session |-> piSession, counted |-> FALSE]}
          /\ skillPrompt' = CASE skill /\ ~full -> nextId
                              [] (~skill \/ full) /\ Switched -> 0
                              [] OTHER -> skillPrompt
          /\ commandPrompt' = IF Switched \/ full THEN 0 ELSE commandPrompt
    /\ configuration' = Cleared(c)
    /\ UNCHANGED <<deferred, interrupt, resume, promptState, compaction, branch, reload, generation,
                   submitted, pi>>
    /\ StartDrain

-----------------------------------------------------------------------------
(* compaction.rs *)

\* continue_transaction
Continue(c, p) ==
  /\ compaction' = [p EXCEPT !.id = nextId]
  /\ Follow(c, p.stage, CASE p.stage = "select"        -> p.target
                          [] p.stage = "restore-model" -> p.route
                          [] OTHER                     -> None)

\* restore_or_wait: the compaction itself is over; a selection still under way
\* comes first, and a replaced session makes the restoration impossible.
RestoreOrWait(c, p) ==
  CASE p.session # session     -> Consume(c) /\ compaction' = [p EXCEPT !.stage = "failed", !.open = FALSE]
    [] p.session = session /\ p.selection.id # 0
                               -> Consume(c) /\ compaction' = [p EXCEPT !.open = FALSE]
    [] OTHER                   -> Continue(c, [p EXCEPT !.stage = "restore-model", !.open = FALSE])

\* The selection is over: confirm_model_selection, fail_model_selection.
EndSelectionOnly(c, route) ==
  Consume(c) /\ compaction' = [compaction EXCEPT !.selection = NoSelection, !.route = route]
EndSelectionOriginal(c, route) ==
  LET p == [compaction EXCEPT !.selection = NoSelection]
  IN IF p.finished THEN RestoreOrWait(c, p) ELSE Consume(c) /\ compaction' = p
EndSelection(c, route) ==
  LET p == [compaction EXCEPT !.selection = NoSelection, !.route = route]
  IN IF p.finished THEN RestoreOrWait(c, p) ELSE Consume(c) /\ compaction' = p

\* validate_model_selection on the state Pi reports
SelectionConfirmed ==
  /\ compaction.session = session
  /\ piSession = session
  /\ piModel = compaction.selection.to

\* The response to a step of the transaction, when Pi did it.
Owned(c) == compaction.stage # "none" /\ c.id = compaction.id

\* A transaction that has not touched the route yet is dropped.
CompactionDropped ==
  \E c \in inflight :
    /\ Owned(c)
    /\ \/ compaction.stage \in {"abort", "snapshot"} /\ Fails(c)
       \/ compaction.stage = "abort" /\ Succeeds(c) /\ compaction.cancelled
       \/ compaction.stage = "snapshot" /\ Succeeds(c)
            /\ (compaction.cancelled \/ piSession # compaction.session \/ piModel = None)
    /\ compaction' = NoCompaction
    /\ model' = IF /\ compaction.stage = "snapshot" /\ Succeeds(c)
                   /\ piSession = compaction.session /\ piModel # None
                  THEN piModel ELSE model
    /\ Consume(c)
    /\ UNCHANGED <<deferred, configuration, interrupt, resume, queueOp, skillPrompt, tables,
                   promptState, session, attached, branch, reload, generation, submitted, told, pi>>
    /\ StartDrain

CompactionStep ==
  \E c \in inflight :
    /\ Owned(c)
    /\ \/ /\ compaction.stage = "abort" /\ Succeeds(c) /\ ~compaction.cancelled
          /\ Continue(c, [compaction EXCEPT !.stage = "snapshot"])
          /\ UNCHANGED model
       \/ /\ compaction.stage = "snapshot" /\ Succeeds(c) /\ ~compaction.cancelled
          /\ piSession = compaction.session /\ piModel # None
          /\ Continue(c, [compaction EXCEPT !.stage = "select", !.route = piModel])
          /\ model' = piModel
       \/ /\ compaction.stage = "select"
          /\ Continue(c, [compaction EXCEPT !.stage =
                            IF Fails(c) \/ compaction.cancelled THEN "restore-model" ELSE "compact"])
          /\ Succeeds(c) \/ Fails(c)
          /\ UNCHANGED model
       \/ /\ compaction.stage = "compact" /\ ~compaction.finished /\ (Succeeds(c) \/ Fails(c))
          /\ RestoreOrWait(c, [compaction EXCEPT !.finished = TRUE])
          /\ UNCHANGED model
       \/ /\ compaction.stage = "restore-model" /\ Succeeds(c)
          /\ Continue(c, [compaction EXCEPT !.stage = "restore-effort"])
          /\ UNCHANGED model
       \/ /\ compaction.stage = "restore-effort" /\ Succeeds(c)
          /\ Continue(c, [compaction EXCEPT !.stage = "verify"])
          /\ UNCHANGED model
    /\ UNCHANGED <<deferred, configuration, interrupt, resume, queueOp, skillPrompt, tables,
                   promptState, session, attached, branch, reload, generation, submitted, told, pi>>
    /\ StartDrain

\* The route could not be restored: the transaction stays, and holds the
\* deferred requests, until the program is restarted.
CompactionFailed ==
  \E c \in inflight :
    /\ Owned(c)
    /\ \/ compaction.stage \in {"restore-model", "restore-effort", "verify"} /\ Fails(c)
       \/ compaction.stage = "verify" /\ Succeeds(c)
            /\ (piModel # compaction.route \/ piSession # compaction.session)
    /\ compaction' = [compaction EXCEPT !.stage = "failed"]
    /\ Consume(c)
    /\ UNCHANGED <<deferred, configuration, interrupt, resume, queueOp, skillPrompt, tables,
                   promptState, mirror, branch, reload, generation, submitted, told, pi>>
    /\ StartDrain

CompactionVerified ==
  \E c \in inflight :
    /\ Owned(c)
    /\ compaction.stage = "verify" /\ Succeeds(c)
    /\ piModel = compaction.route /\ piSession = compaction.session
    /\ compaction' = NoCompaction
    /\ TakeState
    /\ TakeTables
    /\ commandStates' = IF Switched THEN {} ELSE commandStates
    /\ Consume(c)
    /\ UNCHANGED <<deferred, configuration, interrupt, resume, promptState, branch, reload, generation,
                   submitted, told, pi>>
    /\ StartDrain

\* The state read that ends a model selection made during the compaction.
SelectionConfirm ==
  \E c \in inflight :
    /\ c.kind = "configuration-state"
    /\ Selecting(c)
    /\ Succeeds(c)
    /\ SelectionConfirmed
    /\ TakeState
    /\ TakeTables
    /\ SettleStates(c)
    /\ configuration' = Cleared(c)
    /\ EndSelection(c, piModel)
    /\ UNCHANGED <<deferred, interrupt, resume, promptState, branch, reload, generation, submitted, pi>>
    /\ StartDrain

-----------------------------------------------------------------------------
(* Failures *)

\* The requests that waited for a configuration request that failed are dropped.
Cancelled(c) == IF configuration = c.id THEN Range(deferred) ELSE {}

RefusalsOf(requests) == {[n |-> r.n, what |-> Refusal(r.kind)[1]] :
                           r \in {x \in requests : Refusal(x.kind) # <<>>}}

\* dispatch of a response that is not a success and has no owner above; a
\* selection that cannot be validated counts as one.
RequestFailed ==
  \E c \in inflight :
    /\ c.kind \in {"state", "configuration-state", "new-state", "command-state", "handled-state",
                   "resume-state", "resume-switch", "resume-history", "interrupt-abort",
                   "interrupt-state", "new", "new-model", "new-thinking", "model", "thinking",
                   "plain-compact", "branch-abort"} \cup ReloadKinds
    /\ \/ Fails(c)
       \/ c.kind = "configuration-state" /\ Succeeds(c) /\ Selecting(c) /\ ~SelectionConfirmed
    /\ c.kind \in {"command-state", "handled-state"} => Own(c) # {}
    /\ c.kind \in {"interrupt-abort", "interrupt-state"} => InterruptCurrent(c)
    /\ interrupt' = IF interrupt.id = c.id THEN NoInterrupt ELSE interrupt
    /\ resume' = IF resume = c.id THEN 0 ELSE resume
    /\ configuration' = Cleared(c)
    /\ deferred' = IF configuration = c.id THEN <<>> ELSE deferred
    /\ reload' = IF reload = c.id THEN 0 ELSE reload
    /\ LET here == {e \in Own(c) : e.session = session}
       IN /\ commandStates' = (commandStates \ Own(c))
                                \cup {[e EXCEPT !.failed = TRUE] : e \in {x \in here : x.required}}
          /\ TellAll({Settlement(e, FALSE) : e \in here} \cup RefusalsOf(Cancelled(c))
                       \cup (IF reload = c.id THEN {[n |-> c.req.n, what |-> "error"]} ELSE {}))
    /\ IF Selecting(c) THEN EndSelection(c, compaction.route)
                       ELSE Consume(c) /\ UNCHANGED compaction
    /\ UNCHANGED <<queueOp, skillPrompt, admissions, commandPrompt, promptState, mirror,
                   branch, generation, submitted, pi>>
    /\ StartDrain

\* Plain compaction, without an override route, has no state of its own.
PlainCompacted ==
  \E c \in inflight :
    /\ c.kind = "plain-compact"
    /\ Succeeds(c)
    /\ Consume(c)
    /\ UNCHANGED <<deferred, configuration, interrupt, resume, queueOp, skillPrompt, tables,
                   promptState, compaction, mirror, branch, reload, generation, submitted, told, pi>>
    /\ StartDrain

-----------------------------------------------------------------------------
(* fork.rs: response *)

BranchOpen(c) == Branching /\ c.id = branch.id

\* The answer belongs to a replacement session that is gone.
BranchLost == branch.target # None /\ branch.target # session

\* Each step sends the next ...
BranchNext(c, stage, kind) ==
  /\ branch' = [branch EXCEPT !.stage = stage, !.id = nextId]
  /\ Follow(c, kind, None)
  /\ UNCHANGED told
\* ... or the operation ends.
BranchEnd(c, outcome) == Finish(outcome) /\ Consume(c)

\* The list of messages: the user chooses one, unless there are none or the
\* session was left.
BranchMessages ==
  \E c \in inflight :
    /\ BranchOpen(c) /\ branch.stage = "messages" /\ Succeeds(c)
    /\ \/ /\ session = branch.source
          /\ branch' = [branch EXCEPT !.stage = "choice", !.id = nextId]
          /\ nextId' = nextId + 1
          /\ inflight' = inflight \ {c}
          /\ UNCHANGED told
       \/ BranchEnd(c, "error")
    /\ UNCHANGED <<deferred, configuration, interrupt, resume, queueOp, skillPrompt, tables,
                   promptState, compaction, reload, mirror, generation, submitted, pi>>
    /\ StartDrain

\* Pi has replaced its session; what the adapter knew of the old one is void.
BranchReplaced ==
  \E c \in inflight :
    /\ BranchOpen(c) /\ branch.stage = "replace" /\ Succeeds(c)
    /\ BranchNext(c, "state", "branch-state")
    /\ commandPrompt' = 0
    /\ UNCHANGED <<deferred, configuration, interrupt, resume, queueOp, skillPrompt, admissions,
                   commandStates, promptState, compaction, reload, mirror, generation, submitted, pi>>
    /\ StartDrain

\* An extension in Pi has cancelled the replacement.
BranchCancelled ==
  \E c \in inflight :
    /\ BranchOpen(c) /\ branch.stage = "replace"
    /\ Answers(c) /\ ~c.done
    /\ "branch-replace" \in Failures
    /\ BranchEnd(c, "cancelled")
    /\ UNCHANGED <<deferred, configuration, interrupt, resume, queueOp, skillPrompt, tables,
                   promptState, compaction, reload, mirror, generation, submitted, pi>>
    /\ StartDrain

\* Pi must be in a session other than the one it left.
BranchState ==
  \E c \in inflight :
    /\ BranchOpen(c) /\ branch.stage = "state" /\ Succeeds(c)
    /\ IF piSession = branch.source
         THEN BranchEnd(c, "error") /\ UNCHANGED <<mirror, tables, queueOp, skillPrompt>>
         ELSE /\ branch' = [branch EXCEPT !.stage = "history", !.id = nextId, !.target = piSession]
              /\ Follow(c, "branch-history", None)
              /\ TakeState
              /\ TakeTables
              /\ commandStates' = IF Switched THEN {} ELSE commandStates
              /\ UNCHANGED told
    /\ UNCHANGED <<deferred, configuration, interrupt, resume, promptState, compaction, reload,
                   generation, submitted, pi>>
    /\ StartDrain

\* History and catalogs; then the message is sent, unless the user interrupted
\* or Pi is busy again (which is not modelled).
BranchStep ==
  \E c \in inflight :
    /\ BranchOpen(c) /\ Succeeds(c) /\ ~BranchLost
    /\ \/ branch.stage = "history" /\ BranchNext(c, "models", "branch-models")
       \/ branch.stage = "models" /\ BranchNext(c, "commands", "branch-commands")
       \/ /\ branch.stage = "commands" /\ ~branch.interrupted /\ branch.message
          /\ BranchNext(c, "prompt", "branch-prompt")
       \/ branch.stage = "commands" /\ branch.interrupted /\ BranchEnd(c, "cancelled")
       \/ /\ branch.stage = "commands" /\ ~branch.interrupted
          /\ BranchEnd(c, IF branch.message THEN "error" ELSE "success")
       \/ branch.stage = "prompt" /\ BranchEnd(c, "success")
    /\ UNCHANGED <<deferred, configuration, interrupt, resume, queueOp, skillPrompt, tables,
                   promptState, compaction, reload, mirror, generation, submitted, pi>>
    /\ StartDrain

BranchFailed ==
  \E c \in inflight :
    /\ BranchOpen(c)
    /\ Fails(c) \/ (Succeeds(c) /\ BranchLost)
    /\ BranchEnd(c, "error")
    /\ UNCHANGED <<deferred, configuration, interrupt, resume, queueOp, skillPrompt, tables,
                   promptState, compaction, reload, mirror, generation, submitted, pi>>
    /\ StartDrain

\* The answer to a list of messages nobody waits for any more.
BranchStale ==
  \E c \in inflight :
    /\ c.kind = "branch-messages" /\ ~BranchOpen(c)
    /\ Succeeds(c) \/ Fails(c)
    /\ Consume(c)
    /\ UNCHANGED <<deferred, configuration, interrupt, resume, queueOp, skillPrompt, tables,
                   promptState, compaction, branch, reload, mirror, generation, submitted, told, pi>>
    /\ StartDrain

\* The abort of an interrupted fork; a settlement that failed is tried again.
BranchAborted ==
  \E c \in inflight :
    /\ c.kind = "branch-abort" /\ Succeeds(c)
    /\ IF \E e \in commandStates : e.failed /\ e.session = session
         THEN configuration' = nextId /\ Follow(c, "state", None)
         ELSE Consume(c) /\ UNCHANGED configuration
    /\ UNCHANGED <<deferred, interrupt, resume, queueOp, skillPrompt, tables, promptState,
                   compaction, branch, reload, mirror, generation, submitted, told, pi>>
    /\ StartDrain

-----------------------------------------------------------------------------
(* /reload: the companion, then the state and the catalogs *)

ReloadNext(c) ==
  CASE c.kind = "reload"       -> "reload-state"
    [] c.kind = "reload-state" -> "reload-models"
    [] OTHER                   -> "reload-commands"

ReloadStep ==
  \E c \in inflight :
    /\ c.kind \in ReloadKinds \ {"reload-commands"}
    /\ Succeeds(c)
    /\ reload = c.id
    /\ reload' = nextId
    /\ configuration' = nextId
    /\ Follow(c, ReloadNext(c), None)
    /\ IF c.kind = "reload-state"
         THEN /\ TakeState
              /\ TakeTables
              /\ commandStates' = IF Switched THEN {} ELSE commandStates
         ELSE UNCHANGED <<mirror, tables, queueOp, skillPrompt>>
    /\ UNCHANGED <<deferred, interrupt, resume, promptState, compaction, branch, generation,
                   draining, submitted, told, pi>>

\* The last catalog is read; or a later /reload has taken this one's place.
ReloadReply ==
  \E c \in inflight :
    /\ c.kind \in ReloadKinds
    /\ Succeeds(c)
    /\ IF reload = c.id THEN c.kind = "reload-commands" ELSE c.kind # "reload-state"
    /\ IF reload = c.id THEN Tell(c.req.n, "success") ELSE UNCHANGED told
    /\ reload' = IF reload = c.id THEN 0 ELSE reload
    /\ configuration' = Cleared(c)
    /\ Consume(c)
    /\ UNCHANGED <<deferred, interrupt, resume, queueOp, skillPrompt, tables, promptState,
                   compaction, branch, mirror, generation, submitted, pi>>
    /\ StartDrain

-----------------------------------------------------------------------------
Init ==
  /\ deferred = <<>>
  /\ configuration = 0
  /\ interrupt = NoInterrupt
  /\ resume = 0
  /\ queueOp = NoQueueOp
  /\ skillPrompt = 0
  /\ admissions = {}
  /\ commandStates = {}
  /\ commandPrompt = 0
  /\ promptState = NoPromptState
  /\ compaction = NoCompaction
  /\ branch = NoBranch
  /\ reload = 0
  /\ session = None
  /\ attached = None
  /\ model = None
  /\ generation = 0
  /\ nextId = 2
  /\ draining = FALSE
  /\ submitted = 0
  /\ told = [n \in 1..MaxRequests |-> <<>>]
  /\ inflight = {Command(1, "state", StartupRequest, None)}
  /\ piSession \in Sessions
  /\ piModel \in Routes

Route ==
  \/ RouteInput \/ RouteCommand \/ RouteQueueOp \/ RouteNew \/ RouteAttach
  \/ RouteModel \/ RouteRead \/ RouteCapture \/ RouteCompact
  \/ RouteFork \/ RouteReload \/ RouteBusy

Respond ==
  \/ InterruptAborted \/ InterruptReleased \/ InterruptReplaced
  \/ PromptStateReply \/ QueueReply
  \/ PromptReplyStale \/ PromptAdmitted \/ PromptRefused
  \/ StateReplyStale \/ StateReply \/ ResumeReply
  \/ NewCancelled \/ ChainStep \/ NewStateReply
  \/ CompactionDropped \/ CompactionStep \/ CompactionFailed \/ CompactionVerified
  \/ SelectionConfirm
  \/ RequestFailed \/ PlainCompacted
  \/ BranchMessages \/ BranchReplaced \/ BranchCancelled \/ BranchState \/ BranchStep
  \/ BranchFailed \/ BranchStale \/ BranchAborted
  \/ ReloadStep \/ ReloadReply

Pi == PiApply \/ PiCompactionStart \/ Respond

Next == Defer \/ Refuse \/ Route \/ Interrupt \/ InterruptBranch \/ Choose \/ PiAgentStart \/ Pi

Spec == Init /\ [][Next]_vars

\* A handler runs to its end, and Pi carries out and answers every command.
Fairness == WF_vars(draining /\ Route) /\ WF_vars(Pi)

FairSpec == Spec /\ Fairness

-----------------------------------------------------------------------------
(* Properties *)

AdmissionType == [id : Nat, n : Nat, session : SessionIds, counted : BOOLEAN]
StateType     == [id : Nat, n : Nat, session : SessionIds, counted : BOOLEAN,
                  required : BOOLEAN, failed : BOOLEAN]
CompactionType ==
  [stage : Stages, id : Nat, route : Routes, target : Routes, session : SessionIds,
   open : BOOLEAN, finished : BOOLEAN, cancelled : BOOLEAN,
   selection : [id : Nat, to : Routes]]

BranchType ==
  [stage : BranchStages, id : Nat, n : 0..MaxRequests, source : SessionIds, target : SessionIds,
   message : BOOLEAN, interrupted : BOOLEAN]

\* The fields of the adapter, and Pi's, hold values of their types.
TypeOK ==
  /\ deferred \in Seq(Request)
  /\ configuration \in Nat /\ resume \in Nat /\ skillPrompt \in Nat /\ commandPrompt \in Nat
  /\ interrupt \in [id : Nat, session : SessionIds, generation : Nat]
  /\ queueOp \in [id : Nat, n : 0..MaxRequests, session : SessionIds]
  /\ promptState \in [id : Nat, n : 0..MaxRequests, session : SessionIds]
  /\ admissions \subseteq AdmissionType
  /\ commandStates \subseteq StateType
  /\ compaction \in CompactionType
  /\ branch \in BranchType /\ reload \in Nat
  /\ session \in SessionIds /\ attached \in SessionIds /\ model \in Routes
  /\ generation \in Nat /\ nextId \in Nat \ {0} /\ draining \in BOOLEAN
  /\ submitted \in 0..MaxRequests
  /\ told \in [1..MaxRequests -> Seq(Outcomes)]
  /\ inflight \subseteq CommandType
  /\ piSession \in SessionIds /\ piModel \in Routes

\* No request is left behind: between handlers, whatever the gate would let
\* through has been routed.  A handler that opens the gate and forgets to drain
\* would leave a request waiting for a response that never comes.
NothingStranded == ~draining => Drainable = {}

\* Requests wait in the order they were made.
InOrder ==
  /\ \A i, j \in DOMAIN deferred : i < j => deferred[i].n < deferred[j].n
  /\ \A i \in DOMAIN deferred : deferred[i].n \in 1..submitted

InFlight(id) == \E c \in inflight : c.id = id

\* Each barrier of the gate waits for a command Pi still has to answer: one
\* whose answer is gone holds every later request for ever.
ConfigurationOwned == configuration # 0 => InFlight(configuration)
FencesOwned ==
  /\ interrupt.id # 0 => InFlight(interrupt.id)
  /\ resume # 0 => InFlight(resume)
  /\ queueOp.id # 0 => InFlight(queueOp.id)
  /\ skillPrompt # 0 => InFlight(skillPrompt)
  /\ reload # 0 => InFlight(reload)
  /\ Branching /\ branch.stage # "choice" => InFlight(branch.id)
  /\ compaction.stage \notin {"none", "failed"} =>
        InFlight(compaction.id) \/ InFlight(compaction.selection.id)

\* The correlation tables stay within the bound prompt admission checks.
AdmissionsBounded == Cardinality(admissions) + Cardinality(commandStates) <= MaxAdmissions

\* A command is reported at most once as done, and nothing after that; a queue
\* operation and a capture get one answer.
LegalOutcomes ==
  {<<>>, <<"settled">>, <<"unsettled">>, <<"unsettled", "settled">>}
    \cup {<<"command">>, <<"command", "error">>, <<"command", "success">>,
          <<"command", "unconfirmed">>, <<"command", "unconfirmed", "success">>}
    \cup {<<"fork">>, <<"reload">>}
    \cup {<<"fork", o>> : o \in {"success", "error", "cancelled"}}
    \cup {<<"reload", o>> : o \in {"success", "error"}}
    \cup {<<"capture">>, <<"capture", "captured">>, <<"capture", "capture-failed">>}
    \cup {<<k>> : k \in {"steer", "clear"}}
    \cup {<<k, o>> : k \in {"steer", "clear"}, o \in {"queue-ok", "queue-failed"}}
OutcomesLegal == \A n \in 1..MaxRequests : told[n] \in LegalOutcomes

\* A capture that has no answer yet is deferred, or its state read is under way.
CapturesAccounted ==
  \A n \in 1..MaxRequests :
    told[n] = <<"capture">> =>
      \/ \E i \in DOMAIN deferred : deferred[i].n = n
      \/ promptState.n = n /\ InFlight(promptState.id)

\* Nothing waits behind a fork: the two handlers that end one at the user's wish
\* drain no queue, and what waited there would be stranded.
NothingBehindFork == Branching => deferred = <<>> /\ ~draining

\* A fork that has no result yet is deferred, or is the one under way.
ForksAccounted ==
  /\ NothingBehindFork
  /\ \A n \in 1..MaxRequests :
       told[n] = <<"fork">> =>
         \/ \E i \in DOMAIN deferred : deferred[i].n = n
         \/ Branching /\ branch.n = n

\* Every wait has its end under way: a barrier's command, a capture's answer.
WaitsAnswered == ConfigurationOwned /\ FencesOwned /\ CapturesAccounted /\ ForksAccounted

\* Commands get the outcomes they may get, at the bound of the tables as well.
CommandsAccounted == OutcomesLegal /\ AdmissionsBounded

Sent == {c \in inflight' : c.id >= nextId}

\* A request is not overtaken by a later one, but for the model controls an
\* open compaction lets through.
NoOvertake ==
  [][\A c \in {x \in Sent : x.kind \in Bodies \cup {"new", "resume-switch", "prompt-state", "model"}} :
       \/ \A i \in DOMAIN deferred' : c.req.n < deferred'[i].n
       \/ /\ c.kind = "model" /\ ControlsOpen
          /\ \A i \in DOMAIN deferred' : deferred'[i].n < c.req.n =>
                deferred'[i].kind \notin {"attach", "new"} \cup LineKinds]_vars

\* A prompt, and the state read a Record's baseline comes from, leave only when
\* no model change, new session or attach asked for before it is under way.
DependentsHeld ==
  [][\A c \in {x \in Sent : x.kind \in Bodies \cup {"prompt-state"}} :
       ~\E d \in inflight \cap inflight' : d.kind \in Chain /\ d.req.n < c.req.n]_vars

\* No prompt leaves while an interrupt fence is up.
InterruptHolds ==
  [][(\E c \in Sent : c.kind \in Bodies) => interrupt'.id = 0]_vars

\* A prompt leaves for the session the adapter admits it under, unless the
\* adapter has not learnt the first session yet.
PromptsInSession ==
  [][\A c \in Sent : c.kind \in Bodies => session' \in {piSession', None}]_vars

\* Requests wait, and leave, in the order they were made.
OrderKept == []InOrder /\ NoOvertake

\* The gate never stays shut: deferred requests are routed or refused in the
\* end, unless a compaction could not restore the route.
DeferredReleased ==
  deferred # <<>> ~> (deferred = <<>> \/ compaction.stage = "failed")
=============================================================================
