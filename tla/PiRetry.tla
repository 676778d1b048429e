------------------------------ MODULE PiRetry ------------------------------
(***************************************************************************)
(* Fallback recovery of crates/e-pi/src/adapter/retry.rs: when a run of Pi *)
(* ends in an error, the adapter waits, asks Pi to continue, and stops     *)
(* after so many attempts, on success, or when the user takes over.        *)
(*                                                                         *)
(* Here the two pipes between the adapter and Pi (external) are queues:    *)
(* what the user does while records are on their way is what makes the     *)
(* recovery hard.  Of the request gate (module PiRequests) it keeps the    *)
(* barriers recovery meets: the interrupt fence, an attach, and one model  *)
(* change, whose chain of commands is the state read that ends it.  A      *)
(* request that is deferred is one the user has not made yet.              *)
(*                                                                         *)
(* Each record of a failed reply carries the run and the session it is of; *)
(* the adapter does not look at them, the properties do.                   *)
(***************************************************************************)
EXTENDS Integers, Sequences

CONSTANTS
  Sessions,     \* native sessions
  None,         \* no session
  Attempts,     \* length of DELAYS_SECS (5 in the code)
  Kinds,        \* what the user does in this run
  AtStartup,    \* whether the user acts before Pi's first state is read
  Failures,     \* the commands Pi may refuse in this run
  MaxRequests,  \* bound: requests of the user, the setting included
  MaxReplies,   \* bound: assistant messages Pi ends
  MaxRuns       \* bound: runs Pi starts by itself or for the user

ASSUME RetryConstants ==
  /\ None \notin Sessions
  /\ Kinds \subseteq {"prompt", "interrupt", "attach", "model", "ping", "setting"}
  /\ Attempts \in Nat /\ AtStartup \in BOOLEAN
  /\ MaxRequests \in Nat /\ MaxReplies \in Nat /\ MaxRuns \in Nat

VARIABLES
  retry,          \* RetryState
  streaming,      \* is_streaming
  session,        \* session_id
  attached,       \* last_attached_session
  configuration,  \* configuration_request; an id is a number of next_id, 0 is None
  interrupt,      \* pending_interrupt with interrupt_context; current: same run_generation
  resume,         \* pending_resume
  nextId,         \* next_id
  shown,          \* the last status the frontend was told
  toPi, fromPi,   \* Pi's stdin and stdout
  piSession,      \* Pi's session
  piRun,          \* its run: on, and whether an assistant message has ended in it
  runs,           \* runs Pi has started so far
  requests, replies,
  \* what the user has asked for, for the properties
  revoked,        \* the user withdrew from recovery, and has sent no prompt since
  voided,         \* the user interrupted every run up to this one, and Pi did not refuse
  streak          \* continuations since a prompt of the user, a success or a run of its own

controls == <<configuration, interrupt, resume>>
counts   == <<requests, replies, runs>>
intents  == <<revoked, voided, streak>>
vars == <<retry, streaming, session, attached, controls, nextId, shown, toPi, fromPi,
          piSession, piRun, counts, intents>>

-----------------------------------------------------------------------------
(* RetryState *)

NoError == [run |-> 0, session |-> None]

NewRetry == [enabled |-> TRUE, cancelled |-> FALSE, attempt |-> 0, error |-> NoError,
             activity |-> FALSE, waiting |-> FALSE, prompt |-> 0, state |-> 0,
             starting |-> FALSE]

Busy(r) == r.waiting \/ r.starting

\* finish: the activity row is closed.
FinishedRowOpen(r) == [r EXCEPT !.waiting = FALSE, !.starting = FALSE]
FinishedStillStarting(r) == [r EXCEPT !.activity = FALSE, !.waiting = FALSE]
Finished(r) == [r EXCEPT !.activity = FALSE, !.waiting = FALSE, !.starting = FALSE]

\* cancel
CancelledUnmarked(r) ==
  [Finished(r) EXCEPT !.error = NoError, !.prompt = 0, !.state = 0, !.attempt = 0]
Cancelled(r) ==
  [Finished(r) EXCEPT !.cancelled = TRUE, !.error = NoError, !.prompt = 0, !.state = 0,
                      !.attempt = 0]

\* The status cancel reports for the recovery it ends.
ShownByCancel == IF Busy(retry) /\ ~streaming THEN "idle" ELSE shown

Reset(r) == [NewRetry EXCEPT !.enabled = r.enabled]

Command(kind, id, to) == [kind |-> kind, id |-> id, to |-> to, failed |-> NoError]
Say(command) == toPi' = Append(toPi, command)

NoInterrupt == [id |-> 0, session |-> None, current |-> FALSE]

\* PiAdapter::request: no barrier is up, a gated request is routed now.
GateOpenInInterrupt == configuration = 0 /\ resume = 0
GateOpen == configuration = 0 /\ interrupt.id = 0 /\ resume = 0

-----------------------------------------------------------------------------
(* The user: requests and the setting *)

Requested(kind) == kind \in Kinds /\ requests < MaxRequests /\ requests' = requests + 1

\* Input, Steer, NewInput and Command: recovery ends, and may begin again for
\* what this prompt does.
Prompt ==
  /\ GateOpen
  /\ Requested("prompt")
  /\ retry' = [Cancelled(retry) EXCEPT !.cancelled = FALSE]
  /\ shown' = ShownByCancel
  /\ Say(Command("prompt", nextId, None))
  /\ nextId' = nextId + 1
  /\ revoked' = FALSE /\ streak' = 0
  /\ UNCHANGED <<streaming, session, attached, controls, fromPi, piSession, piRun, replies,
                 runs, voided>>

\* Interrupt is not gated.
Interrupt ==
  /\ Requested("interrupt")
  /\ retry' = Cancelled(retry)
  /\ shown' = ShownByCancel
  /\ interrupt' = [id |-> nextId, session |-> session, current |-> TRUE]
  /\ Say(Command("abort", nextId, None))
  /\ nextId' = nextId + 1
  /\ revoked' = TRUE /\ voided' = runs
  /\ UNCHANGED <<streaming, session, attached, configuration, resume, fromPi, piSession,
                 piRun, replies, runs, streak>>

\* What before_request does to recovery when a session is attached.
AttachIgnored(r) == r
AttachRetry(r) == Cancelled(r)

Attach ==
  \E to \in Sessions :
    /\ GateOpen
    /\ Requested("attach")
    /\ retry' = AttachRetry(retry)
    /\ shown' = ShownByCancel
    /\ attached' = None
    /\ resume' = nextId
    /\ Say(Command("switch", nextId, to))
    /\ nextId' = nextId + 1
    /\ revoked' = TRUE
    /\ UNCHANGED <<streaming, session, configuration, interrupt, fromPi, piSession, piRun,
                   replies, runs, voided, streak>>

ModelSet ==
  /\ GateOpen
  /\ Requested("model")
  /\ configuration' = nextId
  /\ Say(Command("state", nextId, None))
  /\ nextId' = nextId + 1
  /\ UNCHANGED <<retry, streaming, session, attached, interrupt, resume, shown, fromPi,
                 piSession, piRun, replies, runs, intents>>

Ping ==
  /\ GateOpen
  /\ Requested("ping")
  /\ Say(Command("state", nextId, None))
  /\ nextId' = nextId + 1
  /\ UNCHANGED <<retry, streaming, session, attached, controls, shown, fromPi, piSession,
                 piRun, replies, runs, intents>>

\* set_error_auto_retry, called by the worker loop when the setting changes.
SetEnabled ==
  /\ Requested("setting")
  /\ IF retry.enabled
       THEN /\ retry' = [Cancelled(retry) EXCEPT !.enabled = FALSE]
            /\ shown' = ShownByCancel
            /\ revoked' = TRUE
       ELSE /\ retry' = [retry EXCEPT !.enabled = TRUE]
            /\ UNCHANGED <<shown, revoked>>
  /\ UNCHANGED <<streaming, session, attached, controls, nextId, toPi, fromPi, piSession,
                 piRun, replies, runs, voided, streak>>

-----------------------------------------------------------------------------
(* The clock *)

Blocked == configuration # 0 \/ interrupt.id # 0

\* tick_retry once the wait is over; a tick before that only counts down.
Retry ==
  /\ retry.waiting
  /\ ~Blocked
  /\ retry' = [retry EXCEPT !.waiting = FALSE, !.starting = TRUE, !.prompt = nextId]
  /\ Say([kind |-> "continue", id |-> nextId, to |-> None, failed |-> retry.error])
  /\ nextId' = nextId + 1
  /\ streak' = streak + 1
  /\ UNCHANGED <<streaming, session, attached, controls, shown, fromPi, piSession, piRun,
                 counts, revoked, voided>>

-----------------------------------------------------------------------------
(* The records of Pi *)

Head1 == Head(fromPi)
Record(kind) ==
  /\ fromPi # <<>>
  /\ Head1.kind = kind
  /\ fromPi' = Tail(fromPi)

\* agent_start, with retry::started; a run that starts during the wait
\* supersedes it.
Started ==
  /\ Record("start")
  /\ streaming' = TRUE
  /\ retry' = [IF retry.waiting THEN [Cancelled(retry) EXCEPT !.cancelled = FALSE] ELSE retry
                 EXCEPT !.starting = FALSE, !.error = NoError]
  /\ streak' = IF retry.waiting THEN 0 ELSE streak
  /\ interrupt' = [interrupt EXCEPT !.current = FALSE]
  /\ shown' = "running"
  /\ UNCHANGED <<session, attached, configuration, resume, nextId, toPi, piSession, piRun,
                 counts, revoked, voided>>

\* message_end of an assistant message, with retry::message.
MessageFailed ==
  /\ Record("failed")
  /\ retry' = IF retry.enabled /\ ~retry.cancelled
                THEN [retry EXCEPT !.error = [run |-> Head1.run, session |-> Head1.session]]
                ELSE retry
  /\ UNCHANGED <<streaming, session, attached, controls, nextId, shown, toPi, piSession,
                 piRun, counts, intents>>

\* An aborted message, or Pi's own retry ended by its user (auto_retry_end).
MessageAborted ==
  /\ Record("aborted")
  /\ retry' = Cancelled(retry)
  /\ shown' = ShownByCancel
  /\ UNCHANGED <<streaming, session, attached, controls, nextId, toPi, piSession, piRun,
                 counts, intents>>

MessageDone ==
  /\ Record("done")
  /\ retry' = [Finished(retry) EXCEPT !.error = NoError, !.attempt = 0]
  /\ streak' = 0
  /\ UNCHANGED <<streaming, session, attached, controls, nextId, shown, toPi, piSession,
                 piRun, counts, revoked, voided>>

Recoverable(r) == r.enabled /\ ~r.cancelled /\ r.error # NoError /\ ~Busy(r)

\* retry::settled: wait for the next attempt, or give up.
AttemptLeftOver(r) == r.attempt <= Attempts
AttemptLeft(r) == r.attempt < Attempts
NextWaitUncounted(r) == [r EXCEPT !.activity = TRUE, !.waiting = TRUE]
NextWait(r) == [r EXCEPT !.attempt = r.attempt + 1, !.activity = TRUE, !.waiting = TRUE]
Exhausted(r) == [Finished(r) EXCEPT !.error = NoError, !.cancelled = TRUE]

Settled ==
  /\ Record("settled")
  /\ streaming' = FALSE
  /\ retry' = CASE ~Recoverable(retry)                              -> retry
                [] Recoverable(retry) /\ AttemptLeft(retry)       -> NextWait(retry)
                [] Recoverable(retry) /\ ~AttemptLeft(retry)      -> Exhausted(retry)
  /\ nextId' = IF ~retry.activity /\ retry'.activity THEN nextId + 1 ELSE nextId
  /\ shown' = IF Busy(retry') THEN "running" ELSE "idle"
  /\ UNCHANGED <<session, attached, controls, toPi, piSession, piRun, counts, intents>>

\* The response to the continuation.
Continued ==
  /\ Record("continued")
  /\ IF retry.prompt # Head1.id
       THEN UNCHANGED <<retry, shown, nextId, toPi>>
       ELSE \/ /\ Head1.ok /\ retry.starting
               /\ retry' = [retry EXCEPT !.prompt = 0, !.state = nextId]
               /\ Say(Command("retry-state", nextId, None))
               /\ nextId' = nextId + 1
               /\ UNCHANGED shown
            \/ /\ Head1.ok /\ ~retry.starting
               /\ retry' = [retry EXCEPT !.prompt = 0]
               /\ UNCHANGED <<shown, nextId, toPi>>
            \/ /\ ~Head1.ok
               /\ retry' = [Finished(retry) EXCEPT !.prompt = 0, !.cancelled = TRUE,
                                                   !.error = NoError]
               /\ shown' = IF streaming THEN shown ELSE "idle"
               /\ UNCHANGED <<nextId, toPi>>
  /\ UNCHANGED <<streaming, session, attached, controls, piSession, piRun, counts, intents>>

\* The response to the state read after it: did a run begin?
ContinuationState ==
  /\ Record("retry-state")
  /\ IF retry.state # Head1.id
       THEN UNCHANGED <<retry, streaming, shown>>
       ELSE \/ /\ ~retry.starting
               /\ retry' = [retry EXCEPT !.state = 0]
               /\ UNCHANGED <<streaming, shown>>
            \/ /\ retry.starting /\ Head1.ok /\ Head1.streaming
               /\ retry' = [retry EXCEPT !.state = 0, !.starting = FALSE]
               /\ streaming' = TRUE
               /\ UNCHANGED shown
            \/ /\ retry.starting /\ ~(Head1.ok /\ Head1.streaming)
               /\ retry' = Cancelled(retry)
               /\ shown' = ShownByCancel
               /\ UNCHANGED streaming
  /\ UNCHANGED <<session, attached, controls, nextId, toPi, piSession, piRun, counts, intents>>

\* The status state_response reports.
ShownByRunAlone(on, r) == IF on THEN "running" ELSE "idle"
ShownByState(on, r) == IF on \/ Busy(r) THEN "running" ELSE "idle"

\* session::state_response on the state a record reports.
TakeState(s) ==
  LET switched == attached # s.session
      r == IF switched THEN Reset(retry) ELSE retry
  IN /\ streaming' = s.streaming
     /\ session' = s.session
     /\ attached' = s.session
     /\ retry' = r
     /\ shown' = ShownByState(s.streaming, r)
     /\ revoked' = (revoked /\ (session = None \/ ~switched))
     /\ streak' = IF switched THEN 0 ELSE streak

StateKept == UNCHANGED <<retry, streaming, session, attached, shown, revoked, streak>>

\* interrupt_context: the session, and no run started since.
InterruptCurrent == interrupt.current /\ interrupt.session = session

\* The abort of an interrupt is answered: read the state, unless a run or a
\* session has come in between, or the abort failed.
Aborted ==
  /\ Record("abort")
  /\ IF interrupt.id # Head1.id
       THEN UNCHANGED <<interrupt, toPi, nextId>>
       ELSE IF InterruptCurrent /\ Head1.ok
              THEN /\ interrupt' = [id |-> nextId, session |-> session, current |-> TRUE]
                   /\ Say(Command("interrupt-state", nextId, None))
                   /\ nextId' = nextId + 1
              ELSE interrupt' = NoInterrupt /\ UNCHANGED <<toPi, nextId>>
  /\ voided' = IF Head1.ok THEN voided ELSE 0
  /\ UNCHANGED <<retry, streaming, session, attached, configuration, resume, shown,
                 piSession, piRun, counts, revoked, streak>>

InterruptState ==
  /\ Record("interrupt-state")
  /\ IF interrupt.id # Head1.id
       THEN StateKept /\ UNCHANGED interrupt
       ELSE /\ interrupt' = NoInterrupt
            /\ IF InterruptCurrent /\ Head1.ok /\ Head1.session = session
                 THEN TakeState(Head1)
                 ELSE StateKept
  /\ UNCHANGED <<configuration, resume, nextId, toPi, piSession, piRun, counts, voided>>

\* Ping, and the end of a model change.
State ==
  /\ Record("state")
  /\ configuration' = IF configuration = Head1.id THEN 0 ELSE configuration
  /\ IF Head1.ok THEN TakeState(Head1) ELSE StateKept
  /\ UNCHANGED <<interrupt, resume, nextId, toPi, piSession, piRun, counts, voided>>

\* switch_session is answered, then the state, then the history.
Switched ==
  /\ Record("switch")
  /\ IF ~Head1.ok \/ resume # Head1.id
       THEN /\ resume' = IF resume = Head1.id THEN 0 ELSE resume
            /\ UNCHANGED <<toPi, nextId>>
       ELSE /\ resume' = nextId
            /\ Say(Command("resume-state", nextId, None))
            /\ nextId' = nextId + 1
  /\ UNCHANGED <<retry, streaming, session, attached, configuration, interrupt, shown,
                 piSession, piRun, counts, intents>>

ResumeState ==
  /\ Record("resume-state")
  /\ IF Head1.ok THEN TakeState(Head1) ELSE StateKept
  /\ IF Head1.ok /\ resume = Head1.id
       THEN /\ resume' = nextId
            /\ Say(Command("resume-history", nextId, None))
            /\ nextId' = nextId + 1
       ELSE /\ resume' = IF resume = Head1.id THEN 0 ELSE resume
            /\ UNCHANGED <<toPi, nextId>>
  /\ UNCHANGED <<configuration, interrupt, piSession, piRun, counts, voided>>

ResumeHistory ==
  /\ Record("resume-history")
  /\ resume' = IF resume = Head1.id THEN 0 ELSE resume
  /\ UNCHANGED <<retry, streaming, session, attached, configuration, interrupt, nextId,
                 shown, toPi, piSession, piRun, counts, intents>>

-----------------------------------------------------------------------------
(* Pi, external: it reads a command, or goes on with its run *)

Idle == [on |-> FALSE, spoken |-> FALSE]
Begun == [on |-> TRUE, spoken |-> FALSE]

Event(kind)  == [kind |-> kind, run |-> runs, session |-> piSession]
Reply(c, ok) == [kind |-> c.kind, id |-> c.id, ok |-> ok, streaming |-> piRun.on,
                 session |-> piSession]
Write(records) == fromPi' = fromPi \o records

\* How a run ends that Pi is told to abort.
Abortion == IF piRun.on THEN <<Event("aborted"), Event("settled")>> ELSE <<>>

\* The commands that only read.
ReadKinds == {"state", "retry-state", "interrupt-state", "resume-state", "resume-history"}

Reads(kind) == toPi # <<>> /\ Head(toPi).kind = kind /\ toPi' = Tail(toPi)

AdapterKept == UNCHANGED <<retry, streaming, session, attached, controls, nextId, shown, requests,
                           intents>>

\* A prompt of the user joins the run, begins one, or is refused.
PiPrompt ==
  /\ Reads("prompt")
  /\ \/ UNCHANGED <<piRun, runs, fromPi>>
     \/ /\ ~piRun.on /\ runs < MaxRuns
        /\ piRun' = Begun /\ runs' = runs + 1
        /\ Write(<<[kind |-> "start"]>>)
  /\ UNCHANGED <<piSession, replies>> /\ AdapterKept

\* The continuation is refused during a run; else it begins one, or a command
\* of Pi handles it without one.
PiContinue ==
  /\ Reads("continue")
  /\ LET c == [Head(toPi) EXCEPT !.kind = "continued"]
     IN \/ /\ piRun.on \/ "continue" \in Failures
           /\ Write(<<Reply(c, FALSE)>>) /\ UNCHANGED <<piRun, runs>>
        \/ ~piRun.on /\ Write(<<Reply(c, TRUE)>>) /\ UNCHANGED <<piRun, runs>>
        \/ /\ ~piRun.on
           /\ piRun' = Begun /\ runs' = runs + 1
           /\ \/ Write(<<[kind |-> "start"], Reply(c, TRUE)>>)
              \/ Write(<<Reply(c, TRUE), [kind |-> "start"]>>)
  /\ UNCHANGED <<piSession, replies>> /\ AdapterKept

PiRead ==
  \E kind \in ReadKinds, ok \in BOOLEAN :
    /\ Reads(kind)
    /\ ok \/ kind \in Failures
    /\ Write(<<Reply(Head(toPi), ok)>>)
    /\ UNCHANGED <<piSession, piRun, runs, replies>> /\ AdapterKept

PiAbort ==
  \E ok \in BOOLEAN :
    /\ Reads("abort")
    /\ ok \/ "abort" \in Failures
    /\ IF ok THEN /\ Write(Append(Abortion, Reply(Head(toPi), TRUE)))
                  /\ piRun' = Idle
             ELSE /\ Write(<<Reply(Head(toPi), FALSE)>>)
                  /\ UNCHANGED piRun
    /\ UNCHANGED <<piSession, runs, replies>> /\ AdapterKept

PiSwitch ==
  \E ok \in BOOLEAN :
    /\ Reads("switch")
    /\ ok \/ "switch" \in Failures
    /\ IF ok THEN /\ Write(Append(Abortion, Reply(Head(toPi), TRUE)))
                  /\ piRun' = Idle
                  /\ piSession' = Head(toPi).to
             ELSE /\ Write(<<Reply(Head(toPi), FALSE)>>)
                  /\ UNCHANGED <<piRun, piSession>>
    /\ UNCHANGED <<runs, replies>> /\ AdapterKept

\* An extension or Pi itself begins a run.
PiOwnRun ==
  /\ ~piRun.on /\ runs < MaxRuns
  /\ piRun' = Begun /\ runs' = runs + 1
  /\ Write(<<[kind |-> "start"]>>)
  /\ UNCHANGED <<toPi, piSession, replies>> /\ AdapterKept

\* A run ends assistant messages, well or in an error that Pi may retry itself.
PiMessage ==
  \E kind \in {"failed", "done"} :
    /\ piRun.on /\ replies < MaxReplies
    /\ replies' = replies + 1
    /\ piRun' = [piRun EXCEPT !.spoken = TRUE]
    /\ Write(<<Event(kind)>>)
    /\ UNCHANGED <<toPi, piSession, runs>> /\ AdapterKept

\* A run of which an assistant message has ended may end; past the bound, any.
PiSettle ==
  /\ piRun.on /\ piRun.spoken
  /\ piRun' = Idle
  /\ Write(<<Event("settled")>>)
  /\ UNCHANGED <<toPi, piSession, runs, replies>> /\ AdapterKept

-----------------------------------------------------------------------------
Init ==
  /\ retry \in {NewRetry, [NewRetry EXCEPT !.enabled = FALSE]}
  /\ streaming = FALSE
  /\ piSession \in Sessions
  /\ session = IF AtStartup THEN None ELSE piSession
  /\ attached = session
  /\ configuration = 0 /\ interrupt = NoInterrupt /\ resume = 0
  /\ nextId = 2
  /\ shown = "idle"
  /\ toPi = IF AtStartup THEN <<Command("state", 1, None)>> ELSE <<>>
  /\ fromPi = <<>>
  /\ piRun = Idle
  /\ runs = 0 /\ requests = 0 /\ replies = 0
  /\ revoked = FALSE /\ voided = 0 /\ streak = 0

User == Prompt \/ Interrupt \/ Attach \/ ModelSet \/ Ping \/ SetEnabled

Receive ==
  \/ Started \/ MessageFailed \/ MessageAborted \/ MessageDone \/ Settled
  \/ Continued \/ ContinuationState \/ Aborted \/ InterruptState
  \/ State \/ Switched \/ ResumeState \/ ResumeHistory

PiAnswers == PiPrompt \/ PiContinue \/ PiRead \/ PiAbort \/ PiSwitch

Pi == PiAnswers \/ PiOwnRun \/ PiMessage \/ PiSettle

Next == User \/ Retry \/ Receive \/ Pi

Spec == Init /\ [][Next]_vars

\* The worker takes every record, the wait ends, and Pi answers every command.
Fairness == WF_vars(Receive) /\ WF_vars(Retry) /\ WF_vars(PiAnswers)

FairSpec == Spec /\ Fairness

-----------------------------------------------------------------------------
(* Properties *)

SessionsOrNone == Sessions \cup {None}
ErrorType == [run : Nat, session : SessionsOrNone]
RetryType ==
  [enabled : BOOLEAN, cancelled : BOOLEAN, attempt : 0..Attempts, error : ErrorType,
   activity : BOOLEAN, waiting : BOOLEAN, prompt : Nat, state : Nat, starting : BOOLEAN]

CommandType ==
  [kind : ReadKinds \cup {"prompt", "continue", "abort"}, id : Nat, to : {None},
   failed : ErrorType]
    \cup [kind : {"switch"}, id : Nat, to : Sessions, failed : ErrorType]
RecordType ==
  [kind : {"start"}]
    \cup [kind : {"failed", "done", "aborted", "settled"}, run : Nat, session : Sessions]
    \cup [kind : ReadKinds \cup {"continued", "abort", "switch"}, id : Nat, ok : BOOLEAN,
          streaming : BOOLEAN, session : Sessions]

\* The fields of the adapter's recovery, of its barriers and of Pi have their types.
TypeOK ==
  /\ retry \in RetryType
  /\ streaming \in BOOLEAN /\ shown \in {"idle", "running"}
  /\ session \in SessionsOrNone /\ attached \in SessionsOrNone
  /\ configuration \in Nat /\ resume \in Nat /\ nextId \in Nat
  /\ interrupt \in [id : Nat, session : SessionsOrNone, current : BOOLEAN]
  /\ toPi \in Seq(CommandType) /\ fromPi \in Seq(RecordType)
  /\ piSession \in Sessions /\ piRun \in [on : BOOLEAN, spoken : BOOLEAN]
  /\ runs \in Nat /\ requests \in Nat /\ replies \in Nat
  /\ streak \in Nat /\ voided \in Nat /\ revoked \in BOOLEAN

\* When no record or command is under way, the frontend shows a session at
\* work exactly when Pi runs or recovery is pending: queues and temporary models
\* of the frontend wait for that status.
StatusTruth ==
  toPi = <<>> /\ fromPi = <<>> => (shown = "running") = (piRun.on \/ Busy(retry))

\* Recovery does not wait during a run, and none is pending while an attach has
\* not yet shown the session Pi is in.
RecoveryAlone ==
  /\ retry.waiting => ~streaming
  /\ Busy(retry) => resume = 0 \/ attached # None

\* The progress row is closed when nothing is left to recover.
RowClosed ==
  toPi = <<>> /\ fromPi = <<>> /\ ~piRun.on /\ ~Busy(retry) => ~retry.activity

\* What the frontend shows of the session and of its recovery is so.
ShownTrue == StatusTruth /\ RowClosed

\* No more continuations than the delays allow, since the user's last prompt, the
\* last success, or a run that superseded the recovery.
Budget == streak <= Attempts

Continues == Len(toPi') > Len(toPi) /\ toPi'[Len(toPi')].kind = "continue"

\* A user who interrupts, attaches or disables recovery gets no continuation
\* before the next prompt or session.
NoRevival == [][Continues => ~revoked]_vars

\* A continuation answers an error of a run that was not yet begun when the
\* user last interrupted, however late that error was read.
NoStaleRecovery == [][Continues => toPi'[Len(toPi')].failed.run > voided]_vars

\* A continuation is read by Pi in the session whose run failed.
SameConversation ==
  [][toPi # <<>> /\ toPi' = Tail(toPi) /\ Head(toPi).kind = "continue"
       => Head(toPi).failed.session = piSession]_vars

\* Recovery keeps to one conversation: no step leaves it pending during an attach
\* (before_request cancels it), and a continuation meets the session whose run failed.
OneConversation == [][RecoveryAlone']_vars /\ SameConversation

\* Recovery that is pending comes to an end: a run, a refusal or a cancellation.
RecoveryEnds == Busy(retry) ~> ~Busy(retry)
=============================================================================
