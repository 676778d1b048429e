--------------------------- MODULE PiRetryProofs ---------------------------
(***************************************************************************)
(* Theorems about fallback recovery, for any number of requests, runs,     *)
(* sessions and attempts.                                                  *)
(***************************************************************************)
EXTENDS PiRetry, SequenceTheorems, TLAPS

-----------------------------------------------------------------------------
(* What the operators the actions are built from do to typed values *)

LEMMA NoErrorType == NoError \in ErrorType
BY DEF NoError, ErrorType, SessionsOrNone

LEMMA FinishedType ==
  ASSUME NEW r \in RetryType
  PROVE  /\ Finished(r) \in RetryType
         /\ Finished(r).attempt = r.attempt /\ Finished(r).cancelled = r.cancelled
         /\ ~Finished(r).waiting
BY DEF RetryType, Finished

LEMMA CancelledType ==
  ASSUME NEW r \in RetryType
  PROVE  /\ Cancelled(r) \in RetryType
         /\ Cancelled(r).attempt = 0 /\ Cancelled(r).cancelled /\ ~Cancelled(r).waiting
<1>1. Finished(r) \in RetryType /\ ~Finished(r).waiting
  BY FinishedType
<1>2. 0 \in 0..Attempts
  BY RetryConstants
<1> QED BY <1>1, <1>2, NoErrorType DEF RetryType, Cancelled

LEMMA ResetType ==
  ASSUME NEW r \in RetryType
  PROVE  /\ Reset(r) \in RetryType
         /\ Reset(r).attempt = 0 /\ ~Reset(r).waiting
<1>1. 0 \in 0..Attempts
  BY RetryConstants
<1> QED BY <1>1, NoErrorType DEF RetryType, Reset, NewRetry

LEMMA HeadType ==
  ASSUME TypeOK, NEW kind, Record(kind)
  PROVE  /\ Head1 \in RecordType
         /\ Head1.kind = kind
         /\ fromPi' \in Seq(RecordType)
BY HeadTailProperties DEF TypeOK, Record, Head1

LEMMA EventFields ==
  ASSUME NEW e \in RecordType, e.kind \in {"failed", "done", "aborted", "settled"}
  PROVE  e.run \in Nat /\ e.session \in Sessions
BY DEF RecordType, ReadKinds

LEMMA ReplyFields ==
  ASSUME NEW e \in RecordType, e.kind \in ReadKinds \cup {"continued", "abort", "switch"}
  PROVE  /\ e.id \in Nat /\ e.ok \in BOOLEAN /\ e.streaming \in BOOLEAN
         /\ e.session \in Sessions
BY DEF RecordType, ReadKinds

LEMMA CommandTyped ==
  ASSUME NEW kind, NEW id \in Nat, NEW to,
         \/ kind \in ReadKinds \cup {"prompt", "continue", "abort"} /\ to = None
         \/ kind = "switch" /\ to \in Sessions
  PROVE  Command(kind, id, to) \in CommandType
BY DEF Command, CommandType, NoError, ErrorType, SessionsOrNone

LEMMA SayType ==
  ASSUME TypeOK, NEW c \in CommandType, Say(c)
  PROVE  toPi' \in Seq(CommandType)
BY AppendProperties DEF TypeOK, Say

LEMMA TakeStateType ==
  ASSUME TypeOK, NEW s \in RecordType, TakeState(s),
         s.kind \in ReadKinds
  PROVE  /\ retry' \in RetryType
         /\ streaming' \in BOOLEAN /\ shown' \in {"idle", "running"}
         /\ session' \in Sessions /\ attached' \in SessionsOrNone
         /\ revoked' \in BOOLEAN /\ streak' \in Nat
<1>1. s.streaming \in BOOLEAN /\ s.session \in Sessions
  BY ReplyFields
<1>2. retry' \in RetryType
  BY ResetType DEF TakeState, TypeOK
<1>3. shown' \in {"idle", "running"}
  BY DEF TakeState, ShownByState
<1> QED BY <1>1, <1>2, <1>3 DEF TakeState, TypeOK, SessionsOrNone

LEMMA ShortSequences ==
  ASSUME NEW S, NEW a \in S
  PROVE  <<a>> \in Seq(S) /\ \A b \in S : <<a, b>> \in Seq(S) /\ <<b, a>> \in Seq(S)
OBVIOUS

LEMMA WriteType ==
  ASSUME TypeOK, NEW records \in Seq(RecordType), Write(records)
  PROVE  fromPi' \in Seq(RecordType)
BY ConcatProperties DEF TypeOK, Write

LEMMA EventType ==
  ASSUME TypeOK, NEW kind \in {"failed", "done", "aborted", "settled"}
  PROVE  Event(kind) \in RecordType
BY DEF TypeOK, Event, RecordType

LEMMA AbortionType == TypeOK => Abortion \in Seq(RecordType)
BY EventType, ShortSequences DEF Abortion

LEMMA ReadsType ==
  ASSUME TypeOK, NEW kind, Reads(kind)
  PROVE  /\ Head(toPi) \in CommandType /\ Head(toPi).kind = kind
         /\ Head(toPi).id \in Nat
         /\ kind = "switch" => Head(toPi).to \in Sessions
         /\ toPi' \in Seq(CommandType)
<1>1. toPi \in Seq(CommandType) /\ toPi # <<>>
  BY DEF TypeOK, Reads
<1>2. Head(toPi) \in CommandType /\ Tail(toPi) \in Seq(CommandType)
  BY <1>1, HeadTailProperties
<1> QED BY <1>2 DEF Reads, CommandType, ReadKinds

LEMMA ReplyType ==
  ASSUME TypeOK, NEW c, NEW ok \in BOOLEAN,
         c.kind \in ReadKinds \cup {"continued", "abort", "switch"}, c.id \in Nat
  PROVE  Reply(c, ok) \in RecordType
BY DEF TypeOK, Reply, RecordType

-----------------------------------------------------------------------------
(* Every step preserves the types *)

LEMMA UserType == TypeOK /\ User => TypeOK'
<1> SUFFICES ASSUME TypeOK, User PROVE TypeOK'
  OBVIOUS
<1> USE NoErrorType
<1>id. nextId \in Nat /\ nextId + 1 \in Nat
  BY DEF TypeOK
<1>req. ASSUME NEW kind, Requested(kind) PROVE requests' \in Nat
  BY <1>req DEF Requested, TypeOK
<1>cancelled. /\ Cancelled(retry) \in RetryType
              /\ [Cancelled(retry) EXCEPT !.cancelled = FALSE] \in RetryType
              /\ [Cancelled(retry) EXCEPT !.enabled = FALSE] \in RetryType
              /\ [retry EXCEPT !.enabled = TRUE] \in RetryType
  BY CancelledType DEF TypeOK, RetryType
<1>shown. ShownByCancel \in {"idle", "running"}
  BY DEF ShownByCancel, TypeOK
<1>1. CASE Prompt
  <2>1. toPi' \in Seq(CommandType)
    BY <1>1, <1>id, CommandTyped, SayType DEF Prompt
  <2> QED BY <1>1, <1>id, <1>req, <1>cancelled, <1>shown, <2>1 DEF Prompt, TypeOK, controls
<1>2. CASE Interrupt
  <2>1. toPi' \in Seq(CommandType)
    BY <1>2, <1>id, CommandTyped, SayType DEF Interrupt
  <2> QED BY <1>2, <1>id, <1>req, <1>cancelled, <1>shown, <2>1 DEF Interrupt, TypeOK
<1>3. CASE Attach
  <2>1. toPi' \in Seq(CommandType)
    BY <1>3, <1>id, CommandTyped, SayType DEF Attach
  <2> QED BY <1>3, <1>id, <1>req, <1>cancelled, <1>shown, <2>1
          DEF Attach, AttachRetry, TypeOK, SessionsOrNone
<1>4. CASE ModelSet
  <2>1. toPi' \in Seq(CommandType)
    BY <1>4, <1>id, CommandTyped, SayType DEF ModelSet, ReadKinds
  <2> QED BY <1>4, <1>id, <1>req, <2>1 DEF ModelSet, TypeOK, intents
<1>5. CASE Ping
  <2>1. toPi' \in Seq(CommandType)
    BY <1>5, <1>id, CommandTyped, SayType DEF Ping, ReadKinds
  <2> QED BY <1>5, <1>id, <1>req, <2>1 DEF Ping, TypeOK, intents, controls
<1>6. CASE SetEnabled
  <2>1. retry' \in RetryType /\ shown' \in {"idle", "running"} /\ revoked' \in BOOLEAN
    BY <1>6, <1>cancelled, <1>shown DEF SetEnabled, TypeOK
  <2>2. requests' \in Nat
    BY <1>6, <1>req DEF SetEnabled
  <2>3. toPi' \in Seq(CommandType) /\ fromPi' \in Seq(RecordType)
    BY <1>6 DEF SetEnabled, TypeOK
  <2> QED BY <1>6, <2>1, <2>2, <2>3 DEF SetEnabled, TypeOK, controls
<1> QED BY <1>1, <1>2, <1>3, <1>4, <1>5, <1>6 DEF User

LEMMA RetryStepType == TypeOK /\ Retry => TypeOK'
<1> SUFFICES ASSUME TypeOK, Retry PROVE TypeOK'
  OBVIOUS
<1>1. [kind |-> "continue", id |-> nextId, to |-> None, failed |-> retry.error] \in CommandType
  BY DEF TypeOK, RetryType, CommandType
<1>2. toPi' \in Seq(CommandType)
  BY <1>1, SayType DEF Retry
<1>3. retry' \in RetryType
  BY DEF Retry, TypeOK, RetryType
<1>4. nextId' \in Nat /\ streak' \in Nat
  BY DEF Retry, TypeOK
<1> QED BY <1>2, <1>3, <1>4 DEF Retry, TypeOK, controls, counts

LEMMA ReceiveType == TypeOK /\ Receive => TypeOK'
<1> SUFFICES ASSUME TypeOK, Receive PROVE TypeOK'
  OBVIOUS
<1> USE NoErrorType
<1>id. nextId \in Nat /\ nextId + 1 \in Nat
  BY DEF TypeOK
<1>retry. /\ Finished(retry) \in RetryType /\ Cancelled(retry) \in RetryType
          /\ [Cancelled(retry) EXCEPT !.cancelled = FALSE] \in RetryType
  <2>1. retry \in RetryType
    BY DEF TypeOK
  <2>2. Finished(retry) \in RetryType /\ Cancelled(retry) \in RetryType
    BY <2>1, FinishedType, CancelledType
  <2> QED BY <2>2 DEF RetryType
<1>interrupt. /\ NoInterrupt \in [id : Nat, session : SessionsOrNone, current : BOOLEAN]
              /\ [id |-> nextId, session |-> session, current |-> TRUE]
                    \in [id : Nat, session : SessionsOrNone, current : BOOLEAN]
              /\ interrupt \in [id : Nat, session : SessionsOrNone, current : BOOLEAN]
  BY DEF TypeOK, NoInterrupt, SessionsOrNone
<1>shown. ShownByCancel \in {"idle", "running"}
  BY DEF ShownByCancel, TypeOK
<1>zero. 0 \in 0..Attempts
  BY RetryConstants
<1>1. CASE Started
  <2>1. fromPi' \in Seq(RecordType)
    BY <1>1, HeadType DEF Started
  <2>2. retry' \in RetryType
    BY <1>1, <1>retry DEF Started, TypeOK, RetryType
  <2>3. interrupt' \in [id : Nat, session : SessionsOrNone, current : BOOLEAN]
    BY <1>1 DEF Started, TypeOK
  <2>4. streak' \in Nat
    BY <1>1 DEF Started, TypeOK
  <2> QED BY <1>1, <2>1, <2>2, <2>3, <2>4 DEF Started, TypeOK, counts
<1>2. CASE MessageFailed
  <2>1. /\ Head1 \in RecordType /\ Head1.kind = "failed" /\ fromPi' \in Seq(RecordType)
    BY <1>2, HeadType DEF MessageFailed
  <2>2. [run |-> Head1.run, session |-> Head1.session] \in ErrorType
    BY <2>1, EventFields DEF ErrorType, SessionsOrNone
  <2>3. retry' \in RetryType
    BY <1>2, <2>2 DEF MessageFailed, TypeOK, RetryType
  <2> QED BY <1>2, <2>1, <2>3 DEF MessageFailed, TypeOK, controls, counts, intents
<1>3. CASE MessageAborted
  <2>1. fromPi' \in Seq(RecordType)
    BY <1>3, HeadType DEF MessageAborted
  <2> QED BY <1>3, <1>retry, <1>shown, <2>1
          DEF MessageAborted, TypeOK, controls, counts, intents
<1>4. CASE MessageDone
  <2>1. fromPi' \in Seq(RecordType)
    BY <1>4, HeadType DEF MessageDone
  <2>2. retry' \in RetryType
    BY <1>4, <1>retry, <1>zero DEF MessageDone, RetryType
  <2> QED BY <1>4, <2>1, <2>2 DEF MessageDone, TypeOK, controls, counts
<1>5. CASE Settled
  <2>1. fromPi' \in Seq(RecordType)
    BY <1>5, HeadType DEF Settled
  <2>2. CASE Recoverable(retry) /\ AttemptLeft(retry)
    <3>1. retry' = NextWait(retry)
      BY <1>5, <2>2 DEF Settled
    <3>2. retry.attempt + 1 \in 0..Attempts
      BY <2>2, RetryConstants DEF TypeOK, RetryType, AttemptLeft
    <3>3. retry' \in RetryType
      BY <3>1, <3>2 DEF NextWait, TypeOK, RetryType
    <3> QED BY <1>5, <1>id, <2>1, <3>3 DEF Settled, TypeOK, controls, counts, intents
  <2>3. CASE ~(Recoverable(retry) /\ AttemptLeft(retry))
    <3>1. retry' = retry \/ retry' = Exhausted(retry)
      BY <1>5, <2>3 DEF Settled
    <3>2. retry' \in RetryType
      BY <3>1, <1>retry DEF Exhausted, TypeOK, RetryType
    <3> QED BY <1>5, <1>id, <2>1, <3>2 DEF Settled, TypeOK, controls, counts, intents
  <2> QED BY <2>2, <2>3
<1>6. CASE Continued
  <2>1. fromPi' \in Seq(RecordType)
    BY <1>6, HeadType DEF Continued
  <2>2. CASE retry' = retry /\ shown' = shown /\ nextId' = nextId /\ toPi' = toPi
    BY <1>6, <2>1, <2>2 DEF Continued, TypeOK, controls, counts, intents
  <2>3. CASE /\ retry' = [retry EXCEPT !.prompt = 0, !.state = nextId]
             /\ Say(Command("retry-state", nextId, None))
             /\ nextId' = nextId + 1 /\ shown' = shown
    <3>1. toPi' \in Seq(CommandType)
      BY <2>3, <1>id, CommandTyped, SayType DEF ReadKinds
    <3>2. retry' \in RetryType
      BY <2>3, <1>id DEF TypeOK, RetryType
    <3> QED BY <1>6, <1>id, <2>1, <2>3, <3>1, <3>2 DEF Continued, TypeOK, controls, counts, intents
  <2>4. CASE retry' = [retry EXCEPT !.prompt = 0] /\ UNCHANGED <<shown, nextId, toPi>>
    <3>1. retry' \in RetryType
      BY <2>4 DEF TypeOK, RetryType
    <3> QED BY <1>6, <2>1, <2>4, <3>1 DEF Continued, TypeOK, controls, counts, intents
  <2>5. CASE /\ retry' = [Finished(retry) EXCEPT !.prompt = 0, !.cancelled = TRUE,
                                                  !.error = NoError]
             /\ shown' = (IF streaming THEN shown ELSE "idle")
             /\ UNCHANGED <<nextId, toPi>>
    <3>1. retry' \in RetryType
      BY <2>5, <1>retry DEF RetryType
    <3> QED BY <1>6, <2>1, <2>5, <3>1 DEF Continued, TypeOK, controls, counts, intents
  <2> QED BY <1>6, <2>2, <2>3, <2>4, <2>5 DEF Continued
<1>7. CASE ContinuationState
  <2>1. fromPi' \in Seq(RecordType)
    BY <1>7, HeadType DEF ContinuationState
  <2>2. retry' \in RetryType
    <3>1. \/ retry' \in {retry, Cancelled(retry), [retry EXCEPT !.state = 0]}
          \/ retry' = [retry EXCEPT !.state = 0, !.starting = FALSE]
      BY <1>7 DEF ContinuationState
    <3>2. /\ [retry EXCEPT !.state = 0] \in RetryType
          /\ [retry EXCEPT !.state = 0, !.starting = FALSE] \in RetryType
      BY DEF TypeOK, RetryType
    <3>3. retry \in RetryType
      BY DEF TypeOK
    <3> QED BY <1>retry, <3>1, <3>2, <3>3
  <2>3. streaming' \in BOOLEAN /\ shown' \in {"idle", "running"}
    BY <1>7, <1>shown DEF ContinuationState, TypeOK
  <2> QED BY <1>7, <2>1, <2>2, <2>3 DEF ContinuationState, TypeOK, controls, counts, intents
<1>8. CASE Aborted
  <2>1. /\ Head1 \in RecordType /\ Head1.kind = "abort" /\ fromPi' \in Seq(RecordType)
    BY <1>8, HeadType DEF Aborted
  <2>2. /\ toPi' \in Seq(CommandType) /\ nextId' \in Nat
        /\ interrupt' \in [id : Nat, session : SessionsOrNone, current : BOOLEAN]
    <3>1. Command("interrupt-state", nextId, None) \in CommandType
      BY <1>id, CommandTyped DEF ReadKinds
    <3>2. CASE Say(Command("interrupt-state", nextId, None))
      <4>1. toPi' \in Seq(CommandType)
        BY <3>1, <3>2, SayType
      <4>2. nextId' \in Nat
        BY <1>8, <1>id DEF Aborted
      <4>3. interrupt' \in [id : Nat, session : SessionsOrNone, current : BOOLEAN]
        BY <1>8, <1>interrupt DEF Aborted
      <4> QED BY <4>1, <4>2, <4>3
    <3>3. CASE ~Say(Command("interrupt-state", nextId, None))
      <4>1. interrupt' = interrupt \/ interrupt' = NoInterrupt
        BY <1>8, <3>3 DEF Aborted
      <4>2. toPi' = toPi /\ nextId' = nextId
        BY <1>8, <3>3 DEF Aborted
      <4> QED BY <1>interrupt, <4>1, <4>2 DEF TypeOK
    <3> QED BY <3>2, <3>3
  <2>3. voided' \in Nat
    BY <1>8 DEF Aborted, TypeOK
  <2> QED BY <1>8, <2>1, <2>2, <2>3 DEF Aborted, TypeOK, counts
<1>taken. ASSUME NEW kind \in ReadKinds, Record(kind),
                 TakeState(Head1) \/ StateKept
          PROVE  /\ retry' \in RetryType
                 /\ streaming' \in BOOLEAN /\ shown' \in {"idle", "running"}
                 /\ session' \in SessionsOrNone /\ attached' \in SessionsOrNone
                 /\ revoked' \in BOOLEAN /\ streak' \in Nat
                 /\ fromPi' \in Seq(RecordType)
                 /\ Head1.id \in Nat
  <2>1. Head1 \in RecordType /\ Head1.kind = kind /\ fromPi' \in Seq(RecordType)
    BY <1>taken, HeadType
  <2>2. Head1.id \in Nat
    BY <2>1, <1>taken, ReplyFields
  <2>3. CASE TakeState(Head1)
    BY <1>taken, <2>1, <2>2, <2>3, TakeStateType DEF SessionsOrNone
  <2>4. CASE StateKept
    BY <2>1, <2>2, <2>4 DEF StateKept, TypeOK
  <2> QED BY <1>taken, <2>3, <2>4
<1>9. CASE InterruptState
  <2>1. TakeState(Head1) \/ StateKept
    BY <1>9 DEF InterruptState
  <2>2. Record("interrupt-state")
    BY <1>9 DEF InterruptState
  <2>3. "interrupt-state" \in ReadKinds
    BY DEF ReadKinds
  <2>4. interrupt' \in [id : Nat, session : SessionsOrNone, current : BOOLEAN]
    BY <1>9, <1>interrupt DEF InterruptState
  <2> QED BY <1>9, <2>1, <2>2, <2>3, <2>4, <1>taken DEF InterruptState, TypeOK, counts
<1>10. CASE State
  <2>1. TakeState(Head1) \/ StateKept
    BY <1>10 DEF State
  <2>2. Record("state") /\ "state" \in ReadKinds
    BY <1>10 DEF State, ReadKinds
  <2> QED BY <1>10, <2>1, <2>2, <1>taken DEF State, TypeOK, counts
<1>11. CASE Switched
  <2>1. fromPi' \in Seq(RecordType)
    BY <1>11, HeadType DEF Switched
  <2>2. toPi' \in Seq(CommandType) /\ nextId' \in Nat /\ resume' \in Nat
    BY <1>11, <1>id, CommandTyped, SayType DEF Switched, TypeOK, ReadKinds
  <2> QED BY <1>11, <2>1, <2>2 DEF Switched, TypeOK, counts, intents
<1>12. CASE ResumeState
  <2>1. TakeState(Head1) \/ StateKept
    BY <1>12 DEF ResumeState
  <2>2. Record("resume-state") /\ "resume-state" \in ReadKinds
    BY <1>12 DEF ResumeState, ReadKinds
  <2>3. toPi' \in Seq(CommandType) /\ nextId' \in Nat /\ resume' \in Nat
    BY <1>12, <1>id, CommandTyped, SayType DEF ResumeState, TypeOK, ReadKinds
  <2> QED BY <1>12, <2>1, <2>2, <2>3, <1>taken DEF ResumeState, TypeOK, counts
<1>13. CASE ResumeHistory
  <2>1. fromPi' \in Seq(RecordType)
    BY <1>13, HeadType DEF ResumeHistory
  <2> QED BY <1>13, <2>1 DEF ResumeHistory, TypeOK, counts, intents
<1> QED BY <1>1, <1>2, <1>3, <1>4, <1>5, <1>6, <1>7, <1>8, <1>9, <1>10, <1>11, <1>12, <1>13
        DEF Receive

LEMMA PiType == TypeOK /\ Pi => TypeOK'
<1> SUFFICES ASSUME TypeOK, Pi PROVE TypeOK'
  OBVIOUS
<1>run. Idle \in [on : BOOLEAN, spoken : BOOLEAN] /\ Begun \in [on : BOOLEAN, spoken : BOOLEAN]
  BY DEF Idle, Begun
<1>runs. runs + 1 \in Nat /\ replies + 1 \in Nat
  BY DEF TypeOK
<1>start. [kind |-> "start"] \in RecordType
  BY DEF RecordType
<1>1. CASE PiPrompt
  <2>1. toPi' \in Seq(CommandType)
    BY <1>1, ReadsType DEF PiPrompt
  <2>2. fromPi' \in Seq(RecordType)
    <3>1. <<[kind |-> "start"]>> \in Seq(RecordType)
      BY <1>start, ShortSequences
    <3>2. Write(<<[kind |-> "start"]>>) \/ fromPi' = fromPi
      BY <1>1 DEF PiPrompt
    <3>3. fromPi \in Seq(RecordType)
      BY DEF TypeOK
    <3> QED BY <3>1, <3>2, <3>3, WriteType
  <2>3. piRun' \in [on : BOOLEAN, spoken : BOOLEAN] /\ runs' \in Nat
    BY <1>1, <1>run, <1>runs DEF PiPrompt, TypeOK
  <2> QED BY <1>1, <2>1, <2>2, <2>3 DEF PiPrompt, AdapterKept, TypeOK, controls, intents
<1>2. CASE PiContinue
  <2> DEFINE c == [Head(toPi) EXCEPT !.kind = "continued"]
  <2>1. toPi' \in Seq(CommandType) /\ Head(toPi).id \in Nat /\ Head(toPi) \in CommandType
    BY <1>2, ReadsType DEF PiContinue
  <2>2. c.kind = "continued" /\ c.id \in Nat
    BY <2>1 DEF CommandType
  <2> HIDE DEF c
  <2>3. Reply(c, TRUE) \in RecordType /\ Reply(c, FALSE) \in RecordType
    BY <2>2, ReplyType
  <2>4. PICK records \in Seq(RecordType) : Write(records)
    <3>1. /\ <<Reply(c, TRUE)>> \in Seq(RecordType)
          /\ <<Reply(c, FALSE)>> \in Seq(RecordType)
          /\ <<[kind |-> "start"], Reply(c, TRUE)>> \in Seq(RecordType)
          /\ <<Reply(c, TRUE), [kind |-> "start"]>> \in Seq(RecordType)
      BY <1>start, <2>3, ShortSequences
    <3>2. \/ Write(<<Reply(c, TRUE)>>) \/ Write(<<Reply(c, FALSE)>>)
          \/ Write(<<[kind |-> "start"], Reply(c, TRUE)>>)
          \/ Write(<<Reply(c, TRUE), [kind |-> "start"]>>)
      BY <1>2 DEF PiContinue, c
    <3> QED BY <3>1, <3>2
  <2>5. fromPi' \in Seq(RecordType)
    BY <2>4, WriteType
  <2>6. piRun' \in [on : BOOLEAN, spoken : BOOLEAN] /\ runs' \in Nat
    BY <1>2, <1>run, <1>runs DEF PiContinue, TypeOK
  <2> QED BY <1>2, <2>1, <2>5, <2>6 DEF PiContinue, AdapterKept, TypeOK, controls, intents
<1>3. CASE PiRead
  <2>1. PICK kind \in ReadKinds, ok \in BOOLEAN :
               Reads(kind) /\ Write(<<Reply(Head(toPi), ok)>>)
    BY <1>3 DEF PiRead
  <2>2. toPi' \in Seq(CommandType) /\ Head(toPi).id \in Nat /\ Head(toPi).kind = kind
    BY <2>1, ReadsType
  <2>3. <<Reply(Head(toPi), ok)>> \in Seq(RecordType)
    BY <2>2, ReplyType
  <2>4. fromPi' \in Seq(RecordType)
    BY <2>1, <2>3, WriteType
  <2> QED BY <1>3, <2>2, <2>4 DEF PiRead, AdapterKept, TypeOK, controls, intents
<1>4. CASE PiAbort
  <2>1. /\ toPi' \in Seq(CommandType) /\ Head(toPi).id \in Nat
        /\ Head(toPi).kind = "abort"
    BY <1>4, ReadsType DEF PiAbort
  <2>2. fromPi' \in Seq(RecordType)
    <3>1. Reply(Head(toPi), TRUE) \in RecordType /\ Reply(Head(toPi), FALSE) \in RecordType
      BY <2>1, ReplyType
    <3>2. /\ Append(Abortion, Reply(Head(toPi), TRUE)) \in Seq(RecordType)
          /\ <<Reply(Head(toPi), FALSE)>> \in Seq(RecordType)
      BY <3>1, AbortionType, AppendProperties, ShortSequences
    <3>3. \/ Write(Append(Abortion, Reply(Head(toPi), TRUE)))
          \/ Write(<<Reply(Head(toPi), FALSE)>>)
      BY <1>4 DEF PiAbort
    <3> QED BY <3>2, <3>3, WriteType
  <2>3. piRun' \in [on : BOOLEAN, spoken : BOOLEAN]
    BY <1>4, <1>run DEF PiAbort, TypeOK
  <2> QED BY <1>4, <2>1, <2>2, <2>3 DEF PiAbort, AdapterKept, TypeOK, controls, intents
<1>5. CASE PiSwitch
  <2>1. /\ toPi' \in Seq(CommandType) /\ Head(toPi).id \in Nat
        /\ Head(toPi).kind = "switch" /\ Head(toPi).to \in Sessions
    BY <1>5, ReadsType DEF PiSwitch
  <2>2. fromPi' \in Seq(RecordType)
    <3>1. Reply(Head(toPi), TRUE) \in RecordType /\ Reply(Head(toPi), FALSE) \in RecordType
      BY <2>1, ReplyType
    <3>2. /\ Append(Abortion, Reply(Head(toPi), TRUE)) \in Seq(RecordType)
          /\ <<Reply(Head(toPi), FALSE)>> \in Seq(RecordType)
      BY <3>1, AbortionType, AppendProperties, ShortSequences
    <3>3. \/ Write(Append(Abortion, Reply(Head(toPi), TRUE)))
          \/ Write(<<Reply(Head(toPi), FALSE)>>)
      BY <1>5 DEF PiSwitch
    <3> QED BY <3>2, <3>3, WriteType
  <2>3. piRun' \in [on : BOOLEAN, spoken : BOOLEAN] /\ piSession' \in Sessions
    BY <1>5, <1>run, <2>1 DEF PiSwitch, TypeOK
  <2> QED BY <1>5, <2>1, <2>2, <2>3 DEF PiSwitch, AdapterKept, TypeOK, controls, intents
<1>6. CASE PiOwnRun
  <2>1. fromPi' \in Seq(RecordType)
    <3>1. <<[kind |-> "start"]>> \in Seq(RecordType)
      BY <1>start, ShortSequences
    <3> QED BY <1>6, <3>1, WriteType DEF PiOwnRun
  <2> QED BY <1>6, <1>run, <1>runs, <2>1 DEF PiOwnRun, AdapterKept, TypeOK, controls, intents
<1>7. CASE PiMessage
  <2>1. PICK kind \in {"failed", "done"} : Write(<<Event(kind)>>)
    BY <1>7 DEF PiMessage
  <2>2. fromPi' \in Seq(RecordType)
    <3>1. <<Event(kind)>> \in Seq(RecordType)
      BY EventType, ShortSequences
    <3> QED BY <2>1, <3>1, WriteType
  <2>3. piRun' \in [on : BOOLEAN, spoken : BOOLEAN]
    BY <1>7 DEF PiMessage, TypeOK
  <2> QED BY <1>7, <1>runs, <2>2, <2>3 DEF PiMessage, AdapterKept, TypeOK, controls, intents
<1>8. CASE PiSettle
  <2>1. fromPi' \in Seq(RecordType)
    <3>1. <<Event("settled")>> \in Seq(RecordType)
      BY EventType, ShortSequences
    <3> QED BY <1>8, <3>1, WriteType DEF PiSettle
  <2> QED BY <1>8, <1>run, <2>1 DEF PiSettle, AdapterKept, TypeOK, controls, intents
<1> QED BY <1>1, <1>2, <1>3, <1>4, <1>5, <1>6, <1>7, <1>8 DEF Pi, PiAnswers

LEMMA InitType == Init => TypeOK
<1> SUFFICES ASSUME Init PROVE TypeOK
  OBVIOUS
<1>1. retry \in RetryType
  <2>1. 0 \in 0..Attempts
    BY RetryConstants
  <2>2. NewRetry \in RetryType
    BY <2>1, NoErrorType DEF NewRetry, RetryType
  <2>3. [NewRetry EXCEPT !.enabled = FALSE] \in RetryType
    BY <2>2 DEF RetryType
  <2> QED BY <2>2, <2>3 DEF Init
<1>2. toPi \in Seq(CommandType)
  <2>1. Command("state", 1, None) \in CommandType
    BY CommandTyped DEF ReadKinds
  <2> QED BY <2>1, ShortSequences DEF Init
<1>3. fromPi \in Seq(RecordType)
  BY DEF Init
<1> QED BY <1>1, <1>2, <1>3 DEF Init, TypeOK, Idle, NoInterrupt, SessionsOrNone

LEMMA StepType == TypeOK /\ [Next]_vars => TypeOK'
<1> SUFFICES ASSUME TypeOK, [Next]_vars PROVE TypeOK'
  OBVIOUS
<1>1. CASE UNCHANGED vars
  BY <1>1 DEF TypeOK, vars, controls, counts, intents
<1> QED BY <1>1, UserType, RetryStepType, ReceiveType, PiType DEF Next

\* The adapter's recovery, its barriers, the pipes and Pi keep their types.
THEOREM RetryTypeCorrect == Spec => []TypeOK
BY InitType, StepType, PTL DEF Spec

-----------------------------------------------------------------------------
(* The budget of continuations *)

\* Until recovery is cancelled, attempt counts the continuations of the streak;
\* a wait has counted the one it is for.
Counted ==
  /\ streak <= Attempts
  /\ ~retry.cancelled => streak <= retry.attempt
  /\ retry.waiting => ~retry.cancelled /\ streak < retry.attempt

LEMMA PiKeepsAdapter == Pi => AdapterKept
BY DEF Pi, PiAnswers, PiPrompt, PiContinue, PiRead, PiAbort, PiSwitch, PiOwnRun, PiMessage,
       PiSettle

LEMMA TakeStateCounted ==
  ASSUME TypeOK, Counted, NEW s, TakeState(s) \/ StateKept
  PROVE  Counted'
<1>1. CASE StateKept
  BY <1>1 DEF StateKept, Counted
<1>2. CASE TakeState(s) /\ attached # s.session
  <2>1. retry' = Reset(retry) /\ streak' = 0
    BY <1>2 DEF TakeState
  <2>2. retry'.attempt = 0 /\ ~retry'.waiting
    BY <2>1, ResetType DEF TypeOK
  <2> QED BY <2>1, <2>2, RetryConstants DEF Counted
<1>3. CASE TakeState(s) /\ attached = s.session
  BY <1>3 DEF TakeState, Counted
<1> QED BY <1>1, <1>2, <1>3

LEMMA CountedStep == TypeOK /\ Counted /\ [Next]_vars => Counted'
<1> SUFFICES ASSUME TypeOK, Counted, [Next]_vars PROVE Counted'
  OBVIOUS
<1>numbers. streak \in Nat /\ retry.attempt \in 0..Attempts /\ Attempts \in Nat
  BY RetryConstants DEF TypeOK, RetryType
<1>typed. retry \in RetryType
  BY DEF TypeOK
<1>cancelled. /\ Cancelled(retry).cancelled /\ ~Cancelled(retry).waiting
              /\ Cancelled(retry).attempt = 0 /\ Cancelled(retry) \in RetryType
  BY <1>typed, CancelledType
<1>finished. /\ Finished(retry).cancelled = retry.cancelled /\ ~Finished(retry).waiting
             /\ Finished(retry).attempt = retry.attempt /\ Finished(retry) \in RetryType
  BY <1>typed, FinishedType
<1>kept. ASSUME UNCHANGED <<retry, streak>> PROVE Counted'
  BY <1>kept DEF Counted
<1>ended. ASSUME retry' = Cancelled(retry), streak' = streak PROVE Counted'
  BY <1>ended, <1>cancelled DEF Counted
<1>renewed. ASSUME retry' = [Cancelled(retry) EXCEPT !.cancelled = FALSE], streak' = 0
            PROVE  Counted'
  BY <1>renewed, <1>cancelled, <1>numbers DEF Counted, RetryType
<1>1. CASE Prompt
  BY <1>1, <1>renewed DEF Prompt
<1>2. CASE Interrupt
  BY <1>2, <1>ended DEF Interrupt
<1>3. CASE Attach
  BY <1>3, <1>ended DEF Attach, AttachRetry
<1>4. CASE ModelSet \/ Ping
  BY <1>4, <1>kept DEF ModelSet, Ping, intents
<1>5. CASE SetEnabled
  <2>1. CASE retry.enabled
    BY <1>5, <2>1, <1>cancelled DEF SetEnabled, Counted, RetryType
  <2>2. CASE ~retry.enabled
    BY <1>5, <2>2, <1>typed DEF SetEnabled, Counted, RetryType
  <2> QED BY <2>1, <2>2
<1>6. CASE Retry
  BY <1>6, <1>typed, <1>numbers DEF Retry, Counted, RetryType
<1>7. CASE Started
  <2>1. CASE retry.waiting
    BY <1>7, <2>1, <1>cancelled, <1>numbers DEF Started, Counted, RetryType
  <2>2. CASE ~retry.waiting
    BY <1>7, <2>2, <1>typed DEF Started, Counted, RetryType
  <2> QED BY <2>1, <2>2
<1>8. CASE MessageFailed
  BY <1>8, <1>typed DEF MessageFailed, Counted, RetryType, intents
<1>9. CASE MessageAborted
  BY <1>9, <1>ended DEF MessageAborted, intents
<1>10. CASE MessageDone
  BY <1>10, <1>finished, <1>numbers DEF MessageDone, Counted, RetryType
<1>11. CASE Settled
  <2>1. CASE retry' = retry
    BY <1>11, <2>1, <1>kept DEF Settled, intents
  <2>2. CASE retry' = NextWait(retry) /\ Recoverable(retry) /\ AttemptLeft(retry)
    BY <1>11, <2>2, <1>typed, <1>numbers
       DEF Settled, NextWait, Recoverable, AttemptLeft, Counted, RetryType, intents
  <2>3. CASE retry' = Exhausted(retry)
    BY <1>11, <2>3, <1>finished DEF Settled, Exhausted, Counted, RetryType, intents
  <2> QED BY <1>11, <2>1, <2>2, <2>3 DEF Settled
<1>12. CASE Continued
  <2>1. CASE retry' = [Finished(retry) EXCEPT !.prompt = 0, !.cancelled = TRUE,
                                              !.error = NoError]
    BY <1>12, <2>1, <1>finished DEF Continued, Counted, RetryType, intents
  <2>2. CASE \/ retry' = [retry EXCEPT !.prompt = 0, !.state = nextId]
             \/ retry' = [retry EXCEPT !.prompt = 0]
             \/ retry' = retry
    BY <1>12, <2>2, <1>typed DEF Continued, Counted, RetryType, intents
  <2> QED BY <1>12, <2>1, <2>2 DEF Continued
<1>13. CASE ContinuationState
  <2>1. CASE retry' = Cancelled(retry)
    BY <1>13, <2>1, <1>ended DEF ContinuationState, intents
  <2>2. CASE \/ retry' = [retry EXCEPT !.state = 0, !.starting = FALSE]
             \/ retry' = [retry EXCEPT !.state = 0]
             \/ retry' = retry
    BY <1>13, <2>2, <1>typed DEF ContinuationState, Counted, RetryType, intents
  <2> QED BY <1>13, <2>1, <2>2 DEF ContinuationState
<1>14. CASE Aborted \/ Switched \/ ResumeHistory
  BY <1>14, <1>kept DEF Aborted, Switched, ResumeHistory, intents
<1>15. CASE InterruptState \/ State \/ ResumeState
  BY <1>15, TakeStateCounted DEF InterruptState, State, ResumeState
<1>16. CASE Pi
  BY <1>16, <1>kept, PiKeepsAdapter DEF AdapterKept, intents
<1>17. CASE UNCHANGED vars
  BY <1>17, <1>kept DEF vars, intents
<1> QED
  BY <1>1, <1>2, <1>3, <1>4, <1>5, <1>6, <1>7, <1>8, <1>9, <1>10, <1>11, <1>12, <1>13, <1>14,
     <1>15, <1>16, <1>17 DEF Next, User, Receive

LEMMA InitCounted == Init => Counted
BY RetryConstants DEF Init, Counted, NewRetry

\* Since the user's last prompt, the last success or the last run that superseded
\* recovery, no more continuations are sent than there are delays.
THEOREM BudgetHolds == Spec => []Budget
<1>1. Counted => Budget
  BY DEF Counted, Budget
<1> QED BY <1>1, RetryTypeCorrect, InitCounted, CountedStep, PTL DEF Spec

-----------------------------------------------------------------------------
(* Recovery the user withdrew from *)

\* The adapter remembers the withdrawal in the cancelled flag, and no wait is on
\* while it is set; the flag is dropped only where the withdrawal is.
Withdrawn ==
  /\ session \in Sessions
  /\ revoked => retry.cancelled
  /\ retry.waiting => ~retry.cancelled

LEMMA TakeStateWithdrawn ==
  ASSUME TypeOK, Withdrawn, NEW kind \in ReadKinds, Record(kind),
         TakeState(Head1) \/ StateKept
  PROVE  Withdrawn'
<1>1. CASE StateKept
  BY <1>1 DEF StateKept, Withdrawn
<1>2. CASE TakeState(Head1)
  <2>1. session # None
    BY RetryConstants DEF Withdrawn
  <2>2. session' \in Sessions
    <3>1. Head1 \in RecordType /\ Head1.kind = kind
      BY HeadType
    <3> QED BY <1>2, <3>1, TakeStateType
  <2>3. CASE attached # Head1.session
    <3>1. retry' = Reset(retry) /\ ~revoked'
      BY <1>2, <2>1, <2>3 DEF TakeState
    <3> QED BY <2>2, <3>1, ResetType DEF TypeOK, Withdrawn
  <2>4. CASE attached = Head1.session
    BY <1>2, <2>2, <2>4 DEF TakeState, Withdrawn
  <2> QED BY <2>3, <2>4
<1> QED BY <1>1, <1>2

LEMMA WithdrawnStep == TypeOK /\ Withdrawn /\ [Next]_vars => Withdrawn'
<1> SUFFICES ASSUME TypeOK, Withdrawn, [Next]_vars PROVE Withdrawn'
  OBVIOUS
<1>typed. retry \in RetryType
  BY DEF TypeOK
<1>cancelled. /\ Cancelled(retry).cancelled /\ ~Cancelled(retry).waiting
              /\ Cancelled(retry) \in RetryType
  BY <1>typed, CancelledType
<1>finished. /\ Finished(retry).cancelled = retry.cancelled /\ ~Finished(retry).waiting
             /\ Finished(retry) \in RetryType
  BY <1>typed, FinishedType
<1>kept. ASSUME UNCHANGED <<retry, session, revoked>> PROVE Withdrawn'
  BY <1>kept DEF Withdrawn
<1>ended. ASSUME retry' = Cancelled(retry), session' = session PROVE Withdrawn'
  BY <1>ended, <1>cancelled DEF Withdrawn
<1>1. CASE Prompt
  BY <1>1, <1>cancelled DEF Prompt, Withdrawn, RetryType
<1>2. CASE Interrupt
  BY <1>2, <1>ended DEF Interrupt
<1>3. CASE Attach
  BY <1>3, <1>ended DEF Attach, AttachRetry
<1>4. CASE ModelSet \/ Ping
  BY <1>4, <1>kept DEF ModelSet, Ping, intents
<1>5. CASE SetEnabled
  <2>1. CASE retry.enabled
    BY <1>5, <2>1, <1>cancelled DEF SetEnabled, Withdrawn, RetryType
  <2>2. CASE ~retry.enabled
    BY <1>5, <2>2, <1>typed DEF SetEnabled, Withdrawn, RetryType
  <2> QED BY <2>1, <2>2
<1>6. CASE Retry
  BY <1>6, <1>typed DEF Retry, Withdrawn, RetryType
<1>7. CASE Started
  <2>1. CASE retry.waiting
    BY <1>7, <2>1, <1>cancelled DEF Started, Withdrawn, RetryType
  <2>2. CASE ~retry.waiting
    BY <1>7, <2>2, <1>typed DEF Started, Withdrawn, RetryType
  <2> QED BY <2>1, <2>2
<1>8. CASE MessageFailed
  BY <1>8, <1>typed DEF MessageFailed, Withdrawn, RetryType, intents
<1>9. CASE MessageAborted
  BY <1>9, <1>ended DEF MessageAborted
<1>10. CASE MessageDone
  BY <1>10, <1>finished DEF MessageDone, Withdrawn, RetryType
<1>11. CASE Settled
  <2>1. CASE retry' = retry
    BY <1>11, <2>1, <1>kept DEF Settled, intents
  <2>2. CASE retry' = NextWait(retry) /\ Recoverable(retry)
    BY <1>11, <2>2, <1>typed
       DEF Settled, NextWait, Recoverable, Withdrawn, RetryType, intents
  <2>3. CASE retry' = Exhausted(retry)
    BY <1>11, <2>3, <1>finished DEF Settled, Exhausted, Withdrawn, RetryType, intents
  <2> QED BY <1>11, <2>1, <2>2, <2>3 DEF Settled
<1>12. CASE Continued
  <2>1. CASE retry' = [Finished(retry) EXCEPT !.prompt = 0, !.cancelled = TRUE,
                                              !.error = NoError]
    BY <1>12, <2>1, <1>finished DEF Continued, Withdrawn, RetryType, intents
  <2>2. CASE \/ retry' = [retry EXCEPT !.prompt = 0, !.state = nextId]
             \/ retry' = [retry EXCEPT !.prompt = 0]
             \/ retry' = retry
    BY <1>12, <2>2, <1>typed DEF Continued, Withdrawn, RetryType, intents
  <2> QED BY <1>12, <2>1, <2>2 DEF Continued
<1>13. CASE ContinuationState
  <2>1. CASE retry' = Cancelled(retry)
    BY <1>13, <2>1, <1>ended DEF ContinuationState
  <2>2. CASE \/ retry' = [retry EXCEPT !.state = 0, !.starting = FALSE]
             \/ retry' = [retry EXCEPT !.state = 0]
             \/ retry' = retry
    BY <1>13, <2>2, <1>typed DEF ContinuationState, Withdrawn, RetryType, intents
  <2> QED BY <1>13, <2>1, <2>2 DEF ContinuationState
<1>14. CASE Aborted \/ Switched \/ ResumeHistory
  BY <1>14, <1>kept DEF Aborted, Switched, ResumeHistory, intents
<1>15. CASE InterruptState \/ State \/ ResumeState
  BY <1>15, TakeStateWithdrawn DEF InterruptState, State, ResumeState, ReadKinds
<1>16. CASE Pi
  BY <1>16, <1>kept, PiKeepsAdapter DEF AdapterKept, intents
<1>17. CASE UNCHANGED vars
  BY <1>17, <1>kept DEF vars, intents
<1> QED
  BY <1>1, <1>2, <1>3, <1>4, <1>5, <1>6, <1>7, <1>8, <1>9, <1>10, <1>11, <1>12, <1>13, <1>14,
     <1>15, <1>16, <1>17 DEF Next, User, Receive

LEMMA InitWithdrawn == ~AtStartup /\ Init => Withdrawn
BY DEF Init, Withdrawn, NewRetry

LEMMA SaidOther ==
  ASSUME TypeOK, NEW c, Say(c), c.kind # "continue"
  PROVE  ~Continues
<1>1. toPi' = Append(toPi, c) /\ toPi \in Seq(CommandType)
  BY DEF Say, TypeOK
<1>2. toPi'[Len(toPi')] = c
  <2>1. toPi \in Seq(CommandType \cup {c}) /\ c \in CommandType \cup {c}
    BY <1>1
  <2> QED BY <1>1, <2>1, AppendProperties
<1> QED BY <1>2 DEF Continues

LEMMA OnlyRetryContinues == TypeOK /\ [Next]_vars /\ Continues => Retry
<1> SUFFICES ASSUME TypeOK, [Next]_vars, ~Retry PROVE ~Continues
  OBVIOUS
<1>kept. ASSUME toPi' = toPi PROVE ~Continues
  BY <1>kept DEF Continues, TypeOK
<1>said. ASSUME NEW kind, kind # "continue", NEW to, Say(Command(kind, nextId, to))
         PROVE  ~Continues
  BY <1>said, SaidOther DEF Command
<1>1. CASE User
  <2>1. CASE Prompt \/ Interrupt \/ Attach \/ ModelSet \/ Ping
    BY <2>1, <1>said DEF Prompt, Interrupt, Attach, ModelSet, Ping
  <2>2. CASE SetEnabled
    BY <2>2, <1>kept DEF SetEnabled
  <2> QED BY <1>1, <2>1, <2>2 DEF User
<1>2. CASE Receive
  <2>1. CASE \/ Started \/ MessageFailed \/ MessageAborted \/ MessageDone \/ Settled
             \/ ContinuationState \/ InterruptState \/ State \/ ResumeHistory
    BY <2>1, <1>kept DEF Started, MessageFailed, MessageAborted, MessageDone, Settled,
                         ContinuationState, InterruptState, State, ResumeHistory
  <2>2. CASE Continued
    BY <2>2, <1>kept, <1>said DEF Continued
  <2>3. CASE Aborted
    BY <2>3, <1>kept, <1>said DEF Aborted
  <2>4. CASE Switched
    BY <2>4, <1>kept, <1>said DEF Switched
  <2>5. CASE ResumeState
    BY <2>5, <1>kept, <1>said DEF ResumeState
  <2> QED BY <1>2, <2>1, <2>2, <2>3, <2>4, <2>5 DEF Receive
<1>3. CASE Pi
  <2>1. toPi' = toPi \/ (toPi # <<>> /\ toPi' = Tail(toPi))
    BY <1>3 DEF Pi, PiAnswers, PiPrompt, PiContinue, PiRead, PiAbort, PiSwitch, PiOwnRun,
                PiMessage, PiSettle, Reads
  <2>2. ASSUME toPi # <<>>, toPi' = Tail(toPi) PROVE ~Continues
    <3>1. toPi \in Seq(CommandType)
      BY DEF TypeOK
    <3>2. Len(Tail(toPi)) = Len(toPi) - 1 /\ Len(toPi) \in Nat
      BY <2>2, <3>1, HeadTailProperties, LenProperties
    <3> QED BY <2>2, <3>2 DEF Continues
  <2> QED BY <1>kept, <2>1, <2>2
<1>4. CASE UNCHANGED vars
  BY <1>4, <1>kept DEF vars
<1> QED BY <1>1, <1>2, <1>3, <1>4 DEF Next

\* In a session whose state has been read, a user who interrupts, attaches or
\* disables recovery gets no continuation before the next prompt or session.
THEOREM NothingRevived == ASSUME ~AtStartup PROVE Spec => NoRevival
<1>1. Init => TypeOK /\ Withdrawn
  BY InitType, InitWithdrawn
<1>2. TypeOK /\ Withdrawn /\ [Next]_vars => (TypeOK /\ Withdrawn)'
  BY StepType, WithdrawnStep
<1>3. TypeOK /\ Withdrawn /\ [Next]_vars => [Continues => ~revoked]_vars
  BY OnlyRetryContinues DEF Withdrawn, Retry
<1> QED BY <1>1, <1>2, <1>3, PTL DEF Spec, NoRevival

-----------------------------------------------------------------------------
(* What the frontend is shown *)

RunType == {r \in [on : BOOLEAN, spoken : BOOLEAN] : r.spoken => r.on}

\* What a record tells of the run of Pi: how it was before, and how it is after.
Tells(record, before, after) ==
  CASE record.kind = "start" -> after = Begun
    [] record.kind \in {"failed", "done", "aborted"} ->
         before.on /\ after = [on |-> TRUE, spoken |-> TRUE]
    [] record.kind = "settled" -> before.on /\ before.spoken /\ after = Idle
    [] record.kind \in ReadKinds -> record.streaming = before.on /\ after = before
    [] OTHER -> after = before

\* The records lead from what the adapter knows of the run to the run as it is.
Path(records, from, to) ==
  \E h \in [0..Len(records) -> RunType] :
    /\ h[0] = from /\ h[Len(records)] = to
    /\ \A i \in 1..Len(records) : Tells(records[i], h[i - 1], h[i])

\* What is still to be read ends where Pi is; and a row that is open while no recovery
\* is pending belongs to a run whose first message is to come, or has failed.
Followed ==
  \E spoken \in BOOLEAN :
    /\ Path(fromPi, [on |-> streaming, spoken |-> spoken], piRun)
    /\ retry.activity /\ ~Busy(retry) => streaming /\ (spoken => retry.error # NoError)

\* No id is 0, which stands for none.
NumberedCommands == {c \in CommandType : c.id > 0}
NumberedRecords == {r \in RecordType : r.kind = "switch" => r.id > 0}
Numbered ==
  /\ nextId > 0
  /\ toPi \in Seq(NumberedCommands) /\ fromPi \in Seq(NumberedRecords)

Pictured ==
  /\ (shown = "running") = (streaming \/ Busy(retry))
  /\ Busy(retry) => ~streaming /\ retry.activity
  /\ retry.activity => retry.enabled /\ ~retry.cancelled
  /\ resume # 0 /\ attached = None => retry.cancelled
  /\ Followed

LEMMA PathHere == ASSUME NEW a \in RunType PROVE Path(<<>>, a, a)
<1> DEFINE h == [i \in 0..0 |-> a]
<1>1. h \in [0..Len(<<>>) -> RunType] /\ h[0] = a /\ h[Len(<<>>)] = a
  OBVIOUS
<1>2. 1..Len(<<>>) = {}
  OBVIOUS
<1> QED BY <1>1, <1>2 DEF Path

LEMMA PathOver == ASSUME NEW a, NEW b, Path(<<>>, a, b) PROVE a = b
BY DEF Path

LEMMA PathTail ==
  ASSUME NEW q \in Seq(RecordType), q # <<>>, NEW a, NEW b, Path(q, a, b)
  PROVE  \E c \in RunType : Tells(Head(q), a, c) /\ Path(Tail(q), c, b)
<1>1. PICK h \in [0..Len(q) -> RunType] :
        /\ h[0] = a /\ h[Len(q)] = b
        /\ \A i \in 1..Len(q) : Tells(q[i], h[i - 1], h[i])
  BY DEF Path
<1> DEFINE t == Tail(q)
<1>2. /\ Len(q) \in Nat \ {0} /\ Len(t) = Len(q) - 1 /\ Head(q) = q[1]
      /\ \A i \in 1..Len(t) : t[i] = q[i + 1]
  BY EmptySeq, LenProperties, HeadTailProperties
<1> HIDE DEF t
<1>3. 1 \in 1..Len(q) /\ 1 - 1 = 0 /\ 1 \in 0..Len(q) /\ Len(t) \in Nat
  BY <1>2
<1>4. h[1] \in RunType /\ Tells(Head(q), a, h[1])
  <2>1. Tells(q[1], h[1 - 1], h[1])
    BY <1>1, <1>3
  <2> QED BY <1>1, <1>2, <1>3, <2>1
<1> DEFINE g == [i \in 0..Len(t) |-> h[i + 1]]
<1>5. \A i \in 0..Len(t) : i + 1 \in 0..Len(q)
  BY <1>2
<1>6. g \in [0..Len(t) -> RunType]
  BY <1>1, <1>5
<1>7. g[0] = h[1] /\ g[Len(t)] = b
  <2>1. 0 \in 0..Len(t) /\ Len(t) \in 0..Len(t) /\ Len(t) + 1 = Len(q) /\ 0 + 1 = 1
    BY <1>2, <1>3
  <2> QED BY <1>1, <2>1
<1>8. ASSUME NEW i \in 1..Len(t) PROVE Tells(t[i], g[i - 1], g[i])
  <2>1. /\ i + 1 \in 1..Len(q) /\ i - 1 \in 0..Len(t) /\ i \in 0..Len(t)
        /\ (i - 1) + 1 = i /\ (i + 1) - 1 = i
    BY <1>2, <1>3
  <2>2. Tells(q[i + 1], h[(i + 1) - 1], h[i + 1])
    BY <1>1, <2>1
  <2>3. g[i - 1] = h[i] /\ g[i] = h[i + 1] /\ t[i] = q[i + 1]
    BY <1>2, <2>1
  <2> QED BY <2>1, <2>2, <2>3
<1> HIDE DEF g
<1>9. Path(t, h[1], b)
  BY <1>6, <1>7, <1>8 DEF Path
<1> QED BY <1>4, <1>9 DEF t

LEMMA PathOne ==
  ASSUME NEW q \in Seq(RecordType), NEW a, NEW b, Path(q, a, b),
         NEW r \in RecordType, NEW c \in RunType, Tells(r, b, c)
  PROVE  Path(q \o <<r>>, a, c) /\ q \o <<r>> \in Seq(RecordType)
<1>1. PICK h \in [0..Len(q) -> RunType] :
        /\ h[0] = a /\ h[Len(q)] = b
        /\ \A i \in 1..Len(q) : Tells(q[i], h[i - 1], h[i])
  BY DEF Path
<1> DEFINE t == q \o <<r>>
<1>2. /\ Len(q) \in Nat /\ Len(t) = Len(q) + 1 /\ t[Len(q) + 1] = r
      /\ t \in Seq(RecordType)
      /\ \A i \in 1..Len(q) : t[i] = q[i]
  <2>1. t = Append(q, r)
    OBVIOUS
  <2> HIDE DEF t
  <2> QED BY <2>1, AppendProperties, LenProperties
<1> HIDE DEF t
<1> DEFINE g == [i \in 0..Len(t) |-> IF i = Len(t) THEN c ELSE h[i]]
<1>3. \A i \in 0..Len(t) : i = Len(t) \/ i \in 0..Len(q)
  BY <1>2
<1>4. g \in [0..Len(t) -> RunType]
  BY <1>1, <1>3
<1>5. g[0] = a /\ g[Len(t)] = c
  <2>1. 0 \in 0..Len(t) /\ Len(t) \in 0..Len(t) /\ 0 # Len(t)
    BY <1>2
  <2> QED BY <1>1, <2>1
<1>6. \A i \in 0..Len(q) : g[i] = h[i]
  <2> SUFFICES ASSUME NEW i \in 0..Len(q) PROVE g[i] = h[i]
    OBVIOUS
  <2>1. i \in 0..Len(t) /\ i # Len(t)
    BY <1>2
  <2> QED BY <2>1
<1> HIDE DEF g
<1>7. ASSUME NEW i \in 1..Len(t) PROVE Tells(t[i], g[i - 1], g[i])
  <2>1. CASE i = Len(t)
    <3>1. i - 1 = Len(q) /\ Len(q) \in 0..Len(q) /\ i = Len(q) + 1
      BY <1>2, <2>1
    <3>2. t[i] = r
      BY <1>2, <3>1
    <3>3. g[i - 1] = b /\ g[i] = c
      BY <1>1, <1>5, <1>6, <2>1, <3>1
    <3> QED BY <3>2, <3>3
  <2>2. CASE i # Len(t)
    <3>1. i \in 1..Len(q) /\ i \in 0..Len(q) /\ i - 1 \in 0..Len(q)
      BY <1>2, <2>2
    <3> QED BY <1>1, <1>2, <1>6, <3>1
  <2> QED BY <2>1, <2>2
<1>8. Path(t, a, c)
  BY <1>4, <1>5, <1>7 DEF Path
<1> QED BY <1>2, <1>8 DEF t

\* What Pi writes in a step.
LEMMA Written ==
  ASSUME NEW q \in Seq(RecordType), NEW r \in RecordType, NEW s \in RecordType
  PROVE  /\ q \o <<r, s>> = (q \o <<r>>) \o <<s>>
         /\ q \o Append(<<>>, r) = q \o <<r>>
<1>1. <<r>> \in Seq(RecordType) /\ <<s>> \in Seq(RecordType)
  OBVIOUS
<1>2. <<r, s>> = <<r>> \o <<s>> /\ Append(<<>>, r) = <<r>>
  <2>1. <<r>> \o <<s>> = Append(<<r>>, s)
    OBVIOUS
  <2>2. <<r, s>> = Append(<<r>>, s)
    OBVIOUS
  <2>3. Append(<<>>, r) = <<r>>
    OBVIOUS
  <2> QED BY <2>1, <2>2, <2>3
<1>3. q \o <<r, s>> = (q \o <<r>>) \o <<s>>
  BY <1>1, <1>2, ConcatAssociative
<1> QED BY <1>2, <1>3

LEMMA WrittenThree ==
  ASSUME NEW q \in Seq(RecordType), NEW r \in RecordType, NEW s \in RecordType, NEW t \in RecordType
  PROVE  q \o Append(<<r, s>>, t) = ((q \o <<r>>) \o <<s>>) \o <<t>>
<1>1. Append(<<r, s>>, t) = <<r, s>> \o <<t>> /\ <<r, s>> \in Seq(RecordType)
      /\ <<t>> \in Seq(RecordType)
  OBVIOUS
<1>2. q \o (<<r, s>> \o <<t>>) = (q \o <<r, s>>) \o <<t>>
  BY <1>1, ConcatAssociative
<1>3. q \o <<r, s>> = (q \o <<r>>) \o <<s>>
  BY Written
<1> QED BY <1>1, <1>2, <1>3

LEMMA RunTyped ==
  /\ Idle \in RunType /\ Begun \in RunType /\ [on |-> TRUE, spoken |-> TRUE] \in RunType
BY DEF RunType, Idle, Begun

\* A record is read: it tells of the run as the adapter saw it.
LEMMA FollowedHead ==
  ASSUME TypeOK, Followed, NEW kind, Record(kind)
  PROVE  \E spoken \in BOOLEAN, c \in RunType :
           /\ Tells(Head1, [on |-> streaming, spoken |-> spoken], c)
           /\ Path(fromPi', c, piRun)
           /\ retry.activity /\ ~Busy(retry) => streaming /\ (spoken => retry.error # NoError)
<1>1. PICK spoken \in BOOLEAN :
        /\ Path(fromPi, [on |-> streaming, spoken |-> spoken], piRun)
        /\ retry.activity /\ ~Busy(retry) => streaming /\ (spoken => retry.error # NoError)
  BY DEF Followed
<1>2. fromPi \in Seq(RecordType) /\ fromPi # <<>> /\ fromPi' = Tail(fromPi)
  BY DEF TypeOK, Record
<1>3. PICK c \in RunType : /\ Tells(Head1, [on |-> streaming, spoken |-> spoken], c)
                           /\ Path(fromPi', c, piRun)
  BY <1>1, <1>2, PathTail DEF Head1
<1> QED BY <1>1, <1>3

\* The fields of recovery after it has ended, in either way.
LEMMA EndedFields ==
  ASSUME NEW r \in RetryType
  PROVE  /\ Finished(r) \in RetryType /\ ~Busy(Finished(r)) /\ ~Finished(r).activity
         /\ Finished(r).cancelled = r.cancelled /\ Finished(r).enabled = r.enabled
         /\ Cancelled(r) \in RetryType /\ ~Busy(Cancelled(r)) /\ ~Cancelled(r).activity
         /\ Cancelled(r).cancelled /\ Cancelled(r).enabled = r.enabled
         /\ Reset(r) \in RetryType /\ ~Busy(Reset(r)) /\ ~Reset(r).activity
         /\ ~Reset(r).cancelled
<1>1. Finished(r) \in RetryType
  BY FinishedType
<1>2. /\ ~Busy(Finished(r)) /\ ~Finished(r).activity
      /\ Finished(r).cancelled = r.cancelled /\ Finished(r).enabled = r.enabled
  BY DEF Finished, Busy, RetryType
<1>3. Cancelled(r) \in RetryType
  BY CancelledType
<1>4. /\ ~Busy(Cancelled(r)) /\ ~Cancelled(r).activity
      /\ Cancelled(r).cancelled /\ Cancelled(r).enabled = r.enabled
  BY <1>1, <1>2 DEF Cancelled, Busy, RetryType
<1>5. Reset(r) \in RetryType
  BY ResetType
<1>6. ~Busy(Reset(r)) /\ ~Reset(r).activity /\ ~Reset(r).cancelled
  BY DEF Reset, NewRetry, Busy
<1> QED BY <1>1, <1>2, <1>3, <1>4, <1>5, <1>6

\* A step of the adapter that reads no record, and ends recovery.
LEMMA FollowedEnded ==
  ASSUME Followed, ~retry'.activity, UNCHANGED <<fromPi, streaming, piRun>>
  PROVE  Followed'
BY DEF Followed

LEMMA UserPictured == TypeOK /\ Pictured /\ (User \/ Retry) => Pictured'
<1> SUFFICES ASSUME TypeOK, Pictured, User \/ Retry PROVE Pictured'
  OBVIOUS
<1>0. /\ retry \in RetryType /\ Followed /\ streaming \in BOOLEAN
      /\ UNCHANGED <<fromPi, streaming, piRun>>
  BY DEF TypeOK, Pictured, User, Retry, Prompt, Interrupt, Attach, ModelSet, Ping, SetEnabled,
         intents
<1>c. /\ Cancelled(retry) \in RetryType /\ ~Busy(Cancelled(retry)) /\ ~Cancelled(retry).activity
      /\ Cancelled(retry).cancelled /\ Cancelled(retry).enabled = retry.enabled
  BY <1>0, EndedFields
<1>shown. ASSUME shown' = ShownByCancel, ~Busy(retry')
          PROVE  (shown' = "running") = (streaming' \/ Busy(retry'))
  BY <1>0, <1>shown DEF ShownByCancel, Pictured
<1>1. CASE Prompt
  <2>1. /\ retry' = [Cancelled(retry) EXCEPT !.cancelled = FALSE] /\ shown' = ShownByCancel
        /\ resume = 0 /\ resume' = resume
    BY <1>1 DEF Prompt, GateOpen, controls
  <2>2. ~retry'.activity /\ ~Busy(retry')
    BY <1>c, <2>1 DEF RetryType, Busy
  <2> QED BY <1>0, <1>shown, <2>1, <2>2, FollowedEnded DEF Pictured
<1>2. CASE Interrupt \/ Attach
  <2>1. retry' = Cancelled(retry) /\ shown' = ShownByCancel
    BY <1>2 DEF Interrupt, Attach, AttachRetry
  <2> QED BY <1>0, <1>c, <1>shown, <2>1, FollowedEnded DEF Pictured
<1>3. CASE ModelSet \/ Ping
  <2>1. UNCHANGED <<retry, shown, resume, attached>>
    BY <1>3 DEF ModelSet, Ping, controls, intents
  <2> QED BY <1>0, <2>1 DEF Pictured, Followed
<1>4. CASE SetEnabled
  <2>0. UNCHANGED <<resume, attached>>
    BY <1>4 DEF SetEnabled, controls
  <2>1. CASE retry.enabled
    <3>1. retry' = [Cancelled(retry) EXCEPT !.enabled = FALSE] /\ shown' = ShownByCancel
      BY <1>4, <2>1 DEF SetEnabled
    <3>2. ~retry'.activity /\ ~Busy(retry') /\ retry'.cancelled
      BY <1>c, <3>1 DEF RetryType, Busy
    <3> QED BY <1>0, <1>shown, <2>0, <3>1, <3>2, FollowedEnded DEF Pictured
  <2>2. CASE ~retry.enabled
    <3>1. retry' = [retry EXCEPT !.enabled = TRUE] /\ shown' = shown
      BY <1>4, <2>2 DEF SetEnabled
    <3>2. /\ ~retry.activity /\ ~Busy(retry) /\ ~retry'.activity /\ ~Busy(retry')
          /\ retry'.cancelled = retry.cancelled
      BY <1>0, <2>2, <3>1 DEF Pictured, RetryType, Busy
    <3> QED BY <1>0, <2>0, <3>1, <3>2, FollowedEnded DEF Pictured
  <2> QED BY <2>1, <2>2
<1>5. CASE Retry
  <2>1. /\ retry' = [retry EXCEPT !.waiting = FALSE, !.starting = TRUE, !.prompt = nextId]
        /\ retry.waiting /\ UNCHANGED <<shown, resume, attached>>
    BY <1>5 DEF Retry, controls
  <2>2. /\ Busy(retry) /\ Busy(retry') /\ retry'.activity = retry.activity
        /\ retry'.enabled = retry.enabled /\ retry'.cancelled = retry.cancelled
    BY <1>0, <2>1 DEF RetryType, Busy
  <2>3. Followed'
    BY <1>0, <2>2 DEF Followed
  <2> QED BY <1>0, <2>1, <2>2, <2>3 DEF Pictured
<1> QED BY <1>1, <1>2, <1>3, <1>4, <1>5 DEF User

LEMMA NumberedUser ==
  ASSUME TypeOK, Numbered, User \/ Retry
  PROVE  Numbered'
<1>id. nextId \in Nat /\ nextId > 0 /\ nextId + 1 > 0
  BY DEF TypeOK, Numbered
<1>kept. fromPi' = fromPi /\ (nextId' = nextId \/ nextId' = nextId + 1)
  BY DEF User, Retry, Prompt, Interrupt, Attach, ModelSet, Ping, SetEnabled
<1>said. ASSUME NEW c \in CommandType, c.id = nextId, Say(c) PROVE toPi' \in Seq(NumberedCommands)
  <2>1. c \in NumberedCommands /\ toPi \in Seq(NumberedCommands)
    BY <1>said, <1>id DEF NumberedCommands, Numbered
  <2> QED BY <1>said, <2>1, AppendProperties DEF Say
<1>command. ASSUME NEW kind, NEW to, Say(Command(kind, nextId, to)),
                   \/ kind \in ReadKinds \cup {"prompt", "continue", "abort"} /\ to = None
                   \/ kind = "switch" /\ to \in Sessions
            PROVE  toPi' \in Seq(NumberedCommands)
  <2>1. Command(kind, nextId, to) \in CommandType
    BY <1>command, <1>id, CommandTyped
  <2>2. Command(kind, nextId, to).id = nextId
    BY DEF Command
  <2> QED BY <1>command, <1>said, <2>1, <2>2
<1>1. toPi' \in Seq(NumberedCommands)
  <2>1. CASE Prompt \/ Interrupt
    BY <2>1, <1>command DEF Prompt, Interrupt
  <2>2. CASE Attach
    BY <2>2, <1>command DEF Attach
  <2>3. CASE ModelSet \/ Ping
    BY <2>3, <1>command DEF ModelSet, Ping, ReadKinds
  <2>4. CASE SetEnabled
    BY <2>4 DEF SetEnabled, Numbered
  <2>5. CASE Retry
    <3> DEFINE c == [kind |-> "continue", id |-> nextId, to |-> None, failed |-> retry.error]
    <3>1. c \in CommandType /\ c.id = nextId
      BY <1>id DEF TypeOK, RetryType, CommandType
    <3>2. Say(c)
      BY <2>5 DEF Retry
    <3> HIDE DEF c
    <3> QED BY <1>said, <3>1, <3>2
  <2> QED BY <2>1, <2>2, <2>3, <2>4, <2>5 DEF User
<1> QED BY <1>id, <1>kept, <1>1 DEF Numbered

LEMMA NumberedReceive ==
  ASSUME TypeOK, Numbered, Receive
  PROVE  Numbered'
<1>id. nextId \in Nat /\ nextId > 0 /\ nextId + 1 > 0
  BY DEF TypeOK, Numbered
<1>1. fromPi' \in Seq(NumberedRecords)
  <2>1. fromPi # <<>> /\ fromPi' = Tail(fromPi)
    BY DEF Receive, Record, Started, MessageFailed, MessageAborted, MessageDone, Settled,
           Continued, ContinuationState, Aborted, InterruptState, State, Switched, ResumeState,
           ResumeHistory
  <2> QED BY <2>1, HeadTailProperties DEF Numbered
<1>2. nextId' = nextId \/ nextId' = nextId + 1
  BY DEF Receive, Started, MessageFailed, MessageAborted, MessageDone, Settled,
         Continued, ContinuationState, Aborted, InterruptState, State, Switched, ResumeState,
         ResumeHistory
<1>3. \/ toPi' = toPi
      \/ \E kind \in ReadKinds : Say(Command(kind, nextId, None))
  <2>1. {"retry-state", "interrupt-state", "resume-state", "resume-history"} \subseteq ReadKinds
    BY DEF ReadKinds
  <2>2. CASE Continued
    BY <2>1, <2>2 DEF Continued
  <2>3. CASE Aborted
    BY <2>1, <2>3 DEF Aborted
  <2>4. CASE Switched
    BY <2>1, <2>4 DEF Switched
  <2>5. CASE ResumeState
    BY <2>1, <2>5 DEF ResumeState
  <2>6. CASE ~(Continued \/ Aborted \/ Switched \/ ResumeState)
    BY <2>6 DEF Receive, Started, MessageFailed, MessageAborted, MessageDone, Settled,
           ContinuationState, InterruptState, State, ResumeHistory
  <2> QED BY <2>2, <2>3, <2>4, <2>5, <2>6
<1>4. toPi' \in Seq(NumberedCommands)
  <2>1. ASSUME NEW kind \in ReadKinds, Say(Command(kind, nextId, None))
        PROVE  toPi' \in Seq(NumberedCommands)
    <3>1. Command(kind, nextId, None) \in CommandType
      BY <1>id, CommandTyped
    <3>2. Command(kind, nextId, None) \in NumberedCommands
      BY <1>id, <3>1 DEF NumberedCommands, Command
    <3> QED BY <2>1, <3>2, AppendProperties DEF Say, Numbered
  <2> QED BY <1>3, <2>1 DEF Numbered
<1> QED BY <1>id, <1>1, <1>2, <1>4 DEF Numbered

LEMMA NumberedPi ==
  ASSUME TypeOK, Numbered, Pi
  PROVE  Numbered'
<1>id. nextId' = nextId /\ nextId > 0
  BY PiKeepsAdapter DEF AdapterKept, Numbered
<1>queue. toPi \in Seq(NumberedCommands) /\ fromPi \in Seq(NumberedRecords)
  BY DEF Numbered
<1>1. toPi' \in Seq(NumberedCommands)
  <2>1. toPi' = toPi \/ (toPi # <<>> /\ toPi' = Tail(toPi))
    BY DEF Pi, PiAnswers, PiPrompt, PiContinue, PiRead, PiAbort, PiSwitch, PiOwnRun,
           PiMessage, PiSettle, Reads
  <2> QED BY <1>queue, <2>1, HeadTailProperties
<1>read. ASSUME NEW kind, Reads(kind)
         PROVE  Head(toPi) \in CommandType /\ Head(toPi).kind = kind /\ Head(toPi).id > 0
                /\ Head(toPi).id \in Nat
  <2>1. toPi # <<>> /\ Head(toPi).kind = kind
    BY <1>read DEF Reads
  <2>2. Head(toPi) \in NumberedCommands
    BY <1>queue, <2>1, HeadTailProperties
  <2> QED BY <1>read, <2>1, <2>2, ReadsType DEF NumberedCommands
<1>event. ASSUME NEW kind \in {"failed", "done", "aborted", "settled"}
          PROVE  Event(kind) \in NumberedRecords
  BY <1>event, EventType DEF NumberedRecords, Event
<1>start. [kind |-> "start"] \in NumberedRecords
  BY DEF NumberedRecords, RecordType
<1>reply. ASSUME NEW c, NEW ok \in BOOLEAN, c.id \in Nat, c.id > 0,
                 c.kind \in ReadKinds \cup {"continued", "abort", "switch"}
          PROVE  Reply(c, ok) \in NumberedRecords
  <2>1. Reply(c, ok) \in RecordType /\ Reply(c, ok).id = c.id
    BY <1>reply, ReplyType DEF Reply
  <2> QED BY <1>reply, <2>1 DEF NumberedRecords
<1>written. ASSUME NEW records \in Seq(NumberedRecords), Write(records)
            PROVE  fromPi' \in Seq(NumberedRecords)
  BY <1>written, <1>queue, ConcatProperties DEF Write
<1>abortion. Abortion \in Seq(NumberedRecords)
  BY <1>event, ShortSequences DEF Abortion
<1>2. fromPi' \in Seq(NumberedRecords)
  <2>1. CASE PiPrompt \/ PiOwnRun
    <3>1. fromPi' = fromPi \/ Write(<<[kind |-> "start"]>>)
      BY <2>1 DEF PiPrompt, PiOwnRun
    <3>2. <<[kind |-> "start"]>> \in Seq(NumberedRecords)
      BY <1>start, ShortSequences
    <3> QED BY <1>queue, <1>written, <3>1, <3>2
  <2>2. CASE PiContinue
    <3> DEFINE c == [Head(toPi) EXCEPT !.kind = "continued"]
    <3>1. Head(toPi) \in CommandType /\ Head(toPi).id > 0 /\ Head(toPi).id \in Nat
      BY <2>2, <1>read DEF PiContinue
    <3>2. c.kind = "continued" /\ c.id = Head(toPi).id
      BY <3>1 DEF CommandType
    <3>3. \/ Write(<<Reply(c, TRUE)>>) \/ Write(<<Reply(c, FALSE)>>)
          \/ Write(<<[kind |-> "start"], Reply(c, TRUE)>>)
          \/ Write(<<Reply(c, TRUE), [kind |-> "start"]>>)
      BY <2>2 DEF PiContinue
    <3> HIDE DEF c
    <3>4. Reply(c, TRUE) \in NumberedRecords /\ Reply(c, FALSE) \in NumberedRecords
      BY <1>reply, <3>1, <3>2
    <3>5. /\ <<Reply(c, TRUE)>> \in Seq(NumberedRecords)
          /\ <<Reply(c, FALSE)>> \in Seq(NumberedRecords)
          /\ <<[kind |-> "start"], Reply(c, TRUE)>> \in Seq(NumberedRecords)
          /\ <<Reply(c, TRUE), [kind |-> "start"]>> \in Seq(NumberedRecords)
      BY <1>start, <3>4, ShortSequences
    <3> QED BY <1>written, <3>3, <3>5
  <2>3. CASE PiRead
    <3>1. PICK kind \in ReadKinds, ok \in BOOLEAN :
                 Reads(kind) /\ Write(<<Reply(Head(toPi), ok)>>)
      BY <2>3 DEF PiRead
    <3>2. Reply(Head(toPi), ok) \in NumberedRecords
      BY <1>read, <1>reply, <3>1
    <3> QED BY <1>written, <3>1, <3>2, ShortSequences
  <2>4. CASE PiAbort \/ PiSwitch
    <3>1. \/ Reads("abort") \/ Reads("switch")
      BY <2>4 DEF PiAbort, PiSwitch
    <3>2. /\ Reply(Head(toPi), TRUE) \in NumberedRecords
          /\ Reply(Head(toPi), FALSE) \in NumberedRecords
      BY <1>read, <1>reply, <3>1
    <3>3. /\ Append(Abortion, Reply(Head(toPi), TRUE)) \in Seq(NumberedRecords)
          /\ <<Reply(Head(toPi), FALSE)>> \in Seq(NumberedRecords)
      BY <1>abortion, <3>2, AppendProperties, ShortSequences
    <3>4. \/ Write(Append(Abortion, Reply(Head(toPi), TRUE)))
          \/ Write(<<Reply(Head(toPi), FALSE)>>)
      BY <2>4 DEF PiAbort, PiSwitch
    <3> QED BY <1>written, <3>3, <3>4
  <2>5. CASE PiMessage \/ PiSettle
    <3>1. PICK kind \in {"failed", "done", "aborted", "settled"} : Write(<<Event(kind)>>)
      BY <2>5 DEF PiMessage, PiSettle
    <3>2. <<Event(kind)>> \in Seq(NumberedRecords)
      BY <1>event, ShortSequences
    <3> QED BY <1>written, <3>1, <3>2
  <2> QED BY <2>1, <2>2, <2>3, <2>4, <2>5 DEF Pi, PiAnswers
<1> QED BY <1>id, <1>1, <1>2 DEF Numbered

LEMMA Told ==
  ASSUME NEW record, NEW before, NEW after, Tells(record, before, after)
  PROVE  /\ record.kind = "start" => after = Begun
         /\ record.kind \in {"failed", "done", "aborted"} =>
              before.on /\ after = [on |-> TRUE, spoken |-> TRUE]
         /\ record.kind = "settled" => before.on /\ before.spoken /\ after = Idle
         /\ record.kind \in ReadKinds => record.streaming = before.on /\ after = before
         /\ record.kind \in {"continued", "abort", "switch"} => after = before
BY DEF Tells, ReadKinds

\* A record that says nothing new of the run: the picture is what the retry and the
\* barriers make of it.
LEMMA PicturedSame ==
  ASSUME TypeOK, Pictured, NEW kind, Record(kind),
         kind \in ReadKinds \cup {"continued", "abort", "switch"},
         UNCHANGED <<streaming, piRun>>,
         retry'.activity => retry.activity,
         Busy(retry') = Busy(retry),
         retry'.error = retry.error
  PROVE  Followed'
<1>1. PICK spoken \in BOOLEAN, c \in RunType :
           /\ Tells(Head1, [on |-> streaming, spoken |-> spoken], c)
           /\ Path(fromPi', c, piRun)
           /\ retry.activity /\ ~Busy(retry) => streaming /\ (spoken => retry.error # NoError)
  BY FollowedHead DEF Pictured
<1>2. Head1.kind = kind
  BY HeadType
<1>3. c = [on |-> streaming, spoken |-> spoken]
  BY <1>1, <1>2, Told
<1> QED BY <1>1, <1>3 DEF Followed

\* The same, and recovery has ended or starts over.
LEMMA PicturedEnded ==
  ASSUME TypeOK, Pictured, NEW kind, Record(kind),
         kind \in ReadKinds \cup {"continued", "abort", "switch"},
         UNCHANGED <<streaming, piRun>>, ~retry'.activity
  PROVE  Followed'
<1>1. PICK spoken \in BOOLEAN, c \in RunType :
           /\ Tells(Head1, [on |-> streaming, spoken |-> spoken], c)
           /\ Path(fromPi', c, piRun)
  BY FollowedHead DEF Pictured
<1>2. Head1.kind = kind
  BY HeadType
<1>3. c = [on |-> streaming, spoken |-> spoken]
  BY <1>1, <1>2, Told
<1> QED BY <1>1, <1>3 DEF Followed

LEMMA StatePictured ==
  ASSUME TypeOK, Pictured, NEW kind \in ReadKinds, Record(kind), TakeState(Head1) \/ StateKept,
         piRun' = piRun, resume' = resume \/ resume' = 0 \/ TakeState(Head1)
  PROVE  Pictured'
<1>typed. retry \in RetryType /\ streaming \in BOOLEAN
  BY DEF TypeOK
<1>1. CASE StateKept
  <2>1. UNCHANGED <<retry, streaming, attached, shown>>
    BY <1>1 DEF StateKept
  <2>2. Followed'
    BY <2>1, PicturedSame DEF Busy
  <2>3. resume' # 0 /\ attached' = None => retry'.cancelled
    <3>1. CASE resume' = resume \/ resume' = 0
      BY <2>1, <3>1 DEF Pictured
    <3>2. CASE TakeState(Head1)
      <4>1. Head1 \in RecordType /\ Head1.kind = kind
        BY HeadType
      <4>2. Head1.session \in Sessions /\ attached' = Head1.session
        BY <3>2, <4>1, ReplyFields DEF TakeState
      <4> QED BY <4>2, RetryConstants
    <3> QED BY <3>1, <3>2
  <2> QED BY <2>1, <2>2, <2>3 DEF Pictured, Busy
<1>2. CASE TakeState(Head1)
  <2>1. Head1 \in RecordType /\ Head1.kind = kind
    BY HeadType
  <2>2. Head1.session \in Sessions /\ Head1.streaming \in BOOLEAN
    BY <2>1, ReplyFields
  <2>3. attached' # None
    BY <1>2, <2>2, RetryConstants DEF TakeState
  <2>4. PICK spoken \in BOOLEAN, c \in RunType :
           Tells(Head1, [on |-> streaming, spoken |-> spoken], c)
    BY FollowedHead DEF Pictured
  <2>5. Head1.streaming = streaming
    <3>1. Head1.streaming = [on |-> streaming, spoken |-> spoken].on
      BY <2>1, <2>4, Told
    <3> QED BY <3>1
  <2>6. streaming' = streaming
    BY <1>2, <2>5 DEF TakeState
  <2>7. retry' = retry \/ retry' = Reset(retry)
    BY <1>2 DEF TakeState
  <2>8. shown' = IF streaming \/ Busy(retry') THEN "running" ELSE "idle"
    BY <1>2, <2>5 DEF TakeState, ShownByState
  <2>9. CASE retry' = retry
    <3>1. Followed'
      BY <2>6, <2>9, PicturedSame
    <3>2. (shown' = "running") = (streaming' \/ Busy(retry'))
      BY <1>typed, <2>6, <2>8 DEF Busy, RetryType
    <3> QED BY <2>3, <2>6, <2>9, <3>1, <3>2 DEF Pictured
  <2>10. CASE retry' = Reset(retry)
    <3>1. ~Busy(retry') /\ ~retry'.activity
      BY <1>typed, <2>10, EndedFields
    <3>2. Followed'
      BY <2>6, <3>1, PicturedEnded
    <3>3. (shown' = "running") = (streaming' \/ Busy(retry'))
      BY <1>typed, <2>6, <2>8, <3>1
    <3> QED BY <2>3, <3>1, <3>2, <3>3 DEF Pictured
  <2> QED BY <2>7, <2>9, <2>10
<1> QED BY <1>1, <1>2

\* The records of a run.
LEMMA RunPictured ==
  ASSUME TypeOK, Pictured, Started \/ MessageFailed \/ MessageAborted \/ MessageDone \/ Settled
  PROVE  Pictured'
<1>typed. retry \in RetryType /\ streaming \in BOOLEAN
  BY DEF TypeOK
<1>ended. /\ Finished(retry) \in RetryType /\ ~Busy(Finished(retry)) /\ ~Finished(retry).activity
          /\ Finished(retry).cancelled = retry.cancelled
          /\ Cancelled(retry) \in RetryType /\ ~Busy(Cancelled(retry)) /\ ~Cancelled(retry).activity
          /\ Cancelled(retry).cancelled /\ Cancelled(retry).enabled = retry.enabled
  BY <1>typed, EndedFields
<1>kept. UNCHANGED <<resume, attached, piRun>>
  BY DEF Started, MessageFailed, MessageAborted, MessageDone, Settled, controls
<1>head. ASSUME NEW kind, Record(kind)
         PROVE  \E spoken \in BOOLEAN, c \in RunType :
                  /\ Tells(Head1, [on |-> streaming, spoken |-> spoken], c)
                  /\ Path(fromPi', c, piRun)
                  /\ retry.activity /\ ~Busy(retry) =>
                       streaming /\ (spoken => retry.error # NoError)
                  /\ Head1.kind = kind
  BY <1>head, FollowedHead, HeadType DEF Pictured
<1>1. CASE Started
  <2>1. PICK spoken \in BOOLEAN, c \in RunType :
          /\ Tells(Head1, [on |-> streaming, spoken |-> spoken], c)
          /\ Path(fromPi', c, piRun) /\ Head1.kind = "start"
    BY <1>1, <1>head DEF Started
  <2>2. c = [on |-> TRUE, spoken |-> FALSE]
    BY <2>1, Told DEF Begun
  <2>3. streaming' = TRUE /\ shown' = "running"
    BY <1>1 DEF Started
  <2>4. Followed'
    BY <1>kept, <2>1, <2>2, <2>3 DEF Followed
  <2>5. CASE retry.waiting
    <3>1. retry' = [[Cancelled(retry) EXCEPT !.cancelled = FALSE]
                      EXCEPT !.starting = FALSE, !.error = NoError]
      BY <1>1, <2>5 DEF Started
    <3>2. ~Busy(retry') /\ ~retry'.activity
      BY <1>ended, <3>1 DEF RetryType, Busy
    <3>3. resume = 0 \/ attached # None
      BY <2>5 DEF Pictured, Busy
    <3> QED BY <1>kept, <2>3, <2>4, <3>2, <3>3 DEF Pictured
  <2>6. CASE ~retry.waiting
    <3>1. retry' = [retry EXCEPT !.starting = FALSE, !.error = NoError]
      BY <1>1, <2>6 DEF Started
    <3>2. /\ ~Busy(retry') /\ retry'.activity = retry.activity
          /\ retry'.enabled = retry.enabled /\ retry'.cancelled = retry.cancelled
      BY <1>typed, <2>6, <3>1 DEF RetryType, Busy
    <3> QED BY <1>kept, <2>3, <2>4, <3>2 DEF Pictured
  <2> QED BY <2>5, <2>6
<1>message. ASSUME NEW kind \in {"failed", "done", "aborted"}, Record(kind), streaming' = streaming,
                   retry'.activity => retry'.error # NoError
            PROVE  streaming = TRUE /\ Followed'
  <2>1. PICK spoken \in BOOLEAN, c \in RunType :
          /\ Tells(Head1, [on |-> streaming, spoken |-> spoken], c)
          /\ Path(fromPi', c, piRun) /\ Head1.kind = kind
    BY <1>message, <1>head
  <2>2. streaming = TRUE /\ c = [on |-> TRUE, spoken |-> TRUE]
    <3>1. [on |-> streaming, spoken |-> spoken].on /\ c = [on |-> TRUE, spoken |-> TRUE]
      BY <2>1, Told
    <3> QED BY <1>typed, <3>1
  <2> QED BY <1>kept, <1>message, <2>1, <2>2 DEF Followed
<1>2. CASE MessageFailed
  <2>1. Record("failed") /\ UNCHANGED <<streaming, shown>>
    BY <1>2 DEF MessageFailed
  <2>2. CASE retry.enabled /\ ~retry.cancelled
    <3>1. retry' = [retry EXCEPT !.error = [run |-> Head1.run, session |-> Head1.session]]
      BY <1>2, <2>2 DEF MessageFailed
    <3>2. Head1.session \in Sessions
      BY <2>1, HeadType, EventFields
    <3>3. retry'.error.session \in Sessions
      BY <1>typed, <3>1, <3>2 DEF RetryType
    <3>4. retry'.error # NoError
      BY <3>3, RetryConstants DEF NoError
    <3>5. streaming = TRUE /\ Followed'
      BY <1>message, <2>1, <3>4
    <3>6. /\ Busy(retry') = Busy(retry) /\ retry'.activity = retry.activity
          /\ retry'.enabled = retry.enabled /\ retry'.cancelled = retry.cancelled
      BY <1>typed, <3>1 DEF RetryType, Busy
    <3> QED BY <1>kept, <2>1, <3>5, <3>6 DEF Pictured
  <2>3. CASE ~(retry.enabled /\ ~retry.cancelled)
    <3>1. retry' = retry
      BY <1>2, <2>3 DEF MessageFailed
    <3>2. ~retry.activity
      BY <2>3 DEF Pictured
    <3>3. Followed'
      BY <1>message, <2>1, <3>1, <3>2
    <3> QED BY <1>kept, <2>1, <3>1, <3>3 DEF Pictured
  <2> QED BY <2>2, <2>3
<1>3. CASE MessageAborted
  <2>1. Record("aborted") /\ streaming' = streaming /\ retry' = Cancelled(retry)
        /\ shown' = ShownByCancel
    BY <1>3 DEF MessageAborted
  <2>2. streaming = TRUE /\ Followed'
    BY <1>message, <1>ended, <2>1
  <2>3. shown = "running" /\ shown' = shown
    BY <2>1, <2>2 DEF Pictured, ShownByCancel
  <2> QED BY <1>ended, <2>1, <2>2, <2>3 DEF Pictured
<1>4. CASE MessageDone
  <2>1. Record("done") /\ UNCHANGED <<streaming, shown>>
        /\ retry' = [Finished(retry) EXCEPT !.error = NoError, !.attempt = 0]
    BY <1>4 DEF MessageDone
  <2>2. ~Busy(retry') /\ ~retry'.activity /\ retry'.cancelled = retry.cancelled
    BY <1>ended, <2>1 DEF RetryType, Busy
  <2>3. streaming = TRUE /\ Followed'
    BY <1>message, <2>1, <2>2
  <2>4. shown = "running"
    BY <2>3 DEF Pictured
  <2> QED BY <1>kept, <2>1, <2>2, <2>3, <2>4 DEF Pictured
<1>5. CASE Settled
  <2>1. PICK spoken \in BOOLEAN, c \in RunType :
          /\ Tells(Head1, [on |-> streaming, spoken |-> spoken], c)
          /\ Path(fromPi', c, piRun) /\ Head1.kind = "settled"
          /\ retry.activity /\ ~Busy(retry) => streaming /\ (spoken => retry.error # NoError)
    BY <1>5, <1>head DEF Settled
  <2>2. streaming = TRUE /\ spoken = TRUE /\ c = [on |-> FALSE, spoken |-> FALSE]
    <3>1. /\ [on |-> streaming, spoken |-> spoken].on
          /\ [on |-> streaming, spoken |-> spoken].spoken
          /\ c = Idle
      BY <2>1, Told
    <3> QED BY <1>typed, <3>1 DEF Idle
  <2>3. streaming' = FALSE /\ shown' = IF Busy(retry') THEN "running" ELSE "idle"
    BY <1>5 DEF Settled
  <2>4. ~Busy(retry)
    BY <2>2 DEF Pictured
  <2>5. retry.activity => Recoverable(retry)
    BY <2>1, <2>2, <2>4 DEF Pictured, Recoverable
  <2>6. ASSUME retry'.activity => Busy(retry') PROVE Followed'
    BY <1>kept, <2>1, <2>2, <2>3, <2>6 DEF Followed
  <2>7. CASE ~Recoverable(retry)
    <3>1. retry' = retry /\ ~retry.activity
      BY <1>5, <2>5, <2>7 DEF Settled
    <3> QED BY <1>kept, <2>3, <2>4, <2>6, <3>1 DEF Pictured
  <2>8. CASE Recoverable(retry) /\ AttemptLeft(retry)
    <3>1. retry' = [retry EXCEPT !.attempt = retry.attempt + 1, !.activity = TRUE, !.waiting = TRUE]
      BY <1>5, <2>8 DEF Settled, NextWait
    <3>2. Busy(retry') /\ retry'.activity /\ retry'.enabled = retry.enabled
          /\ retry'.cancelled = retry.cancelled
      BY <1>typed, <3>1 DEF RetryType, Busy
    <3>3. retry.enabled /\ ~retry.cancelled
      BY <2>8 DEF Recoverable
    <3>4. Followed'
      BY <2>6, <3>2
    <3> QED BY <1>kept, <2>3, <3>2, <3>3, <3>4 DEF Pictured
  <2>9. CASE Recoverable(retry) /\ ~AttemptLeft(retry)
    <3>1. retry' = [Finished(retry) EXCEPT !.error = NoError, !.cancelled = TRUE]
      BY <1>5, <2>9 DEF Settled, Exhausted
    <3>2. ~Busy(retry') /\ ~retry'.activity /\ retry'.cancelled
      BY <1>ended, <3>1 DEF RetryType, Busy
    <3> QED BY <2>3, <2>6, <3>2 DEF Pictured
  <2> QED BY <2>7, <2>8, <2>9
<1> QED BY <1>1, <1>2, <1>3, <1>4, <1>5

LEMMA AnswerPictured ==
  ASSUME TypeOK, Numbered, Pictured,
         Continued \/ ContinuationState \/ Aborted \/ Switched \/ ResumeHistory
  PROVE  Pictured'
<1>typed. retry \in RetryType /\ streaming \in BOOLEAN
  BY DEF TypeOK
<1>ended. /\ Finished(retry) \in RetryType /\ ~Busy(Finished(retry)) /\ ~Finished(retry).activity
          /\ Cancelled(retry) \in RetryType /\ ~Busy(Cancelled(retry)) /\ ~Cancelled(retry).activity
          /\ Cancelled(retry).cancelled /\ Cancelled(retry).enabled = retry.enabled
  BY <1>typed, EndedFields
<1>kept. attached' = attached /\ piRun' = piRun
  BY DEF Continued, ContinuationState, Aborted, Switched, ResumeHistory
<1>same. ASSUME NEW kind \in ReadKinds \cup {"continued", "abort", "switch"}, Record(kind),
                UNCHANGED <<retry, streaming, shown>>,
                resume' # 0 => resume # 0
         PROVE  Pictured'
  <2>1. Followed'
    BY <1>same, <1>kept, PicturedSame DEF Busy
  <2> QED BY <1>same, <1>kept, <2>1 DEF Pictured
<1>1. CASE Continued
  <2>0. Record("continued") /\ UNCHANGED <<streaming, resume>>
    BY <1>1 DEF Continued, controls
  <2>1. CASE UNCHANGED <<retry, shown>>
    BY <1>same, <2>0, <2>1
  <2>2. CASE /\ \/ retry' = [retry EXCEPT !.prompt = 0, !.state = nextId]
                \/ retry' = [retry EXCEPT !.prompt = 0]
             /\ shown' = shown
    <3>1. /\ Busy(retry') = Busy(retry) /\ retry'.activity = retry.activity
          /\ retry'.enabled = retry.enabled /\ retry'.cancelled = retry.cancelled
          /\ retry'.error = retry.error
      BY <1>typed, <2>2 DEF RetryType, Busy
    <3>2. Followed'
      BY <1>kept, <2>0, <3>1, PicturedSame
    <3> QED BY <1>kept, <2>0, <2>2, <3>1, <3>2 DEF Pictured
  <2>3. CASE /\ retry' = [Finished(retry) EXCEPT !.prompt = 0, !.cancelled = TRUE,
                                                 !.error = NoError]
             /\ shown' = (IF streaming THEN shown ELSE "idle")
    <3>1. ~Busy(retry') /\ ~retry'.activity /\ retry'.cancelled
      BY <1>ended, <2>3 DEF RetryType, Busy
    <3>2. Followed'
      BY <1>kept, <2>0, <3>1, PicturedEnded
    <3>3. (shown' = "running") = (streaming' \/ Busy(retry'))
      BY <1>typed, <2>0, <2>3, <3>1 DEF Pictured
    <3> QED BY <3>1, <3>2, <3>3 DEF Pictured
  <2> QED BY <1>1, <2>1, <2>2, <2>3 DEF Continued
<1>2. CASE ContinuationState
  <2>0. /\ Record("retry-state") /\ resume' = resume /\ "retry-state" \in ReadKinds
        /\ Head1.kind = "retry-state"
    BY <1>2, HeadType DEF ContinuationState, controls, ReadKinds
  <2>1. CASE UNCHANGED <<retry, streaming, shown>>
    BY <1>same, <2>0, <2>1
  <2>2. CASE retry' = [retry EXCEPT !.state = 0] /\ UNCHANGED <<streaming, shown>>
    <3>1. /\ Busy(retry') = Busy(retry) /\ retry'.activity = retry.activity
          /\ retry'.enabled = retry.enabled /\ retry'.cancelled = retry.cancelled
          /\ retry'.error = retry.error
      BY <1>typed, <2>2 DEF RetryType, Busy
    <3>2. Followed'
      BY <1>kept, <2>0, <2>2, <3>1, PicturedSame
    <3> QED BY <1>kept, <2>0, <2>2, <3>1, <3>2 DEF Pictured
  <2>3. CASE retry.starting /\ Head1.streaming
    <3>1. PICK spoken \in BOOLEAN, c \in RunType :
             Tells(Head1, [on |-> streaming, spoken |-> spoken], c)
      BY <2>0, FollowedHead DEF Pictured
    <3>2. Head1.streaming = [on |-> streaming, spoken |-> spoken].on
      BY <2>0, <3>1, Told
    <3>3. streaming
      BY <2>3, <3>2
    <3> QED BY <2>3, <3>3 DEF Pictured, Busy
  <2>4. CASE retry' = Cancelled(retry) /\ shown' = ShownByCancel /\ streaming' = streaming
    <3>1. Followed'
      BY <1>kept, <1>ended, <2>0, <2>4, PicturedEnded
    <3>2. (shown' = "running") = (streaming' \/ Busy(retry'))
      BY <1>typed, <1>ended, <2>4 DEF Pictured, ShownByCancel
    <3> QED BY <1>ended, <2>4, <3>1, <3>2 DEF Pictured
  <2> QED BY <1>2, <2>1, <2>2, <2>3, <2>4 DEF ContinuationState
<1>3. CASE Aborted
  BY <1>3, <1>same DEF Aborted
<1>4. CASE Switched
  <2>1. Record("switch") /\ UNCHANGED <<retry, streaming, shown>>
    BY <1>4 DEF Switched
  <2>2. resume' # 0 => resume # 0
    <3>1. Head1.id > 0
      <4>1. fromPi \in Seq(NumberedRecords) /\ fromPi # <<>> /\ Head1.kind = "switch"
        BY <2>1 DEF Numbered, Record
      <4>2. Head1 \in NumberedRecords
        BY <4>1, HeadTailProperties DEF Head1
      <4> QED BY <4>1, <4>2 DEF NumberedRecords
    <3> QED BY <1>4, <3>1 DEF Switched
  <2> QED BY <1>same, <2>1, <2>2
<1>5. CASE ResumeHistory
  <2>1. Record("resume-history") /\ UNCHANGED <<retry, streaming, shown>>
        /\ "resume-history" \in ReadKinds /\ (resume' # 0 => resume # 0)
    BY <1>5 DEF ResumeHistory, ReadKinds
  <2> QED BY <1>same, <2>1
<1> QED BY <1>1, <1>2, <1>3, <1>4, <1>5

LEMMA ReceivePictured == TypeOK /\ Numbered /\ Pictured /\ Receive => Pictured'
<1> SUFFICES ASSUME TypeOK, Numbered, Pictured, Receive PROVE Pictured'
  OBVIOUS
<1>1. CASE InterruptState
  <2>1. Record("interrupt-state") /\ "interrupt-state" \in ReadKinds
        /\ (TakeState(Head1) \/ StateKept) /\ piRun' = piRun /\ resume' = resume
    BY <1>1 DEF InterruptState, ReadKinds
  <2> QED BY <2>1, StatePictured
<1>2. CASE State
  <2>1. Record("state") /\ "state" \in ReadKinds
        /\ (TakeState(Head1) \/ StateKept) /\ piRun' = piRun /\ resume' = resume
    BY <1>2 DEF State, ReadKinds
  <2> QED BY <2>1, StatePictured
<1>3. CASE ResumeState
  <2>1. Record("resume-state") /\ "resume-state" \in ReadKinds
        /\ (TakeState(Head1) \/ StateKept) /\ piRun' = piRun
        /\ (resume' = resume \/ resume' = 0 \/ TakeState(Head1))
    BY <1>3 DEF ResumeState, ReadKinds
  <2> QED BY <2>1, StatePictured
<1> QED BY <1>1, <1>2, <1>3, RunPictured, AnswerPictured DEF Receive

\* What each record tells.
LEMMA Telling ==
  ASSUME NEW r, NEW before
  PROVE  /\ r.kind = "start" => Tells(r, before, Begun)
         /\ r.kind \in {"failed", "done", "aborted"} /\ before.on =>
              Tells(r, before, [on |-> TRUE, spoken |-> TRUE])
         /\ r.kind = "settled" /\ before.on /\ before.spoken => Tells(r, before, Idle)
         /\ r.kind \in ReadKinds /\ r.streaming = before.on => Tells(r, before, before)
         /\ r.kind \in {"continued", "abort", "switch"} => Tells(r, before, before)
<1>1. CASE r.kind = "start"
  BY <1>1 DEF Tells, ReadKinds
<1>2. CASE r.kind \in {"failed", "done", "aborted"}
  BY <1>2 DEF Tells, ReadKinds
<1>3. CASE r.kind = "settled"
  BY <1>3 DEF Tells, ReadKinds
<1>4. CASE r.kind \in ReadKinds
  BY <1>4 DEF Tells, ReadKinds
<1>5. CASE r.kind \in {"continued", "abort", "switch"}
  BY <1>5 DEF Tells, ReadKinds
<1> QED BY <1>1, <1>2, <1>3, <1>4, <1>5

\* Pi goes on: what it writes leads from its run as it was to its run as it is.
LEMMA PiLeads ==
  ASSUME TypeOK, Pi, NEW from, Path(fromPi, from, piRun)
  PROVE  Path(fromPi', from, piRun')
<1>q. fromPi \in Seq(RecordType)
  BY DEF TypeOK
<1>types. /\ Idle \in RunType /\ Begun \in RunType
          /\ [on |-> TRUE, spoken |-> TRUE] \in RunType /\ piRun \in RunType
  <2>1. piRun \in RunType
    <3>1. PICK h \in [0..Len(fromPi) -> RunType] : h[Len(fromPi)] = piRun
      BY DEF Path
    <3>2. Len(fromPi) \in 0..Len(fromPi)
      BY <1>q, LenProperties
    <3> QED BY <3>1, <3>2
  <2> QED BY <2>1, RunTyped
<1>off. ~piRun.on => piRun = Idle
  BY <1>types DEF RunType, Idle, TypeOK
<1>one. ASSUME NEW r \in RecordType, NEW c \in RunType, Tells(r, piRun, c),
               fromPi' = fromPi \o <<r>>, piRun' = c
        PROVE  Path(fromPi', from, piRun')
  BY <1>one, <1>q, PathOne
<1>start. [kind |-> "start"] \in RecordType /\ \A before : Tells([kind |-> "start"], before, Begun)
  <2>1. [kind |-> "start"] \in RecordType /\ [kind |-> "start"].kind = "start"
    BY DEF RecordType
  <2> QED BY <2>1, Telling
<1>reply. ASSUME NEW c, NEW ok \in BOOLEAN,
                 c.kind \in ReadKinds \cup {"continued", "abort", "switch"}, c.id \in Nat
          PROVE  /\ Reply(c, ok) \in RecordType
                 /\ Reply(c, ok).kind = c.kind /\ Reply(c, ok).streaming = piRun.on
  BY <1>reply, ReplyType DEF Reply
<1>event. ASSUME NEW kind \in {"failed", "done", "aborted", "settled"}
          PROVE  Event(kind) \in RecordType /\ Event(kind).kind = kind
  BY <1>event, EventType DEF Event
<1>1. CASE PiPrompt \/ PiOwnRun
  <2>1. CASE UNCHANGED <<fromPi, piRun>>
    BY <2>1
  <2>2. CASE piRun' = Begun /\ Write(<<[kind |-> "start"]>>)
    BY <1>one, <1>start, <1>types, <2>2 DEF Write
  <2> QED BY <1>1, <2>1, <2>2 DEF PiPrompt, PiOwnRun
<1>2. CASE PiContinue
  <2> DEFINE c == [Head(toPi) EXCEPT !.kind = "continued"]
             s == [kind |-> "start"]
  <2>1. Head(toPi) \in CommandType /\ Head(toPi).id \in Nat
    BY <1>2, ReadsType DEF PiContinue
  <2>2. c.kind = "continued" /\ c.id \in Nat
    BY <2>1 DEF CommandType
  <2>3. \/ Write(<<Reply(c, TRUE)>>) /\ piRun' = piRun
        \/ Write(<<Reply(c, FALSE)>>) /\ piRun' = piRun
        \/ Write(<<s, Reply(c, TRUE)>>) /\ piRun' = Begun
        \/ Write(<<Reply(c, TRUE), s>>) /\ piRun' = Begun
    BY <1>2 DEF PiContinue
  <2> HIDE DEF c
  <2>4. /\ Reply(c, TRUE) \in RecordType /\ Reply(c, FALSE) \in RecordType
        /\ Tells(Reply(c, TRUE), piRun, piRun) /\ Tells(Reply(c, FALSE), piRun, piRun)
        /\ Tells(Reply(c, TRUE), Begun, Begun)
    <3>1. /\ Reply(c, TRUE) \in RecordType /\ Reply(c, TRUE).kind = "continued"
          /\ Reply(c, FALSE) \in RecordType /\ Reply(c, FALSE).kind = "continued"
      BY <1>reply, <2>2
    <3>2. Tells(Reply(c, TRUE), piRun, piRun) /\ Tells(Reply(c, TRUE), Begun, Begun)
      BY <3>1, Telling
    <3>3. Tells(Reply(c, FALSE), piRun, piRun)
      BY <3>1, Telling
    <3> QED BY <3>1, <3>2, <3>3
  <2>5. s \in RecordType /\ \A before : Tells(s, before, Begun)
    BY <1>start
  <2> HIDE DEF s
  <2>6. CASE Write(<<Reply(c, TRUE)>>) /\ piRun' = piRun
    BY <1>one, <1>types, <2>4, <2>6 DEF Write
  <2>7. CASE Write(<<Reply(c, FALSE)>>) /\ piRun' = piRun
    BY <1>one, <1>types, <2>4, <2>7 DEF Write
  <2>8. CASE Write(<<s, Reply(c, TRUE)>>) /\ piRun' = Begun
    <3>1. fromPi' = (fromPi \o <<s>>) \o <<Reply(c, TRUE)>>
      BY <1>q, <2>4, <2>5, <2>8, Written DEF Write
    <3>2. Path(fromPi \o <<s>>, from, Begun) /\ fromPi \o <<s>> \in Seq(RecordType)
      BY <1>q, <1>types, <2>5, PathOne
    <3> QED BY <1>types, <2>4, <2>8, <3>1, <3>2, PathOne
  <2>9. CASE Write(<<Reply(c, TRUE), s>>) /\ piRun' = Begun
    <3>1. fromPi' = (fromPi \o <<Reply(c, TRUE)>>) \o <<s>>
      BY <1>q, <2>4, <2>5, <2>9, Written DEF Write
    <3>2. /\ Path(fromPi \o <<Reply(c, TRUE)>>, from, piRun)
          /\ fromPi \o <<Reply(c, TRUE)>> \in Seq(RecordType)
      BY <1>q, <1>types, <2>4, PathOne
    <3> QED BY <1>types, <2>5, <2>9, <3>1, <3>2, PathOne
  <2> QED BY <2>3, <2>6, <2>7, <2>8, <2>9
<1>3. CASE PiRead
  <2>1. PICK kind \in ReadKinds, ok \in BOOLEAN :
               Reads(kind) /\ Write(<<Reply(Head(toPi), ok)>>) /\ piRun' = piRun
    BY <1>3 DEF PiRead
  <2>2. Head(toPi).id \in Nat /\ Head(toPi).kind = kind
    BY <2>1, ReadsType
  <2>3. /\ Reply(Head(toPi), ok) \in RecordType
        /\ Reply(Head(toPi), ok).kind \in ReadKinds /\ Reply(Head(toPi), ok).streaming = piRun.on
    BY <1>reply, <2>2
  <2>4. Tells(Reply(Head(toPi), ok), piRun, piRun)
    BY <2>3 DEF Tells, ReadKinds
  <2> QED BY <1>one, <1>types, <2>1, <2>3, <2>4 DEF Write
<1>4. CASE PiAbort \/ PiSwitch
  <2> DEFINE y == Reply(Head(toPi), TRUE)
             n == Reply(Head(toPi), FALSE)
  <2>1. Head(toPi).id \in Nat /\ Head(toPi).kind \in {"abort", "switch"}
    BY <1>4, ReadsType DEF PiAbort, PiSwitch
  <2>2. /\ y \in RecordType /\ n \in RecordType
        /\ Tells(y, Idle, Idle) /\ Tells(n, piRun, piRun)
    <3>1. /\ y \in RecordType /\ y.kind \in {"abort", "switch"}
          /\ n \in RecordType /\ n.kind \in {"abort", "switch"}
      BY <1>reply, <2>1
    <3> HIDE DEF y, n
    <3>2. Tells(y, Idle, Idle)
      BY <3>1, Telling
    <3>3. Tells(n, piRun, piRun)
      BY <3>1, Telling
    <3> QED BY <3>1, <3>2, <3>3
  <2>3. \/ Write(Append(Abortion, y)) /\ piRun' = Idle
        \/ Write(<<n>>) /\ piRun' = piRun
    BY <1>4 DEF PiAbort, PiSwitch
  <2> HIDE DEF y, n
  <2>4. CASE Write(<<n>>) /\ piRun' = piRun
    BY <1>one, <1>types, <2>2, <2>4 DEF Write
  <2>5. CASE Write(Append(Abortion, y)) /\ piRun' = Idle /\ ~piRun.on
    <3>1. fromPi' = fromPi \o <<y>>
      <4>1. fromPi' = fromPi \o Append(<<>>, y)
        BY <2>5 DEF Write, Abortion
      <4> QED BY <1>q, <2>2, <4>1, Written
    <3> QED BY <1>off, <1>one, <1>types, <2>2, <2>5, <3>1
  <2>6. CASE Write(Append(Abortion, y)) /\ piRun' = Idle /\ piRun.on
    <3> DEFINE a == Event("aborted")
               e == Event("settled")
               spoke == [on |-> TRUE, spoken |-> TRUE]
    <3>1. /\ a \in RecordType /\ e \in RecordType
          /\ a.kind = "aborted" /\ e.kind = "settled"
      BY <1>event
    <3>2. fromPi' = fromPi \o Append(<<a, e>>, y)
      BY <2>6 DEF Write, Abortion
    <3> HIDE DEF a, e, spoke
    <3>3. fromPi' = ((fromPi \o <<a>>) \o <<e>>) \o <<y>>
      <4>1. fromPi \o Append(<<a, e>>, y) = ((fromPi \o <<a>>) \o <<e>>) \o <<y>>
        BY <1>q, <2>2, <3>1, WrittenThree
      <4> QED BY <3>2, <4>1
    <3>4. Tells(a, piRun, spoke) /\ Tells(e, spoke, Idle) /\ spoke \in RunType
      <4>1. piRun.on /\ spoke.on /\ spoke.spoken
        BY <2>6 DEF spoke
      <4> QED BY <1>types, <3>1, <4>1, Telling DEF spoke
    <3>5. Path(fromPi \o <<a>>, from, spoke) /\ fromPi \o <<a>> \in Seq(RecordType)
      BY <1>q, <3>1, <3>4, PathOne
    <3>6. /\ Path((fromPi \o <<a>>) \o <<e>>, from, Idle)
          /\ (fromPi \o <<a>>) \o <<e>> \in Seq(RecordType)
      BY <1>types, <3>1, <3>4, <3>5, PathOne
    <3> QED BY <1>types, <2>2, <2>6, <3>3, <3>6, PathOne
  <2> QED BY <2>3, <2>4, <2>5, <2>6
<1>5. CASE PiMessage
  <2>1. PICK kind \in {"failed", "done"} : Write(<<Event(kind)>>) /\ piRun.on
                                             /\ piRun' = [piRun EXCEPT !.spoken = TRUE]
    BY <1>5 DEF PiMessage
  <2>2. piRun' = [on |-> TRUE, spoken |-> TRUE]
    BY <2>1 DEF TypeOK
  <2>3. Tells(Event(kind), piRun, [on |-> TRUE, spoken |-> TRUE])
    BY <1>event, <2>1, Telling
  <2> QED BY <1>event, <1>one, <1>types, <2>1, <2>2, <2>3 DEF Write
<1>6. CASE PiSettle
  <2>1. Tells(Event("settled"), piRun, Idle)
    BY <1>6, <1>event, Telling DEF PiSettle
  <2> QED BY <1>6, <1>event, <1>one, <1>types, <2>1 DEF PiSettle, Write
<1> QED BY <1>1, <1>2, <1>3, <1>4, <1>5, <1>6 DEF Pi, PiAnswers

LEMMA PiPictured == TypeOK /\ Pictured /\ Pi => Pictured'
<1> SUFFICES ASSUME TypeOK, Pictured, Pi PROVE Pictured'
  OBVIOUS
<1>1. UNCHANGED <<retry, streaming, shown, resume, attached>>
  BY PiKeepsAdapter DEF AdapterKept, controls
<1>2. PICK spoken \in BOOLEAN :
        /\ Path(fromPi, [on |-> streaming, spoken |-> spoken], piRun)
        /\ retry.activity /\ ~Busy(retry) => streaming /\ (spoken => retry.error # NoError)
  BY DEF Pictured, Followed
<1>3. Path(fromPi', [on |-> streaming, spoken |-> spoken], piRun')
  BY <1>2, PiLeads
<1>4. Followed'
  BY <1>1, <1>2, <1>3 DEF Followed, Busy
<1> QED BY <1>1, <1>4 DEF Pictured, Busy

LEMMA PicturedStep ==
  TypeOK /\ Numbered /\ Pictured /\ [Next]_vars => (Numbered /\ Pictured)'
<1> SUFFICES ASSUME TypeOK, Numbered, Pictured, [Next]_vars PROVE (Numbered /\ Pictured)'
  OBVIOUS
<1>1. CASE UNCHANGED vars
  <2>1. Numbered'
    BY <1>1 DEF vars, Numbered
  <2>2. Pictured'
    BY <1>1 DEF vars, controls, Pictured, Followed, Busy
  <2> QED BY <2>1, <2>2
<1>2. CASE User \/ Retry
  BY <1>2, NumberedUser, UserPictured
<1>3. CASE Receive
  BY <1>3, NumberedReceive, ReceivePictured
<1>4. CASE Pi
  BY <1>4, NumberedPi, PiPictured
<1> QED BY <1>1, <1>2, <1>3, <1>4 DEF Next

LEMMA InitPictured == Init => Numbered /\ Pictured
<1> SUFFICES ASSUME Init PROVE Numbered /\ Pictured
  OBVIOUS
<1>1. Numbered
  <2>1. Command("state", 1, None) \in NumberedCommands
    <3>1. Command("state", 1, None) \in CommandType
      BY CommandTyped DEF ReadKinds
    <3> QED BY <3>1 DEF NumberedCommands, Command
  <2>2. toPi \in Seq(NumberedCommands)
    BY <2>1, ShortSequences DEF Init
  <2> QED BY <2>2 DEF Init, Numbered
<1>2. ~Busy(retry) /\ ~retry.activity /\ ~streaming /\ shown = "idle" /\ resume = 0
  BY DEF Init, NewRetry, Busy
<1>3. Followed
  <2>1. fromPi = <<>> /\ piRun = Idle /\ streaming = FALSE
    BY DEF Init
  <2>2. Path(fromPi, [on |-> streaming, spoken |-> FALSE], piRun)
    BY <2>1, PathHere, RunTyped DEF Idle
  <2> QED BY <1>2, <2>2 DEF Followed
<1> QED BY <1>1, <1>2, <1>3 DEF Pictured

LEMMA PicturedShows == TypeOK /\ Pictured => ShownTrue
<1> SUFFICES ASSUME TypeOK, Pictured, fromPi = <<>>
             PROVE  /\ (shown = "running") = (piRun.on \/ Busy(retry))
                    /\ ~piRun.on /\ ~Busy(retry) => ~retry.activity
  BY DEF ShownTrue, StatusTruth, RowClosed
<1>1. PICK spoken \in BOOLEAN :
        /\ Path(fromPi, [on |-> streaming, spoken |-> spoken], piRun)
        /\ retry.activity /\ ~Busy(retry) => streaming /\ (spoken => retry.error # NoError)
  BY DEF Pictured, Followed
<1>2. [on |-> streaming, spoken |-> spoken] = piRun
  BY <1>1, PathOver
<1>3. piRun.on = streaming
  BY <1>2
<1> QED BY <1>1, <1>3 DEF Pictured

\* When nothing is under way the frontend shows a session at work exactly when Pi runs
\* or recovery is pending, and an open progress row has something left to recover.
THEOREM ShownTrueHolds == Spec => []ShownTrue
BY InitType, StepType, InitPictured, PicturedStep, PicturedShows, PTL DEF Spec

\* Recovery does not wait during a run of Pi, and none is pending while an attach has
\* not shown the session Pi is in.
THEOREM RecoveryAloneHolds == Spec => []RecoveryAlone
<1>1. Pictured => RecoveryAlone
  BY DEF Pictured, RecoveryAlone, Busy
<1> QED BY <1>1, InitType, StepType, InitPictured, PicturedStep, PTL DEF Spec
=============================================================================
