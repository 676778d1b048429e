------------------------- MODULE SideSessionProofs -------------------------
(***************************************************************************)
(* Theorems about SideSession, for any number of creations and sessions.   *)
(*                                                                         *)
(* CalledOff and PreparationCurrent need only what one party keeps.        *)
(* FilesKept relates all of them, and rests on an invariant of five parts: *)
(*   Lines   the events and the records on their way connect the session   *)
(*           the frontend shows, the one the adapter knows and Pi's;       *)
(*   Fresh   a request that waits is newer than every identity in use;     *)
(*   Tokens  of the places that may hold a result, one holds it;           *)
(*   Files   what each holder says of its file is true of the disk;        *)
(*   Seeds   a result for the reservation was made of no session that was  *)
(*           left before the one the frontend shows.                       *)
(***************************************************************************)
EXTENDS SideSession, TLAPS

\* c has the fields of a control, and no other.
IsControl(c) == c = [id |-> c.id, source |-> c.source, timed |-> c.timed]

\* What the frontend and the worker each keep on their own.
FrontendInv ==
  /\ reserved \in Nat /\ pending \in Nat /\ side \in Nat
  /\ cancelled \subseteq 0..reserved
  /\ pending # 0 => pending = reserved /\ side = 0 /\ pending \notin cancelled
  /\ candidate.id # 0 => candidate.id = pending
  /\ side # 0 => side <= reserved /\ side \notin cancelled
WorkerInv ==
  /\ IsControl(control)
  /\ PreparationCurrent

-----------------------------------------------------------------------------
\* Calling a reservation off leaves none, and no candidate.
LEMMA CancelSideFrontend ==
  ASSUME FrontendInv, CancelSide, pending # 0, reserved' = reserved, side' = side
  PROVE  FrontendInv'
BY DEF FrontendInv, CancelSide, NoCandidate

LEMMA FrontendInit == Init => FrontendInv
BY DEF Init, FrontendInv, NoCandidate

LEMMA FrontendStep == FrontendInv /\ [Next]_vars => FrontendInv'
<1> SUFFICES ASSUME FrontendInv, [Next]_vars PROVE FrontendInv'
  OBVIOUS
<1>1. CASE Create
  <2>1. /\ side = 0 /\ pending = 0 /\ reserved' = reserved + 1
        /\ UNCHANGED <<candidate, side>>
    BY <1>1 DEF Create
  <2>2. \/ pending' = reserved' /\ cancelled' = cancelled
        \/ pending' = pending /\ cancelled' = cancelled \cup {reserved'}
    BY <1>1 DEF Create
  <2>3. candidate.id = 0 /\ reserved' \in Nat /\ reserved' \notin cancelled
    BY <2>1 DEF FrontendInv
  <2>4. cancelled' \subseteq 0..reserved'
    <3>1. 0..reserved \subseteq 0..(reserved + 1) /\ reserved + 1 \in 0..(reserved + 1)
      BY DEF FrontendInv
    <3>2. cancelled \subseteq 0..(reserved + 1)
      BY <3>1 DEF FrontendInv
    <3> QED
      BY <2>1, <2>2, <3>1, <3>2
  <2>5. pending' \in Nat /\ side' \in Nat
    BY <2>1, <2>2, <2>3 DEF FrontendInv
  <2>6. pending' # 0 => pending' = reserved' /\ side' = 0 /\ pending' \notin cancelled'
    BY <2>1, <2>2, <2>3
  <2> QED
    BY <2>1, <2>3, <2>4, <2>5, <2>6 DEF FrontendInv
<1>2. CASE Escape
  BY <1>2, CancelSideFrontend DEF Escape
<1>3. CASE Close
  BY <1>3 DEF Close, FrontendInv
<1>4. CASE OnPrepared
  <2>1. CASE Stale(Head(toMain))
    BY <1>4, <2>1 DEF OnPrepared, FrontendInv
  <2>2. CASE ~Stale(Head(toMain)) /\ Head(toMain).outcome = "ready"
    <3>1. candidate'.id = pending
      BY <1>4, <2>2 DEF OnPrepared, Stale
    <3> QED
      BY <1>4, <2>2, <3>1 DEF OnPrepared, FrontendInv
  <2>3. CASE ~Stale(Head(toMain)) /\ Head(toMain).outcome # "ready"
    <3>1. CancelSide
      BY <1>4, <2>3 DEF OnPrepared
    <3>2. CASE pending # 0
      BY <1>4, <3>1, <3>2, CancelSideFrontend DEF OnPrepared
    <3>3. CASE pending = 0
      BY <1>4, <3>1, <3>3 DEF OnPrepared, CancelSide, NoCandidate, FrontendInv
    <3> QED
      BY <3>2, <3>3
  <2> QED
    BY <2>1, <2>2, <2>3
<1>5. CASE OnAttached
  <2>1. CASE pending # 0 /\ expected # shown'
    BY <1>5, <2>1, CancelSideFrontend DEF OnAttached
  <2>2. CASE ~(pending # 0 /\ expected # shown')
    <3>1. UNCHANGED <<reserved, side, pending, candidate, cancelled>>
      BY <1>5, <2>2 DEF OnAttached
    <3> QED
      BY <3>1 DEF FrontendInv
  <2> QED
    BY <2>1, <2>2
<1>6. CASE CandidateReady
  BY <1>6 DEF CandidateReady, CommittedCandidate, NoCandidate, FrontendInv
<1>7. CASE CandidateFailed
  BY <1>7, CancelSideFrontend DEF CandidateFailed, FrontendInv
<1>8. CASE WorkerLoop
  BY <1>8 DEF WorkerLoop, ReadRequest, ReadCancellation, ReadRecord, ReadProgress, ReadOutcome,
              ReadState, Materialized, FrontendInv, frontend
<1>9. CASE Deadline \/ Task \/ AbandonedCopy \/ Cleanup
  BY <1>9 DEF Deadline, Task, Copy, CopyTimeout, AbandonedCopy, Cleanup, FrontendInv, frontend
<1>10. CASE Companion \/ Operation \/ Replace \/ AnswerState
  BY <1>10 DEF Companion, Handle, HandleCancel, Operation, Discard, Select, Stage, Snapshot, Finish,
               Replace, AnswerState, pie, FrontendInv, frontend
<1>11. CASE UNCHANGED vars
  BY <1>11 DEF vars, FrontendInv, frontend
<1> QED
  BY <1>1, <1>2, <1>3, <1>4, <1>5, <1>6, <1>7, <1>8, <1>9, <1>10, <1>11
     DEF Next, User, OnEvent, Candidate

\* A side session that was called off is never attached, nor its candidate
\* kept: sessions.rs finish_side and the cancellations of workspace_runner.rs.
THEOREM CalledOffHolds == Spec => []CalledOff
<1>1. FrontendInv => CalledOff
  BY DEF FrontendInv, CalledOff
<1> QED
  BY <1>1, FrontendInit, FrontendStep, PTL DEF Spec

-----------------------------------------------------------------------------
LEMMA WorkerInit == Init => WorkerInv
BY DEF Init, WorkerInv, PreparationCurrent, IsControl, NoControl

LEMMA WorkerStep == WorkerInv /\ [Next]_vars => WorkerInv'
<1> SUFFICES ASSUME WorkerInv, [Next]_vars PROVE WorkerInv'
  OBVIOUS
<1> USE DEF WorkerInv, PreparationCurrent, IsControl, NoControl
<1>1. CASE Create
  BY <1>1 DEF Create, worker
<1>2. CASE ReadRequest
  <2>1. CASE cancellation = Head(preparations).id
    BY <1>2, <2>1 DEF ReadRequest
  <2>2. CASE cancellation # Head(preparations).id /\ control # NoControl
    <3>1. UNCHANGED <<creation, control, native>>
      BY <1>2, <2>2 DEF ReadRequest
    <3> QED
      BY <3>1
  <2>3. CASE cancellation # Head(preparations).id /\ control = NoControl
    <3> DEFINE r == Head(preparations)
    <3>1. /\ creation' = r.id /\ native' = native
          /\ control' = [id |-> r.id, source |-> native, timed |-> TRUE]
      BY <1>2, <2>3 DEF ReadRequest
    <3> QED
      BY <3>1
  <2> QED
    BY <2>1, <2>2, <2>3
<1>3. CASE ReadCancellation
  <2>1. UNCHANGED native
    BY <1>3 DEF ReadCancellation
  <2>2. CASE creation # 0 /\ cancellation = creation
    <3>1. control' = NoControl /\ creation' = 0
      BY <1>3, <2>2 DEF ReadCancellation, CancelControl
    <3> QED
      BY <3>1
  <2>3. CASE ~(creation # 0 /\ cancellation = creation)
    <3>1. UNCHANGED <<creation, control>>
      BY <1>3, <2>3 DEF ReadCancellation
    <3> QED
      BY <2>1, <3>1
  <2> QED
    BY <2>2, <2>3
<1>4. CASE ReadProgress
  <2>1. UNCHANGED <<creation, native>>
    BY <1>4 DEF ReadProgress
  <2>2. \/ control' = control
        \/ /\ control.id # 0
           /\ control' = [control EXCEPT !.timed = Timed(Head(fromPi))]
    BY <1>4 DEF ReadProgress, Answers
  <2>3. CASE control' = control
    BY <2>1, <2>3
  <2>4. CASE control.id # 0 /\ control' = [control EXCEPT !.timed = Timed(Head(fromPi))]
    <3>1. control' = [id |-> control.id, source |-> control.source, timed |-> Timed(Head(fromPi))]
      BY <2>4
    <3> QED
      BY <2>1, <2>4, <3>1
  <2> QED
    BY <2>2, <2>3, <2>4
<1>5. CASE ReadOutcome
  BY <1>5 DEF ReadOutcome, inbox
<1>6. CASE ReadState
  BY <1>6 DEF ReadState, CancelControl, inbox
<1>7. CASE Deadline
  BY <1>7 DEF Deadline, CancelControl, inbox
<1>8. CASE Escape \/ Close \/ OnEvent \/ Candidate
  BY <1>8 DEF Escape, Close, OnEvent, OnPrepared, OnAttached, Candidate, CandidateReady,
              CandidateFailed, CancelSide, TellWorker, worker, inbox
<1>9. CASE Materialized \/ Task \/ AbandonedCopy \/ Cleanup
  BY <1>9 DEF Materialized, Task, Copy, CopyTimeout, AbandonedCopy, Cleanup, worker, inbox
<1>10. CASE Companion \/ Operation \/ Replace \/ AnswerState
  BY <1>10 DEF Companion, Handle, HandleCancel, Operation, Discard, Select, Stage, Snapshot, Finish,
               Replace, AnswerState, pie, worker, inbox
<1>11. CASE UNCHANGED vars
  BY <1>11 DEF vars, worker, inbox
<1> QED
  BY <1>1, <1>2, <1>3, <1>4, <1>5, <1>6, <1>7, <1>8, <1>9, <1>10, <1>11
     DEF Next, User, WorkerLoop, ReadRecord

\* What the worker prepares is what its control waits for, and is of the session
\* the adapter still has: session_worker.rs run and side.rs record.
THEOREM PreparationCurrentHolds == Spec => []PreparationCurrent
<1>1. WorkerInv => PreparationCurrent
  BY DEF WorkerInv
<1> QED
  BY <1>1, WorkerInit, WorkerStep, PTL DEF Spec

-----------------------------------------------------------------------------
\* What the fields hold.
Outcomes == {"ready", "failed", "cancelled", "none"}
RecordKinds == {"selecting", "preparing", "ready", "failed", "cancelled", "state"}
OperationSteps == {"none", "discarding", "selecting", "staging", "snapshot", "ending", "failing"}
Events == [kind : {"prepared", "attached"}, id : Nat, outcome : Outcomes, seed : Nat, file : BOOLEAN]
Records == [kind : RecordKinds, id : Nat, seed : Nat, persisted : BOOLEAN]
Commands == [verb : {"prepare", "cancel"}, id : Nat, kind : SideKinds]

\* Between what the frontend shows, low, and what the adapter knows, high, the
\* events in s report the changes of the session, in order.
IsAttached(e) == e.kind = "attached"
Rising(s) == \A i, j \in DOMAIN s : i < j /\ IsAttached(s[i]) /\ IsAttached(s[j]) => s[i].seed < s[j].seed
Line(s, low, high) ==
  /\ low <= high
  /\ Rising(s)
  /\ \A i \in DOMAIN s : IsAttached(s[i]) => low < s[i].seed /\ s[i].seed <= high

\* Between what the adapter knows, low, and what Pi has, high, the records in s
\* tell of sessions no older than those before them; a state tells of a new one.
Tells(r)   == r.kind \in {"ready", "state"}
IsState(r) == r.kind = "state"
Reported(s, low, high) ==
  /\ low <= high
  /\ \A i \in DOMAIN s : Tells(s[i]) => low <= s[i].seed /\ s[i].seed <= high
  /\ \A i, j \in DOMAIN s : i < j /\ Tells(s[i]) /\ Tells(s[j]) => s[i].seed <= s[j].seed
  /\ \A i \in DOMAIN s : IsState(s[i]) => low < s[i].seed
  /\ \A i, j \in DOMAIN s : IsState(s[i]) /\ IsState(s[j]) => i = j

\* Reading and writing a channel.
LEMMA TailOf ==
  ASSUME NEW S, NEW s \in Seq(S), s # <<>>
  PROVE  /\ Tail(s) \in Seq(S) /\ Head(s) \in S /\ Head(s) = s[1]
         /\ Len(s) \in Nat \ {0} /\ Len(Tail(s)) = Len(s) - 1
         /\ DOMAIN s = 1..Len(s) /\ DOMAIN Tail(s) = 1..(Len(s) - 1)
         /\ \A i \in 1..(Len(s) - 1) : Tail(s)[i] = s[i + 1]
OBVIOUS

LEMMA AppendOf ==
  ASSUME NEW S, NEW s \in Seq(S), NEW e \in S
  PROVE  /\ Append(s, e) \in Seq(S) /\ Append(s, e) # <<>>
         /\ Len(s) \in Nat /\ Len(Append(s, e)) = Len(s) + 1
         /\ DOMAIN s = 1..Len(s) /\ DOMAIN Append(s, e) = 1..(Len(s) + 1)
         /\ \A i \in 1..Len(s) : Append(s, e)[i] = s[i]
         /\ Append(s, e)[Len(s) + 1] = e
OBVIOUS

\* A line that is read goes on from the change that was read; one that is
\* written ends at the change that was written.
LEMMA LineTail ==
  ASSUME NEW S, NEW s \in Seq(S), s # <<>>, NEW low \in Int, NEW high \in Int, Line(s, low, high),
         \A e \in S : e.seed \in Int
  PROVE  IF IsAttached(Head(s)) THEN Line(Tail(s), Head(s).seed, high) /\ low < Head(s).seed
         ELSE Line(Tail(s), low, high)
<1> DEFINE t == Tail(s)
<1>1. /\ t \in Seq(S) /\ Head(s) \in S /\ Head(s) = s[1]
      /\ Len(s) \in Nat \ {0} /\ DOMAIN s = 1..Len(s) /\ DOMAIN t = 1..(Len(s) - 1)
      /\ \A i \in 1..(Len(s) - 1) : t[i] = s[i + 1]
  BY TailOf
<1> HIDE DEF t
<1>2. \A i \in DOMAIN t : i + 1 \in DOMAIN s /\ t[i] = s[i + 1] /\ i \in Nat
  BY <1>1
<1>6. Rising(t)
  <2> SUFFICES ASSUME NEW i \in DOMAIN t, NEW j \in DOMAIN t, i < j, IsAttached(t[i]), IsAttached(t[j])
               PROVE  t[i].seed < t[j].seed
    BY DEF Rising
  <2>1. i + 1 < j + 1 /\ i + 1 \in DOMAIN s /\ j + 1 \in DOMAIN s
    BY <1>2
  <2> QED
    BY <1>2, <2>1 DEF Line, Rising
<1>3. \A i \in DOMAIN s : s[i].seed \in Int
  OBVIOUS
<1>4. CASE IsAttached(Head(s))
  <2>1. low < s[1].seed /\ s[1].seed <= high
    BY <1>1, <1>4 DEF Line
  <2>2. \A i \in DOMAIN t : IsAttached(t[i]) => s[1].seed < t[i].seed /\ t[i].seed <= high
    <3>1. \A i \in DOMAIN t : 1 \in DOMAIN s /\ 1 < i + 1
      BY <1>1
    <3> QED
      BY <1>1, <1>2, <1>4, <3>1 DEF Line, Rising
  <2> QED
    BY <1>1, <1>6, <1>4, <2>1, <2>2 DEF Line, t
<1>5. CASE ~IsAttached(Head(s))
  <2>2. \A i \in DOMAIN t : IsAttached(t[i]) => low < t[i].seed /\ t[i].seed <= high
    BY <1>2 DEF Line
  <2> QED
    BY <1>6, <1>5, <2>2 DEF Line, t
<1> QED
  BY <1>4, <1>5

LEMMA LineAppend ==
  ASSUME NEW S, NEW s \in Seq(S), NEW low \in Int, NEW high \in Int, Line(s, low, high),
         \A e \in S : e.seed \in Int,
         NEW e \in S
  PROVE  /\ ~IsAttached(e) => Line(Append(s, e), low, high)
         /\ IsAttached(e) /\ high < e.seed => Line(Append(s, e), low, e.seed)
<1> DEFINE t == Append(s, e)
<1>1. /\ t \in Seq(S) /\ Len(s) \in Nat /\ DOMAIN s = 1..Len(s) /\ DOMAIN t = 1..(Len(s) + 1)
      /\ \A i \in 1..Len(s) : t[i] = s[i]
      /\ t[Len(s) + 1] = e
  BY AppendOf
<1> HIDE DEF t
<1>3. \A i \in DOMAIN s : s[i].seed \in Int
  OBVIOUS
<1>4. CASE ~IsAttached(e)
  <2>1. Rising(t)
    BY <1>1, <1>4 DEF Line, Rising
  <2> QED
    BY <1>1, <1>4, <2>1 DEF Line, t
<1>5. CASE IsAttached(e) /\ high < e.seed
  <2>1. \A i \in 1..Len(s) : IsAttached(s[i]) => s[i].seed < e.seed
    BY <1>1, <1>3, <1>5 DEF Line
  <2>2. Rising(t)
    <3>1. Rising(s)
      BY DEF Line
    <3> SUFFICES ASSUME NEW i \in DOMAIN t, NEW j \in DOMAIN t, i < j, IsAttached(t[i]), IsAttached(t[j])
                 PROVE  t[i].seed < t[j].seed
      BY DEF Rising
    <3>2. CASE j \in 1..Len(s)
      BY <1>1, <3>1, <3>2 DEF Rising
    <3>3. CASE j = Len(s) + 1
      BY <1>1, <2>1, <3>3
    <3> QED
      BY <1>1, <3>2, <3>3
  <2>3. \A i \in DOMAIN t : IsAttached(t[i]) => low < t[i].seed /\ t[i].seed <= e.seed
    BY <1>1, <1>3, <1>5, <2>1 DEF Line
  <2> QED
    BY <1>1, <1>5, <2>2, <2>3 DEF Line, t
<1> QED
  BY <1>4, <1>5 DEF t

\* The same of the records: reading a state, the adapter knows what it tells.
LEMMA ReportedTail ==
  ASSUME NEW S, NEW s \in Seq(S), s # <<>>, NEW low \in Int, NEW high \in Int, Reported(s, low, high),
         \A e \in S : e.seed \in Int
  PROVE  /\ Tells(Head(s)) => low <= Head(s).seed /\ Head(s).seed <= high
         /\ ~IsState(Head(s)) => Reported(Tail(s), low, high)
         /\ IsState(Head(s)) => Reported(Tail(s), Head(s).seed, high) /\ low < Head(s).seed
<1> DEFINE t == Tail(s)
<1>1. /\ t \in Seq(S) /\ Head(s) = s[1]
      /\ Len(s) \in Nat \ {0} /\ DOMAIN s = 1..Len(s) /\ DOMAIN t = 1..(Len(s) - 1)
      /\ \A i \in 1..(Len(s) - 1) : t[i] = s[i + 1]
  BY TailOf
<1> HIDE DEF t
<1>2. /\ 1 \in DOMAIN s
      /\ \A i \in DOMAIN t : i + 1 \in DOMAIN s /\ t[i] = s[i + 1] /\ i \in Nat /\ 1 < i + 1
  BY <1>1
<1>3. Tells(s[1]) => low <= s[1].seed /\ s[1].seed <= high
  BY <1>2 DEF Reported
<1>4. \A i \in DOMAIN t : Tells(t[i]) => low <= t[i].seed /\ t[i].seed <= high
  BY <1>2 DEF Reported
<1>5. \A i, j \in DOMAIN t : i < j /\ Tells(t[i]) /\ Tells(t[j]) => t[i].seed <= t[j].seed
  <2> SUFFICES ASSUME NEW i \in DOMAIN t, NEW j \in DOMAIN t, i < j, Tells(t[i]), Tells(t[j])
               PROVE  t[i].seed <= t[j].seed
    OBVIOUS
  <2>1. i + 1 < j + 1
    BY <1>2
  <2> QED
    BY <1>2, <2>1 DEF Reported
<1>6. \A i, j \in DOMAIN t : IsState(t[i]) /\ IsState(t[j]) => i = j
  <2> SUFFICES ASSUME NEW i \in DOMAIN t, NEW j \in DOMAIN t, IsState(t[i]), IsState(t[j]) PROVE i = j
    OBVIOUS
  <2>1. i + 1 = j + 1
    BY <1>2 DEF Reported
  <2> QED
    BY <1>2, <2>1
<1>7. CASE ~IsState(s[1])
  <2>1. \A i \in DOMAIN t : IsState(t[i]) => low < t[i].seed
    BY <1>2 DEF Reported
  <2>2. low <= high
    BY DEF Reported
  <2>3. Reported(t, low, high)
    BY <1>4, <1>5, <1>6, <2>1, <2>2 DEF Reported
  <2> QED
    BY <1>1, <1>3, <1>7, <2>3 DEF t
<1>8. CASE IsState(s[1])
  <2>1. Tells(s[1]) /\ low < s[1].seed /\ s[1].seed <= high
    <3>1. Tells(s[1])
      BY <1>8 DEF IsState, Tells
    <3> QED
      BY <1>2, <1>3, <1>8, <3>1 DEF Reported
  <2>2. \A i \in DOMAIN t : Tells(t[i]) => s[1].seed <= t[i].seed
    BY <1>2, <2>1 DEF Reported
  <2>3. \A i \in DOMAIN t : ~IsState(t[i])
    <3> SUFFICES ASSUME NEW i \in DOMAIN t, IsState(t[i]) PROVE FALSE
      OBVIOUS
    <3>1. i + 1 = 1
      BY <1>2, <1>8 DEF Reported
    <3> QED
      BY <1>2, <3>1
  <2>4. Reported(t, s[1].seed, high)
    BY <1>4, <1>5, <2>1, <2>2, <2>3 DEF Reported
  <2> QED
    BY <1>1, <1>3, <1>8, <2>1, <2>4 DEF t
<1> QED
  BY <1>7, <1>8

LEMMA ReportedAppend ==
  ASSUME NEW S, NEW s \in Seq(S), NEW low \in Int, NEW high \in Int, Reported(s, low, high),
         \A e \in S : e.seed \in Int,
         NEW e \in S, Tells(e) => e.seed = high, IsState(e) => low # high /\ \A i \in DOMAIN s : ~IsState(s[i])
  PROVE  Reported(Append(s, e), low, high)
<1> DEFINE t == Append(s, e)
<1>1. /\ Len(s) \in Nat /\ DOMAIN s = 1..Len(s) /\ DOMAIN t = 1..(Len(s) + 1)
      /\ \A i \in 1..Len(s) : t[i] = s[i]
      /\ t[Len(s) + 1] = e
  BY AppendOf
<1> HIDE DEF t
<1>2. \A i \in DOMAIN t : \/ i \in DOMAIN s /\ t[i] = s[i] /\ i < Len(s) + 1
                          \/ i = Len(s) + 1 /\ t[i] = e
  BY <1>1
<1>3. low <= high
  BY DEF Reported
<1>4. \A i \in DOMAIN t : Tells(t[i]) => low <= t[i].seed /\ t[i].seed <= high
  BY <1>2, <1>3 DEF Reported
<1>5. \A i, j \in DOMAIN t : i < j /\ Tells(t[i]) /\ Tells(t[j]) => t[i].seed <= t[j].seed
  <2> SUFFICES ASSUME NEW i \in DOMAIN t, NEW j \in DOMAIN t, i < j, Tells(t[i]), Tells(t[j])
               PROVE  t[i].seed <= t[j].seed
    OBVIOUS
  <2>1. CASE j \in DOMAIN s
    <3>1. i \in DOMAIN s /\ t[i] = s[i] /\ t[j] = s[j]
      BY <1>1, <2>1
    <3> QED
      BY <3>1, <2>1 DEF Reported
  <2>2. CASE j = Len(s) + 1
    BY <1>1, <1>4, <2>2
  <2> QED
    BY <1>2, <2>1, <2>2
<1>6. \A i \in DOMAIN t : IsState(t[i]) => low < t[i].seed
  <2>1. IsState(e) => low < e.seed
    BY <1>3 DEF Tells, IsState
  <2> QED
    BY <1>2, <2>1 DEF Reported
<1>7. \A i, j \in DOMAIN t : IsState(t[i]) /\ IsState(t[j]) => i = j
  BY <1>2 DEF Reported
<1> QED
  BY <1>3, <1>4, <1>5, <1>6, <1>7 DEF Reported, t

Requests == [id : Nat, kind : SideKinds]
Waiting  == {<<>>} \cup {<<r>> : r \in Requests}
Steps == {"none", "copying", "unsaved", "copied", "failed"}
Types ==
  /\ expected \in Nat /\ shown \in Nat /\ native \in Nat /\ piSession \in Nat
  /\ candidate \in [id : Nat, seed : Nat, file : BOOLEAN]
  /\ preparations \in Waiting
  /\ creation \in Nat
  /\ control \in [id : Nat, source : Nat, timed : BOOLEAN]
  /\ materializing \in [id : Nat, step : Steps, seed : Nat]
  /\ toPi \in Seq(Commands)
  /\ fromPi \in Seq(Records)
  /\ toMain \in Seq(Events)
  /\ operation \in [id : Nat, kind : SideKinds, step : OperationSteps, aborted : BOOLEAN, source : Nat]

Lines ==
  /\ Line(toMain, shown, native)
  /\ Reported(fromPi, native, piSession)
  /\ pending # 0 => expected = shown

\* What is read, and what may be written.
LEMMA Taken ==
  ASSUME Types
  PROVE  /\ toMain # <<>> => Head(toMain) \in Events /\ Tail(toMain) \in Seq(Events)
         /\ fromPi # <<>> => Head(fromPi) \in Records /\ Tail(fromPi) \in Seq(Records)
         /\ toPi # <<>> => Head(toPi) \in Commands /\ Tail(toPi) \in Seq(Commands)
         /\ preparations # <<>> => /\ Head(preparations) \in Requests
                                   /\ Tail(preparations) = <<>>
<1>1. toMain \in Seq(Events) /\ fromPi \in Seq(Records) /\ toPi \in Seq(Commands)
  BY DEF Types
<1>2. preparations # <<>> => \E r \in Requests : preparations = <<r>>
  BY DEF Types, Waiting
<1>3. preparations # <<>> => Tail(preparations) = <<>>
  <2>1. ASSUME NEW r \in Requests PROVE Tail(<<r>>) = <<>>
    <3>1. <<r>> \in Seq(Requests) /\ Len(<<r>>) = 1
      OBVIOUS
    <3>2. Tail(<<r>>) \in Seq(Requests) /\ Len(Tail(<<r>>)) = 0
      BY <3>1
    <3> QED
      BY <3>2
  <2> QED
    BY <1>2, <2>1
<1>4. preparations # <<>> => Head(preparations) \in Requests
  BY <1>2
<1>5. toMain # <<>> => Head(toMain) \in Events /\ Tail(toMain) \in Seq(Events)
  BY <1>1
<1>6. fromPi # <<>> => Head(fromPi) \in Records /\ Tail(fromPi) \in Seq(Records)
  BY <1>1
<1>7. toPi # <<>> => Head(toPi) \in Commands /\ Tail(toPi) \in Seq(Commands)
  BY <1>1
<1> QED
  BY <1>3, <1>4, <1>5, <1>6, <1>7

LEMMA Written ==
  ASSUME Types
  PROVE  /\ \A id \in Nat, outcome \in Outcomes, seed \in Nat, file \in BOOLEAN :
              /\ Prepared(id, outcome, seed, file) \in Events
              /\ Append(toMain, Prepared(id, outcome, seed, file)) \in Seq(Events)
         /\ \A id \in Nat, kind \in RecordKinds, seed \in Nat, persisted \in BOOLEAN :
              /\ Status(id, kind, seed, persisted) \in Records
              /\ Append(fromPi, Status(id, kind, seed, persisted)) \in Seq(Records)
         /\ \A id \in Nat : CancelOf(id) \in Commands /\ Append(toPi, CancelOf(id)) \in Seq(Commands)
         /\ \A r \in Requests :
              Begin(r) \in Commands /\ Append(toPi, Begin(r)) \in Seq(Commands)
<1>1. toMain \in Seq(Events) /\ fromPi \in Seq(Records) /\ toPi \in Seq(Commands)
  BY DEF Types
<1>2. ASSUME NEW id \in Nat, NEW outcome \in Outcomes, NEW seed \in Nat, NEW file \in BOOLEAN
      PROVE  Prepared(id, outcome, seed, file) \in Events
  BY DEF Prepared, Events
<1>3. ASSUME NEW id \in Nat, NEW kind \in RecordKinds, NEW seed \in Nat, NEW persisted \in BOOLEAN
      PROVE  Status(id, kind, seed, persisted) \in Records
  BY DEF Status, Records
<1>4. ASSUME NEW id \in Nat PROVE CancelOf(id) \in Commands
  BY DEF CancelOf, Commands, SideKinds
<1>5. ASSUME NEW r \in Requests PROVE Begin(r) \in Commands
  BY DEF Begin, Commands, Requests
<1>6. \A e \in Events : Append(toMain, e) \in Seq(Events)
  BY <1>1
<1>7. \A e \in Records : Append(fromPi, e) \in Seq(Records)
  BY <1>1
<1>8. \A e \in Commands : Append(toPi, e) \in Seq(Commands)
  BY <1>1
<1> QED
  BY <1>2, <1>3, <1>4, <1>5, <1>6, <1>7, <1>8

\* The events of ReadState.
AttachedEvent(seed) == [kind |-> "attached", id |-> 0, outcome |-> "none", seed |-> seed, file |-> FALSE]
Told(creating) == IF creating # 0 THEN Append(toMain, Prepared(creating, "cancelled", 0, FALSE)) ELSE toMain

LEMMA AttachedTold ==
  ASSUME Types, ReadState
  PROVE  /\ Told(creation) \in Seq(Events)
         /\ AttachedEvent(Head(fromPi).seed) \in Events
         /\ toMain' = Append(Told(creation), AttachedEvent(Head(fromPi).seed))
         /\ toMain' \in Seq(Events)
<1> DEFINE a == AttachedEvent(Head(fromPi).seed)
           p == Prepared(creation, "cancelled", 0, FALSE)
<1>1. Head(fromPi) \in Records
  BY Taken DEF ReadState, NextRecord
<1>2. a \in Events
  BY <1>1 DEF AttachedEvent, Events, Records, Outcomes
<1>3. p \in Events /\ toMain \in Seq(Events)
  BY Written DEF Types, Outcomes
<1>4. toMain' = toMain \o (IF creation # 0 THEN <<p>> ELSE <<>>) \o <<a>>
  BY DEF ReadState, AttachedEvent
<1>5. Told(creation) = IF creation # 0 THEN Append(toMain, p) ELSE toMain
  BY DEF Told
<1> HIDE DEF a, p
<1>6. Append(toMain, p) \in Seq(Events) /\ toMain \o <<p>> = Append(toMain, p) /\ toMain \o <<>> = toMain
  BY <1>3
<1>7. Told(creation) \in Seq(Events) /\ toMain' = Told(creation) \o <<a>>
  BY <1>3, <1>4, <1>5, <1>6
<1>8. \A s \in Seq(Events) : s \o <<a>> = Append(s, a) /\ Append(s, a) \in Seq(Events)
  BY <1>2
<1> QED
  BY <1>2, <1>7, <1>8 DEF a

LEMMA TypesInit == Init => Types
BY DEF Init, Types, Waiting, NoCandidate, NoControl, NoTask, NoOperation, Steps, SideKinds, OperationSteps

Candidates == [id : Nat, seed : Nat, file : BOOLEAN]
Controls   == [id : Nat, source : Nat, timed : BOOLEAN]
Tasks      == [id : Nat, step : Steps, seed : Nat]
Operations == [id : Nat, kind : SideKinds, step : OperationSteps, aborted : BOOLEAN, source : Nat]

LEMMA NothingTypes ==
  NoCandidate \in Candidates /\ NoControl \in Controls /\ NoTask \in Tasks /\ NoOperation \in Operations
BY DEF NoCandidate, NoControl, NoTask, NoOperation, Candidates, Controls, Tasks, Operations, Steps,
       SideKinds, OperationSteps

\* The frontend's own steps.
LEMMA FrontendTypes ==
  ASSUME Types, FrontendInv, User \/ OnEvent \/ Candidate
  PROVE  Types'
<1>1. CASE Create
  <2>1. reserved' \in Nat
    BY <1>1 DEF Create, FrontendInv
  <2>2. PICK kind \in SideKinds :
          IF preparations = <<>>
            THEN preparations' = <<[id |-> reserved', kind |-> kind]>>
            ELSE UNCHANGED preparations
    BY <1>1 DEF Create
  <2>3. preparations' \in Waiting
    <3>1. [id |-> reserved', kind |-> kind] \in Requests
      BY <2>1 DEF Requests
    <3> QED
      BY <2>2, <3>1 DEF Waiting, Types
  <2>4. expected' \in Nat
    BY <1>1 DEF Create, Types
  <2> QED
    BY <1>1, <2>3, <2>4 DEF Types, Create, worker, companion
<1>2. ASSUME CancelSide PROVE expected' \in Nat /\ candidate' \in Candidates
  BY <1>2, NothingTypes DEF CancelSide
<1>3. ASSUME expected' \in Nat, candidate' \in Candidates, shown' \in Nat, preparations' = preparations,
             toMain' \in Seq(Events), UNCHANGED <<worker, toPi, fromPi, companion>>
      PROVE  Types'
  BY <1>3 DEF Types, Candidates, worker, companion
<1>4. CASE Escape
  BY <1>2, <1>3, <1>4 DEF Escape, TellWorker, Types
<1>5. CASE Close
  BY <1>3, <1>5 DEF Close, inbox, Types, Candidates
<1>6. CASE OnPrepared
  <2>1. toMain' \in Seq(Events) /\ Head(toMain) \in Events
    BY <1>6, Taken DEF OnPrepared, NextEvent
  <2>2. [id |-> Head(toMain).id, seed |-> Head(toMain).seed, file |-> Head(toMain).file] \in Candidates
    BY <2>1 DEF Events, Candidates
  <2>3. expected \in Nat /\ candidate \in Candidates
    BY DEF Types, Candidates
  <2>4. expected' \in Nat /\ candidate' \in Candidates
    BY <1>2, <1>6, <2>2, <2>3 DEF OnPrepared
  <2> QED
    BY <1>3, <1>6, <2>1, <2>4 DEF OnPrepared, inbox, Types
<1>7. CASE OnAttached
  <2>1. toMain' \in Seq(Events) /\ Head(toMain) \in Events
    BY <1>7, Taken DEF OnAttached, NextEvent
  <2>2. shown' \in Nat
    BY <1>7, <2>1 DEF OnAttached, Events
  <2>3. expected' \in Nat /\ candidate' \in Candidates
    BY <1>2, <1>7 DEF OnAttached, Types, Candidates
  <2> QED
    BY <1>3, <1>7, <2>1, <2>2, <2>3 DEF OnAttached
<1>8. CASE CandidateReady
  BY <1>3, <1>8, NothingTypes DEF CandidateReady, CommittedCandidate, inbox, Types
<1>9. CASE CandidateFailed
  BY <1>2, <1>3, <1>9 DEF CandidateFailed, inbox, Types
<1> QED
  BY <1>1, <1>4, <1>5, <1>6, <1>7, <1>8, <1>9 DEF User, OnEvent, Candidate

\* The worker's, and those of its copying task.
LEMMA WorkerTypes ==
  ASSUME Types, WorkerLoop \/ Deadline \/ Task \/ AbandonedCopy \/ Cleanup
  PROVE  Types'
<1>1. ASSUME preparations' \in {preparations, <<>>}, creation' \in Nat, control' \in Controls,
             materializing' \in Tasks, native' \in Nat, toPi' \in Seq(Commands), fromPi' \in Seq(Records),
             toMain' \in Seq(Events), UNCHANGED <<frontend, companion>>
      PROVE  Types'
  <2>1. preparations' \in Waiting
    BY <1>1 DEF Types, Waiting
  <2> QED
    BY <1>1, <2>1 DEF Types, Controls, Tasks, frontend, companion
<1>2. /\ creation \in Nat /\ control \in Controls /\ materializing \in Tasks /\ native \in Nat
      /\ toPi \in Seq(Commands) /\ fromPi \in Seq(Records) /\ toMain \in Seq(Events)
  BY DEF Types, Controls, Tasks
<1>3. "failed" \in Outcomes /\ "cancelled" \in Outcomes /\ "ready" \in Outcomes
  BY DEF Outcomes
<1>4. ASSUME CancelControl PROVE toPi' \in Seq(Commands) /\ control' \in Controls
  <2>1. control.id \in Nat
    BY <1>2 DEF Controls
  <2> QED
    BY <1>2, <1>4, <2>1, Written, NothingTypes DEF CancelControl
<1>5. CASE ReadRequest
  <2>1. Head(preparations) \in Requests /\ preparations' = <<>>
    BY <1>5, Taken DEF ReadRequest
  <2>2. toMain' \in Seq(Events)
    <3>1. \/ toMain' = toMain
          \/ toMain' = Append(toMain, Prepared(Head(preparations).id, "failed", 0, FALSE))
      BY <1>5 DEF ReadRequest, Publish
    <3>2. Head(preparations).id \in Nat
      BY <2>1 DEF Requests
    <3> QED
      BY <1>2, <1>3, <3>1, <3>2, Written
  <2>3. toPi' \in Seq(Commands)
    BY <1>2, <1>5, <2>1, Written DEF ReadRequest
  <2>4. Head(preparations).id \in Nat
    BY <2>1 DEF Requests
  <2>5. creation' \in Nat /\ control' \in Controls
    <3>1. [id |-> Head(preparations).id, source |-> native, timed |-> TRUE] \in Controls
      BY <1>2, <2>4 DEF Controls
    <3> QED
      BY <1>2, <1>5, <2>4, <3>1 DEF ReadRequest
  <2> QED
    BY <1>1, <1>2, <1>5, <2>1, <2>2, <2>3, <2>5 DEF ReadRequest
<1>6. CASE ReadCancellation
  <2>1. toMain' \in Seq(Events)
    BY <1>2, <1>3, <1>6, Written DEF ReadCancellation, Publish
  <2>2. \/ CancelControl /\ creation' = 0
        \/ UNCHANGED <<control, creation, toPi>>
    BY <1>6 DEF ReadCancellation
  <2>3. creation' \in Nat /\ toPi' \in Seq(Commands) /\ control' \in Controls
    BY <1>2, <1>4, <2>2
  <2> QED
    BY <1>1, <1>2, <1>6, <2>1, <2>3 DEF ReadCancellation
<1>7. CASE Deadline
  <2>1. toMain' \in Seq(Events)
    BY <1>2, <1>3, <1>7, Written DEF Deadline
  <2> QED
    BY <1>1, <1>2, <1>4, <1>7, <2>1 DEF Deadline, inbox
<1>8. ASSUME NextRecord PROVE Head(fromPi) \in Records /\ fromPi' \in Seq(Records)
  BY <1>8, Taken DEF NextRecord
<1>9. CASE ReadProgress
  <2>1. control' \in Controls
    BY <1>2, <1>9 DEF ReadProgress, Timed, Controls
  <2> QED
    BY <1>1, <1>2, <1>8, <1>9, <2>1 DEF ReadProgress, inbox
<1>10. CASE ReadOutcome
  <2>1. Head(fromPi) \in Records /\ fromPi' \in Seq(Records)
    BY <1>8, <1>10 DEF ReadOutcome
  <2>2. materializing' \in Tasks
    <3>1. \/ materializing' = materializing
          \/ materializing' = [id |-> creation, seed |-> Head(fromPi).seed,
                                step |-> IF Head(fromPi).persisted THEN "copying" ELSE "unsaved"]
      BY <1>10 DEF ReadOutcome
    <3> QED
      BY <1>2, <2>1, <3>1 DEF Steps, Records, Tasks
  <2>3. Head(fromPi).kind \in Outcomes
    BY <1>10, <2>1 DEF ReadOutcome, Records, RecordKinds, Outcomes, Answers
  <2>4. toMain' \in Seq(Events)
    BY <1>2, <1>10, <2>3, Written DEF ReadOutcome, Publish
  <2> QED
    BY <1>1, <1>2, <1>10, <2>1, <2>2, <2>4, NothingTypes DEF ReadOutcome, inbox
<1>11. CASE ReadState
  <2>1. Head(fromPi) \in Records /\ fromPi' \in Seq(Records)
    BY <1>8, <1>11 DEF ReadState
  <2>2. native' \in Nat
    BY <1>11, <2>1 DEF ReadState, Records
  <2>3. creation' = 0 /\ CancelControl /\ UNCHANGED <<frontend, inbox, materializing, companion>>
    BY <1>11 DEF ReadState
  <2> QED
    BY <1>1, <1>2, <1>4, <1>11, <2>1, <2>2, <2>3, AttachedTold DEF inbox
<1>12. CASE Materialized
  <2>1. materializing.id \in Nat /\ materializing.seed \in Nat
    BY <1>2 DEF Tasks
  <2>2. toMain' \in Seq(Events)
    BY <1>2, <1>3, <1>12, <2>1, Written DEF Materialized, Publish
  <2> QED
    BY <1>1, <1>2, <1>12, <2>2, NothingTypes DEF Materialized, inbox
<1>13. CASE Task
  <2>1. materializing' \in Tasks
    BY <1>2, <1>13 DEF Task, Copy, CopyTimeout, Steps, Tasks
  <2> QED
    BY <1>1, <1>2, <1>13, <2>1 DEF Task, Copy, CopyTimeout, inbox
<1>14. CASE AbandonedCopy \/ Cleanup
  BY <1>1, <1>2, <1>14 DEF AbandonedCopy, Cleanup, worker, inbox
<1> QED
  BY <1>5, <1>6, <1>7, <1>9, <1>10, <1>11, <1>12, <1>13, <1>14
     DEF WorkerLoop, ReadRecord

\* Pi's.
LEMMA CompanionTypes ==
  ASSUME Types, Companion \/ Operation \/ Replace \/ AnswerState
  PROVE  Types'
<1>1. ASSUME toPi' \in Seq(Commands), fromPi' \in Seq(Records), operation' \in Operations, piSession' \in Nat,
             UNCHANGED pie
      PROVE  Types'
  BY <1>1 DEF Types, Operations, pie, frontend, inbox, worker
<1>2. toPi \in Seq(Commands) /\ fromPi \in Seq(Records) /\ operation \in Operations /\ piSession \in Nat
  BY DEF Types, Operations
<1>3. operation.id \in Nat /\ operation.source \in Nat
  BY <1>2 DEF Operations
<1>4. {"failed", "selecting", "preparing", "cancelled", "ready", "state"} = RecordKinds
  BY DEF RecordKinds
<1>5. CASE Companion
  <2>1. Head(toPi) \in Commands /\ toPi' \in Seq(Commands)
    BY <1>5, Taken DEF Companion, Handle, HandleCancel, NextCommand
  <2>2. operation' \in Operations
    <3>1. CASE Handle
      <4>1. \/ operation' = operation
            \/ operation' = [id |-> Head(toPi).id, kind |-> Head(toPi).kind, step |-> "discarding",
                             aborted |-> FALSE, source |-> 0]
        BY <3>1 DEF Handle
      <4>2. Head(toPi).id \in Nat /\ Head(toPi).kind \in SideKinds
        BY <2>1 DEF Commands
      <4>3. [id |-> Head(toPi).id, kind |-> Head(toPi).kind, step |-> "discarding",
             aborted |-> FALSE, source |-> 0] \in Operations
        BY <4>2 DEF Operations, OperationSteps
      <4> QED
        BY <1>2, <4>1, <4>3
    <3>2. CASE HandleCancel
      BY <1>2, <3>2 DEF HandleCancel, Operations
    <3> QED
      BY <1>5, <3>1, <3>2 DEF Companion
  <2>3. Head(toPi).id \in Nat
    BY <2>1 DEF Commands
  <2>4. fromPi' \in Seq(Records)
    BY <1>2, <1>4, <1>5, <2>3, Written DEF Companion, Handle, HandleCancel, Say
  <2> QED
    BY <1>1, <1>2, <1>5, <2>1, <2>2, <2>4 DEF Companion, Handle, HandleCancel
<1>6. CASE Operation
  <2>1. operation' \in Operations
    <3>1. CASE Discard
      BY <1>2, <3>1 DEF Discard, Operations, OperationSteps
    <3>2. CASE Select \/ Stage
      BY <1>2, <3>2 DEF Select, Stage, Operations, OperationSteps
    <3>3. CASE Snapshot \/ Finish
      BY <1>2, <3>3, NothingTypes DEF Snapshot, Finish, Operations, OperationSteps
    <3> QED
      BY <1>6, <3>1, <3>2, <3>3 DEF Operation
  <2>2. fromPi' \in Seq(Records)
    <3>1. \A kind \in RecordKinds : Say(operation.id, kind) => fromPi' \in Seq(Records)
      BY <1>3, Written DEF Say
    <3>2. CASE Discard
      BY <1>4, <3>1, <3>2 DEF Discard
    <3>3. CASE Select
      BY <1>2, <1>4, <3>1, <3>3 DEF Select
    <3>4. CASE Stage
      BY <1>2, <1>4, <3>1, <3>4 DEF Stage
    <3>5. CASE Snapshot
      BY <1>2, <1>3, <1>4, <3>1, <3>5, Written DEF Snapshot
    <3>6. CASE Finish
      BY <1>2, <1>4, <3>1, <3>6 DEF Finish
    <3> QED
      BY <1>6, <3>2, <3>3, <3>4, <3>5, <3>6 DEF Operation
  <2> QED
    BY <1>1, <1>2, <1>6, <2>1, <2>2 DEF Operation, Discard, Select, Stage, Snapshot, Finish
<1>7. CASE Replace
  <2>1. piSession' \in Nat
    BY <1>2, <1>7 DEF Replace
  <2> QED
    BY <1>1, <1>2, <1>7, <2>1 DEF Replace
<1>8. CASE AnswerState
  <2>1. fromPi' \in Seq(Records)
    BY <1>2, <1>4, <1>8, Written DEF AnswerState
  <2> QED
    BY <1>1, <1>2, <1>8, <2>1 DEF AnswerState, companion
<1> QED
  BY <1>5, <1>6, <1>7, <1>8

LEMMA TypesStep == Types /\ FrontendInv /\ [Next]_vars => Types'
<1>1. ASSUME Types, UNCHANGED vars PROVE Types'
  BY <1>1 DEF Types, vars, frontend, worker, inbox, companion
<1> QED
  BY <1>1, FrontendTypes, WorkerTypes, CompanionTypes DEF Next

-----------------------------------------------------------------------------
LEMMA SeedsAreNumbers == (\A e \in Events : e.seed \in Int) /\ (\A e \in Records : e.seed \in Int)
BY DEF Events, Records

LEMMA ReadLines ==
  ASSUME Types, Lines
  PROVE  /\ toMain # <<>> =>
              IF IsAttached(Head(toMain))
                THEN Line(Tail(toMain), Head(toMain).seed, native) /\ shown < Head(toMain).seed
                ELSE Line(Tail(toMain), shown, native)
         /\ fromPi # <<>> =>
              /\ Tells(Head(fromPi)) => native <= Head(fromPi).seed /\ Head(fromPi).seed <= piSession
              /\ ~IsState(Head(fromPi)) => Reported(Tail(fromPi), native, piSession)
              /\ IsState(Head(fromPi)) =>
                   Reported(Tail(fromPi), Head(fromPi).seed, piSession) /\ native < Head(fromPi).seed
<1>1. /\ toMain \in Seq(Events) /\ fromPi \in Seq(Records) /\ shown \in Int /\ native \in Int /\ piSession \in Int
      /\ Line(toMain, shown, native) /\ Reported(fromPi, native, piSession)
  BY DEF Types, Lines
<1>2. ASSUME toMain # <<>>
      PROVE  IF IsAttached(Head(toMain))
               THEN Line(Tail(toMain), Head(toMain).seed, native) /\ shown < Head(toMain).seed
               ELSE Line(Tail(toMain), shown, native)
  BY <1>1, <1>2, SeedsAreNumbers, LineTail
<1>3. ASSUME fromPi # <<>>
      PROVE  /\ Tells(Head(fromPi)) => native <= Head(fromPi).seed /\ Head(fromPi).seed <= piSession
             /\ ~IsState(Head(fromPi)) => Reported(Tail(fromPi), native, piSession)
             /\ IsState(Head(fromPi)) =>
                  Reported(Tail(fromPi), Head(fromPi).seed, piSession) /\ native < Head(fromPi).seed
  BY <1>1, <1>3, SeedsAreNumbers, ReportedTail
<1> QED
  BY <1>2, <1>3

LEMMA WriteLines ==
  ASSUME Types, Lines
  PROVE  /\ \A id \in Nat, outcome \in Outcomes, seed \in Nat, file \in BOOLEAN :
              Line(Append(toMain, Prepared(id, outcome, seed, file)), shown, native)
         /\ \A id \in Nat, kind \in RecordKinds \ {"state"}, seed \in Nat, persisted \in BOOLEAN :
              kind # "ready" \/ seed = piSession
                => Reported(Append(fromPi, Status(id, kind, seed, persisted)), native, piSession)
         /\ native # piSession /\ (\A i \in DOMAIN fromPi : ~IsState(fromPi[i])) =>
              Reported(Append(fromPi, Status(0, "state", piSession, FALSE)), native, piSession)
<1>1. /\ toMain \in Seq(Events) /\ fromPi \in Seq(Records) /\ shown \in Int /\ native \in Int /\ piSession \in Int
      /\ Line(toMain, shown, native) /\ Reported(fromPi, native, piSession)
  BY DEF Types, Lines
<1>2. ASSUME NEW id \in Nat, NEW outcome \in Outcomes, NEW seed \in Nat, NEW file \in BOOLEAN
      PROVE  Line(Append(toMain, Prepared(id, outcome, seed, file)), shown, native)
  <2>1. Prepared(id, outcome, seed, file) \in Events
    BY Written
  <2>2. ~IsAttached(Prepared(id, outcome, seed, file))
    BY DEF Prepared, IsAttached
  <2> QED
    BY <1>1, <2>1, <2>2, SeedsAreNumbers, LineAppend
<1>3. ASSUME NEW id \in Nat, NEW kind \in RecordKinds \ {"state"}, NEW seed \in Nat, NEW persisted \in BOOLEAN,
             kind # "ready" \/ seed = piSession
      PROVE  Reported(Append(fromPi, Status(id, kind, seed, persisted)), native, piSession)
  <2> DEFINE r == Status(id, kind, seed, persisted)
  <2>1. r \in Records /\ r.kind = kind /\ r.seed = seed
    BY Written DEF Status
  <2>2. ~IsState(r) /\ (Tells(r) => r.seed = piSession)
    BY <1>3, <2>1 DEF IsState, Tells
  <2> HIDE DEF r
  <2>3. Reported(Append(fromPi, r), native, piSession)
    BY <1>1, <2>1, <2>2, SeedsAreNumbers, ReportedAppend
  <2> QED
    BY <2>3 DEF r
<1>4. ASSUME native # piSession, \A i \in DOMAIN fromPi : ~IsState(fromPi[i])
      PROVE  Reported(Append(fromPi, Status(0, "state", piSession, FALSE)), native, piSession)
  <2> DEFINE r == Status(0, "state", piSession, FALSE)
  <2>1. r \in Records /\ r.seed = piSession
    <3>1. piSession \in Nat /\ "state" \in RecordKinds
      BY DEF Types, RecordKinds
    <3> QED
      BY <3>1, Written DEF Status
  <2> HIDE DEF r
  <2>2. Reported(Append(fromPi, r), native, piSession)
    BY <1>1, <1>4, <2>1, SeedsAreNumbers, ReportedAppend
  <2> QED
    BY <2>2 DEF r
<1> QED
  BY <1>2, <1>3, <1>4

LEMMA LinesInit == Init => Lines
BY DEF Init, Lines, Line, Rising, Reported

LEMMA LinesStep == Types /\ Types' /\ FrontendInv /\ Lines /\ [Next]_vars => Lines'
<1> SUFFICES ASSUME Types, Types', FrontendInv, Lines, [Next]_vars PROVE Lines'
  OBVIOUS
<1>1. /\ Line(toMain, shown, native) /\ Reported(fromPi, native, piSession)
      /\ pending # 0 => expected = shown
  BY DEF Lines
<1>2. /\ creation \in Nat /\ materializing.id \in Nat /\ materializing.seed \in Nat /\ operation.id \in Nat
      /\ operation.source \in Nat /\ shown \in Nat /\ native \in Nat /\ piSession \in Nat
  BY DEF Types
<1>3. {"failed", "cancelled", "ready", "none"} = Outcomes
  BY DEF Outcomes
<1>4. {"failed", "selecting", "preparing", "cancelled"} = RecordKinds \ {"state", "ready"}
  BY DEF RecordKinds
<1>5. CASE Create \/ Escape \/ Close \/ Candidate
  <2>1. UNCHANGED <<toMain, fromPi, shown, native, piSession>>
    BY <1>5 DEF Create, Escape, Close, Candidate, CandidateReady, CandidateFailed, worker, companion, inbox
  <2>2. pending' # 0 => expected' = shown
    BY <1>1, <1>5 DEF Create, Escape, Close, Candidate, CandidateReady, CandidateFailed, CancelSide
  <2> QED
    BY <1>1, <2>1, <2>2 DEF Lines
<1>6. CASE OnPrepared
  <2>1. toMain # <<>> /\ ~IsAttached(Head(toMain)) /\ toMain' = Tail(toMain)
    BY <1>6 DEF OnPrepared, NextEvent, IsAttached
  <2>2. UNCHANGED <<fromPi, shown, native, piSession>>
    BY <1>6 DEF OnPrepared, worker, companion
  <2>3. pending' # 0 => expected' = shown
    BY <1>1, <1>6 DEF OnPrepared, CancelSide
  <2> QED
    BY <1>1, <2>1, <2>2, <2>3, ReadLines DEF Lines
<1>7. CASE OnAttached
  <2>1. /\ toMain # <<>> /\ IsAttached(Head(toMain)) /\ toMain' = Tail(toMain) /\ shown' = Head(toMain).seed
    BY <1>7 DEF OnAttached, NextEvent, IsAttached
  <2>2. UNCHANGED <<fromPi, native, piSession>>
    BY <1>7 DEF OnAttached, worker, companion
  <2>3. Line(toMain', shown', native) /\ shown # shown'
    BY <1>2, <2>1, ReadLines
  <2>4. pending' # 0 => expected' = shown'
    BY <1>1, <1>7, <2>3 DEF OnAttached, CancelSide
  <2> QED
    BY <1>1, <2>2, <2>3, <2>4 DEF Lines
<1>8. ASSUME UNCHANGED <<pending, expected, shown>>, Line(toMain', shown, native'), Reported(fromPi', native', piSession')
      PROVE  Lines'
  BY <1>1, <1>8 DEF Lines
<1>9. CASE ReadRequest
  <2>1. \/ toMain' = toMain
        \/ preparations # <<>> /\ toMain' = Append(toMain, Prepared(Head(preparations).id, "failed", 0, FALSE))
    BY <1>9 DEF ReadRequest, Publish
  <2>2. preparations # <<>> => Head(preparations).id \in Nat
    BY Taken DEF Requests
  <2> QED
    BY <1>1, <1>3, <1>8, <1>9, <2>1, <2>2, WriteLines DEF ReadRequest, frontend, companion
<1>10. CASE ReadCancellation
  <2>1. toMain' = toMain \/ toMain' = Append(toMain, Prepared(creation, "cancelled", 0, FALSE))
    BY <1>10 DEF ReadCancellation, Publish
  <2> QED
    BY <1>1, <1>2, <1>3, <1>8, <1>10, <2>1, WriteLines DEF ReadCancellation, frontend, companion
<1>11. CASE Deadline
  <2>1. toMain' = toMain \/ toMain' = Append(toMain, Prepared(creation, "failed", 0, FALSE))
    BY <1>11 DEF Deadline
  <2> QED
    BY <1>1, <1>2, <1>3, <1>8, <1>11, <2>1, WriteLines DEF Deadline, frontend, companion
<1>12. CASE ReadProgress
  <2>1. fromPi # <<>> /\ fromPi' = Tail(fromPi) /\ ~IsState(Head(fromPi))
    BY <1>12 DEF ReadProgress, NextRecord, IsState
  <2> QED
    BY <1>1, <1>8, <1>12, <2>1, ReadLines DEF ReadProgress, frontend, companion
<1>13. CASE ReadOutcome
  <2>1. fromPi # <<>> /\ fromPi' = Tail(fromPi) /\ ~IsState(Head(fromPi))
    BY <1>13 DEF ReadOutcome, NextRecord, IsState, Answers
  <2>2. toMain' = toMain \/ toMain' = Append(toMain, Prepared(creation, Head(fromPi).kind, 0, FALSE))
    BY <1>13 DEF ReadOutcome, Publish
  <2>3. Head(fromPi).kind \in Outcomes
    <3>1. Head(fromPi) \in Records
      BY <2>1, Taken
    <3> QED
      BY <1>13, <3>1 DEF ReadOutcome, Records, RecordKinds, Outcomes, Answers
  <2> QED
    BY <1>1, <1>2, <1>8, <1>13, <2>1, <2>2, <2>3, ReadLines, WriteLines DEF ReadOutcome, frontend, companion
<1>14. CASE ReadState
  <2> DEFINE r == Head(fromPi)
  <2>1. fromPi # <<>> /\ fromPi' = Tail(fromPi) /\ IsState(r) /\ native' = r.seed
    BY <1>14 DEF ReadState, NextRecord, IsState
  <2>2. Reported(fromPi', native', piSession) /\ native < native'
    BY <2>1, ReadLines
  <2>3. /\ Told(creation) \in Seq(Events) /\ AttachedEvent(r.seed) \in Events
        /\ toMain' = Append(Told(creation), AttachedEvent(r.seed))
    BY <1>14, AttachedTold
  <2>4. Line(Told(creation), shown, native)
    BY <1>1, <1>2, <1>3, WriteLines DEF Told
  <2>5. IsAttached(AttachedEvent(r.seed)) /\ AttachedEvent(r.seed).seed = r.seed
    BY DEF AttachedEvent, IsAttached
  <2>6. Line(toMain', shown, native')
    <3> DEFINE e == AttachedEvent(r.seed)
               t == Told(creation)
    <3>1. e \in Events /\ t \in Seq(Events) /\ IsAttached(e) /\ native < e.seed /\ Line(t, shown, native)
      BY <2>1, <2>2, <2>3, <2>4, <2>5
    <3>2. shown \in Int /\ native \in Int
      BY <1>2
    <3> HIDE DEF e, t
    <3>3. Line(Append(t, e), shown, e.seed)
      BY <3>1, <3>2, SeedsAreNumbers, LineAppend
    <3> QED
      BY <2>1, <2>3, <2>5, <3>3 DEF e, t
  <2> QED
    BY <1>8, <1>14, <2>2, <2>6 DEF ReadState, frontend, companion
<1>15. CASE Materialized
  <2>1. \/ toMain' = Append(toMain, Prepared(materializing.id, "failed", materializing.seed, materializing.step = "copied"))
        \/ toMain' = Append(toMain, Prepared(materializing.id, "ready", materializing.seed, materializing.step = "copied"))
    BY <1>15 DEF Materialized, Publish
  <2> QED
    BY <1>1, <1>2, <1>3, <1>8, <1>15, <2>1, WriteLines DEF Materialized, frontend, companion
<1>16. CASE Task \/ AbandonedCopy \/ Cleanup
  BY <1>1, <1>8, <1>16 DEF Task, Copy, CopyTimeout, AbandonedCopy, Cleanup, frontend, companion, worker
<1>17. ASSUME UNCHANGED <<pie, piSession>>, Reported(fromPi', native, piSession) PROVE Lines'
  BY <1>1, <1>8, <1>17 DEF pie, frontend, worker
<1>18. \A id \in Nat, kind \in RecordKinds \ {"state", "ready"} : Say(id, kind) => Reported(fromPi', native, piSession)
  BY WriteLines DEF Say
<1>19. CASE Handle
  <2>1. Head(toPi).id \in Nat
    BY <1>19, Taken DEF Handle, NextCommand, Commands
  <2> QED
    BY <1>1, <1>4, <1>17, <1>18, <1>19, <2>1 DEF Handle
<1>20. CASE HandleCancel
  BY <1>1, <1>17, <1>20 DEF HandleCancel
<1>21. CASE Discard
  BY <1>1, <1>2, <1>4, <1>17, <1>18, <1>21 DEF Discard
<1>22. CASE Select
  BY <1>1, <1>2, <1>4, <1>17, <1>18, <1>22 DEF Select
<1>23. CASE Stage
  BY <1>1, <1>2, <1>4, <1>17, <1>18, <1>23 DEF Stage
<1>24. CASE Snapshot
  <2>1. \/ UNCHANGED fromPi
        \/ Say(operation.id, "cancelled")
        \/ /\ piSession = operation.source
           /\ \E persisted \in BOOLEAN :
                fromPi' = Append(fromPi, Status(operation.id, "ready", operation.source, persisted))
    BY <1>24 DEF Snapshot
  <2>2. Reported(fromPi', native, piSession)
    <3>1. "ready" \in RecordKinds \ {"state"} /\ "cancelled" \in RecordKinds \ {"state", "ready"}
      BY <1>4 DEF RecordKinds
    <3>2. \A persisted \in BOOLEAN : piSession = operation.source =>
            Reported(Append(fromPi, Status(operation.id, "ready", operation.source, persisted)), native, piSession)
      BY <1>2, <3>1, WriteLines
    <3> QED
      BY <1>1, <1>2, <1>18, <2>1, <3>1, <3>2
  <2> QED
    BY <1>17, <1>24, <2>2 DEF Snapshot
<1>25. CASE Finish
  BY <1>1, <1>2, <1>4, <1>17, <1>18, <1>25 DEF Finish
<1>26. CASE Replace
  <2>1. piSession' = piSession + 1 /\ UNCHANGED <<fromPi, native>> /\ UNCHANGED <<pending, expected, shown, toMain>>
    BY <1>26 DEF Replace, pie, frontend, worker
  <2>2. \A seed \in Int : seed <= piSession => seed <= piSession'
    BY <1>2, <2>1
  <2>3. \A i \in DOMAIN fromPi : fromPi[i].seed \in Int
    <3>1. fromPi \in Seq(Records)
      BY DEF Types
    <3>2. \A i \in DOMAIN fromPi : fromPi[i] \in Records
      BY <3>1
    <3> QED
      BY <3>2, SeedsAreNumbers
  <2>4. Reported(fromPi, native, piSession')
    BY <1>1, <1>2, <2>2, <2>3 DEF Reported
  <2> QED
    BY <1>1, <1>8, <2>1, <2>4
<1>28. CASE AnswerState
  <2>1. /\ native # piSession /\ \A i \in DOMAIN fromPi : ~IsState(fromPi[i])
        /\ fromPi' = Append(fromPi, Status(0, "state", piSession, FALSE)) /\ UNCHANGED <<pie, piSession>>
    BY <1>28 DEF AnswerState, IsState, companion
  <2> QED
    BY <1>17, <2>1, WriteLines
<1>27. CASE UNCHANGED vars
  BY <1>1, <1>8, <1>27 DEF vars, frontend, worker, companion
<1> QED
  BY <1>5, <1>6, <1>7, <1>9, <1>10, <1>11, <1>12, <1>13, <1>14, <1>15, <1>16, <1>19, <1>20, <1>21, <1>22, <1>23,
     <1>24, <1>25, <1>26, <1>27, <1>28 DEF Next, User, OnEvent, WorkerLoop, ReadRecord, Companion, Operation

-----------------------------------------------------------------------------
\* What has an identity, and the request that is newer than all of it.
IdsOf(s) == {s[i].id : i \in DOMAIN s}
Holders  == {creation, control.id, materializing.id, operation.id, candidate.id}
OnDisk   == kept \cup cleaning \cup abandoned \cup files
Seen     == Holders \cup IdsOf(toPi) \cup IdsOf(fromPi) \cup IdsOf(toMain) \cup OnDisk
Fresh ==
  /\ Seen \subseteq 0..reserved
  /\ preparations # <<>> => Head(preparations).id \in 1..reserved /\ \A id \in Seen : id < Head(preparations).id

LEMMA IdsRead ==
  ASSUME Types
  PROVE  /\ toMain # <<>> => Head(toMain).id \in IdsOf(toMain) /\ IdsOf(Tail(toMain)) \subseteq IdsOf(toMain)
         /\ fromPi # <<>> => Head(fromPi).id \in IdsOf(fromPi) /\ IdsOf(Tail(fromPi)) \subseteq IdsOf(fromPi)
         /\ toPi # <<>> => Head(toPi).id \in IdsOf(toPi) /\ IdsOf(Tail(toPi)) \subseteq IdsOf(toPi)
<1>1. ASSUME NEW S, NEW s \in Seq(S), s # <<>>
      PROVE  Head(s).id \in IdsOf(s) /\ IdsOf(Tail(s)) \subseteq IdsOf(s)
  <2>1. /\ Head(s) = s[1] /\ 1 \in DOMAIN s
        /\ \A i \in DOMAIN Tail(s) : i + 1 \in DOMAIN s /\ Tail(s)[i] = s[i + 1]
    BY <1>1
  <2> QED
    BY <2>1 DEF IdsOf
<1>2. toMain \in Seq(Events) /\ fromPi \in Seq(Records) /\ toPi \in Seq(Commands)
  BY DEF Types
<1> QED
  BY <1>1, <1>2

LEMMA IdsWritten ==
  ASSUME NEW S, NEW s \in Seq(S), NEW e \in S
  PROVE  IdsOf(Append(s, e)) = IdsOf(s) \cup {e.id}
<1> DEFINE t == Append(s, e)
<1>1. /\ Len(s) \in Nat /\ DOMAIN s = 1..Len(s) /\ DOMAIN t = 1..(Len(s) + 1)
      /\ \A i \in 1..Len(s) : t[i] = s[i]
      /\ t[Len(s) + 1] = e
  BY AppendOf
<1>2. DOMAIN t = DOMAIN s \cup {Len(s) + 1}
  BY <1>1
<1> HIDE DEF t
<1> QED
  BY <1>1, <1>2 DEF IdsOf, t

LEMMA IdsSent ==
  ASSUME Types
  PROVE  /\ \A id \in Nat, outcome \in Outcomes, seed \in Nat, file \in BOOLEAN :
              IdsOf(Append(toMain, Prepared(id, outcome, seed, file))) = IdsOf(toMain) \cup {id}
         /\ \A id \in Nat, kind \in RecordKinds, seed \in Nat, persisted \in BOOLEAN :
              IdsOf(Append(fromPi, Status(id, kind, seed, persisted))) = IdsOf(fromPi) \cup {id}
         /\ \A id \in Nat : IdsOf(Append(toPi, CancelOf(id))) = IdsOf(toPi) \cup {id}
         /\ \A r \in Requests : IdsOf(Append(toPi, Begin(r))) = IdsOf(toPi) \cup {r.id}
<1>1. toMain \in Seq(Events) /\ fromPi \in Seq(Records) /\ toPi \in Seq(Commands)
  BY DEF Types
<1>2. ASSUME NEW id \in Nat, NEW outcome \in Outcomes, NEW seed \in Nat, NEW file \in BOOLEAN
      PROVE  IdsOf(Append(toMain, Prepared(id, outcome, seed, file))) = IdsOf(toMain) \cup {id}
  <2>1. Prepared(id, outcome, seed, file) \in Events /\ Prepared(id, outcome, seed, file).id = id
    BY Written DEF Prepared
  <2> QED
    BY <1>1, <2>1, IdsWritten
<1>3. ASSUME NEW id \in Nat, NEW kind \in RecordKinds, NEW seed \in Nat, NEW persisted \in BOOLEAN
      PROVE  IdsOf(Append(fromPi, Status(id, kind, seed, persisted))) = IdsOf(fromPi) \cup {id}
  <2>1. Status(id, kind, seed, persisted) \in Records /\ Status(id, kind, seed, persisted).id = id
    BY Written DEF Status
  <2> QED
    BY <1>1, <2>1, IdsWritten
<1>4. ASSUME NEW id \in Nat PROVE IdsOf(Append(toPi, CancelOf(id))) = IdsOf(toPi) \cup {id}
  <2>1. CancelOf(id) \in Commands /\ CancelOf(id).id = id
    BY Written DEF CancelOf
  <2> QED
    BY <1>1, <2>1, IdsWritten
<1>5. ASSUME NEW r \in Requests PROVE IdsOf(Append(toPi, Begin(r))) = IdsOf(toPi) \cup {r.id}
  <2>1. Begin(r) \in Commands /\ Begin(r).id = r.id
    BY Written DEF Begin
  <2> QED
    BY <1>1, <2>1, IdsWritten
<1> QED
  BY <1>2, <1>3, <1>4, <1>5

\* No step but the reading of a request brings up an identity.
LEMMA SeenBy ==
  ASSUME Types, [Next]_vars
  PROVE  \/ Seen' \subseteq Seen \cup {0}
         \/ ReadRequest /\ Seen' \subseteq Seen \cup {0, Head(preparations).id}
<1> DEFINE Known == Seen \cup {0}
<1>1. /\ 0 \in Known /\ Holders \subseteq Known /\ IdsOf(toPi) \subseteq Known /\ IdsOf(fromPi) \subseteq Known
      /\ IdsOf(toMain) \subseteq Known
      /\ kept \subseteq Known /\ cleaning \subseteq Known /\ abandoned \subseteq Known /\ files \subseteq Known
  BY DEF Seen, OnDisk
<1>2. /\ creation \in Known /\ control.id \in Known /\ materializing.id \in Known /\ operation.id \in Known
      /\ candidate.id \in Known
  BY <1>1 DEF Holders
<1>3. /\ creation \in Nat /\ control.id \in Nat /\ materializing.id \in Nat /\ materializing.seed \in Nat
      /\ operation.id \in Nat /\ operation.source \in Nat
  BY DEF Types
<1>4. {"failed", "cancelled", "ready", "none"} = Outcomes
  BY DEF Outcomes
<1>5. {"failed", "selecting", "preparing", "cancelled", "ready", "state"} = RecordKinds
  BY DEF RecordKinds
<1>6. NoControl.id = 0 /\ NoTask.id = 0 /\ NoOperation.id = 0 /\ NoCandidate.id = 0
  BY DEF NoControl, NoTask, NoOperation, NoCandidate
<1> HIDE DEF Known
<1>7. ASSUME creation' \in Known, control'.id \in Known, materializing'.id \in Known, operation'.id \in Known,
             candidate'.id \in Known, IdsOf(toPi)' \subseteq Known, IdsOf(fromPi)' \subseteq Known,
             IdsOf(toMain)' \subseteq Known, kept' \subseteq Known, cleaning' \subseteq Known,
             abandoned' \subseteq Known, files' \subseteq Known
      PROVE  Seen' \subseteq Seen \cup {0}
  BY <1>7 DEF Seen, Holders, OnDisk, Known
<1>8. ASSUME UNCHANGED <<worker, toPi, fromPi, operation, kept, abandoned, files>>,
             candidate'.id \in Known, IdsOf(toMain)' \subseteq Known, cleaning' \subseteq Known
      PROVE  Seen' \subseteq Seen \cup {0}
  BY <1>1, <1>2, <1>7, <1>8 DEF worker, IdsOf
<1>9. ASSUME CancelSide PROVE candidate'.id \in Known /\ cleaning' \subseteq Known
  BY <1>1, <1>2, <1>6, <1>9 DEF CancelSide
<1>10. CASE Create \/ Escape \/ Close \/ CandidateFailed
  <2>1. UNCHANGED <<worker, toPi, fromPi, toMain, operation, kept, abandoned, files>>
    BY <1>10 DEF Create, Escape, Close, CandidateFailed, disk, companion
  <2>2. candidate'.id \in Known /\ cleaning' \subseteq Known
    BY <1>1, <1>2, <1>9, <1>10 DEF Create, Escape, Close, CandidateFailed, disk
  <2> QED
    BY <1>1, <1>8, <2>1, <2>2 DEF IdsOf
<1>11. CASE CandidateReady
  <2>1. UNCHANGED <<worker, toPi, fromPi, toMain, operation, cleaning, abandoned, files>>
    BY <1>11 DEF CandidateReady, companion
  <2>2. candidate'.id \in Known /\ kept' \subseteq Known
    BY <1>1, <1>2, <1>6, <1>11 DEF CandidateReady, CommittedCandidate
  <2> QED
    BY <1>1, <1>2, <1>7, <2>1, <2>2 DEF IdsOf, worker
<1>12. ASSUME toMain # <<>>, toMain' = Tail(toMain) PROVE IdsOf(toMain)' \subseteq Known /\ Head(toMain).id \in Known
  <2>1. IdsOf(Tail(toMain)) \subseteq IdsOf(toMain) /\ Head(toMain).id \in IdsOf(toMain)
    BY <1>12, IdsRead
  <2>2. IdsOf(toMain)' = IdsOf(Tail(toMain))
    BY <1>12 DEF IdsOf
  <2> QED
    BY <1>1, <2>1, <2>2
<1>13. CASE OnPrepared
  <2>1. IdsOf(toMain)' \subseteq Known /\ Head(toMain).id \in Known
    BY <1>12, <1>13 DEF OnPrepared, NextEvent
  <2>2. candidate'.id \in Known /\ cleaning' \subseteq Known
    <3>1. \/ candidate' = candidate /\ cleaning' \subseteq cleaning \cup {Head(toMain).id}
          \/ candidate'.id = Head(toMain).id /\ cleaning' = cleaning
          \/ CancelSide
      BY <1>13 DEF OnPrepared
    <3> QED
      BY <1>1, <1>2, <1>9, <2>1, <3>1
  <2> QED
    BY <1>8, <1>13, <2>1, <2>2 DEF OnPrepared, companion
<1>14. CASE OnAttached
  <2>1. IdsOf(toMain)' \subseteq Known
    BY <1>12, <1>14 DEF OnAttached, NextEvent
  <2>2. candidate'.id \in Known /\ cleaning' \subseteq Known
    BY <1>1, <1>2, <1>9, <1>14 DEF OnAttached
  <2> QED
    BY <1>8, <1>14, <2>1, <2>2 DEF OnAttached, companion
<1>15. \A id \in Nat, outcome \in Outcomes, seed \in Nat, file \in BOOLEAN :
         id \in Known /\ toMain' = Append(toMain, Prepared(id, outcome, seed, file)) => IdsOf(toMain)' \subseteq Known
  <2> SUFFICES ASSUME NEW id \in Nat, NEW outcome \in Outcomes, NEW seed \in Nat, NEW file \in BOOLEAN, id \in Known,
                      toMain' = Append(toMain, Prepared(id, outcome, seed, file))
               PROVE  IdsOf(toMain)' \subseteq Known
    OBVIOUS
  <2>1. IdsOf(Append(toMain, Prepared(id, outcome, seed, file))) = IdsOf(toMain) \cup {id}
    BY IdsSent
  <2>2. IdsOf(toMain)' = IdsOf(Append(toMain, Prepared(id, outcome, seed, file)))
    BY DEF IdsOf
  <2> QED
    BY <1>1, <2>1, <2>2
<1>16. toMain' = toMain => IdsOf(toMain)' \subseteq Known
  BY <1>1 DEF IdsOf
<1>17. toPi' = toPi => IdsOf(toPi)' \subseteq Known
  BY <1>1 DEF IdsOf
<1>18. fromPi' = fromPi => IdsOf(fromPi)' \subseteq Known
  BY <1>1 DEF IdsOf
<1>19. CancelControl => control'.id \in Known /\ IdsOf(toPi)' \subseteq Known
  <2>1. control.id \in Nat => IdsOf(Append(toPi, CancelOf(control.id))) = IdsOf(toPi) \cup {control.id}
    BY IdsSent
  <2> QED
    BY <1>1, <1>2, <1>3, <1>6, <1>17, <2>1 DEF CancelControl, IdsOf
<1>20. ASSUME fromPi # <<>>, fromPi' = Tail(fromPi) PROVE IdsOf(fromPi)' \subseteq Known /\ Head(fromPi).id \in Known
  <2>1. IdsOf(Tail(fromPi)) \subseteq IdsOf(fromPi) /\ Head(fromPi).id \in IdsOf(fromPi)
    BY <1>20, IdsRead
  <2>2. IdsOf(fromPi)' = IdsOf(Tail(fromPi))
    BY <1>20 DEF IdsOf
  <2> QED
    BY <1>1, <2>1, <2>2
<1>21. CASE ReadRequest
  <2> DEFINE r == Head(preparations)
  <2>1. r \in Requests /\ r.id \in Nat
    BY <1>21, Taken DEF ReadRequest, Requests
  <2>2. creation' \in {creation, r.id} /\ control'.id \in {control.id, r.id}
    <3>1. \/ UNCHANGED <<creation, control>>
          \/ creation' = r.id /\ control' = [id |-> r.id, source |-> native, timed |-> TRUE]
      BY <1>21 DEF ReadRequest
    <3> QED
      BY <3>1
  <2>3. IdsOf(toPi)' \subseteq Known \cup {r.id}
    <3>1. toPi' = toPi \/ toPi' = Append(toPi, Begin(r))
      BY <1>21 DEF ReadRequest
    <3>2. IdsOf(Append(toPi, Begin(r))) = IdsOf(toPi) \cup {r.id}
      BY <2>1, IdsSent
    <3> QED
      BY <1>1, <1>17, <3>1, <3>2 DEF IdsOf
  <2>4. IdsOf(toMain)' \subseteq Known \cup {r.id}
    <3>1. toMain' = toMain \/ toMain' = Append(toMain, Prepared(r.id, "failed", 0, FALSE))
      BY <1>21 DEF ReadRequest, Publish
    <3>2. IdsOf(Append(toMain, Prepared(r.id, "failed", 0, FALSE))) = IdsOf(toMain) \cup {r.id}
      BY <1>4, <2>1, IdsSent
    <3> QED
      BY <1>1, <1>16, <3>1, <3>2 DEF IdsOf
  <2>5. UNCHANGED <<materializing, operation, candidate, kept, cleaning, abandoned, files>> /\ IdsOf(fromPi)' \subseteq Known
    BY <1>18, <1>21 DEF ReadRequest, frontend, companion, disk
  <2> QED
    BY <1>1, <1>2, <1>21, <2>2, <2>3, <2>4, <2>5 DEF Seen, Holders, OnDisk, Known
<1>22. ASSUME UNCHANGED <<candidate, operation, disk>>, creation' \in Known, control'.id \in Known,
              materializing'.id \in Known, IdsOf(toPi)' \subseteq Known, IdsOf(fromPi)' \subseteq Known,
              IdsOf(toMain)' \subseteq Known
       PROVE  Seen' \subseteq Seen \cup {0}
  BY <1>1, <1>2, <1>7, <1>22 DEF disk
<1>23. CASE ReadCancellation
  <2>1. toMain' = toMain \/ toMain' = Append(toMain, Prepared(creation, "cancelled", 0, FALSE))
    BY <1>23 DEF ReadCancellation, Publish
  <2>2. IdsOf(toMain)' \subseteq Known
    BY <1>2, <1>3, <1>4, <1>15, <1>16, <2>1
  <2>3. \/ CancelControl /\ creation' = 0
        \/ UNCHANGED <<control, creation, toPi>>
    BY <1>23 DEF ReadCancellation
  <2> QED
    BY <1>1, <1>2, <1>17, <1>18, <1>19, <1>22, <1>23, <2>2, <2>3 DEF ReadCancellation, frontend, companion
<1>24. CASE Deadline
  <2>1. toMain' = toMain \/ toMain' = Append(toMain, Prepared(creation, "failed", 0, FALSE))
    BY <1>24 DEF Deadline
  <2>2. IdsOf(toMain)' \subseteq Known
    BY <1>2, <1>3, <1>4, <1>15, <1>16, <2>1
  <2> QED
    BY <1>1, <1>2, <1>18, <1>19, <1>22, <1>24, <2>2 DEF Deadline, frontend, companion
<1>25. CASE ReadProgress
  <2>1. IdsOf(fromPi)' \subseteq Known
    BY <1>20, <1>25 DEF ReadProgress, NextRecord
  <2>2. control'.id = control.id
    BY <1>25 DEF ReadProgress, Types
  <2> QED
    BY <1>2, <1>16, <1>17, <1>22, <1>25, <2>1, <2>2 DEF ReadProgress, frontend, companion
<1>26. CASE ReadOutcome
  <2>1. IdsOf(fromPi)' \subseteq Known
    BY <1>20, <1>26 DEF ReadOutcome, NextRecord
  <2>2. toMain' = toMain \/ toMain' = Append(toMain, Prepared(creation, Head(fromPi).kind, 0, FALSE))
    BY <1>26 DEF ReadOutcome, Publish
  <2>3. Head(fromPi).kind \in Outcomes
    <3>1. Head(fromPi) \in Records
      BY <1>26, Taken DEF ReadOutcome, NextRecord
    <3> QED
      BY <1>26, <3>1 DEF ReadOutcome, Records, RecordKinds, Outcomes, Answers
  <2>4. IdsOf(toMain)' \subseteq Known
    BY <1>2, <1>3, <1>15, <1>16, <2>2, <2>3
  <2>5. creation' = 0 /\ control'.id = 0 /\ materializing'.id \in {materializing.id, creation}
    <3>1. \/ materializing' = materializing
          \/ materializing' = [id |-> creation, seed |-> Head(fromPi).seed,
                                step |-> IF Head(fromPi).persisted THEN "copying" ELSE "unsaved"]
      BY <1>26 DEF ReadOutcome
    <3> QED
      BY <1>6, <1>26, <3>1 DEF ReadOutcome
  <2> QED
    BY <1>1, <1>2, <1>17, <1>22, <1>26, <2>1, <2>4, <2>5 DEF ReadOutcome, frontend, companion
<1>27. CASE ReadState
  <2> DEFINE a == AttachedEvent(Head(fromPi).seed)
             t == Told(creation)
  <2>1. IdsOf(fromPi)' \subseteq Known
    BY <1>20, <1>27 DEF ReadState, NextRecord
  <2>2. t \in Seq(Events) /\ a \in Events /\ toMain' = Append(t, a)
    BY <1>27, AttachedTold
  <2>3. a.id = 0
    BY DEF AttachedEvent
  <2>4. IdsOf(t) \subseteq Known
    <3>1. IdsOf(Append(toMain, Prepared(creation, "cancelled", 0, FALSE))) = IdsOf(toMain) \cup {creation}
      BY <1>3, <1>4, IdsSent
    <3> QED
      BY <1>1, <1>2, <3>1 DEF Told
  <2> HIDE DEF a, t
  <2>5. IdsOf(toMain)' \subseteq Known
    <3>1. IdsOf(Append(t, a)) = IdsOf(t) \cup {a.id}
      BY <2>2, IdsWritten
    <3>2. IdsOf(toMain)' = IdsOf(Append(t, a))
      BY <2>2 DEF IdsOf
    <3> QED
      BY <1>1, <2>3, <2>4, <3>1, <3>2
  <2> QED
    BY <1>1, <1>2, <1>19, <1>22, <1>27, <2>1, <2>5 DEF ReadState, frontend, companion
<1>28. CASE Materialized
  <2>1. \/ toMain' = Append(toMain, Prepared(materializing.id, "failed", materializing.seed, materializing.step = "copied"))
        \/ toMain' = Append(toMain, Prepared(materializing.id, "ready", materializing.seed, materializing.step = "copied"))
    BY <1>28 DEF Materialized, Publish
  <2>2. IdsOf(toMain)' \subseteq Known
    BY <1>2, <1>3, <1>4, <1>15, <2>1
  <2> QED
    BY <1>1, <1>2, <1>6, <1>17, <1>18, <1>22, <1>28, <2>2 DEF Materialized, frontend, companion
<1>29. CASE Task \/ AbandonedCopy \/ Cleanup
  <2>1. UNCHANGED <<creation, control, toPi, fromPi, toMain, operation, candidate, kept>>
    BY <1>29 DEF Task, Copy, CopyTimeout, AbandonedCopy, Cleanup, frontend, worker, companion
  <2>2. materializing'.id = materializing.id
    <3>1. CASE Task
      BY <3>1 DEF Task, Copy, CopyTimeout, Types
    <3>2. CASE AbandonedCopy \/ Cleanup
      BY <3>2 DEF AbandonedCopy, Cleanup, worker
    <3> QED
      BY <1>29, <3>1, <3>2
  <2>3. cleaning' \subseteq Known /\ abandoned' \subseteq Known /\ files' \subseteq Known
    BY <1>1, <1>2, <1>29 DEF Task, Copy, CopyTimeout, AbandonedCopy, Cleanup
  <2> QED
    BY <1>1, <1>2, <1>7, <1>16, <1>17, <1>18, <2>1, <2>2, <2>3
<1>30. ASSUME UNCHANGED pie, operation'.id \in Known, IdsOf(toPi)' \subseteq Known, IdsOf(fromPi)' \subseteq Known
       PROVE  Seen' \subseteq Seen \cup {0}
  BY <1>1, <1>2, <1>7, <1>16, <1>30 DEF pie, frontend, worker
<1>31. \A id \in Nat, kind \in RecordKinds : id \in Known /\ Say(id, kind) => IdsOf(fromPi)' \subseteq Known
  <2> SUFFICES ASSUME NEW id \in Nat, NEW kind \in RecordKinds, id \in Known, Say(id, kind)
               PROVE  IdsOf(fromPi)' \subseteq Known
    OBVIOUS
  <2>1. IdsOf(Append(fromPi, Status(id, kind, 0, FALSE))) = IdsOf(fromPi) \cup {id}
    BY IdsSent
  <2>2. IdsOf(fromPi)' = IdsOf(Append(fromPi, Status(id, kind, 0, FALSE)))
    BY DEF IdsOf, Say
  <2> QED
    BY <1>1, <2>1, <2>2
<1>32. CASE Companion
  <2>1. toPi # <<>> /\ toPi' = Tail(toPi)
    BY <1>32 DEF Companion, Handle, HandleCancel, NextCommand
  <2>2. Head(toPi).id \in Known /\ Head(toPi).id \in Nat
    BY <1>1, <2>1, Taken, IdsRead DEF Commands
  <2>3. IdsOf(toPi)' \subseteq Known
    BY <1>1, <2>1, IdsRead DEF IdsOf
  <2>4. operation'.id \in {operation.id, Head(toPi).id}
    <3>1. CASE Handle
      BY <3>1 DEF Handle
    <3>2. CASE HandleCancel
      BY <3>2 DEF HandleCancel, Types
    <3> QED
      BY <1>32, <3>1, <3>2 DEF Companion
  <2>5. IdsOf(fromPi)' \subseteq Known
    BY <1>5, <1>18, <1>31, <1>32, <2>2 DEF Companion, Handle, HandleCancel
  <2> QED
    BY <1>2, <1>30, <1>32, <2>2, <2>3, <2>4, <2>5 DEF Companion, Handle, HandleCancel
<1>33. CASE Operation
  <2>1. operation'.id \in {operation.id, 0}
    BY <1>6, <1>33 DEF Operation, Discard, Select, Stage, Snapshot, Finish, Types
  <2>2. \/ UNCHANGED fromPi
        \/ \E kind \in RecordKinds : Say(operation.id, kind)
        \/ \E persisted \in BOOLEAN :
             fromPi' = Append(fromPi, Status(operation.id, "ready", operation.source, persisted))
    <3>1. CASE Discard
      BY <1>5, <3>1 DEF Discard
    <3>2. CASE Select
      BY <1>5, <3>2 DEF Select
    <3>3. CASE Stage
      BY <1>5, <3>3 DEF Stage
    <3>4. CASE Snapshot
      BY <1>5, <3>4 DEF Snapshot
    <3>5. CASE Finish
      BY <1>5, <3>5 DEF Finish
    <3> QED
      BY <1>33, <3>1, <3>2, <3>3, <3>4, <3>5 DEF Operation
  <2>3. \A persisted \in BOOLEAN :
          IdsOf(Append(fromPi, Status(operation.id, "ready", operation.source, persisted))) \subseteq Known
    <3>1. "ready" \in RecordKinds
      BY <1>5
    <3> QED
      BY <1>1, <1>2, <1>3, <3>1, IdsSent
  <2>4. IdsOf(fromPi)' \subseteq Known
    BY <1>2, <1>3, <1>18, <1>31, <2>2, <2>3 DEF IdsOf
  <2> QED
    BY <1>1, <1>2, <1>17, <1>30, <1>33, <2>1, <2>4 DEF Operation, Discard, Select, Stage, Snapshot, Finish
<1>34. CASE Replace
  BY <1>2, <1>17, <1>18, <1>30, <1>34 DEF Replace
<1>36. CASE AnswerState
  <2>1. fromPi' = Append(fromPi, Status(0, "state", piSession, FALSE)) /\ piSession \in Nat
    BY <1>36 DEF AnswerState, Types
  <2>2. IdsOf(fromPi)' \subseteq Known
    <3>1. IdsOf(Append(fromPi, Status(0, "state", piSession, FALSE))) = IdsOf(fromPi) \cup {0}
      BY <1>5, <2>1, IdsSent
    <3> QED
      BY <1>1, <2>1, <3>1 DEF IdsOf
  <2> QED
    BY <1>2, <1>17, <1>30, <1>36, <2>2 DEF AnswerState, companion
<1>35. CASE UNCHANGED vars
  BY <1>1, <1>2, <1>8, <1>16, <1>35 DEF vars, frontend, companion, disk
<1> QED
  BY <1>10, <1>11, <1>13, <1>14, <1>21, <1>23, <1>24, <1>25, <1>26, <1>27, <1>28, <1>29, <1>32, <1>33, <1>34,
     <1>35, <1>36 DEF Next, User, OnEvent, Candidate, WorkerLoop, ReadRecord

\* Only Create makes a request, of an identity no one has.
LEMMA FreshInit == Init => Fresh
BY DEF Init, Fresh, Seen, Holders, OnDisk, IdsOf, NoControl, NoTask, NoOperation, NoCandidate

LEMMA FreshStep == Types /\ FrontendInv /\ Fresh /\ [Next]_vars => Fresh'
<1> SUFFICES ASSUME Types, FrontendInv, Fresh, [Next]_vars PROVE Fresh'
  OBVIOUS
<1>1. reserved \in Nat /\ Seen \subseteq 0..reserved /\ 0 \in 0..reserved
  BY DEF Fresh, FrontendInv
<1>2. \/ Seen' \subseteq Seen \cup {0}
      \/ ReadRequest /\ Seen' \subseteq Seen \cup {0, Head(preparations).id}
  BY SeenBy
<1>3. CASE ReadRequest
  <2>1. preparations # <<>> /\ preparations' = <<>> /\ reserved' = reserved
    BY <1>3, Taken DEF ReadRequest, frontend
  <2>2. Head(preparations).id \in 0..reserved
    BY <2>1 DEF Fresh, FrontendInv
  <2> QED
    BY <1>1, <1>2, <2>1, <2>2 DEF Fresh
<1>4. CASE Create
  <2>1. PICK kind \in SideKinds :
          \/ preparations' = <<[id |-> reserved', kind |-> kind]>>
          \/ UNCHANGED preparations
    BY <1>4 DEF Create
  <2>2. reserved' = reserved + 1
    BY <1>4 DEF Create
  <2>6. ~ReadRequest
    <3>1. ReadRequest => reserved' = reserved
      BY DEF ReadRequest, frontend
    <3> QED
      BY <1>1, <2>2, <3>1
  <2>3. Seen' \subseteq 0..reserved /\ 0..reserved \subseteq 0..reserved' /\ 1..reserved \subseteq 1..reserved'
    <3>1. Seen' \subseteq 0..reserved
      BY <1>1, <1>2, <2>6
    <3> QED
      BY <1>1, <2>2, <3>1
  <2>4. CASE preparations' = <<[id |-> reserved', kind |-> kind]>>
    <3>1. Head(preparations') = [id |-> reserved', kind |-> kind]
      BY <2>4
    <3>2. Head(preparations').id = reserved' /\ reserved' \in 1..reserved'
      BY <1>1, <2>2, <3>1
    <3>3. \A id \in 0..reserved : id < reserved'
      BY <1>1, <2>2
    <3> QED
      BY <2>3, <3>2, <3>3 DEF Fresh
  <2>5. CASE UNCHANGED preparations
    <3>1. preparations # <<>> => /\ Head(preparations).id \in 1..reserved'
                                 /\ \A id \in Seen \cup {0} : id < Head(preparations).id
      BY <2>3 DEF Fresh
    <3> QED
      BY <1>2, <2>2, <2>3, <2>5, <2>6, <3>1 DEF Fresh
  <2> QED
    BY <2>1, <2>4, <2>5
<1>5. CASE ~ReadRequest /\ ~Create
  <2>1. UNCHANGED <<reserved, preparations>>
    BY <1>5 DEF Next, vars, User, Escape, Close, OnEvent, OnPrepared, OnAttached, Candidate, CandidateReady,
         CandidateFailed, WorkerLoop, ReadRecord, ReadCancellation, ReadProgress, ReadOutcome, ReadState, Materialized,
         Deadline, Task, Copy, CopyTimeout, AbandonedCopy, Cleanup, Companion, Handle, HandleCancel, Operation,
         Discard, Select, Stage, Snapshot, Finish, Replace, AnswerState, pie, frontend, inbox
  <2>2. preparations # <<>> => \A id \in Seen \cup {0} : id < Head(preparations).id
    BY DEF Fresh
  <2>3. Seen' \subseteq Seen \cup {0}
    BY <1>2, <1>5
  <2> QED
    BY <1>1, <2>1, <2>2, <2>3 DEF Fresh
<1> QED
  BY <1>3, <1>4, <1>5

-----------------------------------------------------------------------------
\* One holder of an identity at a time, and what each holder may say of the file.
Items(s)      == {s[i] : i \in DOMAIN s}
IsPrepared(e) == e.kind = "prepared"
Distinct(s)   == \A i, j \in DOMAIN s : IsPrepared(s[i]) /\ IsPrepared(s[j]) /\ i # j => s[i].id # s[j].id

LEMMA ItemsRead ==
  ASSUME NEW S, NEW s \in Seq(S), s # <<>>, Distinct(s)
  PROVE  /\ Head(s) \in Items(s) /\ Items(s) = Items(Tail(s)) \cup {Head(s)}
         /\ Distinct(Tail(s))
         /\ IsPrepared(Head(s)) => \A e \in Items(Tail(s)) : IsPrepared(e) => e.id # Head(s).id
<1> DEFINE t == Tail(s)
<1>1. /\ t \in Seq(S) /\ Head(s) \in S /\ Head(s) = s[1]
      /\ Len(s) \in Nat \ {0} /\ DOMAIN s = 1..Len(s) /\ DOMAIN t = 1..(Len(s) - 1)
      /\ \A i \in 1..(Len(s) - 1) : t[i] = s[i + 1]
  BY TailOf
<1> HIDE DEF t
<1>2. \A i \in DOMAIN t : i + 1 \in DOMAIN s /\ t[i] = s[i + 1] /\ i \in Nat /\ i + 1 # 1
  BY <1>1
<1>3. 1 \in DOMAIN s /\ \A i \in DOMAIN s : i = 1 \/ (i - 1 \in DOMAIN t /\ t[i - 1] = s[i])
  BY <1>1
<1>4. Items(s) = Items(t) \cup {s[1]}
  <2>1. Items(s) \subseteq Items(t) \cup {s[1]}
    BY <1>3 DEF Items
  <2>2. Items(t) \cup {s[1]} \subseteq Items(s)
    BY <1>2, <1>3 DEF Items
  <2> QED
    BY <2>1, <2>2
<1>5. Distinct(t)
  <2> SUFFICES ASSUME NEW i \in DOMAIN t, NEW j \in DOMAIN t, IsPrepared(t[i]), IsPrepared(t[j]), i # j
               PROVE  t[i].id # t[j].id
    BY DEF Distinct
  <2>1. i + 1 # j + 1
    BY <1>2
  <2> QED
    BY <1>2, <2>1 DEF Distinct
<1>6. ASSUME IsPrepared(s[1]), NEW e \in Items(t), IsPrepared(e) PROVE e.id # s[1].id
  BY <1>2, <1>3, <1>6 DEF Items, Distinct
<1> QED
  BY <1>1, <1>4, <1>5, <1>6 DEF t

LEMMA ItemsWritten ==
  ASSUME NEW S, NEW s \in Seq(S), NEW e \in S
  PROVE  /\ Items(Append(s, e)) = Items(s) \cup {e}
         /\ Distinct(s) /\ (IsPrepared(e) => \A f \in Items(s) : IsPrepared(f) => f.id # e.id)
              => Distinct(Append(s, e))
<1> DEFINE t == Append(s, e)
<1>1. /\ Len(s) \in Nat /\ DOMAIN s = 1..Len(s) /\ DOMAIN t = 1..(Len(s) + 1)
      /\ \A i \in 1..Len(s) : t[i] = s[i]
      /\ t[Len(s) + 1] = e
  BY AppendOf
<1>2. DOMAIN t = DOMAIN s \cup {Len(s) + 1}
  BY <1>1
<1> HIDE DEF t
<1>3. Items(t) = Items(s) \cup {e}
  BY <1>1, <1>2 DEF Items
<1>4. ASSUME Distinct(s), IsPrepared(e) => \A f \in Items(s) : IsPrepared(f) => f.id # e.id
      PROVE  Distinct(t)
  <2>1. \A i \in DOMAIN s : IsPrepared(s[i]) /\ IsPrepared(e) => s[i].id # e.id
    BY <1>4 DEF Items
  <2> QED
    BY <1>1, <1>2, <1>4, <2>1 DEF Distinct
<1> QED
  BY <1>3, <1>4 DEF t

Untouched(id) == id \notin kept \cup cleaning \cup abandoned
Has(id)       == id \in files /\ Untouched(id)
Tokens ==
  /\ creation # 0 => materializing = NoTask
  /\ materializing.step # "none" => materializing.id # 0
  /\ Distinct(toMain)
  /\ \A e \in Items(toMain) : IsPrepared(e) => e.id \notin {0, creation, materializing.id, candidate.id}
  /\ candidate.id # 0 => candidate.id \notin {creation, materializing.id}
Files ==
  /\ creation # 0 => Untouched(creation) /\ creation \notin files
  /\ materializing.step \in {"copying", "unsaved"} =>
       Untouched(materializing.id) /\ materializing.id \notin files
  /\ materializing.step = "copied" => Has(materializing.id)
  /\ \A e \in Items(toMain) : e.file => IsPrepared(e) /\ e.outcome = "ready" /\ Has(e.id)
  /\ candidate.file => candidate.id # 0 /\ Has(candidate.id)
  /\ kept \subseteq files
  /\ kept \cap (cleaning \cup abandoned) = {}
  /\ \A id \in files \ kept :
       \/ id \in cleaning
       \/ id = materializing.id /\ materializing.step = "copied"
       \/ id = candidate.id /\ candidate.file
       \/ \E e \in Items(toMain) : e.id = id /\ e.file

LEMMA FilesInit == Init => Tokens /\ Files
BY DEF Init, Tokens, Files, Distinct, Items, NoTask, NoCandidate

LEMMA FilesOwned == Files => FileOwned /\ AttachedStays
<1> SUFFICES ASSUME Files PROVE FileOwned /\ AttachedStays
  OBVIOUS
<1>1. \A e \in Items(toMain) : \E i \in DOMAIN toMain : e = toMain[i]
  BY DEF Items
<1> QED
  BY <1>1 DEF Files, FileOwned, AttachedStays

\* The channel to the frontend, read and written.
LEMMA MainRead ==
  ASSUME Types, Tokens, toMain # <<>>, toMain' = Tail(toMain)
  PROVE  /\ Head(toMain) \in Items(toMain) /\ Items(toMain) = Items(toMain)' \cup {Head(toMain)}
         /\ Distinct(toMain)'
         /\ IsPrepared(Head(toMain)) => \A e \in Items(toMain)' : IsPrepared(e) => e.id # Head(toMain).id
<1>1. toMain \in Seq(Events) /\ Distinct(toMain)
  BY DEF Types, Tokens
<1>2. Items(toMain)' = Items(Tail(toMain)) /\ Distinct(toMain)' = Distinct(Tail(toMain))
  BY DEF Items, Distinct
<1> QED
  BY <1>1, <1>2, ItemsRead

LEMMA MainWritten ==
  ASSUME Types, Tokens, NEW id \in Nat, NEW outcome \in Outcomes, NEW seed \in Nat, NEW file \in BOOLEAN,
         toMain' = Append(toMain, Prepared(id, outcome, seed, file)),
         \A e \in Items(toMain) : IsPrepared(e) => e.id # id
  PROVE  Items(toMain)' = Items(toMain) \cup {Prepared(id, outcome, seed, file)} /\ Distinct(toMain)'
<1> DEFINE p == Prepared(id, outcome, seed, file)
<1>1. toMain \in Seq(Events) /\ Distinct(toMain)
  BY DEF Types, Tokens
<1>2. p \in Events /\ p.id = id
  BY Written DEF Prepared
<1>3. Items(toMain)' = Items(Append(toMain, p)) /\ Distinct(toMain)' = Distinct(Append(toMain, p))
  BY DEF Items, Distinct
<1> HIDE DEF p
<1> QED
  BY <1>1, <1>2, <1>3, ItemsWritten DEF p

\* The candidate is given up, and its file removed.
LEMMA CancelSideFiles ==
  ASSUME Types, Tokens, Files, CancelSide, UNCHANGED <<creation, materializing, kept, files, abandoned>>,
         Items(toMain)' \subseteq Items(toMain), Distinct(toMain)',
         \A e \in Items(toMain) \ Items(toMain)' : ~e.file
  PROVE  Tokens' /\ Files'
<1>1. candidate' = NoCandidate /\ candidate'.id = 0 /\ candidate'.file = FALSE
  BY DEF CancelSide, NoCandidate
<1>2. cleaning' = cleaning \cup (IF candidate.file THEN {candidate.id} ELSE {})
  BY DEF CancelSide
<1>3. Tokens'
  BY <1>1 DEF Tokens
<1>4. candidate.file \in BOOLEAN
  BY DEF Types
<1>5. \A id : id # candidate.id \/ ~candidate.file => (Untouched(id) => Untouched(id)')
  BY <1>2 DEF Untouched
<1>6. \A e \in Items(toMain)' : e.file => IsPrepared(e) /\ e.outcome = "ready" /\ Has(e.id)'
  BY <1>5 DEF Files, Tokens, Has
<1>7. /\ creation # 0 => Untouched(creation)' /\ creation \notin files
      /\ materializing.step \in {"copying", "unsaved"} =>
           Untouched(materializing.id)' /\ materializing.id \notin files
      /\ materializing.step = "copied" => Has(materializing.id)'
  BY <1>5 DEF Files, Tokens, Has
<1>8. kept \cap (cleaning' \cup abandoned) = {}
  BY <1>2 DEF Files, Has, Untouched
<1>9. \A id \in files \ kept :
       \/ id \in cleaning'
       \/ id = materializing.id /\ materializing.step = "copied"
       \/ \E e \in Items(toMain)' : e.id = id /\ e.file
  BY <1>2 DEF Files
<1> QED
  BY <1>1, <1>3, <1>6, <1>7, <1>8, <1>9 DEF Files, Untouched, Has

\* The steps of the frontend ...
LEMMA FrontendFiles ==
  ASSUME Types, FrontendInv, Tokens, Files, User \/ OnEvent \/ Candidate
  PROVE  Tokens' /\ Files'
<1>1. ASSUME UNCHANGED <<candidate, creation, materializing, toMain, disk>> PROVE Tokens' /\ Files'
  BY <1>1 DEF Tokens, Files, Has, Untouched, Items, Distinct, disk
<1>2. CASE Create \/ Close
  BY <1>1, <1>2 DEF Create, Close, worker
<1>3. UNCHANGED toMain => Items(toMain)' = Items(toMain) /\ (Distinct(toMain) => Distinct(toMain)')
  BY DEF Items, Distinct
<1>4. CASE Escape \/ CandidateFailed
  <2>1. CancelSide /\ UNCHANGED <<creation, materializing, toMain, kept, files, abandoned>>
    BY <1>4 DEF Escape, CandidateFailed, worker
  <2> QED
    BY <1>3, <2>1, CancelSideFiles DEF Tokens
<1>5. CASE OnPrepared
  <2> DEFINE e == Head(toMain)
  <2>1. /\ toMain # <<>> /\ toMain' = Tail(toMain) /\ IsPrepared(e)
        /\ UNCHANGED <<creation, materializing, kept, files, abandoned>>
    BY <1>5 DEF OnPrepared, NextEvent, worker, IsPrepared
  <2>2. /\ e \in Items(toMain) /\ Items(toMain) = Items(toMain)' \cup {e} /\ Distinct(toMain)'
        /\ \A f \in Items(toMain)' : IsPrepared(f) => f.id # e.id
    BY <2>1, MainRead
  <2>3. e.id \notin {0, creation, materializing.id, candidate.id}
    BY <2>1, <2>2 DEF Tokens
  <2>10. e.file \in BOOLEAN
    BY <2>1, Taken DEF Events
  <2> HIDE DEF e
  <2>4. CASE Stale(e)
    <3>1. cleaning' = (IF e.file THEN cleaning \cup {e.id} ELSE cleaning) /\ UNCHANGED candidate
      BY <1>5, <2>4 DEF OnPrepared, e
    <3>2. \A id : id # e.id \/ ~e.file => (Untouched(id) => Untouched(id)')
      BY <2>1, <3>1 DEF Untouched
    <3>3. Tokens'
      BY <2>1, <2>2, <3>1 DEF Tokens
    <3>4. \A f \in Items(toMain)' : f.file => IsPrepared(f) /\ f.outcome = "ready" /\ Has(f.id)'
      BY <2>1, <2>2, <3>2 DEF Files, Has
    <3>5. /\ creation # 0 => Untouched(creation)' /\ creation \notin files
          /\ materializing.step \in {"copying", "unsaved"} =>
               Untouched(materializing.id)' /\ materializing.id \notin files
          /\ materializing.step = "copied" => Has(materializing.id)'
          /\ candidate.file => candidate.id # 0 /\ Has(candidate.id)'
      BY <2>1, <2>3, <3>1, <3>2 DEF Files, Has
    <3>6. kept \cap (cleaning' \cup abandoned) = {}
      BY <2>2, <2>10, <3>1 DEF Files, Has, Untouched
    <3>7. \A id \in files \ kept :
            \/ id \in cleaning'
            \/ id = materializing.id /\ materializing.step = "copied"
            \/ id = candidate.id /\ candidate.file
            \/ \E f \in Items(toMain)' : f.id = id /\ f.file
      BY <2>2, <2>10, <3>1 DEF Files
    <3> QED
      BY <2>1, <3>1, <3>3, <3>4, <3>5, <3>6, <3>7 DEF Files, Untouched, Has
  <2>5. CASE ~Stale(e) /\ e.outcome = "ready"
    <3>1. candidate' = [id |-> e.id, seed |-> e.seed, file |-> e.file] /\ UNCHANGED cleaning
      BY <1>5, <2>5 DEF OnPrepared, e
    <3>2. candidate'.id = e.id /\ candidate'.file = e.file
      BY <3>1
    <3>3. candidate.id = 0
      BY <2>3, <2>5 DEF Stale, FrontendInv
    <3>4. Tokens'
      BY <2>1, <2>2, <2>3, <3>2 DEF Tokens
    <3>5. \A id : Untouched(id) => Untouched(id)'
      BY <2>1, <3>1 DEF Untouched
    <3>6. candidate'.file => candidate'.id # 0 /\ Has(candidate.id)'
      BY <2>1, <2>2, <2>3, <3>2, <3>5 DEF Files, Has
    <3>7. \A id \in files \ kept :
            \/ id \in cleaning'
            \/ id = materializing.id /\ materializing.step = "copied"
            \/ id = candidate'.id /\ candidate'.file
            \/ \E f \in Items(toMain)' : f.id = id /\ f.file
      BY <2>2, <3>1, <3>2, <3>3 DEF Files
    <3> QED
      BY <2>1, <2>2, <3>1, <3>4, <3>5, <3>6, <3>7 DEF Files, Has
  <2>6. CASE ~Stale(e) /\ e.outcome # "ready"
    <3>1. CancelSide
      BY <1>5, <2>6 DEF OnPrepared, e
    <3>2. ~e.file
      BY <2>2, <2>6 DEF Files
    <3> QED
      BY <2>1, <2>2, <3>1, <3>2, CancelSideFiles
  <2> QED
    BY <2>4, <2>5, <2>6
<1>6. CASE OnAttached
  <2>1. /\ toMain # <<>> /\ toMain' = Tail(toMain) /\ Head(toMain).kind = "attached"
        /\ UNCHANGED <<creation, materializing, kept, files, abandoned>>
        /\ CancelSide \/ UNCHANGED <<candidate, cleaning>>
    BY <1>6 DEF OnAttached, NextEvent, worker
  <2>2. /\ Head(toMain) \in Items(toMain) /\ Items(toMain) = Items(toMain)' \cup {Head(toMain)}
        /\ Distinct(toMain)'
    BY <2>1, MainRead
  <2>3. ~Head(toMain).file
    BY <2>1, <2>2 DEF Files, IsPrepared
  <2>4. CASE CancelSide
    BY <2>1, <2>2, <2>3, <2>4, CancelSideFiles
  <2>5. CASE UNCHANGED <<candidate, cleaning>>
    BY <2>1, <2>2, <2>3, <2>5 DEF Tokens, Files, Has, Untouched
  <2> QED
    BY <2>1, <2>4, <2>5
<1>7. CASE CandidateReady
  <2>1. /\ UNCHANGED <<creation, materializing, toMain, files, abandoned, cleaning>>
        /\ candidate'.id = 0 /\ candidate'.file = FALSE
        /\ kept' = kept \cup (IF candidate.file THEN {candidate.id} ELSE {})
    BY <1>7 DEF CandidateReady, CommittedCandidate, NoCandidate, worker
  <2>2. Items(toMain)' = Items(toMain) /\ Distinct(toMain)'
    BY <1>3, <2>1 DEF Tokens
  <2>3. \A id : id # candidate.id \/ ~candidate.file => (Untouched(id) => Untouched(id)')
    BY <2>1 DEF Untouched
  <2>4. Tokens'
    BY <2>1, <2>2 DEF Tokens
  <2>5. \A f \in Items(toMain) : f.file => IsPrepared(f) /\ f.outcome = "ready" /\ Has(f.id)'
    BY <2>1, <2>3 DEF Files, Has, Tokens
  <2>6. /\ creation # 0 => Untouched(creation)' /\ creation \notin files
        /\ materializing.step \in {"copying", "unsaved"} =>
             Untouched(materializing.id)' /\ materializing.id \notin files
        /\ materializing.step = "copied" => Has(materializing.id)'
    BY <2>1, <2>3 DEF Files, Has, Tokens
  <2>7. kept' \subseteq files /\ kept' \cap (cleaning \cup abandoned) = {}
    BY <2>1 DEF Files, Has, Untouched
  <2>8. \A id \in files \ kept' :
          \/ id \in cleaning
          \/ id = materializing.id /\ materializing.step = "copied"
          \/ \E f \in Items(toMain) : f.id = id /\ f.file
    BY <2>1 DEF Files
  <2> QED
    BY <2>1, <2>2, <2>4, <2>5, <2>6, <2>7, <2>8 DEF Files
<1> QED
  BY <1>2, <1>4, <1>5, <1>6, <1>7 DEF User, OnEvent, Candidate

\* A creation is over, and its result, without a file, is told.
LEMMA OverFiles ==
  ASSUME Types, Tokens, Files, creation # 0, creation' = 0, UNCHANGED <<candidate, materializing, disk>>,
         NEW outcome \in Outcomes, toMain' = Append(toMain, Prepared(creation, outcome, 0, FALSE))
  PROVE  Tokens' /\ Files'
<1>1. creation \in Nat /\ \A e \in Items(toMain) : IsPrepared(e) => e.id # creation
  BY DEF Types, Tokens
<1>2. Items(toMain)' = Items(toMain) \cup {Prepared(creation, outcome, 0, FALSE)} /\ Distinct(toMain)'
  BY <1>1, MainWritten
<1>3. Prepared(creation, outcome, 0, FALSE).id = creation /\ ~Prepared(creation, outcome, 0, FALSE).file
  BY DEF Prepared
<1>4. materializing.id = 0
  BY DEF Tokens, NoTask
<1>5. Tokens'
  BY <1>2, <1>3, <1>4 DEF Tokens
<1>6. \A id : (Untouched(id)' <=> Untouched(id)) /\ (Has(id)' <=> Has(id))
  BY DEF Untouched, Has, disk
<1> QED
  BY <1>2, <1>3, <1>5, <1>6 DEF Files, disk

\* What the frontend, the channels and the disk show is as before.
LEMMA SameFiles ==
  ASSUME Tokens, Files, UNCHANGED <<candidate, materializing, toMain, kept, cleaning, abandoned, files>>,
         creation' \in {0, creation}
  PROVE  Tokens' /\ Files'
<1>1. Items(toMain)' = Items(toMain) /\ Distinct(toMain)'
  BY DEF Items, Distinct, Tokens
<1>2. \A id : (Untouched(id)' <=> Untouched(id)) /\ (Has(id)' <=> Has(id))
  BY DEF Untouched, Has
<1>3. Tokens'
  BY <1>1 DEF Tokens
<1> QED
  BY <1>1, <1>2, <1>3 DEF Files

\* ... of the worker ...
LEMMA RequestFiles ==
  ASSUME Types, Tokens, Files, Fresh, FrontendInv, ReadRequest
  PROVE  Tokens' /\ Files'
<1> DEFINE r == Head(preparations)
<1>1. /\ preparations # <<>> /\ materializing = NoTask /\ r \in Requests
      /\ UNCHANGED <<candidate, materializing, disk>>
  BY Taken DEF ReadRequest, frontend
<1>2. r.id \in Nat /\ r.id # 0 /\ r.id \notin Seen
  <2>1. r.id \in 1..reserved /\ \A id \in Seen : id < r.id
    BY <1>1 DEF Fresh
  <2>2. r.id \in Nat /\ r.id # 0
    BY <2>1 DEF FrontendInv
  <2>3. ~(r.id < r.id)
    BY <2>2
  <2> QED
    BY <2>1, <2>2, <2>3
<1>3. /\ r.id \notin {creation, materializing.id, candidate.id}
      /\ Untouched(r.id) /\ r.id \notin files
      /\ \A e \in Items(toMain) : e.id # r.id
  BY <1>2 DEF Seen, Holders, OnDisk, IdsOf, Items, Untouched
<1>4. \/ UNCHANGED <<creation, toMain>>
      \/ UNCHANGED creation /\ toMain' = Append(toMain, Prepared(r.id, "failed", 0, FALSE))
      \/ creation' = r.id /\ UNCHANGED toMain
  BY DEF ReadRequest, Publish
<1>5. \A id : (Untouched(id)' <=> Untouched(id)) /\ (Has(id)' <=> Has(id))
  BY <1>1 DEF Untouched, Has, disk
<1> HIDE DEF r
<1>6. CASE UNCHANGED <<creation, toMain>>
  BY <1>1, <1>6, SameFiles DEF disk
<1>7. CASE UNCHANGED creation /\ toMain' = Append(toMain, Prepared(r.id, "failed", 0, FALSE))
  <2>1. "failed" \in Outcomes
    BY DEF Outcomes
  <2>2. Items(toMain)' = Items(toMain) \cup {Prepared(r.id, "failed", 0, FALSE)} /\ Distinct(toMain)'
    BY <1>2, <1>3, <1>7, <2>1, MainWritten
  <2>3. Prepared(r.id, "failed", 0, FALSE).id = r.id /\ ~Prepared(r.id, "failed", 0, FALSE).file
    BY DEF Prepared
  <2>4. Tokens'
    BY <1>1, <1>2, <1>3, <1>7, <2>2, <2>3 DEF Tokens
  <2> QED
    BY <1>1, <1>5, <1>7, <2>2, <2>3, <2>4 DEF Files, disk
<1>8. CASE creation' = r.id /\ UNCHANGED toMain
  <2>1. Items(toMain)' = Items(toMain) /\ Distinct(toMain)'
    BY <1>8 DEF Items, Distinct, Tokens
  <2>2. Tokens'
    BY <1>1, <1>2, <1>3, <1>8, <2>1 DEF Tokens
  <2>3. Untouched(creation)' /\ creation' \notin files'
    BY <1>1, <1>3, <1>8 DEF Untouched, disk
  <2> QED
    BY <1>1, <1>5, <1>8, <2>1, <2>2, <2>3 DEF Files, disk
<1> QED
  BY <1>4, <1>6, <1>7, <1>8

LEMMA WorkerFiles ==
  ASSUME Types, FrontendInv, Fresh, Tokens, Files, WorkerLoop \/ Deadline
  PROVE  Tokens' /\ Files'
<1>1. {"failed", "cancelled", "ready", "none"} = Outcomes
  BY DEF Outcomes
<1>2. CASE ReadRequest
  BY <1>2, RequestFiles
<1>3. CASE ReadCancellation
  <2>1. UNCHANGED <<candidate, materializing, disk>>
    BY <1>3 DEF ReadCancellation, frontend
  <2>2. \/ UNCHANGED <<creation, toMain>>
        \/ creation # 0 /\ creation' = 0 /\ toMain' = Append(toMain, Prepared(creation, "cancelled", 0, FALSE))
    BY <1>3 DEF ReadCancellation, Publish
  <2> QED
    BY <1>1, <2>1, <2>2, OverFiles, SameFiles DEF disk
<1>4. CASE Deadline
  <2>1. UNCHANGED <<candidate, materializing, disk>> /\ creation' = 0
    BY <1>4 DEF Deadline, frontend
  <2>2. \/ UNCHANGED toMain
        \/ creation # 0 /\ toMain' = Append(toMain, Prepared(creation, "failed", 0, FALSE))
    BY <1>4 DEF Deadline
  <2> QED
    BY <1>1, <2>1, <2>2, OverFiles, SameFiles DEF disk
<1>5. CASE ReadProgress
  BY <1>5, SameFiles DEF ReadProgress, frontend, disk
<1>6. CASE ReadOutcome
  <2>1. UNCHANGED <<candidate, disk>> /\ creation' = 0
    BY <1>6 DEF ReadOutcome, frontend
  <2>2. \/ UNCHANGED <<materializing, toMain>>
        \/ /\ creation # 0 /\ UNCHANGED materializing
           /\ toMain' = Append(toMain, Prepared(creation, Head(fromPi).kind, 0, FALSE))
        \/ /\ creation # 0 /\ UNCHANGED toMain
           /\ materializing' = [id |-> creation, seed |-> Head(fromPi).seed,
                                step |-> IF Head(fromPi).persisted THEN "copying" ELSE "unsaved"]
    BY <1>6 DEF ReadOutcome, Publish
  <2>3. Head(fromPi).kind \in Outcomes
    <3>1. Head(fromPi) \in Records
      BY <1>6, Taken DEF ReadOutcome, NextRecord
    <3> QED
      BY <1>6, <3>1 DEF ReadOutcome, Records, RecordKinds, Outcomes, Answers
  <2>4. CASE UNCHANGED <<materializing, toMain>>
    BY <2>1, <2>4, SameFiles DEF disk
  <2>5. CASE /\ creation # 0 /\ UNCHANGED materializing
             /\ toMain' = Append(toMain, Prepared(creation, Head(fromPi).kind, 0, FALSE))
    BY <2>1, <2>3, <2>5, OverFiles
  <2>6. CASE /\ creation # 0 /\ UNCHANGED toMain
             /\ materializing' = [id |-> creation, seed |-> Head(fromPi).seed,
                                  step |-> IF Head(fromPi).persisted THEN "copying" ELSE "unsaved"]
    <3>1. materializing'.id = creation /\ materializing'.step \in {"copying", "unsaved"}
      BY <2>6
    <3>2. materializing.id = 0 /\ materializing.step = "none"
      BY <2>6 DEF Tokens, NoTask
    <3>3. Items(toMain)' = Items(toMain) /\ Distinct(toMain)'
      BY <2>6 DEF Items, Distinct, Tokens
    <3>4. \A id : (Untouched(id)' <=> Untouched(id)) /\ (Has(id)' <=> Has(id))
      BY <2>1 DEF Untouched, Has, disk
    <3>5. Tokens'
      BY <2>1, <2>6, <3>1, <3>3 DEF Tokens
    <3>6. /\ materializing'.step # "copied" /\ materializing.step # "copied"
          /\ Untouched(materializing'.id) /\ materializing'.id \notin files
      BY <2>6, <3>1, <3>2 DEF Files
    <3>7. Untouched(materializing.id)' /\ materializing'.id \notin files'
      BY <2>1, <3>6 DEF Untouched, disk
    <3> QED
      BY <2>1, <3>3, <3>4, <3>5, <3>6, <3>7 DEF Files, disk
  <2> QED
    BY <2>2, <2>4, <2>5, <2>6
<1>7. CASE ReadState
  <2> DEFINE a == AttachedEvent(Head(fromPi).seed)
             t == Told(creation)
  <2>1. UNCHANGED <<candidate, materializing, disk>> /\ creation' = 0
    BY <1>7 DEF ReadState, frontend
  <2>2. t \in Seq(Events) /\ a \in Events /\ toMain' = Append(t, a)
    BY <1>7, AttachedTold
  <2>3. a.kind = "attached" /\ ~a.file
    BY DEF AttachedEvent
  <2>4. /\ Distinct(t)
        /\ Items(t) = Items(toMain) \cup (IF creation # 0 THEN {Prepared(creation, "cancelled", 0, FALSE)} ELSE {})
    <3>1. CASE creation = 0
      BY <3>1 DEF Told, Tokens
    <3>2. CASE creation # 0
      <4> DEFINE p == Prepared(creation, "cancelled", 0, FALSE)
      <4>1. toMain \in Seq(Events) /\ p \in Events
        BY <1>1, Written DEF Types
      <4>2. p.id = creation
        BY DEF Prepared
      <4>3. Distinct(toMain) /\ \A f \in Items(toMain) : IsPrepared(f) => f.id # p.id
        BY <4>2 DEF Tokens
      <4>4. t = Append(toMain, p) /\ (creation # 0 => p = Prepared(creation, "cancelled", 0, FALSE))
        BY <3>2 DEF Told
      <4> HIDE DEF p, t
      <4>5. Items(Append(toMain, p)) = Items(toMain) \cup {p}
        BY <4>1, ItemsWritten
      <4>6. Distinct(Append(toMain, p))
        BY <4>1, <4>3, ItemsWritten
      <4> QED
        BY <3>2, <4>4, <4>5, <4>6
    <3> QED
      BY <3>1, <3>2
  <2> HIDE DEF a, t
  <2>5. Items(toMain)' = Items(t) \cup {a} /\ Distinct(toMain)'
    <3>1. Items(toMain)' = Items(Append(t, a)) /\ (Distinct(Append(t, a)) => Distinct(toMain)')
      BY <2>2 DEF Items, Distinct
    <3>2. ~IsPrepared(a) /\ Distinct(t)
      BY <2>3, <2>4 DEF IsPrepared
    <3>3. Items(Append(t, a)) = Items(t) \cup {a} /\ Distinct(Append(t, a))
      BY <2>2, <3>2, ItemsWritten
    <3> QED
      BY <3>1, <3>3
  <2>6. Prepared(creation, "cancelled", 0, FALSE).id = creation /\ ~Prepared(creation, "cancelled", 0, FALSE).file
    BY DEF Prepared
  <2>7. creation # 0 => materializing.id = 0
    BY DEF Tokens, NoTask
  <2>8. Tokens'
    BY <2>1, <2>3, <2>4, <2>5, <2>6, <2>7 DEF Tokens, IsPrepared
  <2>9. \A id : (Untouched(id)' <=> Untouched(id)) /\ (Has(id)' <=> Has(id))
    BY <2>1 DEF Untouched, Has, disk
  <2> QED
    BY <2>1, <2>3, <2>4, <2>5, <2>6, <2>8, <2>9 DEF Files, disk
<1>8. CASE Materialized
  <2> DEFINE file == materializing.step = "copied"
             outcome == IF materializing.step = "failed" THEN "failed" ELSE "ready"
  <2>1. /\ UNCHANGED <<candidate, disk, creation>> /\ materializing' = NoTask
        /\ materializing.step \in {"copied", "unsaved", "failed"}
        /\ toMain' = Append(toMain, Prepared(materializing.id, outcome, materializing.seed, file))
    BY <1>8 DEF Materialized, frontend, Publish
  <2>2. materializing.id \in Nat /\ materializing.seed \in Nat /\ materializing.id # 0 /\ outcome \in Outcomes
    BY <1>1, <2>1 DEF Types, Tokens
  <2>3. creation = 0
    BY <2>1 DEF Tokens, NoTask
  <2>4. \A e \in Items(toMain) : IsPrepared(e) => e.id # materializing.id
    BY DEF Tokens
  <2> HIDE DEF file, outcome
  <2>5. /\ Items(toMain)' = Items(toMain) \cup {Prepared(materializing.id, outcome, materializing.seed, file)}
        /\ Distinct(toMain)'
    <3>1. file \in BOOLEAN
      BY DEF file
    <3> QED
      BY <2>1, <2>2, <2>4, <3>1, MainWritten
  <2> DEFINE p == Prepared(materializing.id, outcome, materializing.seed, file)
  <2>6. p.id = materializing.id /\ p.file = file /\ p.outcome = outcome /\ p.kind = "prepared"
    BY DEF Prepared
  <2> HIDE DEF p
  <2>7. materializing'.id = 0 /\ materializing'.step = "none"
    BY <2>1 DEF NoTask
  <2>8. Tokens'
    <3>1. candidate.id # materializing.id
      BY <2>2 DEF Tokens
    <3> QED
      BY <2>1, <2>2, <2>3, <2>5, <2>6, <2>7, <3>1 DEF Tokens, p
  <2>9. \A id : (Untouched(id)' <=> Untouched(id)) /\ (Has(id)' <=> Has(id))
    BY <2>1 DEF Untouched, Has, disk
  <2>10. file => IsPrepared(p) /\ outcome = "ready" /\ Has(materializing.id)
    BY <2>6 DEF file, outcome, Files, IsPrepared
  <2>11. \A e \in Items(toMain)' : e.file => IsPrepared(e) /\ e.outcome = "ready" /\ Has(e.id)'
    BY <2>5, <2>6, <2>9, <2>10 DEF Files, p
  <2>12. \A id \in files \ kept :
           \/ id \in cleaning
           \/ id = candidate.id /\ candidate.file
           \/ \E e \in Items(toMain)' : e.id = id /\ e.file
    BY <2>5, <2>6 DEF Files, p, file
  <2> QED
    BY <2>1, <2>3, <2>7, <2>8, <2>9, <2>11, <2>12 DEF Files, disk
<1> QED
  BY <1>2, <1>3, <1>4, <1>5, <1>6, <1>7, <1>8 DEF WorkerLoop, ReadRecord

\* ... and of the tasks on the disk.
LEMMA TaskFiles ==
  ASSUME Types, Tokens, Files, Task \/ AbandonedCopy \/ Cleanup
  PROVE  Tokens' /\ Files'
<1>1. UNCHANGED <<creation, candidate, toMain, kept>>
  BY DEF Task, Copy, CopyTimeout, AbandonedCopy, Cleanup, frontend, worker
<1>2. Items(toMain)' = Items(toMain) /\ Distinct(toMain)'
  BY <1>1 DEF Items, Distinct, Tokens
<1>3. CASE Copy
  <2>1. /\ materializing.step = "copying" /\ materializing'.id = materializing.id
        /\ materializing'.step \in {"copied", "failed"} /\ UNCHANGED <<abandoned, cleaning>>
        /\ files' = files \cup (IF materializing'.step = "copied" THEN {materializing.id} ELSE {})
    BY <1>3 DEF Copy, Types
  <2>2. creation = 0 /\ creation' = 0 /\ materializing.id # 0
    BY <1>1, <2>1 DEF Tokens, NoTask
  <2>3. \A id : (Untouched(id)' <=> Untouched(id)) /\ (Has(id) => Has(id)')
    BY <1>1, <2>1 DEF Untouched, Has
  <2>4. Tokens'
    BY <1>1, <1>2, <2>1, <2>2 DEF Tokens
  <2>5. materializing'.step = "copied" => Has(materializing.id)'
    <3>1. Untouched(materializing.id)
      BY <2>1 DEF Files
    <3> QED
      BY <1>1, <2>1, <3>1 DEF Has, Untouched
  <2>6. kept \subseteq files'
    BY <2>1 DEF Files
  <2>8. \A id \in files' \ kept :
          \/ id \in cleaning
          \/ id = materializing'.id /\ materializing'.step = "copied"
          \/ id = candidate.id /\ candidate.file
          \/ \E e \in Items(toMain) : e.id = id /\ e.file
    BY <2>1 DEF Files
  <2> QED
    BY <1>1, <1>2, <2>1, <2>2, <2>3, <2>4, <2>5, <2>6, <2>8 DEF Files
<1>4. CASE CopyTimeout
  <2>1. /\ materializing.step = "copying" /\ materializing'.id = materializing.id
        /\ materializing'.step = "failed" /\ UNCHANGED <<files, cleaning>>
        /\ abandoned' = abandoned \cup {materializing.id}
    BY <1>4 DEF CopyTimeout, Types
  <2>2. creation = 0 /\ creation' = 0 /\ materializing.id # 0
    BY <1>1, <2>1 DEF Tokens, NoTask
  <2>3. \A id : id # materializing.id => (Untouched(id) => Untouched(id)') /\ (Has(id) => Has(id)')
    BY <1>1, <2>1 DEF Untouched, Has
  <2>4. Tokens'
    BY <1>1, <1>2, <2>1, <2>2 DEF Tokens
  <2>5. \A e \in Items(toMain) : e.file => IsPrepared(e) /\ e.outcome = "ready" /\ Has(e.id)'
    BY <2>3 DEF Files, Tokens
  <2>6. candidate.file => candidate.id # 0 /\ Has(candidate.id)'
    BY <1>1, <2>3 DEF Files, Tokens
  <2>7. kept \cap (cleaning \cup abandoned') = {}
    BY <2>1 DEF Files, Untouched
  <2> QED
    BY <1>1, <1>2, <2>1, <2>2, <2>4, <2>5, <2>6, <2>7 DEF Files
<1>5. CASE AbandonedCopy
  <2>1. PICK id \in abandoned :
          /\ abandoned' = abandoned \ {id}
          /\ files' = files \cup (IF id \in staged THEN {id} ELSE {})
          /\ cleaning' = cleaning \cup (IF id \in staged THEN {id} ELSE {})
    BY <1>5 DEF AbandonedCopy
  <2>2. UNCHANGED materializing
    BY <1>5 DEF AbandonedCopy, worker
  <2>3. \A j : Untouched(j) => Untouched(j)' /\ j # id
    BY <1>1, <2>1 DEF Untouched
  <2>4. \A j : Has(j) => Has(j)'
    BY <2>1, <2>3 DEF Has
  <2>5. Tokens'
    BY <1>1, <1>2, <2>2 DEF Tokens
  <2>6. kept \subseteq files' /\ kept \cap (cleaning' \cup abandoned') = {}
    BY <2>1 DEF Files
  <2>7. /\ creation # 0 => Untouched(creation)' /\ creation \notin files'
        /\ materializing.step \in {"copying", "unsaved"} =>
             Untouched(materializing.id)' /\ materializing.id \notin files'
    BY <1>1, <2>1, <2>2, <2>3 DEF Files
  <2>8. \A j \in files' \ kept :
          \/ j \in cleaning'
          \/ j = materializing.id /\ materializing.step = "copied"
          \/ j = candidate.id /\ candidate.file
          \/ \E e \in Items(toMain) : e.id = j /\ e.file
    BY <2>1 DEF Files
  <2>9. \A e \in Items(toMain) : e.file => IsPrepared(e) /\ e.outcome = "ready" /\ Has(e.id)'
    BY <2>4 DEF Files
  <2>10. /\ candidate.file => candidate.id # 0 /\ Has(candidate.id)'
         /\ materializing.step = "copied" => Has(materializing.id)'
    BY <1>1, <2>2, <2>4 DEF Files
  <2> QED
    BY <1>1, <1>2, <2>2, <2>5, <2>6, <2>7, <2>8, <2>9, <2>10 DEF Files
<1>6. CASE Cleanup
  <2>1. PICK id \in cleaning : cleaning' = cleaning \ {id} /\ files' = files \ {id}
    BY <1>6 DEF Cleanup
  <2>2. UNCHANGED <<materializing, abandoned>>
    BY <1>6 DEF Cleanup, worker
  <2>3. \A j : Untouched(j) => Untouched(j)' /\ j # id
    BY <1>1, <2>1, <2>2 DEF Untouched
  <2>4. \A j : Has(j) => Has(j)'
    BY <2>1, <2>3 DEF Has
  <2>5. Tokens'
    BY <1>1, <1>2, <2>2 DEF Tokens
  <2>6. kept \subseteq files' /\ kept \cap (cleaning' \cup abandoned') = {}
    BY <2>1, <2>2 DEF Files
  <2>7. /\ creation # 0 => Untouched(creation)' /\ creation \notin files'
        /\ materializing.step \in {"copying", "unsaved"} =>
             Untouched(materializing.id)' /\ materializing.id \notin files'
    BY <1>1, <2>1, <2>2, <2>3 DEF Files
  <2>8. \A j \in files' \ kept :
          \/ j \in cleaning'
          \/ j = materializing.id /\ materializing.step = "copied"
          \/ j = candidate.id /\ candidate.file
          \/ \E e \in Items(toMain) : e.id = j /\ e.file
    BY <2>1 DEF Files
  <2>9. \A e \in Items(toMain) : e.file => IsPrepared(e) /\ e.outcome = "ready" /\ Has(e.id)'
    BY <2>4 DEF Files
  <2>10. /\ candidate.file => candidate.id # 0 /\ Has(candidate.id)'
         /\ materializing.step = "copied" => Has(materializing.id)'
    BY <1>1, <2>2, <2>4 DEF Files
  <2> QED
    BY <1>1, <1>2, <2>2, <2>5, <2>6, <2>7, <2>8, <2>9, <2>10 DEF Files
<1> QED
  BY <1>3, <1>4, <1>5, <1>6 DEF Task

LEMMA FilesStep == Types /\ FrontendInv /\ Fresh /\ Tokens /\ Files /\ [Next]_vars => Tokens' /\ Files'
<1>1. ASSUME Tokens, Files, Companion \/ Operation \/ Replace \/ AnswerState \/ UNCHANGED vars
      PROVE  Tokens' /\ Files'
  <2>1. UNCHANGED <<candidate, materializing, toMain, kept, cleaning, abandoned, files, creation>>
    BY <1>1 DEF Companion, Handle, HandleCancel, Operation, Discard, Select, Stage, Snapshot, Finish, Replace,
         AnswerState, pie, vars, frontend, worker, disk
  <2> QED
    BY <1>1, <2>1, SameFiles
<1> QED
  BY <1>1, FrontendFiles, WorkerFiles, TaskFiles DEF Next

-----------------------------------------------------------------------------
\* What the results for the reservation say of the session they were made of.
Between(seed) == shown <= seed /\ seed <= piSession
MainSeeds ==
  /\ candidate.id # 0 => Between(candidate.seed)
  /\ pending # 0 =>
       /\ \A e \in Items(toMain) : e.outcome = "ready" /\ e.id = pending => Between(e.seed)
       /\ materializing.id = pending => Between(materializing.seed)

LEMMA SeedsInit == Init => MainSeeds
BY DEF Init, MainSeeds, NoCandidate

LEMMA MainSeedsStep ==
  Types /\ FrontendInv /\ Lines /\ Fresh /\ Tokens /\ MainSeeds /\ [Next]_vars => MainSeeds'
<1> SUFFICES ASSUME Types, FrontendInv, Lines, Fresh, Tokens, MainSeeds, [Next]_vars
             PROVE  MainSeeds'
  OBVIOUS
<1>1. toMain \in Seq(Events) /\ pending \in Nat /\ reserved \in Nat /\ piSession \in Nat
  BY DEF Types, FrontendInv
<1>2. {"failed", "cancelled", "ready", "none"} = Outcomes
  BY DEF Outcomes
<1>3. NoCandidate.id = 0 /\ NoTask.id = 0
  BY DEF NoCandidate, NoTask
<1>4. CancelSide => pending' = 0 /\ candidate'.id = 0
  BY <1>3 DEF CancelSide
<1>5. ASSUME pending' = 0, candidate'.id = 0 PROVE MainSeeds'
  BY <1>5 DEF MainSeeds
<1>6. UNCHANGED toMain => Items(toMain)' = Items(toMain)
  BY DEF Items
<1>7. ASSUME UNCHANGED <<shown, piSession, candidate, pending>>, materializing' \in {materializing, NoTask},
             \A e \in Items(toMain)' : e \in Items(toMain)
               \/ (e.outcome = "ready" /\ e.id = pending /\ pending # 0 => Between(e.seed))
      PROVE  MainSeeds'
  BY <1>3, <1>7 DEF MainSeeds, Between
<1>8. CASE Create
  <2>1. UNCHANGED <<candidate, shown, piSession, toMain, materializing>> /\ pending = 0 /\ reserved' = reserved + 1
    BY <1>8 DEF Create, worker, companion
  <2>2. pending' \in {0, reserved + 1}
    BY <1>8, <2>1 DEF Create
  <2>3. reserved + 1 \notin Seen
    <3>1. Seen \subseteq 0..reserved
      BY DEF Fresh
    <3> QED
      BY <1>1, <3>1
  <2>4. materializing.id # reserved + 1 /\ \A e \in Items(toMain) : e.id # reserved + 1
    BY <2>3 DEF Seen, Holders, IdsOf, Items
  <2> QED
    BY <1>6, <2>1, <2>2, <2>4 DEF MainSeeds, Between
<1>9. CASE Escape \/ CandidateFailed
  BY <1>4, <1>5, <1>9 DEF Escape, CandidateFailed
<1>10. CASE Close
  BY <1>6, <1>7, <1>10 DEF Close, worker, companion
<1>11. CASE CandidateReady
  BY <1>3, <1>5, <1>11 DEF CandidateReady, CommittedCandidate
<1>12. CASE OnPrepared
  <2> DEFINE e == Head(toMain)
  <2>1. /\ toMain # <<>> /\ toMain' = Tail(toMain) /\ IsPrepared(e)
        /\ UNCHANGED <<shown, piSession, materializing>>
    BY <1>12 DEF OnPrepared, NextEvent, IsPrepared, worker, companion
  <2>2. e \in Items(toMain) /\ Items(toMain) = Items(toMain)' \cup {e}
    BY <2>1, MainRead
  <2> HIDE DEF e
  <2>3. CASE Stale(e)
    <3>1. UNCHANGED <<pending, candidate>>
      BY <1>12, <2>3 DEF OnPrepared, e
    <3> QED
      BY <1>7, <2>1, <2>2, <3>1
  <2>4. CASE ~Stale(e) /\ e.outcome = "ready"
    <3>1. candidate' = [id |-> e.id, seed |-> e.seed, file |-> e.file] /\ UNCHANGED pending
      BY <1>12, <2>4 DEF OnPrepared, e
    <3>2. candidate'.seed = e.seed
      BY <3>1
    <3>3. e.id # 0 /\ e.id = pending
      BY <2>1, <2>2, <2>4 DEF Tokens, Stale
    <3>4. Between(e.seed)
      BY <2>2, <2>4, <3>3 DEF MainSeeds
    <3> QED
      BY <2>1, <2>2, <3>1, <3>2, <3>4 DEF MainSeeds, Between
  <2>5. CASE ~Stale(e) /\ e.outcome # "ready"
    <3>1. CancelSide
      BY <1>12, <2>5 DEF OnPrepared, e
    <3> QED
      BY <1>4, <1>5, <3>1
  <2> QED
    BY <2>3, <2>4, <2>5
<1>13. CASE OnAttached
  <2>1. toMain # <<>> /\ IsAttached(Head(toMain)) /\ shown' = Head(toMain).seed
    BY <1>13 DEF OnAttached, NextEvent, IsAttached
  <2>2. shown # shown'
    <3>1. shown < shown' /\ shown \in Nat
      BY <2>1, ReadLines DEF Types
    <3> QED
      BY <3>1
  <2>3. pending # 0 => CancelSide
    BY <1>13, <2>2 DEF OnAttached, Lines
  <2>4. pending = 0 => UNCHANGED <<pending, candidate>> /\ candidate.id = 0
    BY <1>13 DEF OnAttached, FrontendInv
  <2> QED
    BY <1>4, <1>5, <2>3, <2>4
<1>14. ASSUME UNCHANGED <<pending, candidate, shown, piSession>>, NEW id \in Nat, NEW outcome \in Outcomes,
              NEW seed \in Nat, NEW file \in BOOLEAN, toMain' = Append(toMain, Prepared(id, outcome, seed, file)),
              outcome = "ready" /\ id = pending /\ pending # 0 => Between(seed),
              materializing' \in {materializing, NoTask}
       PROVE  MainSeeds'
  <2> DEFINE p == Prepared(id, outcome, seed, file)
  <2>1. p \in Events /\ p.id = id /\ p.seed = seed /\ p.outcome = outcome
    BY Written DEF Prepared
  <2> HIDE DEF p
  <2>2. Items(toMain)' = Items(toMain) \cup {p}
    <3>1. Items(toMain)' = Items(Append(toMain, p))
      BY <1>14 DEF Items, p
    <3> QED
      BY <1>1, <2>1, <3>1, ItemsWritten
  <2>3. p.outcome = "ready" /\ p.id = pending /\ pending # 0 => Between(p.seed)
    BY <1>14, <2>1
  <2> QED
    BY <1>7, <1>14, <2>2, <2>3
<1>15. creation \in Nat /\ materializing.id \in Nat /\ materializing.seed \in Nat
  BY DEF Types
<1>16. CASE ReadRequest
  <2>1. \/ toMain' = toMain
        \/ preparations # <<>> /\ toMain' = Append(toMain, Prepared(Head(preparations).id, "failed", 0, FALSE))
    BY <1>16 DEF ReadRequest, Publish
  <2>2. preparations # <<>> => Head(preparations).id \in Nat
    BY Taken DEF Requests
  <2>3. UNCHANGED <<pending, candidate, shown, piSession, materializing>>
    BY <1>16 DEF ReadRequest, frontend, companion
  <2> QED
    BY <1>2, <1>6, <1>7, <1>14, <2>1, <2>2, <2>3
<1>17. CASE ReadCancellation \/ Deadline
  <2>1. \/ toMain' = toMain
        \/ toMain' = Append(toMain, Prepared(creation, "cancelled", 0, FALSE))
        \/ toMain' = Append(toMain, Prepared(creation, "failed", 0, FALSE))
    BY <1>17 DEF ReadCancellation, Deadline, Publish
  <2>2. UNCHANGED <<pending, candidate, shown, piSession, materializing>>
    BY <1>17 DEF ReadCancellation, Deadline, frontend, companion
  <2> QED
    BY <1>2, <1>6, <1>7, <1>14, <1>15, <2>1, <2>2
<1>18. CASE ReadProgress
  BY <1>6, <1>7, <1>18 DEF ReadProgress, frontend, companion
<1>19. CASE ReadOutcome
  <2> DEFINE r == Head(fromPi)
  <2>1. fromPi # <<>> /\ Answers(r) /\ UNCHANGED <<pending, candidate, shown, piSession>>
    BY <1>19 DEF ReadOutcome, NextRecord, frontend, companion
  <2>2. r \in Records
    BY <2>1, Taken
  <2>3. r.kind \in Outcomes
    BY <1>19, <2>2 DEF ReadOutcome, Records, RecordKinds, Outcomes, Answers
  <2>4. \/ UNCHANGED <<materializing, toMain>>
        \/ /\ ~Ready(r) /\ UNCHANGED materializing
           /\ toMain' = Append(toMain, Prepared(creation, r.kind, 0, FALSE))
        \/ /\ Ready(r) /\ UNCHANGED toMain
           /\ materializing' = [id |-> creation, seed |-> r.seed,
                                step |-> IF r.persisted THEN "copying" ELSE "unsaved"]
    BY <1>19 DEF ReadOutcome, Publish
  <2>5. CASE UNCHANGED <<materializing, toMain>>
    BY <1>6, <1>7, <2>1, <2>5
  <2>6. CASE /\ ~Ready(r) /\ UNCHANGED materializing
             /\ toMain' = Append(toMain, Prepared(creation, r.kind, 0, FALSE))
    <3>1. r.kind # "ready"
      BY <2>6 DEF Ready
    <3> QED
      BY <1>14, <1>15, <2>1, <2>3, <2>6, <3>1
  <2>7. CASE /\ Ready(r) /\ UNCHANGED toMain
             /\ materializing' = [id |-> creation, seed |-> r.seed,
                                  step |-> IF r.persisted THEN "copying" ELSE "unsaved"]
    <3>1. native <= r.seed /\ r.seed <= piSession
      <4>1. Tells(r)
        BY <2>7 DEF Ready, Tells
      <4> QED
        BY <2>1, <4>1, ReadLines
    <3>2. shown <= native
      BY DEF Lines, Line
    <3>3. Between(r.seed)
      <4>1. shown \in Nat /\ native \in Nat /\ r.seed \in Nat
        BY <2>2 DEF Types, Records
      <4> QED
        BY <3>1, <3>2, <4>1 DEF Between
    <3>4. materializing'.seed = r.seed
      BY <2>7
    <3> HIDE DEF r
    <3> QED
      BY <1>6, <2>1, <2>7, <3>3, <3>4 DEF MainSeeds, Between
  <2> QED
    BY <2>4, <2>5, <2>6, <2>7
<1>20. CASE ReadState
  <2> DEFINE a == AttachedEvent(Head(fromPi).seed)
             t == Told(creation)
             p == Prepared(creation, "cancelled", 0, FALSE)
  <2>1. UNCHANGED <<pending, candidate, shown, piSession, materializing>>
    BY <1>20 DEF ReadState, frontend, companion
  <2>2. t \in Seq(Events) /\ a \in Events /\ toMain' = Append(t, a)
    BY <1>20, AttachedTold
  <2>3. p \in Events /\ p.outcome = "cancelled"
    BY <1>2, <1>15, Written DEF Prepared
  <2>4. t = toMain \/ t = Append(toMain, p)
    BY DEF Told
  <2>5. a.outcome = "none"
    BY DEF AttachedEvent
  <2> HIDE DEF a, t, p
  <2>6. Items(t) \subseteq Items(toMain) \cup {p}
    <3>1. toMain \in Seq(Events)
      BY <1>1 DEF Types
    <3>2. Items(Append(toMain, p)) = Items(toMain) \cup {p}
      BY <2>3, <3>1, ItemsWritten
    <3> QED
      BY <2>4, <3>2
  <2>7. Items(toMain)' = Items(t) \cup {a}
    <3>1. Items(toMain)' = Items(Append(t, a))
      BY <2>2 DEF Items
    <3> QED
      BY <2>2, <3>1, ItemsWritten
  <2> QED
    BY <1>7, <2>1, <2>3, <2>5, <2>6, <2>7
<1>21. CASE Materialized
  <2> DEFINE file == materializing.step = "copied"
             outcome == IF materializing.step = "failed" THEN "failed" ELSE "ready"
  <2>1. /\ UNCHANGED <<pending, candidate, shown, piSession>> /\ materializing' = NoTask
        /\ toMain' = Append(toMain, Prepared(materializing.id, outcome, materializing.seed, file))
    BY <1>21 DEF Materialized, frontend, companion, Publish
  <2>2. materializing.id = pending /\ pending # 0 => Between(materializing.seed)
    BY DEF MainSeeds
  <2>3. file \in BOOLEAN /\ outcome \in Outcomes
    BY <1>2
  <2> HIDE DEF file, outcome
  <2> QED
    BY <1>14, <1>15, <2>1, <2>2, <2>3
<1>22. CASE Task \/ AbandonedCopy \/ Cleanup
  <2>1. UNCHANGED <<pending, candidate, shown, piSession, toMain>>
    BY <1>22 DEF Task, Copy, CopyTimeout, AbandonedCopy, Cleanup, frontend, companion
  <2>2. materializing'.id = materializing.id /\ materializing'.seed = materializing.seed
    BY <1>22 DEF Task, Copy, CopyTimeout, AbandonedCopy, Cleanup, worker, Types
  <2> QED
    BY <1>6, <2>1, <2>2 DEF MainSeeds, Between
<1>23. CASE Companion \/ Operation \/ AnswerState \/ UNCHANGED vars
  <2>1. UNCHANGED <<pending, candidate, shown, piSession, toMain, materializing>>
    BY <1>23 DEF Companion, Handle, HandleCancel, Operation, Discard, Select, Stage, Snapshot, Finish, AnswerState,
         companion, pie, vars, frontend, worker
  <2> QED
    BY <1>6, <1>7, <2>1
<1>24. CASE Replace
  <2>1. UNCHANGED <<pending, candidate, shown, toMain, materializing>> /\ piSession' = piSession + 1
    BY <1>24 DEF Replace, pie, frontend, worker
  <2>2. \A seed \in Nat : Between(seed) => Between(seed)'
    BY <1>1, <2>1 DEF Between
  <2>3. candidate.seed \in Nat /\ \A e \in Items(toMain) : e.seed \in Nat
    <3>1. candidate.seed \in Nat /\ toMain \in Seq(Events)
      BY <1>1 DEF Types
    <3>2. \A i \in DOMAIN toMain : toMain[i] \in Events
      BY <3>1
    <3>3. \A e \in Items(toMain) : e \in Events
      BY <3>2 DEF Items
    <3> QED
      BY <3>1, <3>3 DEF Events
  <2> QED
    BY <1>6, <1>15, <2>1, <2>2, <2>3 DEF MainSeeds
<1> QED
  BY <1>8, <1>9, <1>10, <1>11, <1>12, <1>13, <1>16, <1>17, <1>18, <1>19, <1>20, <1>21, <1>22, <1>23, <1>24
     DEF Next, User, OnEvent, Candidate, WorkerLoop, ReadRecord

\* Files of side sessions are neither leaked nor removed under a session that
\* was attached, and a candidate starts on a snapshot of the session the user saw
\* when asking, or of one Pi has gone to since of which the frontend has not been
\* told: PreparedSideFile of side.rs, its owners in session_worker.rs and
\* sessions.rs, and the crossing of requests, cancellations, session changes and
\* results between them.
THEOREM FilesKeptHolds == Spec => []FilesKept
<1> DEFINE Inv == Types /\ FrontendInv /\ WorkerInv /\ Lines /\ Fresh /\ Tokens /\ Files /\ MainSeeds
<1>1. Init => Inv
  BY TypesInit, FrontendInit, WorkerInit, LinesInit, FreshInit, FilesInit, SeedsInit
<1>2. Inv /\ [Next]_vars => Inv'
  BY TypesStep, FrontendStep, WorkerStep, LinesStep, FreshStep, FilesStep, MainSeedsStep
<1>3. Inv => FilesKept
  <2>1. Types /\ Lines /\ MainSeeds /\ FrontendInv => SnapshotOfSource
    BY DEF Types, Lines, MainSeeds, Between, FrontendInv, SnapshotOfSource
  <2> QED
    BY <2>1, FilesOwned DEF FilesKept
<1> HIDE DEF Inv
<1> QED
  BY <1>1, <1>2, <1>3, PTL DEF Spec
=============================================================================
