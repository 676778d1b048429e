---------------------------- MODULE SideSession ----------------------------
(***************************************************************************)
(* Preparing a side session: the frontend reserves a slot                  *)
(* (e-tui/src/runtime/sessions.rs, e-pi/src/workspace_runner.rs), the      *)
(* worker of the source conversation asks its Pi for a snapshot and makes  *)
(* a session file of it (session_worker.rs, side.rs), a companion in Pi    *)
(* takes the snapshot (side_companion.mjs), and a candidate conversation   *)
(* starts on the file.                                                     *)
(*                                                                         *)
(* Four parties run side by side: the frontend loop; the worker loop, with *)
(* a copying task it may abandon; and the companion, whose handlers are    *)
(* interleaved at every await.  Requests, cancellations and results cross. *)
(*                                                                         *)
(* A creation is named by the identity reserved for its session.  There is *)
(* one source conversation; the candidate's own start is a success or a    *)
(* failure.  Pi may be in another session of that conversation before the  *)
(* adapter has read so, and before the frontend has been told.             *)
(***************************************************************************)
EXTENDS Integers, Sequences, FiniteSets

CONSTANTS
  MaxCreations,   \* bound: side sessions asked for
  MaxSessions     \* bound: native sessions the source conversation goes through

ASSUME BoundsAssumption == MaxCreations \in Nat /\ MaxSessions \in Nat \ {0}

VARIABLES
  \* the frontend: reservations made, the reservation, the identity of the
  \* source at that time, the candidate's conversation, the open side session
  reserved, pending, expected, candidate, side,
  shown,          \* the source's native session, as the frontend knows it
  \* the worker
  preparations,   \* the requests it has not read; a channel of one
  cancellation, cancelSeen,   \* the watch channel: its value, and whether it was read
  creation, control,          \* what it prepares; SideSessionControl
  materializing,              \* the task that makes the file
  native,                     \* the session, as the adapter knows it
  \* channels
  toPi, fromPi, toMain,
  \* the companion in Pi
  operation,      \* the operation under way
  artifacts,      \* identities with a staging directory on record
  piSession,
  \* files
  staged,         \* staging directories that hold a snapshot
  files,          \* session files in the native directory
  kept,           \* those a session was attached to
  abandoned,      \* copies that go on after the worker gave up on them
  cleaning,       \* files a cleanup task is to remove
  cancelled       \* history: creations the frontend called off

frontend  == <<reserved, pending, expected, candidate, side, shown>>
inbox     == <<preparations, cancellation, cancelSeen>>
worker    == <<creation, control, materializing, native>>
companion == <<operation, artifacts, piSession>>
disk      == <<staged, files, kept, abandoned, cleaning>>
vars      == <<frontend, inbox, worker, toPi, fromPi, toMain, companion, disk, cancelled>>

-----------------------------------------------------------------------------
Creations == 1..MaxCreations
Sessions  == 1..MaxSessions
SideKinds == {"new", "fork"}

NoControl   == [id |-> 0, source |-> 0, timed |-> FALSE]
NoTask      == [id |-> 0, step |-> "none", seed |-> 0]
NoOperation == [id |-> 0, kind |-> "new", step |-> "none", aborted |-> FALSE, source |-> 0]
NoCandidate == [id |-> 0, seed |-> 0, file |-> FALSE]

\* SidePrepared; `seed` is the native session the snapshot was taken of
Prepared(id, outcome, seed, file) ==
  [kind |-> "prepared", id |-> id, outcome |-> outcome, seed |-> seed, file |-> file]
Publish(event) == toMain' = Append(toMain, event)

-----------------------------------------------------------------------------
(* The frontend *)

CancelSideOnly ==
  /\ pending' = 0 /\ expected' = 0
  /\ cancelled' = cancelled \cup {pending}
  /\ candidate' = NoCandidate
  /\ UNCHANGED cleaning
\* SessionWorkspace::cancel_side, with the candidate shut down and its file cleaned
CancelSide ==
  /\ pending' = 0 /\ expected' = 0
  /\ cancelled' = cancelled \cup {pending}
  /\ candidate' = NoCandidate
  /\ cleaning' = IF candidate.file THEN cleaning \cup {candidate.id} ELSE cleaning

\* SessionWorker::cancel_side replaces what the watch holds.
TellWorker == cancellation' = pending /\ cancelSeen' = FALSE

\* /side: reserve, and hand the request to the source's worker.
Create ==
  /\ side = 0 /\ pending = 0
  /\ reserved < MaxCreations
  /\ reserved' = reserved + 1
  /\ \E kind \in SideKinds :
       IF preparations = <<>>
         THEN /\ preparations' = <<[id |-> reserved', kind |-> kind]>>
              /\ pending' = reserved' /\ expected' = shown
              /\ UNCHANGED cancelled
         ELSE cancelled' = cancelled \cup {reserved'} /\ UNCHANGED <<preparations, pending, expected>>
  /\ UNCHANGED <<candidate, side, shown, cancellation, cancelSeen, worker, toPi, fromPi, toMain,
                 companion, disk>>

\* Escape
Escape ==
  /\ pending # 0
  /\ CancelSide /\ TellWorker
  /\ UNCHANGED <<reserved, side, shown, preparations, worker, toPi, fromPi, toMain, companion,
                 staged, files, kept, abandoned>>

Close ==
  /\ side # 0
  /\ side' = 0
  /\ UNCHANGED <<reserved, pending, expected, candidate, shown, inbox, worker, toPi, fromPi, toMain,
                 companion, disk, cancelled>>

NextEvent(kind) == toMain # <<>> /\ Head(toMain).kind = kind /\ toMain' = Tail(toMain)

\* A result: a stale one is only cleaned up; a snapshot starts the candidate.
StaleIdle(e) == pending = 0
Stale(e) == pending # e.id
OnPrepared ==
  LET e == Head(toMain) IN
    /\ NextEvent("prepared")
    /\ CASE Stale(e) ->
              /\ cleaning' = IF e.file THEN cleaning \cup {e.id} ELSE cleaning
              /\ UNCHANGED <<pending, expected, candidate, cancelled>>
         [] ~Stale(e) /\ e.outcome = "ready" ->
              /\ candidate' = [id |-> e.id, seed |-> e.seed, file |-> e.file]
              /\ UNCHANGED <<pending, expected, cancelled, cleaning>>
         [] OTHER -> CancelSide
    /\ UNCHANGED <<reserved, side, shown, inbox, worker, toPi, fromPi, companion, staged, files,
                   kept, abandoned>>

\* The source conversation was given another session: the reservation is void.
OnAttached ==
  /\ NextEvent("attached")
  /\ shown' = Head(toMain).seed
  /\ IF pending # 0 /\ expected # shown'
       THEN CancelSide /\ TellWorker
       ELSE UNCHANGED <<pending, expected, candidate, cancelled, cleaning, cancellation, cancelSeen>>
  /\ UNCHANGED <<reserved, side, preparations, worker, toPi, fromPi, companion, staged, files, kept,
                 abandoned>>

\* The artifact is committed: the conversation no longer removes it.
UncommittedCandidate == candidate
CommittedCandidate == NoCandidate

\* finish_side, once state, history and catalogs of the candidate are there ...
CandidateReady ==
  /\ candidate.id # 0 /\ pending = candidate.id /\ side = 0
  /\ pending' = 0 /\ expected' = 0
  /\ side' = candidate.id
  /\ kept' = IF candidate.file THEN kept \cup {candidate.id} ELSE kept
  /\ candidate' = CommittedCandidate
  /\ UNCHANGED <<reserved, shown, inbox, worker, toPi, fromPi, toMain, companion, staged, files,
                 abandoned, cleaning, cancelled>>

\* ... or its start failed.
CandidateFailed ==
  /\ candidate.id # 0
  /\ CancelSide
  /\ UNCHANGED <<reserved, side, shown, inbox, worker, toPi, fromPi, toMain, companion, staged,
                 files, kept, abandoned>>

-----------------------------------------------------------------------------
(* The worker of the source conversation *)

Begin(r)   == [verb |-> "prepare", id |-> r.id, kind |-> r.kind]
CancelOf(id) == [verb |-> "cancel", id |-> id, kind |-> "new"]

CancelControlKept ==
  /\ toPi' = IF control.id # 0 THEN Append(toPi, CancelOf(control.id)) ELSE toPi
  /\ UNCHANGED control
\* SideSessionControl::cancel_command
CancelControl ==
  /\ control' = NoControl
  /\ toPi' = IF control.id # 0 THEN Append(toPi, CancelOf(control.id)) ELSE toPi

\* preparations.recv and prepare_side
ReadRequest ==
  LET r == Head(preparations) IN
    /\ preparations # <<>> /\ materializing = NoTask
    /\ preparations' = Tail(preparations)
    /\ CASE cancellation = r.id -> UNCHANGED <<creation, control, toPi, toMain>>
         [] cancellation # r.id /\ control # NoControl ->
              Publish(Prepared(r.id, "failed", 0, FALSE)) /\ UNCHANGED <<creation, control, toPi>>
         [] OTHER ->
              /\ creation' = r.id
              /\ control' = [id |-> r.id, source |-> native, timed |-> TRUE]
              /\ toPi' = Append(toPi, Begin(r))
              /\ UNCHANGED toMain
    /\ UNCHANGED <<frontend, cancellation, cancelSeen, materializing, native, fromPi, companion,
                   disk, cancelled>>

\* cancellation.changed
ReadCancellation ==
  /\ ~cancelSeen
  /\ cancelSeen' = TRUE
  /\ IF creation # 0 /\ cancellation = creation
       THEN /\ CancelControl
            /\ creation' = 0
            /\ Publish(Prepared(creation, "cancelled", 0, FALSE))
       ELSE UNCHANGED <<control, creation, toPi, toMain>>
  /\ UNCHANGED <<frontend, preparations, cancellation, materializing, native, fromPi, companion,
                 disk, cancelled>>

\* The preparation took 20 seconds; never while the user selects.
Deadline ==
  /\ control.timed
  /\ CancelControl
  /\ creation' = 0
  /\ toMain' = IF creation # 0 THEN Append(toMain, Prepared(creation, "failed", 0, FALSE)) ELSE toMain
  /\ UNCHANGED <<frontend, inbox, materializing, native, fromPi, companion, disk, cancelled>>

\* SideSessionControl::record: only what answers the request counts.
NextRecord == fromPi # <<>> /\ fromPi' = Tail(fromPi)
Answers(r) == r.kind # "state" /\ r.id = control.id /\ control.id # 0
Ready(r)   == r.kind = "ready"

TimedNever(r) == FALSE
Timed(r) == r.kind = "preparing"
ReadProgress ==
  LET r == Head(fromPi) IN
    /\ NextRecord
    /\ r.kind # "state"
    /\ Answers(r) => r.kind \in {"selecting", "preparing"}
    /\ control' = IF Answers(r) THEN [control EXCEPT !.timed = Timed(r)] ELSE control
    /\ UNCHANGED <<frontend, inbox, creation, materializing, native, toPi, toMain, companion, disk,
                   cancelled>>

\* The outcome: a snapshot is made a session file, in a task of its own.
ReadOutcome ==
  LET r == Head(fromPi) IN
    /\ NextRecord
    /\ Answers(r) /\ r.kind \notin {"selecting", "preparing"}
    /\ control' = NoControl
    /\ creation' = 0
    /\ CASE creation # 0 /\ Ready(r) ->
              /\ materializing' = [id |-> creation, seed |-> r.seed,
                                   step |-> IF r.persisted THEN "copying" ELSE "unsaved"]
              /\ UNCHANGED toMain
         [] creation # 0 /\ ~Ready(r) ->
              Publish(Prepared(creation, r.kind, 0, FALSE)) /\ UNCHANGED materializing
         [] OTHER -> UNCHANGED <<materializing, toMain>>
    /\ UNCHANGED <<frontend, inbox, native, toPi, companion, disk, cancelled>>

\* session::state_response on another session than the adapter knew: what is
\* prepared is void, and the frontend is told of the session.
ReadState ==
  LET r == Head(fromPi) IN
    /\ NextRecord
    /\ r.kind = "state"
    /\ native' = r.seed
    /\ CancelControl
    /\ creation' = 0
    /\ toMain' = toMain
         \o (IF creation # 0 THEN <<Prepared(creation, "cancelled", 0, FALSE)>> ELSE <<>>)
         \o <<[kind |-> "attached", id |-> 0, outcome |-> "none", seed |-> r.seed, file |-> FALSE]>>
    /\ UNCHANGED <<frontend, inbox, materializing, companion, disk, cancelled>>

\* PreparedSideFile::materialize, on a blocking thread: the snapshot is copied
\* and its staging directory removed, also when the copy failed; only what was
\* refused before (no directory to go to, none of ours to come from) is left.
Copy ==
  /\ materializing.step = "copying"
  /\ \/ /\ materializing.id \in staged
        /\ staged' = staged \ {materializing.id}
        /\ files' = files \cup {materializing.id}
        /\ materializing' = [materializing EXCEPT !.step = "copied"]
     \/ /\ staged' \in {staged, staged \ {materializing.id}}
        /\ materializing' = [materializing EXCEPT !.step = "failed"]
        /\ UNCHANGED files
  /\ UNCHANGED <<frontend, inbox, creation, control, native, toPi, fromPi, toMain, companion, kept,
                 abandoned, cleaning, cancelled>>

\* 15 seconds are over: the task reports failure, the thread goes on.
CopyTimeout ==
  /\ materializing.step = "copying"
  /\ materializing' = [materializing EXCEPT !.step = "failed"]
  /\ abandoned' = abandoned \cup {materializing.id}
  /\ UNCHANGED <<frontend, inbox, creation, control, native, toPi, fromPi, toMain, companion,
                 staged, files, kept, cleaning, cancelled>>

\* What an abandoned copy returns is dropped, which removes the file.
AbandonedCopy ==
  \E id \in abandoned :
    /\ abandoned' = abandoned \ {id}
    /\ staged' = staged \ {id}
    /\ IF id \in staged
         THEN files' = files \cup {id} /\ cleaning' = cleaning \cup {id}
         ELSE UNCHANGED <<files, cleaning>>
    /\ UNCHANGED <<frontend, inbox, worker, toPi, fromPi, toMain, companion, kept, cancelled>>

\* materializations.join_next
Materialized ==
  /\ materializing.step \in {"copied", "unsaved", "failed"}
  /\ Publish(Prepared(materializing.id, IF materializing.step = "failed" THEN "failed" ELSE "ready",
                      materializing.seed, materializing.step = "copied"))
  /\ materializing' = NoTask
  /\ UNCHANGED <<frontend, inbox, creation, control, native, toPi, fromPi, companion, disk, cancelled>>

Cleanup ==
  \E id \in cleaning :
    /\ cleaning' = cleaning \ {id}
    /\ files' = files \ {id}
    /\ UNCHANGED <<frontend, inbox, worker, toPi, fromPi, toMain, companion, staged, kept,
                   abandoned, cancelled>>

-----------------------------------------------------------------------------
(* The companion in Pi *)

Status(id, kind, seed, persisted) == [kind |-> kind, id |-> id, seed |-> seed, persisted |-> persisted]
Say(id, kind) == fromPi' = Append(fromPi, Status(id, kind, 0, FALSE))
pie == <<frontend, inbox, worker, toMain, files, kept, abandoned, cleaning, cancelled>>

NextCommand(verb) == toPi # <<>> /\ Head(toPi).verb = verb /\ toPi' = Tail(toPi)

\* A request; an operation under way, or Pi itself, may refuse it.
Handle ==
  LET r == Head(toPi) IN
    /\ NextCommand("prepare")
    /\ \/ Say(r.id, "failed") /\ UNCHANGED operation
       \/ /\ operation = NoOperation
          /\ operation' = [id |-> r.id, kind |-> r.kind, step |-> "discarding", aborted |-> FALSE,
                           source |-> 0]
          /\ UNCHANGED fromPi
    /\ UNCHANGED <<pie, artifacts, piSession, staged>>

\* A cancellation aborts its operation and discards what it left.
HandleCancel ==
  LET r == Head(toPi) IN
    /\ NextCommand("cancel")
    /\ operation' = IF operation.id = r.id THEN [operation EXCEPT !.aborted = TRUE] ELSE operation
    /\ artifacts' = artifacts \ {r.id}
    /\ staged' = IF r.id \in artifacts THEN staged \ {r.id} ELSE staged
    /\ UNCHANGED <<pie, piSession, fromPi>>

\* Discard what earlier operations left, then let the user select, or go on.
Discard ==
  /\ operation.step = "discarding"
  /\ artifacts' = {} /\ staged' = staged \ artifacts
  /\ operation' = [operation EXCEPT !.source = piSession,
                      !.step = IF operation.kind = "fork" THEN "selecting" ELSE "staging"]
  /\ Say(operation.id, IF operation.kind = "fork" THEN "selecting" ELSE "preparing")
  /\ UNCHANGED <<pie, toPi, piSession>>

\* The selection ends; aborted, or by the user, without a choice or with one.
Select ==
  /\ operation.step = "selecting"
  /\ \/ /\ operation' = [operation EXCEPT !.step = "ending"]
        /\ Say(operation.id, "cancelled")
     \/ IF piSession # operation.source
          THEN operation' = [operation EXCEPT !.step = "failing"] /\ UNCHANGED fromPi
          ELSE operation' = [operation EXCEPT !.step = "staging"] /\ Say(operation.id, "preparing")
  /\ UNCHANGED <<pie, toPi, artifacts, piSession, staged>>

\* The staging directory is there.
Stage ==
  /\ operation.step = "staging"
  /\ artifacts' = artifacts \cup {operation.id}
  /\ staged' = staged \cup {operation.id}
  /\ IF operation.aborted
       THEN operation' = [operation EXCEPT !.step = "ending"] /\ Say(operation.id, "cancelled")
       ELSE operation' = [operation EXCEPT !.step = "snapshot"] /\ UNCHANGED fromPi
  /\ UNCHANGED <<pie, toPi, piSession>>

\* The helper thread returns the snapshot, or fails, as it does when terminated.
Snapshot ==
  /\ operation.step = "snapshot"
  /\ \/ /\ operation' = [operation EXCEPT !.step = "failing"]
        /\ UNCHANGED <<fromPi, artifacts, staged>>
     \/ /\ operation.aborted \/ piSession # operation.source
        /\ operation' = [operation EXCEPT !.step = "ending"]
        /\ Say(operation.id, "cancelled")
        /\ UNCHANGED <<artifacts, staged>>
     \/ /\ ~operation.aborted /\ piSession = operation.source
        /\ operation' = NoOperation
        /\ \E persisted \in BOOLEAN :
             /\ artifacts' = IF persisted THEN artifacts ELSE artifacts \ {operation.id}
             /\ staged' = IF persisted THEN staged ELSE staged \ {operation.id}
             /\ fromPi' = Append(fromPi, Status(operation.id, "ready", operation.source, persisted))
  /\ UNCHANGED <<pie, toPi, piSession>>

\* finally: the staging directory goes, and the next operation may come.
Finish ==
  /\ operation.step \in {"ending", "failing"}
  /\ operation' = NoOperation
  /\ artifacts' = artifacts \ {operation.id}
  /\ staged' = IF operation.id \in artifacts THEN staged \ {operation.id} ELSE staged
  /\ IF operation.step = "failing" THEN Say(operation.id, "failed") ELSE UNCHANGED fromPi
  /\ UNCHANGED <<pie, toPi, piSession>>

\* Pi replaces the session of the source conversation -- the user asked for it,
\* or an extension did; it may shut the old one down, which discards every
\* staging directory.  The adapter learns of it by the next state it reads.
Replace ==
  /\ piSession < MaxSessions
  /\ piSession' = piSession + 1
  /\ \/ UNCHANGED <<artifacts, staged>>
     \/ artifacts' = {} /\ staged' = staged \ artifacts
  /\ UNCHANGED <<pie, toPi, fromPi, operation>>

\* Pi answers a state read with the session it is in.  The adapter sends one
\* behind every switch it had Pi make, and often besides (a ping, a prompt Pi
\* handled itself, a retry), but never because Pi has switched; the command does
\* nothing else, so that an answer may come at any time and at no certain one.
\* Answers with the session the adapter knows change nothing and are left out.
\* Bound: one answer that the worker has not read.
AnswerState ==
  /\ piSession # native
  /\ \A i \in DOMAIN fromPi : fromPi[i].kind # "state"
  /\ fromPi' = Append(fromPi, Status(0, "state", piSession, FALSE))
  /\ UNCHANGED <<pie, toPi, companion, staged>>

-----------------------------------------------------------------------------
Init ==
  /\ reserved = 0 /\ pending = 0 /\ expected = 0 /\ candidate = NoCandidate /\ side = 0 /\ shown = 1
  /\ preparations = <<>> /\ cancellation = 0 /\ cancelSeen = TRUE
  /\ creation = 0 /\ control = NoControl /\ materializing = NoTask /\ native = 1
  /\ toPi = <<>> /\ fromPi = <<>> /\ toMain = <<>>
  /\ operation = NoOperation /\ artifacts = {} /\ piSession = 1
  /\ staged = {} /\ files = {} /\ kept = {} /\ abandoned = {} /\ cleaning = {} /\ cancelled = {}

User       == Create \/ Escape \/ Close
OnEvent    == OnPrepared \/ OnAttached
Candidate  == CandidateReady \/ CandidateFailed
ReadRecord == ReadProgress \/ ReadOutcome \/ ReadState
WorkerLoop == ReadRequest \/ ReadCancellation \/ ReadRecord \/ Materialized
Task       == Copy \/ CopyTimeout
Companion  == Handle \/ HandleCancel
Operation  == Discard \/ Select \/ Stage \/ Snapshot \/ Finish

Next ==
  \/ User \/ OnEvent \/ Candidate \/ WorkerLoop \/ Deadline \/ Task \/ AbandonedCopy
  \/ Cleanup \/ Companion \/ Operation \/ Replace \/ AnswerState

Spec == Init /\ [][Next]_vars
\* The worker takes its turns among its channels at random: none is left out.
FairSpec ==
  /\ Spec
  /\ WF_vars(OnEvent) /\ WF_vars(Candidate)
  /\ WF_vars(ReadRequest) /\ WF_vars(ReadCancellation) /\ WF_vars(ReadRecord)
  /\ WF_vars(Materialized) /\ WF_vars(Deadline)
  /\ WF_vars(Task) /\ WF_vars(AbandonedCopy) /\ WF_vars(Cleanup) /\ WF_vars(Select) /\ WF_vars(Finish)

-----------------------------------------------------------------------------
(* Properties *)

\* The worker prepares what Pi was asked for, of the session it still has.
PreparationCurrent ==
  /\ control.id = creation
  /\ control # NoControl => control.source = native

\* A candidate starts on the session the user saw when asking, or on one Pi has
\* gone to since and the frontend has not been told of: never on a session left
\* before the request, and never on another than the user still sees once the
\* frontend has been told of every switch.
SnapshotOfSource ==
  candidate.id # 0 =>
    /\ candidate.id = pending /\ expected = shown
    /\ candidate.seed \in shown..piSession

\* What was called off never becomes a side session.
CalledOff ==
  /\ side # 0 => side \notin cancelled
  /\ candidate.id # 0 => candidate.id \notin cancelled

\* A session file always has an owner that will attach or remove it.
FileOwned ==
  \A id \in files \ kept :
    \/ id \in cleaning
    \/ id = materializing.id /\ materializing.step = "copied"
    \/ id = candidate.id /\ candidate.file
    \/ \E i \in DOMAIN toMain : toMain[i].id = id /\ toMain[i].file

\* The file of an attached session is never removed.
AttachedStays == kept \subseteq files \ cleaning

\* Files of side sessions are neither leaked nor removed too early, and a
\* candidate has no session the frontend was told of as replaced.
FilesKept == FileOwned /\ AttachedStays /\ SnapshotOfSource

\* A reservation is released in the end, whatever Pi and the files do.
ReservationReleased == pending # 0 ~> pending = 0
=============================================================================
