------------------------------ MODULE PiWorker ------------------------------
(***************************************************************************)
(* One Pi session's tasks and the queues between them: the frontend, the   *)
(* session worker (session_worker.rs), the writer and the reader of the    *)
(* Pi process (process.rs) and Pi itself.                                  *)
(*                                                                         *)
(*   frontend -requests-> worker -commands-> writer -stdin-> Pi            *)
(*   frontend <-inbox---- worker <-events--- reader <-stdout-/             *)
(*                                                                         *)
(* Every queue is bounded and every sender but the frontend waits for      *)
(* room, so the tasks can wait for one another in a ring.  The frontend    *)
(* stops the worker through a watch, which is read at every wait.          *)
(* What commands and records say is left out, except that some records     *)
(* carry the parts of the state a session needs before it is ready.        *)
(***************************************************************************)
EXTENDS Naturals, Sequences, FiniteSets

CONSTANTS
  Parts,        \* what Ready waits for: attachment, history, commands, models
  Capacity,     \* CHANNEL_CAPACITY of the four channels
  PipeCapacity, \* what an operating system pipe holds
  MaxRecords,   \* bound: records Pi writes
  Carries,      \* Carries[n]: the part of the state the n-th record has, or NoPart
  MaxRequests,  \* bound: requests of the frontend
  MaxBatch      \* bound: commands one request or one record gives rise to

NoPart == "nothing"

ASSUME BoundsAssumption ==
  /\ Carries \in [1..MaxRecords -> Parts \cup {NoPart}]
  /\ Capacity \in Nat \ {0}
  /\ PipeCapacity \in Nat \ {0}
  /\ {MaxRecords, MaxRequests, MaxBatch} \subseteq Nat

VARIABLES
  requests, \* requests queued for the worker
  asked,    \* requests admitted so far
  commands, \* commands queued for the writer
  stdin,    \* commands in Pi's input pipe
  stdout,   \* records in Pi's output pipe, by number
  events,   \* reader and writer to worker: record numbers and endings
  inbox,    \* worker to frontend: record numbers, Ready and Fatal
  seen,     \* what the frontend has taken from inbox
  written,  \* records Pi has written
  worker,   \* [at, owed, record]: where the task waits, and on what
  ready,    \* the task's "initialized"
  reason,   \* what ended the task's loop
  writer,   \* "recv", "write", "fatal" or "ended"
  reader,   \* [at, item]
  pi,       \* "none", "reading", "writing" or "exited"
  stop      \* the watch

tasks == <<worker, ready, reason, writer, reader, pi>>
vars == <<requests, asked, commands, stdin, stdout, events, inbox, seen, written, tasks, stop>>

Record(n) == [is |-> "record", n |-> n]
Ready == [is |-> "ready"]
Fatal == [is |-> "fatal"]
Eof == [is |-> "eof"]
WriteError == [is |-> "write error"]
Endings == {Eof, WriteError}

Task(at, owed, record) == [at |-> at, owed |-> owed, record |-> record]
Waiting == Task("select", 0, 0)

\* The worker's receiver and senders live as long as its runtime.
Connected == worker.at \in {"select", "rpc", "publish", "ready", "teardown"}
Dead == pi = "exited"

Init ==
  /\ requests = 0
  /\ asked = 0
  /\ commands = 0
  /\ stdin = 0
  /\ stdout = <<>>
  /\ events = <<>>
  /\ inbox = <<>>
  /\ seen = <<>>
  /\ written = 0
  /\ worker = Task("prepare", 0, 0)
  /\ ready = FALSE
  /\ reason = "none"
  /\ writer = "recv"
  /\ reader = [at |-> "read", item |-> Eof]
  /\ pi = "none"
  /\ stop = FALSE

-----------------------------------------------------------------------------
\* The frontend

\* send_agent_request: try_send, which a full channel refuses.
Request ==
  /\ ~stop
  /\ worker.at \notin {"report", "gone"}
  /\ asked < MaxRequests
  /\ requests < Capacity
  /\ requests' = requests + 1
  /\ asked' = asked + 1
  /\ UNCHANGED <<commands, stdin, stdout, events, inbox, seen, written, tasks, stop>>

\* The frontend stops taking events once it has asked the worker to stop.
Take ==
  /\ ~stop
  /\ inbox # <<>>
  /\ seen' = Append(seen, Head(inbox))
  /\ inbox' = Tail(inbox)
  /\ UNCHANGED <<requests, asked, commands, stdin, stdout, events, written, tasks, stop>>

\* request_shutdown, or the worker's handle is dropped.
Stop ==
  /\ ~stop
  /\ stop' = TRUE
  /\ UNCHANGED <<requests, asked, commands, stdin, stdout, events, inbox, seen, written, tasks>>

-----------------------------------------------------------------------------
\* The session worker

\* prepare: the process is spawned and the startup commands are owed.
Prepare ==
  /\ worker.at = "prepare"
  /\ ~stop
  /\ \E n \in 1..(MaxBatch + 1) : worker' = Task("rpc", n, 0)
  /\ pi' = "reading"
  /\ UNCHANGED <<requests, asked, commands, stdin, stdout, events, inbox, seen, written,
                 ready, reason, writer, reader, stop>>

\* It fails or takes more than 30 seconds: nothing was started.
PrepareFails ==
  /\ worker.at = "prepare"
  /\ ~stop
  /\ worker' = Task("report", 0, 0)
  /\ reason' = "prepare"
  /\ writer' = "ended"
  /\ reader' = [at |-> "ended", item |-> Eof]
  /\ UNCHANGED <<requests, asked, commands, stdin, stdout, events, inbox, seen, written,
                 ready, pi, stop>>

\* WorkerIo::output: the commands first, each waiting for room, then the event.
SendCommand ==
  /\ worker.at = "rpc"
  /\ ~stop
  /\ worker.owed > 0
  /\ writer # "ended"
  /\ commands < Capacity
  /\ commands' = commands + 1
  /\ worker' = [worker EXCEPT !.owed = @ - 1]
  /\ UNCHANGED <<requests, asked, stdin, stdout, events, inbox, seen, written,
                 ready, reason, writer, reader, pi, stop>>

Fail(why) ==
  /\ worker' = Task("teardown", 0, 0)
  /\ reason' = why

\* The writer has ended and with it the channel.
CommandRefused ==
  /\ worker.at = "rpc"
  /\ ~stop
  /\ worker.owed > 0
  /\ writer = "ended"
  /\ Fail("closed")
  /\ UNCHANGED <<requests, asked, commands, stdin, stdout, events, inbox, seen, written,
                 ready, writer, reader, pi, stop>>

CommandsSent ==
  /\ worker.at = "rpc"
  /\ ~stop
  /\ worker.owed = 0
  /\ worker' = IF worker.record = 0 THEN Waiting ELSE Task("publish", 0, worker.record)
  /\ UNCHANGED <<requests, asked, commands, stdin, stdout, events, inbox, seen, written,
                 ready, reason, writer, reader, pi, stop>>

PartsIn(records) == {Carries[n] : n \in records} \ {NoPart}

\* All the parts of the state are among the first n records.
InitializedEarly(n) == PartsIn(1..n) # {}
Initialized(n) == PartsIn(1..n) = Parts

\* The event of a record is published; the parts it completes make the session ready.
Publish ==
  /\ worker.at = "publish"
  /\ ~stop
  /\ Len(inbox) < Capacity
  /\ inbox' = Append(inbox, Record(worker.record))
  /\ worker' = IF ~ready /\ Initialized(worker.record) THEN Task("ready", 0, 0) ELSE Waiting
  /\ ready' = (ready \/ Initialized(worker.record))
  /\ UNCHANGED <<requests, asked, commands, stdin, stdout, events, seen, written,
                 reason, writer, reader, pi, stop>>

PublishReady ==
  /\ worker.at = "ready"
  /\ ~stop
  /\ Len(inbox) < Capacity
  /\ inbox' = Append(inbox, Ready)
  /\ worker' = Waiting
  /\ UNCHANGED <<requests, asked, commands, stdin, stdout, events, seen, written,
                 ready, reason, writer, reader, pi, stop>>

\* The select arm of a record of Pi.
TakeRecord ==
  /\ worker.at = "select"
  /\ ~stop
  /\ events # <<>>
  /\ Head(events) \notin Endings
  /\ events' = Tail(events)
  /\ \E n \in 0..MaxBatch : worker' = Task("rpc", n, Head(events).n)
  /\ UNCHANGED <<requests, asked, commands, stdin, stdout, inbox, seen, written,
                 ready, reason, writer, reader, pi, stop>>

\* The select arm of a request of the frontend.
TakeRequest ==
  /\ worker.at = "select"
  /\ ~stop
  /\ requests > 0
  /\ requests' = requests - 1
  /\ \E n \in 0..MaxBatch : worker' = Task("rpc", n, 0)
  /\ UNCHANGED <<asked, commands, stdin, stdout, events, inbox, seen, written,
                 ready, reason, writer, reader, pi, stop>>

\* The process ended, or could not be written to: run returns the error.
TakeEnding ==
  /\ worker.at = "select"
  /\ ~stop
  /\ events # <<>>
  /\ Head(events) \in Endings
  /\ Fail(Head(events).is)
  /\ UNCHANGED <<requests, asked, commands, stdin, stdout, events, inbox, seen, written,
                 ready, writer, reader, pi, stop>>

\* The state has not arrived in 30 seconds.
OverdueNever == FALSE
Overdue == ~ready
InitializationTimeout ==
  /\ worker.at = "select"
  /\ ~stop
  /\ Overdue
  /\ Fail("timeout")
  /\ UNCHANGED <<requests, asked, commands, stdin, stdout, events, inbox, seen, written,
                 ready, writer, reader, pi, stop>>

\* The biased select on the watch drops whatever the task was waiting for.
SeesStopIdle(at) == at \in {"prepare", "select", "rpc", "publish", "ready"}
SeesStop(at) == at \in {"prepare", "select", "rpc", "publish", "ready", "report"}
Stopped ==
  /\ stop
  /\ SeesStop(worker.at)
  /\ IF worker.at \in {"prepare", "report"}
     THEN worker' = Task("gone", 0, 0)
     ELSE worker' = Task("teardown", 0, 0)
  /\ IF worker.at = "prepare"
     THEN writer' = "ended" /\ reader' = [at |-> "ended", item |-> Eof]
     ELSE UNCHANGED <<writer, reader>>
  /\ UNCHANGED <<requests, asked, commands, stdin, stdout, events, inbox, seen, written,
                 ready, reason, pi, stop>>

\* process.shutdown kills Pi's process group, and the runtime is dropped:
\* what was queued to and from the process is lost.
Teardown ==
  /\ worker.at = "teardown"
  /\ pi' = "exited"
  /\ events' = <<>>
  /\ worker' = Task(IF reason = "none" THEN "gone" ELSE "report", 0, 0)
  /\ UNCHANGED <<requests, asked, commands, stdin, stdout, inbox, seen, written,
                 ready, reason, writer, reader, stop>>

\* The error waits for room in the inbox, or for the stop.
Report ==
  /\ worker.at = "report"
  /\ ~stop
  /\ Len(inbox) < Capacity
  /\ inbox' = Append(inbox, Fatal)
  /\ worker' = Task("gone", 0, 0)
  /\ UNCHANGED <<requests, asked, commands, stdin, stdout, events, seen, written,
                 ready, reason, writer, reader, pi, stop>>

-----------------------------------------------------------------------------
\* write_loop

WriterTakes ==
  /\ writer = "recv"
  /\ IF commands > 0
     THEN commands' = commands - 1 /\ writer' = "write"
     ELSE ~Connected /\ worker.at # "prepare" /\ writer' = "ended" /\ UNCHANGED commands
  /\ UNCHANGED <<requests, asked, stdin, stdout, events, inbox, seen, written,
                 worker, ready, reason, reader, pi, stop>>

\* Pi is gone: the write fails.
WriterWrites ==
  /\ writer = "write"
  /\ IF Dead
     THEN writer' = "fatal" /\ UNCHANGED stdin
     ELSE stdin < PipeCapacity /\ stdin' = stdin + 1 /\ writer' = "recv"
  /\ UNCHANGED <<requests, asked, commands, stdout, events, inbox, seen, written,
                 worker, ready, reason, reader, pi, stop>>

\* The failure waits for room among the events; nobody may be there to read it.
WriterFails ==
  /\ writer = "fatal"
  /\ IF Connected
     THEN Len(events) < Capacity /\ events' = Append(events, WriteError)
     ELSE UNCHANGED events
  /\ writer' = "ended"
  /\ UNCHANGED <<requests, asked, commands, stdin, stdout, inbox, seen, written,
                 worker, ready, reason, reader, pi, stop>>

-----------------------------------------------------------------------------
\* read_loop

\* A record, or the end of the output, which the reader announces once.
AnnouncedNever == FALSE
Announced == TRUE
ReaderReads ==
  /\ reader.at = "read"
  /\ \/ /\ stdout # <<>>
        /\ reader' = [at |-> "send", item |-> Record(Head(stdout))]
        /\ stdout' = Tail(stdout)
     \/ /\ stdout = <<>>
        /\ Dead
        /\ reader' = IF Announced THEN [at |-> "send", item |-> Eof] ELSE [at |-> "ended", item |-> Eof]
        /\ UNCHANGED stdout
  /\ UNCHANGED <<requests, asked, commands, stdin, events, inbox, seen, written,
                 worker, ready, reason, writer, pi, stop>>

\* events.send waits for room.
RoomOrDrop == TRUE
Room == Len(events) < Capacity
ReaderSends ==
  /\ reader.at = "send"
  /\ IF Connected
     THEN Room /\ events' = (IF Len(events) < Capacity THEN Append(events, reader.item) ELSE events)
     ELSE UNCHANGED events
  /\ reader' = [at |-> IF Connected /\ reader.item \notin Endings THEN "read" ELSE "ended", item |-> Eof]
  /\ UNCHANGED <<requests, asked, commands, stdin, stdout, inbox, seen, written,
                 worker, ready, reason, writer, pi, stop>>

-----------------------------------------------------------------------------
\* Pi: it does not read while it waits to write.

PiReads ==
  /\ pi = "reading"
  /\ stdin > 0
  /\ stdin' = stdin - 1
  /\ \/ pi' = "writing" /\ written < MaxRecords
     \/ UNCHANGED pi
  /\ UNCHANGED <<requests, asked, commands, stdout, events, inbox, seen, written,
                 worker, ready, reason, writer, reader, stop>>

\* Pi has a record to write that nothing asked for.
PiStarts ==
  /\ pi = "reading"
  /\ written < MaxRecords
  /\ pi' = "writing"
  /\ UNCHANGED <<requests, asked, commands, stdin, stdout, events, inbox, seen, written,
                 worker, ready, reason, writer, reader, stop>>

PiWrites ==
  /\ pi = "writing"
  /\ Len(stdout) < PipeCapacity
  /\ written' = written + 1
  /\ stdout' = Append(stdout, written')
  /\ pi' = "reading"
  /\ UNCHANGED <<requests, asked, commands, stdin, events, inbox, seen,
                 worker, ready, reason, writer, reader, stop>>

\* Pi crashes or ends; what it wrote can still be read.
PiExits ==
  /\ pi \in {"reading", "writing"}
  /\ pi' = "exited"
  /\ UNCHANGED <<requests, asked, commands, stdin, stdout, events, inbox, seen, written,
                 worker, ready, reason, writer, reader, stop>>

-----------------------------------------------------------------------------
WorkerStep ==
  \/ Prepare \/ PrepareFails \/ SendCommand \/ CommandRefused \/ CommandsSent \/ Publish \/ PublishReady
  \/ TakeRecord \/ TakeRequest \/ TakeEnding \/ InitializationTimeout
  \/ Stopped \/ Teardown \/ Report

Next ==
  \/ Request \/ Take \/ Stop
  \/ WorkerStep
  \/ WriterTakes \/ WriterWrites \/ WriterFails
  \/ ReaderReads \/ ReaderSends
  \/ PiReads \/ PiStarts \/ PiWrites \/ PiExits

Spec == Init /\ [][Next]_vars

\* The tasks are scheduled and the frontend keeps reading; Pi reads its input and
\* finishes its writes when it can, but owes no record and no exit.
FairSpec ==
  /\ Spec
  /\ WF_vars(WorkerStep)
  /\ WF_vars(InitializationTimeout)
  /\ WF_vars(Take)
  /\ WF_vars(WriterTakes) /\ WF_vars(WriterWrites) /\ WF_vars(WriterFails)
  /\ WF_vars(ReaderReads) /\ WF_vars(ReaderSends)
  /\ WF_vars(PiReads) /\ WF_vars(PiWrites)

-----------------------------------------------------------------------------
Told == seen \o inbox

\* The numbers of the records among the first i - 1 items.
Before(items, i) == {items[j].n : j \in {k \in 1..(i - 1) : items[k].is = "record"}}
Given == Before(Told, Len(Told) + 1)

\* The frontend is given Pi's records in the order Pi wrote them and none is
\* skipped or given twice, however often reader and worker had to wait for room;
\* and when the worker ends because the output ended, every record was given first.
RecordsWhole ==
  /\ \A i \in DOMAIN Told : Told[i].is = "record" => Before(Told, i) = 1..(Told[i].n - 1)
  /\ reason = Eof.is => Given = 1..written

\* Ready is told only after the records that carry every part of the state,
\* and only once, and Fatal is the last thing a worker says.
ReadyAfterParts ==
  \A i \in DOMAIN Told :
    /\ Told[i] = Ready =>
         /\ Parts \subseteq PartsIn(Before(Told, i))
         /\ \A j \in (i + 1)..Len(Told) : Told[j] # Ready
    /\ Told[i] = Fatal => i = Len(Told)

\* The inbox tells the truth: the records, when the session is ready, its end.
InboxTrue == RecordsWhole /\ ReadyAfterParts

\* The ring in which the tasks wait for one another: the worker for room among
\* the commands, and the writer for Pi, which waits for the reader, which waits
\* for room among the events; or the writer itself waits for that room, to
\* report that Pi is gone.
Ring ==
  /\ worker.at = "rpc"
  /\ worker.owed > 0
  /\ commands = Capacity
  /\ Len(events) = Capacity
  /\ \/ writer = "fatal"
     \/ writer = "write" /\ reader.at = "send" /\ stdin = PipeCapacity /\ pi = "writing" /\ Len(stdout) = PipeCapacity

\* A stop is always carried out, in the ring as well: the task ends, Pi is
\* killed, and reader and writer end with it.
StopFinishes ==
  stop ~> /\ worker.at = "gone"
          /\ writer = "ended"
          /\ reader.at = "ended"
          /\ pi \in {"none", "exited"}

\* Pi's end reaches the frontend as a Fatal, unless the frontend stops the
\* worker or the tasks are caught in the ring.
ExitReported == Dead ~> (stop \/ Ring \/ \E i \in DOMAIN seen : seen[i] = Fatal)

\* A worker that is not stopped becomes ready or says why not; only the ring
\* keeps it from noticing that the 30 seconds are over.
StartSettles == <>(stop \/ Ring \/ \E i \in DOMAIN seen : seen[i] \in {Ready, Fatal})

\* The frontend learns how the worker's start and how its process ended.
OutcomeTold == ExitReported /\ StartSettles
=============================================================================
