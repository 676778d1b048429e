---------------------------- MODULE HistoryStore ----------------------------
(***************************************************************************)
(* The execution history of one session: execution_history_store.rs, which *)
(* crates/e-pi and crates/e-dsh both carry.  Each process of e may have    *)
(* the session attached: its recorder (the client) hands records to a      *)
(* writer thread through a bounded queue, and the writer appends them to   *)
(* the file while it owns the lock file.  Processes crash at any step; the *)
(* lock and what was written of a line stay behind, and the user may       *)
(* remove a lock that no process holds.                                    *)
(*                                                                         *)
(* A line of the file is its contents and whether its newline is written;  *)
(* an offset is a number of lines.  The client is taken at the interface   *)
(* of HistoryStore: records may be offered between two pages of a query.   *)
(* The workspace registry, and the check that the header is of this        *)
(* session, are left out.                                                  *)
(***************************************************************************)
EXTENDS Integers, Sequences, FiniteSets

CONSTANTS
  Processes,
  None,         \* no lock file
  Capacity,     \* QUEUE_CAPACITY (1024 in the code)
  Limit,        \* records of a page
  FailingReads, \* whether a page may fail over a trace that can be read
  MaxRecords,   \* bound: records of one opening, the last included
  MaxOpens      \* bound: openings of the store

ASSUME HistoryConstants ==
  /\ None \notin Processes
  /\ Capacity \in Nat \ {0} /\ Limit \in Nat \ {0}
  /\ FailingReads \in BOOLEAN
  /\ MaxRecords \in Nat /\ MaxOpens \in Nat

VARIABLES
  file,    \* the lines of the trace
  lock,    \* the process that created the lock file
  writer,  \* where each writer thread is
  queue,   \* the commands on their way to it
  failed,  \* health holds an error
  client,  \* what the recorder of each process is doing
  query,   \* the pages it has read so far
  answer,  \* the last query it completed
  opening, \* which opening of the store it has
  offered, \* records offered in that opening
  opens,   \* openings so far
  saved    \* openings whose close succeeded, with the records offered in them

disk    == <<file, lock>>
reading == <<query, answer>>
counts  == <<opening, offered, opens, saved>>
vars    == <<disk, writer, queue, failed, client, reading, counts>>

-----------------------------------------------------------------------------
\* A torn line is one whose text is not whole; it may end inside a character,
\* and is then not UTF-8 (which reading a line refuses).
Torn == {"cut", "inside-character"}
Line(kind, o, n) == [kind |-> kind, opening |-> o, n |-> n, ended |-> FALSE]

LastLine == file[Len(file)]
Rewritten(line) == [file EXCEPT ![Len(file)] = line]

NewQuery == [from |-> 0, mark |-> 0, got |-> <<>>]

Record(n) == [kind |-> "record", n |-> n]
Page      == [kind |-> "page", n |-> 0]
Flush     == [kind |-> "flush", n |-> 0]
Shutdown  == [kind |-> "shutdown", n |-> 0]

HasRoomForOneMore(p) == Len(queue[p]) <= Capacity
HasRoom(p) == Len(queue[p]) < Capacity
Running(p) == writer[p] # "off"
Queued(p, command) == queue' = [queue EXCEPT ![p] = Append(@, command)]
Becomes(p, state) == client' = [client EXCEPT ![p] = state]

\* The writer is gone: run drops the receiver, and Writer its lock.
WriterEnds(p) ==
  /\ writer' = [writer EXCEPT ![p] = "off"]
  /\ queue' = [queue EXCEPT ![p] = <<>>]
  /\ lock' = None

-----------------------------------------------------------------------------
(* Opening the store *)

\* Writer::open creates the lock file, or fails.
LockAnyway == TRUE
LockFree == lock = None

Open(p) ==
  /\ client[p] = "closed"
  /\ opens < MaxOpens
  /\ LockFree
  /\ lock' = p
  /\ writer' = [writer EXCEPT ![p] = "locked"]
  /\ failed' = [failed EXCEPT ![p] = FALSE]
  /\ Becomes(p, "opening")
  /\ opens' = opens + 1
  /\ opening' = [opening EXCEPT ![p] = opens + 1]
  /\ offered' = [offered EXCEPT ![p] = 0]
  /\ query' = [query EXCEPT ![p] = NewQuery]
  /\ answer' = [answer EXCEPT ![p] = NewQuery]
  /\ UNCHANGED <<file, queue, saved>>

\* validate_or_initialize on an empty file: the header is written, then a newline.
BeginHeader(p) ==
  /\ writer[p] = "locked"
  /\ file = <<>>
  /\ file' = <<Line("cut", 0, 0)>>
  /\ writer' = [writer EXCEPT ![p] = "header"]
  /\ UNCHANGED <<lock, queue, failed, client, reading, counts>>

WriteHeader(p) ==
  /\ writer[p] = "header"
  /\ LastLine.kind = "cut"
  /\ file' = Rewritten(Line("header", 0, 0))
  /\ UNCHANGED <<lock, writer, queue, failed, client, reading, counts>>

EndHeader(p) ==
  /\ writer[p] = "header"
  /\ LastLine.kind = "header"
  /\ file' = Rewritten([LastLine EXCEPT !.ended = TRUE])
  /\ writer' = [writer EXCEPT ![p] = "run"]
  /\ Becomes(p, "load")
  /\ UNCHANGED <<lock, queue, failed, reading, counts>>

\* ... and on a file with contents: a partial last line is ended.
HeaderWhole == file[1].kind = "header" /\ file[1].ended

TailLeft == file
TailEnded == IF LastLine.ended THEN file ELSE Rewritten([LastLine EXCEPT !.ended = TRUE])

Validate(p) ==
  /\ writer[p] = "locked"
  /\ file # <<>>
  /\ HeaderWhole
  /\ file' = TailEnded
  /\ writer' = [writer EXCEPT ![p] = "run"]
  /\ Becomes(p, "load")
  /\ UNCHANGED <<lock, queue, failed, reading, counts>>

\* The header is not whole, or a write fails: the lock file is removed again.
OpenFails(p) ==
  /\ writer[p] \in {"locked", "header"}
  /\ WriterEnds(p)
  /\ Becomes(p, "closed")
  /\ UNCHANGED <<file, failed, reading, counts>>

-----------------------------------------------------------------------------
(* The recorder *)

\* HistoryStore::record: refused once health is bad; a full queue makes it so.
FailsOverflowUnnoticed(p) == ~Running(p)
FailsRecord(p) == ~Running(p) \/ ~HasRoom(p)

Offer(p) ==
  /\ offered' = [offered EXCEPT ![p] = @ + 1]
  /\ IF ~failed[p] /\ Running(p) /\ HasRoom(p)
       THEN Queued(p, Record(offered[p] + 1))
       ELSE UNCHANGED queue
  /\ failed' = [failed EXCEPT ![p] = @ \/ FailsRecord(p)]

\* The first record is the one of the attachment itself.
RecordEvent(p) ==
  /\ client[p] = "idle"
  /\ offered[p] + 1 < MaxRecords
  /\ Offer(p)
  /\ UNCHANGED <<disk, writer, client, reading, opening, opens, saved>>

\* query and load_trace_metrics: pages under the watermark of the first one.
AskPage(p) ==
  /\ \/ client[p] = "load"
     \/ client[p] = "idle" /\ offered[p] > 0
  /\ ~failed[p] /\ Running(p) /\ HasRoom(p)
  /\ query' = [query EXCEPT ![p] = NewQuery]
  /\ Queued(p, Page)
  /\ Becomes(p, IF client[p] = "load" THEN "loading" ELSE "paging")
  /\ UNCHANGED <<disk, writer, failed, answer, counts>>

\* The records of a query that is over are read; a load is followed by the
\* record of the attachment.
NextPage(p) ==
  /\ client[p] \in {"loaded-page", "read-page"}
  /\ ~failed[p] /\ Running(p) /\ HasRoom(p)
  /\ query[p].from < query[p].mark
  /\ Queued(p, Page)
  /\ Becomes(p, IF client[p] = "loaded-page" THEN "loading" ELSE "paging")
  /\ UNCHANGED <<disk, writer, failed, reading, counts>>

LastPage(p) ==
  /\ client[p] \in {"loaded-page", "read-page"}
  /\ query[p].from = query[p].mark
  /\ answer' = [answer EXCEPT ![p] = query[p]]
  /\ IF client[p] = "loaded-page"
       THEN Offer(p)
       ELSE UNCHANGED <<offered, queue, failed>>
  /\ Becomes(p, IF failed'[p] THEN "drop" ELSE "idle")
  /\ UNCHANGED <<disk, writer, query, opening, opens, saved>>

\* Between two pages a record may be offered.
RecordBetween(p) ==
  /\ client[p] = "read-page"
  /\ offered[p] + 1 < MaxRecords
  /\ Offer(p)
  /\ UNCHANGED <<disk, writer, client, reading, opening, opens, saved>>

\* A page that is refused, or whose writer ended, fails the query; a load that
\* fails drops the store.
QueryFails(p) ==
  /\ \/ client[p] \in {"load", "loaded-page", "read-page"} /\ (failed[p] \/ ~Running(p))
     \/ client[p] \in {"loading", "paging"} /\ ~Running(p)
  /\ Becomes(p, IF client[p] \in {"read-page", "paging"} THEN "idle" ELSE "drop")
  /\ UNCHANGED <<disk, writer, queue, failed, reading, counts>>

\* close_active offers the record of the detachment ...
Detach(p) ==
  /\ client[p] = "idle" /\ offered[p] > 0
  /\ Offer(p)
  /\ Becomes(p, IF failed'[p] THEN "drop" ELSE "flush")
  /\ UNCHANGED <<disk, writer, reading, opening, opens, saved>>

\* ... waits for a flush ...
AskFlush(p) ==
  /\ client[p] = "flush"
  /\ IF failed[p] \/ ~Running(p)
       THEN Becomes(p, "drop") /\ UNCHANGED queue
       ELSE HasRoom(p) /\ Queued(p, Flush) /\ Becomes(p, "flushing")
  /\ UNCHANGED <<disk, writer, failed, reading, counts>>

\* ... and drops the store, which shuts the writer down and joins it.
AskShutdown(p) ==
  /\ client[p] = "drop"
  /\ Running(p) /\ HasRoom(p)
  /\ Queued(p, Shutdown)
  /\ Becomes(p, "joining")
  /\ UNCHANGED <<disk, writer, failed, reading, counts>>

\* The writer ended first: its end of every channel is gone, and nobody waits
\* for it any longer.
WriterGoneUnheard(p) ==
  /\ client[p] \in {"drop", "joining"}
  /\ ~Running(p)
  /\ Becomes(p, "closed")
  /\ UNCHANGED <<disk, writer, queue, failed, reading, counts>>

WriterGone(p) ==
  /\ client[p] \in {"flushing", "drop", "joining"}
  /\ ~Running(p)
  /\ Becomes(p, IF client[p] = "flushing" THEN "drop" ELSE "closed")
  /\ UNCHANGED <<disk, writer, queue, failed, reading, counts>>

-----------------------------------------------------------------------------
(* The writer thread *)

Takes(p, kind) ==
  /\ writer[p] = "run"
  /\ queue[p] # <<>>
  /\ Head(queue[p]).kind = kind
  /\ queue' = [queue EXCEPT ![p] = Tail(@)]

\* write_line: the text in pieces, then the newline.
BeginLine(p) ==
  /\ Takes(p, "record")
  /\ \E kind \in Torn : file' = Append(file, Line(kind, opening[p], Head(queue[p]).n))
  /\ writer' = [writer EXCEPT ![p] = "text"]
  /\ UNCHANGED <<lock, failed, client, reading, counts>>

WriteLine(p) ==
  /\ writer[p] = "text"
  /\ file' = Rewritten([LastLine EXCEPT !.kind = "event"])
  /\ writer' = [writer EXCEPT ![p] = "newline"]
  /\ UNCHANGED <<lock, queue, failed, client, reading, counts>>

EndLine(p) ==
  /\ writer[p] = "newline"
  /\ file' = Rewritten([LastLine EXCEPT !.ended = TRUE])
  /\ writer' = [writer EXCEPT ![p] = "run"]
  /\ UNCHANGED <<lock, queue, failed, client, reading, counts>>

WriteFailsAndGoesOn(p) ==
  /\ Takes(p, "record")
  /\ failed' = [failed EXCEPT ![p] = TRUE]
  /\ UNCHANGED <<disk, writer, client, reading, counts>>

\* A write fails, of nothing or in the middle of a line: health, then the end.
WriteFails(p) ==
  /\ \/ writer[p] \in {"text", "newline"}
     \/ writer[p] = "run" /\ queue[p] # <<>> /\ Head(queue[p]).kind = "record"
  /\ failed' = [failed EXCEPT ![p] = TRUE]
  /\ WriterEnds(p)
  /\ UNCHANGED <<file, client, reading, counts>>

\* read_snapshot stops at the first record past the limit, or at the watermark.
Mark(q) == IF q.mark = 0 THEN Len(file) ELSE q.mark
EventsIn(from, to) == {i \in (from + 1)..to : file[i].kind = "event"}
StopAfter(from, mark) ==
  LET past == {i \in EventsIn(from, mark) : Cardinality(EventsIn(from, i)) > Limit}
  IN IF past = {} THEN mark ELSE CHOOSE i \in past : \A j \in past : i <= j
Stop(from, mark) ==
  LET past == {i \in EventsIn(from, mark) : Cardinality(EventsIn(from, i)) > Limit}
  IN IF past = {} THEN mark ELSE (CHOOSE i \in past : \A j \in past : i <= j) - 1

IsEvent(line) == line.kind = "event"

\* The records among the lines of s behind the first k, up to each line.
RecordsBehind(s, k) ==
  LET read[i \in 0..Len(s)] ==
        CASE i <= k                -> <<>>
          [] i > k /\ IsEvent(s[i]) -> Append(read[i - 1], s[i])
          [] OTHER                 -> read[i - 1]
  IN read
Events(from, to) == RecordsBehind(file, from)[to]

\* The records of the page.
Taken(from, to) == LET events == Events(from, to) IN SubSeq(events, 1, IF Len(events) < Limit THEN Len(events) ELSE Limit)

Unreadable(from, to) == \E i \in (from + 1)..to : file[i].kind = "inside-character"

\* The file is flushed and read; a line cut inside a character always fails.  The
\* answer reaches the client; an error is put in health after that.
ReadPage(p) ==
  /\ Takes(p, "page")
  /\ LET q == query[p]
         stop == Stop(q.from, Mark(q))
     IN \/ /\ FailingReads \/ Unreadable(q.from, stop)
           /\ writer' = [writer EXCEPT ![p] = "report"]
           /\ Becomes(p, IF client[p] = "loading" THEN "drop" ELSE "idle")
           /\ UNCHANGED query
        \/ /\ ~Unreadable(q.from, stop)
           /\ query' = [query EXCEPT ![p] = [from |-> stop, mark |-> Mark(q),
                                             got |-> q.got \o Taken(q.from, stop)]]
           /\ Becomes(p, IF client[p] = "loading" THEN "loaded-page" ELSE "read-page")
           /\ UNCHANGED writer
  /\ UNCHANGED <<disk, failed, answer, counts>>

\* flush; the close it belongs to succeeds with it.
FlushFile(p) ==
  /\ Takes(p, "flush")
  /\ Becomes(p, "drop")
  /\ \/ /\ saved' = saved \cup {[opening |-> opening[p], records |-> offered[p]]}
        /\ UNCHANGED writer
     \/ /\ writer' = [writer EXCEPT ![p] = "report"]
        /\ UNCHANGED saved
  /\ UNCHANGED <<disk, failed, reading, opening, offered, opens>>

Report(p) ==
  /\ writer[p] = "report"
  /\ failed' = [failed EXCEPT ![p] = TRUE]
  /\ writer' = [writer EXCEPT ![p] = "run"]
  /\ UNCHANGED <<disk, queue, client, reading, counts>>

Stopped(p) ==
  /\ writer[p] = "run" /\ queue[p] # <<>> /\ Head(queue[p]).kind = "shutdown"
  /\ WriterEnds(p)
  /\ UNCHANGED <<file, failed, client, reading, counts>>

-----------------------------------------------------------------------------
(* Crashes, and the user *)

Crash(p) ==
  /\ client[p] # "closed"
  /\ writer' = [writer EXCEPT ![p] = "off"]
  /\ queue' = [queue EXCEPT ![p] = <<>>]
  /\ Becomes(p, "closed")
  /\ UNCHANGED <<disk, failed, reading, counts>>

RemoveLock ==
  /\ \E p \in Processes : lock = p /\ ~Running(p)
  /\ lock' = None
  /\ UNCHANGED <<file, writer, queue, failed, client, reading, counts>>

-----------------------------------------------------------------------------
Init ==
  /\ file = <<>> /\ lock = None
  /\ writer = [p \in Processes |-> "off"]
  /\ queue = [p \in Processes |-> <<>>]
  /\ failed = [p \in Processes |-> FALSE]
  /\ client = [p \in Processes |-> "closed"]
  /\ query = [p \in Processes |-> NewQuery]
  /\ answer = [p \in Processes |-> NewQuery]
  /\ opening = [p \in Processes |-> 0]
  /\ offered = [p \in Processes |-> 0]
  /\ opens = 0
  /\ saved = {}

Recorder(p) ==
  \/ Open(p) \/ RecordEvent(p) \/ RecordBetween(p) \/ AskPage(p) \/ NextPage(p) \/ LastPage(p)
  \/ QueryFails(p) \/ Detach(p) \/ AskFlush(p) \/ AskShutdown(p) \/ WriterGone(p)

Thread(p) ==
  \/ BeginHeader(p) \/ WriteHeader(p) \/ EndHeader(p) \/ Validate(p) \/ OpenFails(p)
  \/ BeginLine(p) \/ WriteLine(p) \/ EndLine(p) \/ WriteFails(p)
  \/ ReadPage(p) \/ FlushFile(p) \/ Report(p) \/ Stopped(p)

Next == RemoveLock \/ \E p \in Processes : Recorder(p) \/ Thread(p) \/ Crash(p)

Spec == Init /\ [][Next]_vars

\* The writer thread goes on, and a close goes on once it is answered.
Fairness ==
  \A p \in Processes :
    /\ WF_vars(Thread(p))
    /\ WF_vars(AskFlush(p) \/ AskShutdown(p) \/ WriterGone(p))

FairSpec == Spec /\ Fairness

-----------------------------------------------------------------------------
(* Properties *)

WriterStates == {"off", "locked", "header", "run", "text", "newline", "report"}
ClientStates == {"closed", "opening", "load", "loading", "loaded-page", "idle", "paging", "read-page",
                 "flush", "flushing", "drop", "joining"}
LineType == [kind : {"header", "event"} \cup Torn, opening : Nat, n : Nat, ended : BOOLEAN]
QueryType == [from : Nat, mark : Nat, got : Seq(LineType)]
CommandType == [kind : {"record", "page", "flush", "shutdown"}, n : Nat]

\* The file, the lock and the fields of each process have their types, and no
\* queue holds more than its capacity.
TypeOK ==
  /\ file \in Seq(LineType) /\ lock \in Processes \cup {None}
  /\ writer \in [Processes -> WriterStates] /\ client \in [Processes -> ClientStates]
  /\ queue \in [Processes -> Seq(CommandType)] /\ failed \in [Processes -> BOOLEAN]
  /\ \A p \in Processes : Len(queue[p]) <= Capacity
  /\ query \in [Processes -> QueryType] /\ answer \in [Processes -> QueryType]
  /\ opening \in [Processes -> Nat] /\ offered \in [Processes -> Nat] /\ opens \in Nat
  /\ saved \subseteq [opening : Nat, records : Nat]

\* No two processes write to the file: a writer thread that runs holds the lock.
OneWriter == \A p \in Processes : Running(p) => lock = p

\* Whatever crashed or failed before, a record is never written behind a torn
\* line, or into a file whose header is not whole.
LinesApart ==
  /\ \A i \in 1..(Len(file) - 1) : file[i].ended
  /\ Len(file) > 1 => HeaderWhole

\* The records in the file, and the opening whose writer runs.
Recorded ==
  LET events == Events(0, Len(file))
  IN [i \in DOMAIN events |-> [opening |-> events[i].opening, n |-> events[i].n]]
Current ==
  IF \E p \in Processes : Running(p) THEN opening[CHOOSE p \in Processes : Running(p)] ELSE 0

Log == INSTANCE ExecutionLog WITH
  log <- Recorded, current <- Current, last <- opens, done <- {s.opening : s \in saved}

\* The file is a log: records are appended by one opening at a time, in the order
\* they were offered, and a record lost to a full queue, a failed write or a
\* crash is not followed by a later one of its opening, nor is a close.
IsLog == Log!Spec

\* A query reads every record below its watermark once and in order, though
\* others are written between its pages.
PagesExact ==
  \A p \in Processes : answer[p].mark # 0 => answer[p].got = Events(0, answer[p].mark)

\* A close that reports success has saved every record offered.
CloseSaves ==
  \A s \in saved :
    Cardinality({i \in DOMAIN file : IsEvent(file[i]) /\ file[i].opening = s.opening}) = s.records

\* A close ends, whatever the writer was doing or failed to do.
CloseEnds == \A p \in Processes : client[p] \in {"flush", "flushing", "drop", "joining"} ~> client[p] = "closed"
=============================================================================
