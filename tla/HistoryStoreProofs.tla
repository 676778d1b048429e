------------------------- MODULE HistoryStoreProofs -------------------------
(***************************************************************************)
(* Theorems about the execution history, for any number of processes,      *)
(* records and openings.                                                   *)
(***************************************************************************)
EXTENDS HistoryStore, SequenceTheorems, FiniteSetTheorems, WellFoundedInduction, TLAPS

-----------------------------------------------------------------------------
(* One writer *)

\* The writer field is a function, so that a step of one process leaves the
\* others' alone.
Owned == writer \in [Processes -> WriterStates] /\ OneWriter

LEMMA OwnedInit == Init => Owned
BY HistoryConstants DEF Init, Owned, OneWriter, Running, WriterStates

\* A writer that ends held the lock it removes: no other writer runs.
LEMMA WriterEndsOwned ==
  ASSUME Owned, NEW p \in Processes, Running(p), WriterEnds(p)
  PROVE  Owned'
BY DEF Owned, OneWriter, Running, WriterEnds, WriterStates

LEMMA OwnedRecorder ==
  ASSUME Owned, NEW p \in Processes, Recorder(p)
  PROVE  Owned'
<1>1. CASE Open(p)
  <2>1. \A q \in Processes : ~Running(q)
    BY <1>1, HistoryConstants DEF Open, LockFree, Owned, OneWriter
  <2> QED BY <1>1, <2>1 DEF Open, Owned, OneWriter, Running, WriterStates
<1>2. CASE UNCHANGED <<writer, lock>>
  BY <1>2 DEF Owned, OneWriter, Running
<1> QED
  BY <1>1, <1>2
  DEF Recorder, RecordEvent, RecordBetween, AskPage, NextPage, LastPage, QueryFails, Detach,
      AskFlush, AskShutdown, WriterGone, disk

LEMMA OwnedThread ==
  ASSUME Owned, NEW p \in Processes, Thread(p)
  PROVE  Owned'
<1>1. CASE OpenFails(p) \/ WriteFails(p) \/ Stopped(p)
  <2>1. Running(p) /\ WriterEnds(p)
    BY <1>1 DEF OpenFails, WriteFails, Stopped, Running
  <2> QED BY <2>1, WriterEndsOwned
<1>2. CASE /\ Running(p) /\ lock' = lock
           /\ \E state \in WriterStates : writer' = [writer EXCEPT ![p] = state]
  BY <1>2 DEF Owned, OneWriter, Running
<1>3. CASE UNCHANGED <<writer, lock>>
  BY <1>3 DEF Owned, OneWriter, Running
<1>4. CASE BeginHeader(p) \/ EndHeader(p) \/ Validate(p) \/ BeginLine(p) \/ WriteLine(p) \/ EndLine(p) \/ Report(p)
  BY <1>2, <1>4
  DEF BeginHeader, EndHeader, Validate, BeginLine, WriteLine, EndLine, Report, Takes, Running, WriterStates, disk
<1>5. CASE ReadPage(p) \/ FlushFile(p)
  <2>1. /\ Running(p) /\ lock' = lock
        /\ writer' = writer \/ writer' = [writer EXCEPT ![p] = "report"]
    BY <1>5 DEF ReadPage, FlushFile, Takes, Running, disk
  <2> QED BY <2>1, <1>2, <1>3 DEF WriterStates
<1>6. CASE WriteHeader(p)
  BY <1>3, <1>6 DEF WriteHeader
<1> QED BY <1>1, <1>4, <1>5, <1>6 DEF Thread

LEMMA OwnedStep == Owned /\ [Next]_vars => Owned'
<1> SUFFICES ASSUME Owned, [Next]_vars PROVE Owned'
  OBVIOUS
<1>1. CASE RemoveLock
  BY <1>1 DEF RemoveLock, Owned, OneWriter, Running
<1>2. ASSUME NEW p \in Processes, Recorder(p) \/ Thread(p) PROVE Owned'
  BY <1>2, OwnedRecorder, OwnedThread
<1>3. ASSUME NEW p \in Processes, Crash(p) PROVE Owned'
  BY <1>3 DEF Crash, Owned, OneWriter, Running, WriterStates, disk
<1>4. CASE UNCHANGED vars
  BY <1>4 DEF vars, disk, Owned, OneWriter, Running
<1> QED BY <1>1, <1>2, <1>3, <1>4 DEF Next

THEOREM OwnedAlways == Spec => []Owned
<1> QED BY OwnedInit, OwnedStep, PTL DEF Spec

\* No two processes ever write to one session's file, whoever crashes and
\* whichever locks without a running holder the user removes (Writer::open,
\* Drop for Writer).
THEOREM OneWriterHolds == Spec => []OneWriter
<1>1. Owned => OneWriter
  BY DEF Owned
<1> QED BY <1>1, OwnedAlways, PTL

-----------------------------------------------------------------------------
(* The types the shape of the file rests on *)

Typed ==
  /\ file \in Seq(LineType)
  /\ queue \in [Processes -> Seq(CommandType)]
  /\ opening \in [Processes -> Nat] /\ offered \in [Processes -> Nat] /\ opens \in Nat

LEMMA TypedInit == Init => Typed
BY DEF Init, Typed

LEMMA LineTyped ==
  ASSUME NEW kind \in {"header", "event"} \cup Torn, NEW o \in Nat, NEW n \in Nat
  PROVE  Line(kind, o, n) \in LineType /\ Line(kind, o, n).kind = kind /\ ~Line(kind, o, n).ended
BY DEF Line, LineType

LEMMA LastLineTyped ==
  ASSUME Typed, file # <<>>
  PROVE  /\ Len(file) \in Nat \ {0} /\ LastLine \in LineType
         /\ [LastLine EXCEPT !.ended = TRUE] \in LineType
         /\ [LastLine EXCEPT !.ended = TRUE].kind = LastLine.kind
         /\ [LastLine EXCEPT !.ended = TRUE].ended
         /\ [LastLine EXCEPT !.kind = "event"] \in LineType
<1>1. Len(file) \in Nat \ {0} /\ LastLine \in LineType
  BY EmptySeq, LenProperties, ElementOfSeq DEF Typed, LastLine
<1> QED BY <1>1 DEF LineType, Torn

\* Rewriting the last line disturbs no other.
LEMMA RewrittenTyped ==
  ASSUME Typed, file # <<>>, NEW line \in LineType
  PROVE  /\ Rewritten(line) \in Seq(LineType) /\ Len(Rewritten(line)) = Len(file)
         /\ Rewritten(line)[Len(file)] = line
         /\ \A i \in 1..(Len(file) - 1) : Rewritten(line)[i] = file[i]
<1>1. Len(file) \in 1..Len(file)
  BY LastLineTyped
<1> QED BY <1>1, ExceptSeq DEF Typed, Rewritten

LEMMA OfferTyped ==
  ASSUME Typed, NEW p \in Processes, Offer(p)
  PROVE  queue' \in [Processes -> Seq(CommandType)] /\ offered' \in [Processes -> Nat]
<1>1. Record(offered[p] + 1) \in CommandType
  BY DEF Typed, Record, CommandType
<1>2. offered' \in [Processes -> Nat]
  BY DEF Typed, Offer
<1>3. CASE Queued(p, Record(offered[p] + 1))
  BY <1>1, <1>2, <1>3, AppendProperties DEF Typed, Queued
<1>4. CASE UNCHANGED queue
  BY <1>2, <1>4 DEF Typed
<1> QED BY <1>3, <1>4 DEF Offer

LEMMA QueuedTyped ==
  ASSUME Typed, NEW p \in Processes, NEW command \in {Page, Flush, Shutdown}, Queued(p, command)
  PROVE  queue' \in [Processes -> Seq(CommandType)]
<1>1. command \in CommandType
  BY DEF Page, Flush, Shutdown, CommandType
<1> QED BY <1>1, AppendProperties DEF Typed, Queued

LEMMA TypedRecorder ==
  ASSUME Typed, NEW p \in Processes, Recorder(p)
  PROVE  Typed'
<1>1. CASE Open(p)
  BY <1>1 DEF Open, Typed
<1>2. CASE RecordEvent(p) \/ RecordBetween(p) \/ Detach(p)
  BY <1>2, OfferTyped DEF RecordEvent, RecordBetween, Detach, Typed, disk
<1>3. CASE LastPage(p)
  BY <1>3, OfferTyped DEF LastPage, Typed, disk
<1>4. CASE AskPage(p) \/ NextPage(p)
  BY <1>4, QueuedTyped DEF AskPage, NextPage, Typed, disk, counts
<1>5. CASE AskFlush(p) \/ AskShutdown(p)
  BY <1>5, QueuedTyped DEF AskFlush, AskShutdown, Typed, disk, counts
<1>6. CASE QueryFails(p) \/ WriterGone(p)
  BY <1>6 DEF QueryFails, WriterGone, Typed, disk, counts
<1> QED BY <1>1, <1>2, <1>3, <1>4, <1>5, <1>6 DEF Recorder

LEMMA TakesTyped ==
  ASSUME Typed, NEW p \in Processes, NEW kind, Takes(p, kind)
  PROVE  /\ queue' \in [Processes -> Seq(CommandType)]
         /\ Head(queue[p]) \in CommandType
BY HeadTailProperties DEF Typed, Takes

LEMMA TypedThread ==
  ASSUME Typed, NEW p \in Processes, Thread(p),
         writer[p] \in {"header", "text", "newline"} => file # <<>>
  PROVE  Typed'
<1> USE DEF counts
<1>1. CASE BeginHeader(p)
  <2>1. Line("cut", 0, 0) \in LineType
    BY LineTyped DEF Torn
  <2> QED BY <1>1, <2>1 DEF BeginHeader, Typed
<1>2. CASE WriteHeader(p)
  <2>1. Line("header", 0, 0) \in LineType
    BY LineTyped
  <2> QED BY <1>2, <2>1, RewrittenTyped DEF WriteHeader, Typed
<1>3. CASE EndHeader(p) \/ EndLine(p) \/ WriteLine(p)
  BY <1>3, LastLineTyped, RewrittenTyped DEF EndHeader, EndLine, WriteLine, Typed
<1>4. CASE Validate(p)
  BY <1>4, LastLineTyped, RewrittenTyped DEF Validate, TailEnded, Typed
<1>5. CASE OpenFails(p) \/ WriteFails(p) \/ Stopped(p)
  BY <1>5, EmptySeq DEF OpenFails, WriteFails, Stopped, WriterEnds, Typed
<1>6. CASE BeginLine(p)
  <2>1. PICK kind \in Torn : file' = Append(file, Line(kind, opening[p], Head(queue[p]).n))
    BY <1>6 DEF BeginLine
  <2>2. Head(queue[p]).n \in Nat /\ queue' \in [Processes -> Seq(CommandType)]
    BY <1>6, TakesTyped DEF BeginLine, CommandType
  <2>3. Line(kind, opening[p], Head(queue[p]).n) \in LineType
    BY <2>2, LineTyped DEF Typed
  <2> QED BY <1>6, <2>1, <2>2, <2>3, AppendProperties DEF BeginLine, Typed
<1>7. CASE ReadPage(p) \/ FlushFile(p)
  BY <1>7, TakesTyped DEF ReadPage, FlushFile, Typed, disk
<1>8. CASE Report(p)
  BY <1>8 DEF Report, Typed, disk
<1> QED BY <1>1, <1>2, <1>3, <1>4, <1>5, <1>6, <1>7, <1>8 DEF Thread

-----------------------------------------------------------------------------
(* The shape of the file *)

\* Every line but the last is ended, and records stand behind a whole header.
\* What the last line may look like depends on where the one writer is: between
\* two records it is ended, which is why a new record starts a line of its own.
ShapeFor(p) ==
  /\ writer[p] = "header" => Len(file) = 1
  /\ writer[p] \in {"run", "report"} => file # <<>> /\ HeaderWhole /\ LastLine.ended
  /\ writer[p] \in {"text", "newline"} => Len(file) > 1

Shape == Owned /\ Typed /\ LinesApart /\ \A p \in Processes : ShapeFor(p)

LEMMA ShapeInit == Init => Shape
BY OwnedInit, TypedInit DEF Init, Shape, ShapeFor, LinesApart

\* A step that leaves the file alone and starts no stage of writing.
LEMMA ShapeKept ==
  ASSUME Shape, Owned', Typed', file' = file,
         \A p \in Processes : \/ writer'[p] = writer[p]
                              \/ writer'[p] \in {"off", "locked"}
                              \/ writer'[p] \in {"run", "report"} /\ writer[p] \in {"run", "report"}
  PROVE  Shape'
BY DEF Shape, ShapeFor, LinesApart, HeaderWhole, LastLine

\* A step of the one writer: the others run nothing.
LEMMA ShapeMoved ==
  ASSUME Shape, Owned', Typed', LinesApart', NEW p \in Processes, Running(p), ShapeFor(p)',
         \A q \in Processes \ {p} : writer'[q] = writer[q]
  PROVE  Shape'
<1>1. \A q \in Processes \ {p} : writer'[q] = "off"
  BY DEF Shape, Owned, OneWriter, Running
<1> QED BY <1>1 DEF Shape, ShapeFor

\* The writer rewrites the record it is writing.
LEMMA ShapeRewritten ==
  ASSUME Shape, Owned', Typed', NEW p \in Processes, writer[p] \in {"text", "newline"},
         NEW line \in LineType, file' = Rewritten(line),
         writer'[p] \in {"newline", "run"}, writer'[p] = "run" => line.ended,
         \A q \in Processes \ {p} : writer'[q] = writer[q]
  PROVE  Shape'
<1>1. Len(file) > 1 /\ file # <<>> /\ Len(file) \in Nat
  BY LenProperties DEF Shape, ShapeFor, Typed
<1>2. /\ Len(file') = Len(file) /\ file'[Len(file)] = line
      /\ \A i \in 1..(Len(file) - 1) : file'[i] = file[i]
  BY <1>1, RewrittenTyped DEF Shape
<1>3. LinesApart' /\ HeaderWhole' /\ file' # <<>>
  BY <1>1, <1>2 DEF LinesApart, HeaderWhole, Shape
<1>4. ShapeFor(p)'
  BY <1>1, <1>2, <1>3 DEF ShapeFor, LastLine
<1> QED BY <1>3, <1>4, ShapeMoved DEF Running

LEMMA ShapeThread ==
  ASSUME Shape, NEW p \in Processes, Thread(p)
  PROVE  Shape'
<1>0. file = <<>> => Len(file) = 0
  OBVIOUS
<1>1. writer[p] \in {"header", "text", "newline"} => file # <<>>
  BY <1>0 DEF Shape, ShapeFor
<1>2. Typed' /\ Owned'
  BY <1>1, TypedThread, OwnedThread DEF Shape
<1>3. Len(file) \in Nat /\ writer \in [Processes -> WriterStates]
  BY LenProperties DEF Shape, Typed, Owned
<1>a. CASE BeginHeader(p)
  <2>1. file' = <<Line("cut", 0, 0)>> /\ Len(file') = 1
    BY <1>a DEF BeginHeader
  <2>2. LinesApart' /\ ShapeFor(p)'
    BY <1>a, <1>3, <2>1 DEF BeginHeader, LinesApart, ShapeFor
  <2> QED BY <1>a, <1>2, <1>3, <2>2, ShapeMoved DEF BeginHeader, Running
<1>b. CASE WriteHeader(p)
  <2>1. Line("header", 0, 0) \in LineType
    BY LineTyped
  <2>2. Len(file) = 1 /\ Len(file') = 1 /\ writer' = writer
    BY <1>1, <1>b, <2>1, RewrittenTyped DEF WriteHeader, Shape, ShapeFor
  <2>3. writer'[p] = "header"
    BY <1>b, <2>2 DEF WriteHeader
  <2>4. LinesApart' /\ ShapeFor(p)'
    BY <2>2, <2>3 DEF LinesApart, ShapeFor
  <2> QED BY <1>b, <1>2, <2>2, <2>4, ShapeMoved DEF WriteHeader, Running
<1>c. CASE EndHeader(p)
  <2>1. Len(file) = 1 /\ file # <<>> /\ LastLine = file[1]
    BY <1>1, <1>c DEF EndHeader, Shape, ShapeFor, LastLine
  <2>2. Len(file') = 1 /\ file'[1].kind = "header" /\ file'[1].ended
    <3> DEFINE line == [LastLine EXCEPT !.ended = TRUE]
    <3>1. line \in LineType /\ line.kind = "header" /\ line.ended
      BY <1>c, <2>1, LastLineTyped DEF EndHeader, Shape
    <3>2. file' = Rewritten(line)
      BY <1>c DEF EndHeader
    <3> HIDE DEF line
    <3>3. Len(Rewritten(line)) = 1 /\ Rewritten(line)[1] = line
      BY <2>1, <3>1, RewrittenTyped DEF Shape
    <3> QED BY <3>1, <3>2, <3>3
  <2>3. file' # <<>> /\ writer'[p] = "run"
    BY <1>c, <1>3, <2>2 DEF EndHeader
  <2>4. LinesApart' /\ ShapeFor(p)'
    BY <2>2, <2>3 DEF LinesApart, ShapeFor, HeaderWhole, LastLine
  <2> QED BY <1>c, <1>2, <1>3, <2>4, ShapeMoved DEF EndHeader, Running
<1>d. CASE Validate(p)
  <2>1. file # <<>> /\ Len(file) \in Nat \ {0} /\ HeaderWhole
    BY <1>d, LastLineTyped DEF Validate, Shape
  <2>2. /\ Len(file') = Len(file) /\ file'[Len(file)].ended
        /\ \A i \in 1..(Len(file) - 1) : file'[i] = file[i]
        /\ file'[Len(file)].kind = LastLine.kind
    <3>1. CASE LastLine.ended
      BY <1>d, <3>1 DEF Validate, TailEnded, LastLine
    <3>2. CASE ~LastLine.ended
      BY <1>d, <2>1, <3>2, LastLineTyped, RewrittenTyped DEF Validate, TailEnded, Shape
    <3> QED BY <3>1, <3>2
  <2>3. file'[1].kind = "header" /\ file'[1].ended /\ file' # <<>>
    BY <2>1, <2>2, EmptySeq DEF HeaderWhole, LastLine
  <2>4. LinesApart' /\ ShapeFor(p)'
    BY <1>d, <1>3, <2>1, <2>2, <2>3 DEF Validate, LinesApart, ShapeFor, HeaderWhole, LastLine, Shape
  <2> QED BY <1>d, <1>2, <1>3, <2>4, ShapeMoved DEF Validate, Running
<1>e. CASE OpenFails(p) \/ WriteFails(p) \/ Stopped(p)
  BY <1>e, <1>2, <1>3, ShapeKept DEF OpenFails, WriteFails, Stopped, WriterEnds
<1>f. CASE BeginLine(p)
  <2>1. PICK kind \in Torn : file' = Append(file, Line(kind, opening[p], Head(queue[p]).n))
    BY <1>f DEF BeginLine
  <2>2. file # <<>> /\ Len(file) \in Nat \ {0} /\ HeaderWhole /\ file[Len(file)].ended
    BY <1>f, LastLineTyped DEF BeginLine, Takes, Shape, ShapeFor, LastLine
  <2>3. Line(kind, opening[p], Head(queue[p]).n) \in LineType
    BY <1>f, TakesTyped, LineTyped DEF BeginLine, Shape, Typed, CommandType
  <2>4. Len(file') = Len(file) + 1 /\ \A i \in 1..Len(file) : file'[i] = file[i]
    BY <2>1, <2>3, AppendProperties DEF Shape, Typed
  <2>5. LinesApart' /\ ShapeFor(p)'
    BY <1>f, <1>3, <2>2, <2>4 DEF BeginLine, LinesApart, ShapeFor, HeaderWhole, Shape
  <2> QED BY <1>f, <1>2, <1>3, <2>5, ShapeMoved DEF BeginLine, Takes, Running
<1>g. CASE WriteLine(p) \/ EndLine(p)
  <2>1. file # <<>>
    BY <1>1, <1>g DEF WriteLine, EndLine
  <2>2. /\ [LastLine EXCEPT !.kind = "event"] \in LineType
        /\ [LastLine EXCEPT !.ended = TRUE] \in LineType
        /\ [LastLine EXCEPT !.ended = TRUE].ended
    BY <2>1, LastLineTyped DEF Shape
  <2>3. CASE WriteLine(p)
    <3> DEFINE line == [LastLine EXCEPT !.kind = "event"]
    <3>1. /\ file' = Rewritten(line) /\ writer[p] \in {"text", "newline"} /\ writer'[p] = "newline"
          /\ \A q \in Processes \ {p} : writer'[q] = writer[q]
      BY <1>3, <2>3 DEF WriteLine
    <3>2. line \in LineType
      BY <2>2
    <3> HIDE DEF line
    <3> QED BY <1>2, <3>1, <3>2, ShapeRewritten
  <2>4. CASE EndLine(p)
    <3> DEFINE line == [LastLine EXCEPT !.ended = TRUE]
    <3>1. /\ file' = Rewritten(line) /\ writer[p] \in {"text", "newline"} /\ writer'[p] = "run"
          /\ \A q \in Processes \ {p} : writer'[q] = writer[q]
      BY <1>3, <2>4 DEF EndLine
    <3>2. line \in LineType /\ line.ended
      BY <2>2
    <3> HIDE DEF line
    <3> QED BY <1>2, <3>1, <3>2, ShapeRewritten
  <2> QED BY <1>g, <2>3, <2>4
<1>h. CASE ReadPage(p) \/ FlushFile(p) \/ Report(p)
  <2>1. /\ file' = file /\ writer[p] \in {"run", "report"}
        /\ \/ writer' = writer
           \/ \E state \in {"run", "report"} : writer' = [writer EXCEPT ![p] = state]
    BY <1>h DEF ReadPage, FlushFile, Report, Takes, disk
  <2> QED BY <1>2, <1>3, <2>1, ShapeKept
<1> QED BY <1>a, <1>b, <1>c, <1>d, <1>e, <1>f, <1>g, <1>h DEF Thread

LEMMA ShapeStep == Shape /\ [Next]_vars => Shape'
<1> SUFFICES ASSUME Shape, [Next]_vars PROVE Shape'
  OBVIOUS
<1>1. Owned' /\ writer \in [Processes -> WriterStates]
  BY OwnedStep DEF Shape, Owned
<1>2. CASE RemoveLock
  BY <1>1, <1>2, ShapeKept DEF RemoveLock, Shape, Typed, counts
<1>3. ASSUME NEW p \in Processes, Recorder(p) PROVE Shape'
  <2>1. Typed'
    BY <1>3, TypedRecorder DEF Shape
  <2>2. CASE Open(p)
    BY <1>1, <2>1, <2>2, ShapeKept DEF Open
  <2>3. CASE UNCHANGED <<file, writer>>
    BY <1>1, <2>1, <2>3, ShapeKept
  <2> QED
    BY <1>3, <2>2, <2>3
    DEF Recorder, RecordEvent, RecordBetween, AskPage, NextPage, LastPage, QueryFails, Detach,
        AskFlush, AskShutdown, WriterGone, disk
<1>4. ASSUME NEW p \in Processes, Thread(p) PROVE Shape'
  BY <1>4, ShapeThread
<1>5. ASSUME NEW p \in Processes, Crash(p) PROVE Shape'
  <2>1. Typed'
    BY <1>5, EmptySeq DEF Crash, Shape, Typed, disk, counts
  <2> QED BY <1>1, <1>5, <2>1, ShapeKept DEF Crash, disk
<1>6. CASE UNCHANGED vars
  BY <1>1, <1>6, ShapeKept DEF vars, disk, counts, Shape, Typed
<1> QED BY <1>2, <1>3, <1>4, <1>5, <1>6 DEF Next

\* No record is ever glued to a torn line, nor written into a file without a
\* whole header, wherever a process crashed or a write failed
\* (validate_or_initialize, Writer::run).
THEOREM LinesApartHolds == Spec => []LinesApart
<1>1. Shape => LinesApart
  BY DEF Shape
<1> QED BY <1>1, ShapeInit, ShapeStep, PTL DEF Spec

-----------------------------------------------------------------------------
(* A close that succeeds *)

\* The records of an opening that are in the file, as CloseSaves counts them.
LinesOf(o) == {i \in DOMAIN file : IsEvent(file[i]) /\ file[i].opening = o}
WrittenBy(o) == Cardinality(LinesOf(o))

\* The records of a queue are those numbered k + 1 to m, in this order.
Numbered(q, k, m) ==
  /\ k \in Nat /\ m \in Nat /\ k <= m
  /\ \A i \in DOMAIN q : q[i].kind = "record" => q[i].n \in (k + 1)..m
  /\ \A n \in (k + 1)..m : \E i \in DOMAIN q : q[i].kind = "record" /\ q[i].n = n
  /\ \A i, j \in DOMAIN q :
       i < j /\ q[i].kind = "record" /\ q[j].kind = "record" => q[i].n < q[j].n

\* The record whose text the writer has begun and not yet written.
Begun(p) == IF writer[p] = "text" THEN 1 ELSE 0

IsSaved(o) == \E s \in saved : s.opening = o

\* What is last in the queue while the recorder waits for its answer.
Awaited(p, kind, states) ==
  \A i \in DOMAIN queue[p] :
    queue[p][i].kind = kind => client[p] \in states /\ i = Len(queue[p])

\* The line the writer is writing is of its own opening.
WritesOwn(p) ==
  writer[p] = "text" => LastLine.kind \in Torn /\ LastLine.opening = opening[p]

\* Nothing is lost: while the opening has no error, what it was offered is in the file
\* or in the queue.  An error that comes after the flush was asked for does not matter.
NothingLost(p) ==
  Running(p) /\ (~failed[p] \/ client[p] = "flushing") =>
    Numbered(queue[p], WrittenBy(opening[p]) + Begun(p), offered[p])

\* Once an opening is saved, its writer has nothing left to write.
NothingAfter(p) ==
  Running(p) /\ IsSaved(opening[p]) =>
    /\ writer[p] \in {"run", "report"} /\ client[p] \in {"drop", "joining"}
    /\ \A i \in DOMAIN queue[p] : queue[p][i].kind # "record"

DeliversFor(p) ==
  /\ writer[p] \in {"locked", "header"} => client[p] = "opening"
  /\ ~Running(p) => queue[p] = <<>>
  /\ Running(p) => opening[p] \in 1..opens
  /\ Awaited(p, "page", {"loading", "paging"})
  /\ Awaited(p, "flush", {"flushing"})
  /\ WritesOwn(p)
  /\ NothingLost(p)
  /\ NothingAfter(p)

Fields == client \in [Processes -> ClientStates] /\ failed \in [Processes -> BOOLEAN]

Delivers ==
  /\ Fields
  /\ \A i \in DOMAIN file : file[i].opening \in 0..opens
  /\ \A s \in saved : s.opening \in 1..opens /\ s.records = WrittenBy(s.opening)
  /\ \A p \in Processes : DeliversFor(p)

-----------------------------------------------------------------------------
(* Numbered queues *)

LEMMA TailOf ==
  ASSUME NEW q \in Seq(CommandType), q # <<>>
  PROVE  /\ Len(q) \in Nat \ {0} /\ Tail(q) \in Seq(CommandType)
         /\ Head(q) = q[1] /\ Head(q) \in CommandType
         /\ Len(Tail(q)) = Len(q) - 1 /\ DOMAIN Tail(q) = 1..(Len(q) - 1) /\ DOMAIN q = 1..Len(q)
         /\ \A i \in 1..(Len(q) - 1) : Tail(q)[i] = q[i + 1]
BY EmptySeq, LenProperties, HeadTailProperties

LEMMA AppendOf ==
  ASSUME NEW q \in Seq(CommandType), NEW c \in CommandType
  PROVE  /\ Len(q) \in Nat /\ Append(q, c) \in Seq(CommandType)
         /\ Len(Append(q, c)) = Len(q) + 1
         /\ DOMAIN Append(q, c) = 1..(Len(q) + 1) /\ DOMAIN q = 1..Len(q)
         /\ Append(q, c)[Len(q) + 1] = c
         /\ \A i \in 1..Len(q) : Append(q, c)[i] = q[i]
BY LenProperties, AppendProperties

LEMMA NumberedTail ==
  ASSUME NEW q \in Seq(CommandType), NEW k, NEW m, Numbered(q, k, m),
         q # <<>>, Head(q).kind = "record"
  PROVE  Numbered(Tail(q), k + 1, m)
<1>1. /\ Len(q) \in Nat \ {0} /\ Head(q) = q[1]
      /\ DOMAIN Tail(q) = 1..(Len(q) - 1) /\ DOMAIN q = 1..Len(q)
      /\ \A i \in 1..(Len(q) - 1) : Tail(q)[i] = q[i + 1]
  BY TailOf
<1>2. ASSUME NEW i \in DOMAIN q PROVE q[i].n \in Nat
  <2>1. q[i] \in CommandType
    BY <1>1, ElementOfSeq
  <2> QED BY <2>1 DEF CommandType
<1>3. q[1].n \in (k + 1)..m /\ k \in Nat /\ m \in Nat
  BY <1>1 DEF Numbered
<1>4. q[1].n = k + 1
  <2>1. PICK i \in DOMAIN q : q[i].kind = "record" /\ q[i].n = k + 1
    BY <1>3 DEF Numbered
  <2>2. 1 < i => q[1].n < q[i].n
    BY <1>1, <2>1 DEF Numbered
  <2> QED BY <1>1, <1>2, <1>3, <2>1, <2>2
<1>5. ASSUME NEW i \in 1..(Len(q) - 1), q[i + 1].kind = "record"
      PROVE  q[i + 1].n \in (k + 2)..m
  <2>1. q[1].n < q[i + 1].n /\ q[i + 1].n \in (k + 1)..m
    BY <1>1, <1>5 DEF Numbered
  <2> QED BY <1>3, <1>4, <2>1
<1>6. ASSUME NEW n \in (k + 2)..m
      PROVE  \E i \in 1..(Len(q) - 1) : q[i + 1].kind = "record" /\ q[i + 1].n = n
  <2>1. PICK j \in DOMAIN q : q[j].kind = "record" /\ q[j].n = n
    BY <1>3 DEF Numbered
  <2>2. j # 1
    BY <1>3, <1>4, <2>1
  <2>3. j - 1 \in 1..(Len(q) - 1) /\ (j - 1) + 1 = j
    BY <1>1, <2>1, <2>2
  <2> QED BY <2>1, <2>3
<1>7. ASSUME NEW i \in 1..(Len(q) - 1), NEW j \in 1..(Len(q) - 1), i < j,
             q[i + 1].kind = "record", q[j + 1].kind = "record"
      PROVE  q[i + 1].n < q[j + 1].n
  <2>1. i + 1 \in DOMAIN q /\ j + 1 \in DOMAIN q /\ i + 1 < j + 1
    BY <1>1, <1>7
  <2> QED BY <1>7, <2>1 DEF Numbered
<1>8. k + 1 \in Nat /\ m \in Nat /\ k + 1 <= m /\ (k + 1) + 1 = k + 2
  BY <1>3
<1> DEFINE t == Tail(q)
<1>9. DOMAIN t = 1..(Len(q) - 1) /\ \A i \in 1..(Len(q) - 1) : t[i] = q[i + 1]
  BY <1>1
<1> HIDE DEF t
<1>a. \A i \in DOMAIN t : t[i].kind = "record" => t[i].n \in ((k + 1) + 1)..m
  BY <1>5, <1>8, <1>9
<1>b. \A n \in ((k + 1) + 1)..m : \E i \in DOMAIN t : t[i].kind = "record" /\ t[i].n = n
  <2> SUFFICES ASSUME NEW n \in ((k + 1) + 1)..m
               PROVE  \E i \in DOMAIN t : t[i].kind = "record" /\ t[i].n = n
    OBVIOUS
  <2>1. n \in (k + 2)..m
    BY <1>8
  <2>2. PICK i \in 1..(Len(q) - 1) : q[i + 1].kind = "record" /\ q[i + 1].n = n
    BY <1>6, <2>1
  <2>3. i \in DOMAIN t /\ t[i] = q[i + 1]
    BY <1>9
  <2> QED BY <2>2, <2>3
<1>c. \A i, j \in DOMAIN t :
        i < j /\ t[i].kind = "record" /\ t[j].kind = "record" => t[i].n < t[j].n
  <2> SUFFICES ASSUME NEW i \in DOMAIN t, NEW j \in DOMAIN t, i < j,
                      t[i].kind = "record", t[j].kind = "record"
               PROVE  t[i].n < t[j].n
    OBVIOUS
  <2>1. i \in 1..(Len(q) - 1) /\ j \in 1..(Len(q) - 1) /\ t[i] = q[i + 1] /\ t[j] = q[j + 1]
    BY <1>9
  <2> QED BY <1>7, <2>1
<1>d. Numbered(t, k + 1, m)
  BY <1>8, <1>a, <1>b, <1>c DEF Numbered
<1> QED BY <1>d DEF t

LEMMA NumberedSkip ==
  ASSUME NEW q \in Seq(CommandType), NEW k, NEW m, Numbered(q, k, m),
         q # <<>>, Head(q).kind # "record"
  PROVE  Numbered(Tail(q), k, m)
<1>1. /\ Len(q) \in Nat \ {0} /\ Head(q) = q[1]
      /\ DOMAIN Tail(q) = 1..(Len(q) - 1) /\ DOMAIN q = 1..Len(q)
      /\ \A i \in 1..(Len(q) - 1) : Tail(q)[i] = q[i + 1]
  BY TailOf
<1>2. \A i \in 1..(Len(q) - 1) : i + 1 \in DOMAIN q
  BY <1>1
<1>3. ASSUME NEW n \in (k + 1)..m
      PROVE  \E i \in 1..(Len(q) - 1) : q[i + 1].kind = "record" /\ q[i + 1].n = n
  <2>1. PICK j \in DOMAIN q : q[j].kind = "record" /\ q[j].n = n
    BY DEF Numbered
  <2>2. j # 1
    BY <1>1, <2>1
  <2>3. j - 1 \in 1..(Len(q) - 1) /\ (j - 1) + 1 = j
    BY <1>1, <2>1, <2>2
  <2> QED BY <2>1, <2>3
<1>4. ASSUME NEW i \in 1..(Len(q) - 1), NEW j \in 1..(Len(q) - 1), i < j,
             q[i + 1].kind = "record", q[j + 1].kind = "record"
      PROVE  q[i + 1].n < q[j + 1].n
  <2>1. i + 1 \in DOMAIN q /\ j + 1 \in DOMAIN q /\ i + 1 < j + 1
    BY <1>1, <1>4
  <2> QED BY <1>4, <2>1 DEF Numbered
<1> DEFINE t == Tail(q)
<1>5. DOMAIN t = 1..(Len(q) - 1) /\ \A i \in 1..(Len(q) - 1) : t[i] = q[i + 1]
  BY <1>1
<1> HIDE DEF t
<1>a. \A i \in DOMAIN t : t[i].kind = "record" => t[i].n \in (k + 1)..m
  BY <1>2, <1>5 DEF Numbered
<1>b. \A n \in (k + 1)..m : \E i \in DOMAIN t : t[i].kind = "record" /\ t[i].n = n
  <2> SUFFICES ASSUME NEW n \in (k + 1)..m
               PROVE  \E i \in DOMAIN t : t[i].kind = "record" /\ t[i].n = n
    OBVIOUS
  <2>1. PICK i \in 1..(Len(q) - 1) : q[i + 1].kind = "record" /\ q[i + 1].n = n
    BY <1>3
  <2>2. i \in DOMAIN t /\ t[i] = q[i + 1]
    BY <1>5
  <2> QED BY <2>1, <2>2
<1>c. \A i, j \in DOMAIN t :
        i < j /\ t[i].kind = "record" /\ t[j].kind = "record" => t[i].n < t[j].n
  BY <1>4, <1>5
<1>d. Numbered(t, k, m)
  BY <1>a, <1>b, <1>c DEF Numbered
<1> QED BY <1>d DEF t

LEMMA NumberedRecord ==
  ASSUME NEW q \in Seq(CommandType), NEW k, NEW m, Numbered(q, k, m)
  PROVE  Numbered(Append(q, Record(m + 1)), k, m + 1)
<1> DEFINE c == Record(m + 1)
           r == Append(q, c)
<1>1. k \in Nat /\ m \in Nat /\ k <= m
  BY DEF Numbered
<1>2. c \in CommandType /\ c.kind = "record" /\ c.n = m + 1
  BY <1>1 DEF Record, CommandType
<1>3. /\ Len(q) \in Nat /\ DOMAIN r = 1..(Len(q) + 1) /\ DOMAIN q = 1..Len(q)
      /\ r[Len(q) + 1] = c /\ \A i \in 1..Len(q) : r[i] = q[i]
  <2> HIDE DEF c
  <2> QED BY <1>2, AppendOf
<1> HIDE DEF c, r
<1>4. ASSUME NEW i \in DOMAIN r, r[i].kind = "record"
      PROVE  r[i].n \in (k + 1)..(m + 1)
  <2>1. CASE i = Len(q) + 1
    BY <1>1, <1>2, <1>3, <2>1
  <2>2. CASE i \in 1..Len(q)
    <3>1. r[i].n \in (k + 1)..m
      BY <1>3, <1>4, <2>2 DEF Numbered
    <3> QED BY <1>1, <3>1
  <2> QED BY <1>3, <2>1, <2>2
<1>5. ASSUME NEW n \in (k + 1)..(m + 1)
      PROVE  \E i \in DOMAIN r : r[i].kind = "record" /\ r[i].n = n
  <2>1. CASE n = m + 1
    <3>1. Len(q) + 1 \in DOMAIN r
      BY <1>3
    <3> QED BY <1>2, <1>3, <2>1, <3>1
  <2>2. CASE n # m + 1
    <3>1. n \in (k + 1)..m
      BY <1>1, <2>2
    <3>2. PICK i \in DOMAIN q : q[i].kind = "record" /\ q[i].n = n
      BY <3>1 DEF Numbered
    <3>3. i \in DOMAIN r /\ r[i] = q[i]
      BY <1>3, <3>2
    <3> QED BY <3>2, <3>3
  <2> QED BY <2>1, <2>2
<1>6. ASSUME NEW i \in DOMAIN r, NEW j \in DOMAIN r, i < j,
             r[i].kind = "record", r[j].kind = "record"
      PROVE  r[i].n < r[j].n
  <2>1. i \in 1..Len(q) /\ r[i] = q[i] /\ q[i].n \in (k + 1)..m
    <3>1. i \in 1..Len(q)
      BY <1>3, <1>6
    <3> QED BY <1>3, <1>6, <3>1 DEF Numbered
  <2>2. CASE j = Len(q) + 1
    BY <1>1, <1>2, <1>3, <2>1, <2>2
  <2>3. CASE j \in 1..Len(q)
    BY <1>3, <1>6, <2>1, <2>3 DEF Numbered
  <2> QED BY <1>3, <2>2, <2>3
<1>7. Numbered(r, k, m + 1)
  <2>1. m + 1 \in Nat /\ k <= m + 1
    BY <1>1
  <2> QED BY <1>1, <1>4, <1>5, <1>6, <2>1 DEF Numbered
<1> QED BY <1>7 DEF r, c

LEMMA NumberedOther ==
  ASSUME NEW q \in Seq(CommandType), NEW k, NEW m, Numbered(q, k, m),
         NEW c \in CommandType, c.kind # "record"
  PROVE  Numbered(Append(q, c), k, m)
<1> DEFINE r == Append(q, c)
<1>1. /\ Len(q) \in Nat /\ DOMAIN r = 1..(Len(q) + 1) /\ DOMAIN q = 1..Len(q)
      /\ r[Len(q) + 1] = c /\ \A i \in 1..Len(q) : r[i] = q[i]
  BY AppendOf
<1> HIDE DEF r
<1>2. \A i \in DOMAIN r : r[i].kind = "record" => i \in DOMAIN q /\ r[i] = q[i]
  <2> SUFFICES ASSUME NEW i \in DOMAIN r, r[i].kind = "record"
               PROVE  i \in DOMAIN q /\ r[i] = q[i]
    OBVIOUS
  <2>1. i # Len(q) + 1
    BY <1>1
  <2>2. i \in 1..Len(q)
    BY <1>1, <2>1
  <2> QED BY <1>1, <2>2
<1>3. \A i \in DOMAIN q : i \in DOMAIN r /\ r[i] = q[i]
  BY <1>1
<1>4. Numbered(r, k, m)
  BY <1>2, <1>3 DEF Numbered
<1> QED BY <1>4 DEF r

LEMMA NumberedNone ==
  ASSUME NEW q, NEW k, NEW m, Numbered(q, k, m), \A i \in DOMAIN q : q[i].kind # "record"
  PROVE  k = m
<1>1. k \in Nat /\ m \in Nat /\ k <= m
  BY DEF Numbered
<1>2. ASSUME k # m PROVE FALSE
  <2>1. m \in (k + 1)..m
    BY <1>1, <1>2
  <2> QED BY <2>1 DEF Numbered
<1> QED BY <1>2

LEMMA NumberedEmpty == ASSUME NEW k \in Nat PROVE Numbered(<<>>, k, k)
BY DEF Numbered

-----------------------------------------------------------------------------
(* The records of an opening in the file *)

LEMMA UpTo == ASSUME NEW n \in Nat \ {0}, NEW i \in 1..n PROVE i \in 1..(n - 1) \/ i = n
OBVIOUS

LEMMA LinesFinite ==
  ASSUME Typed, NEW o
  PROVE  IsFiniteSet(LinesOf(o)) /\ WrittenBy(o) \in Nat
<1>1. Len(file) \in Nat /\ DOMAIN file = 1..Len(file)
  BY LenProperties DEF Typed
<1>2. IsFiniteSet(1..Len(file)) /\ LinesOf(o) \in SUBSET (1..Len(file))
  BY <1>1, FS_Interval DEF LinesOf
<1>3. IsFiniteSet(LinesOf(o))
  BY <1>2, FS_Subset
<1> QED BY <1>3, FS_CardinalityType DEF WrittenBy

\* Rewriting the last line keeps the records unless it becomes one.
LEMMA LinesRewritten ==
  ASSUME Typed, file # <<>>, NEW line \in LineType, file' = Rewritten(line),
         IsEvent(line) \/ IsEvent(LastLine) =>
           IsEvent(line) /\ IsEvent(LastLine) /\ line.opening = LastLine.opening,
         NEW o
  PROVE  WrittenBy(o)' = WrittenBy(o)
<1>1. Len(file) \in Nat \ {0} /\ DOMAIN file = 1..Len(file)
  BY LastLineTyped, LenProperties DEF Typed
<1>2. /\ file' \in Seq(LineType) /\ Len(file') = Len(file) /\ file'[Len(file)] = line
      /\ \A i \in 1..(Len(file) - 1) : file'[i] = file[i]
  BY RewrittenTyped
<1>3. DOMAIN file' = 1..Len(file)
  BY <1>2, LenProperties
<1>4. \A i \in 1..Len(file) : i \in 1..(Len(file) - 1) \/ i = Len(file)
  BY <1>1, UpTo
<1>5. \A i \in 1..Len(file) :
        (IsEvent(file'[i]) /\ file'[i].opening = o) <=> (IsEvent(file[i]) /\ file[i].opening = o)
  BY <1>2, <1>4 DEF LastLine
<1>6. LinesOf(o)' = LinesOf(o)
  BY <1>1, <1>3, <1>5 DEF LinesOf
<1> QED BY <1>6 DEF WrittenBy

\* The text of a record is whole: the opening it is of has one more.
LEMMA LinesGrow ==
  ASSUME Typed, file # <<>>, ~IsEvent(LastLine),
         file' = Rewritten([LastLine EXCEPT !.kind = "event"]), NEW o
  PROVE  WrittenBy(o)' = IF o = LastLine.opening THEN WrittenBy(o) + 1 ELSE WrittenBy(o)
<1> DEFINE line == [LastLine EXCEPT !.kind = "event"]
<1>1. Len(file) \in Nat \ {0} /\ DOMAIN file = 1..Len(file)
  BY LastLineTyped, LenProperties DEF Typed
<1>2. line \in LineType /\ IsEvent(line) /\ line.opening = LastLine.opening
  BY LastLineTyped DEF LineType, IsEvent
<1>3. file' = Rewritten(line)
  OBVIOUS
<1> HIDE DEF line
<1>4. /\ file' \in Seq(LineType) /\ Len(file') = Len(file) /\ file'[Len(file)] = line
      /\ \A i \in 1..(Len(file) - 1) : file'[i] = file[i]
  <2>1. /\ Rewritten(line) \in Seq(LineType) /\ Len(Rewritten(line)) = Len(file)
        /\ Rewritten(line)[Len(file)] = line
        /\ \A i \in 1..(Len(file) - 1) : Rewritten(line)[i] = file[i]
    BY <1>2, RewrittenTyped
  <2> QED BY <1>3, <2>1
<1>5. DOMAIN file' = 1..Len(file)
  BY <1>4, LenProperties
<1>6. \A i \in 1..Len(file) : i \in 1..(Len(file) - 1) \/ i = Len(file)
  BY <1>1, UpTo
<1>7. Len(file) \in 1..Len(file) /\ Len(file) \notin LinesOf(o)
  BY <1>1 DEF LinesOf, LastLine
<1>8. LinesOf(o)' = IF o = LastLine.opening THEN LinesOf(o) \cup {Len(file)} ELSE LinesOf(o)
  <2>1. \A i \in 1..Len(file) :
          (IsEvent(file'[i]) /\ file'[i].opening = o)
            <=> (IsEvent(file[i]) /\ file[i].opening = o) \/ (i = Len(file) /\ o = LastLine.opening)
    BY <1>2, <1>4, <1>6 DEF LastLine
  <2>2. LinesOf(o)' = {i \in 1..Len(file) : (IsEvent(file[i]) /\ file[i].opening = o)
                                              \/ (i = Len(file) /\ o = LastLine.opening)}
    BY <1>5, <2>1 DEF LinesOf
  <2>3. LinesOf(o) = {i \in 1..Len(file) : IsEvent(file[i]) /\ file[i].opening = o}
    BY <1>1 DEF LinesOf
  <2> QED BY <1>7, <2>2, <2>3
<1>9. IsFiniteSet(LinesOf(o)) /\ WrittenBy(o) \in Nat
  BY LinesFinite
<1>10. Cardinality(LinesOf(o) \cup {Len(file)}) = Cardinality(LinesOf(o)) + 1
  BY <1>7, <1>9, FS_AddElement
<1> QED BY <1>8, <1>10 DEF WrittenBy

LEMMA LinesAppended ==
  ASSUME Typed, NEW line \in LineType, ~IsEvent(line), file' = Append(file, line), NEW o
  PROVE  WrittenBy(o)' = WrittenBy(o)
<1>1. Len(file) \in Nat /\ DOMAIN file = 1..Len(file)
  BY LenProperties DEF Typed
<1>2. /\ Len(file') = Len(file) + 1 /\ file' \in Seq(LineType) /\ file'[Len(file) + 1] = line
      /\ \A i \in 1..Len(file) : file'[i] = file[i]
  BY AppendProperties DEF Typed
<1>3. DOMAIN file' = 1..(Len(file) + 1)
  BY <1>2, LenProperties
<1>4. \A i \in 1..(Len(file) + 1) : i \in 1..Len(file) \/ i = Len(file) + 1
  BY <1>1
<1>5. \A i \in 1..Len(file) : i \in 1..(Len(file) + 1)
  BY <1>1
<1>6. LinesOf(o)' = LinesOf(o)
  BY <1>1, <1>2, <1>3, <1>4, <1>5 DEF LinesOf
<1> QED BY <1>6 DEF WrittenBy

-----------------------------------------------------------------------------
(* Every step keeps it *)

\* A step of p leaves the fields of the others alone; it writes only while p runs.
OnlyOf(p) ==
  /\ \A q \in Processes \ {p} :
       /\ writer'[q] = writer[q] /\ queue'[q] = queue[q] /\ failed'[q] = failed[q]
       /\ client'[q] = client[q] /\ opening'[q] = opening[q] /\ offered'[q] = offered[q]
  /\ opens' \in Nat /\ opens <= opens'
  /\ Running(p) \/ (file' = file /\ saved' = saved)

LEMMA OthersKept ==
  ASSUME Shape, Delivers, NEW p \in Processes, OnlyOf(p), NEW q \in Processes \ {p}
  PROVE  DeliversFor(q)'
<1>1. /\ writer'[q] = writer[q] /\ queue'[q] = queue[q] /\ failed'[q] = failed[q]
      /\ client'[q] = client[q] /\ opening'[q] = opening[q] /\ offered'[q] = offered[q]
  BY DEF OnlyOf
<1>2. DeliversFor(q) /\ Running(q)' = Running(q)
  BY <1>1 DEF Delivers, Running
<1>3. Awaited(q, "page", {"loading", "paging"})' /\ Awaited(q, "flush", {"flushing"})'
  BY <1>1, <1>2 DEF DeliversFor, Awaited
<1>4. Running(q) => opening[q] \in 1..opens /\ opening[q] \in 1..opens'
  <2>1. opens \in Nat /\ opens' \in Nat /\ opens <= opens'
    BY DEF OnlyOf, Shape, Typed
  <2>2. Running(q) => opening[q] \in 1..opens
    BY <1>2 DEF DeliversFor
  <2> QED BY <2>1, <2>2
<1>5. CASE ~Running(q)
  BY <1>1, <1>2, <1>3, <1>5 DEF DeliversFor, WritesOwn, NothingLost, NothingAfter, Running
<1>6. CASE Running(q)
  <2>1. file' = file /\ saved' = saved
    BY <1>6 DEF Shape, Owned, OneWriter, OnlyOf
  <2>2. WritesOwn(q)'
    BY <1>1, <1>2, <2>1 DEF DeliversFor, WritesOwn, LastLine
  <2>3. WrittenBy(opening[q])' = WrittenBy(opening[q]) /\ Begun(q)' = Begun(q)
    BY <1>1, <2>1 DEF WrittenBy, LinesOf, Begun
  <2>4. NothingLost(q)'
    BY <1>1, <1>2, <2>3 DEF DeliversFor, NothingLost
  <2>5. IsSaved(opening[q])' = IsSaved(opening[q])
    BY <1>1, <2>1 DEF IsSaved
  <2>6. NothingAfter(q)'
    BY <1>1, <1>2, <2>5 DEF DeliversFor, NothingAfter
  <2> QED BY <1>1, <1>2, <1>3, <1>4, <1>6, <2>2, <2>4, <2>6 DEF DeliversFor
<1> QED BY <1>5, <1>6

\* What remains to be shown of a step of p.
LEMMA DeliversStep ==
  ASSUME Shape, Delivers, NEW p \in Processes, OnlyOf(p), Fields', DeliversFor(p)',
         \A i \in DOMAIN file' : file'[i].opening \in 0..opens',
         \A s \in saved' : s.opening \in 1..opens' /\ s.records = WrittenBy(s.opening)'
  PROVE  Delivers'
BY OthersKept DEF Delivers

\* A step that writes nothing and saves nothing.
LEMMA DiskKept ==
  ASSUME Shape, Delivers, file' = file, saved' = saved, opens' \in Nat, opens <= opens'
  PROVE  /\ \A i \in DOMAIN file' : file'[i].opening \in 0..opens'
         /\ \A s \in saved' : s.opening \in 1..opens' /\ s.records = WrittenBy(s.opening)'
         /\ \A o : WrittenBy(o)' = WrittenBy(o)
<1>1. \A o : WrittenBy(o)' = WrittenBy(o)
  BY DEF WrittenBy, LinesOf
<1>2. opens \in Nat
  BY DEF Shape, Typed
<1>3. 0..opens \subseteq 0..opens' /\ 1..opens \subseteq 1..opens'
  BY <1>2
<1> QED BY <1>1, <1>3 DEF Delivers

LEMMA QueueAppended ==
  ASSUME Typed, NEW p \in Processes, NEW c \in CommandType, Queued(p, c)
  PROVE  /\ queue'[p] = Append(queue[p], c) /\ queue[p] \in Seq(CommandType)
         /\ \A q \in Processes \ {p} : queue'[q] = queue[q]
         /\ Len(queue[p]) \in Nat
         /\ DOMAIN queue'[p] = 1..(Len(queue[p]) + 1) /\ DOMAIN queue[p] = 1..Len(queue[p])
         /\ Len(queue'[p]) = Len(queue[p]) + 1 /\ queue'[p][Len(queue[p]) + 1] = c
         /\ \A i \in 1..Len(queue[p]) : queue'[p][i] = queue[p][i]
<1>1. queue[p] \in Seq(CommandType)
  BY DEF Typed
<1>2. queue'[p] = Append(queue[p], c) /\ \A q \in Processes \ {p} : queue'[q] = queue[q]
  BY DEF Typed, Queued
<1> QED BY <1>1, <1>2, AppendOf

LEMMA PlainCommands ==
  /\ Page \in CommandType /\ Flush \in CommandType /\ Shutdown \in CommandType
  /\ Page.kind = "page" /\ Flush.kind = "flush" /\ Shutdown.kind = "shutdown"
BY DEF Page, Flush, Shutdown, CommandType

\* The elements of a queue one command longer.
LEMMA AppendedCases ==
  ASSUME Typed, NEW p \in Processes, NEW c \in CommandType, Queued(p, c),
         NEW i \in DOMAIN queue'[p]
  PROVE  \/ i \in DOMAIN queue[p] /\ queue'[p][i] = queue[p][i]
         \/ i = Len(queue'[p]) /\ queue'[p][i] = c
<1>1. CASE i = Len(queue[p]) + 1
  BY <1>1, QueueAppended
<1>2. CASE i # Len(queue[p]) + 1
  <2>1. i \in 1..Len(queue[p])
    <3>1. Len(queue[p]) \in Nat /\ i \in 1..(Len(queue[p]) + 1)
      BY QueueAppended
    <3> QED BY <1>2, <3>1
  <2> QED BY <2>1, QueueAppended
<1> QED BY <1>1, <1>2

\* The elements of the queue the writer took a command from.
LEMMA TakenCases ==
  ASSUME Typed, NEW p \in Processes, NEW kind, Takes(p, kind)
  PROVE  /\ writer[p] = "run" /\ queue[p] \in Seq(CommandType) /\ queue[p] # <<>>
         /\ 1 \in DOMAIN queue[p] /\ queue[p][1] = Head(queue[p]) /\ Head(queue[p]).kind = kind
         /\ queue'[p] = Tail(queue[p]) /\ \A q \in Processes \ {p} : queue'[q] = queue[q]
         /\ Len(queue'[p]) = Len(queue[p]) - 1 /\ Len(queue[p]) \in Nat \ {0}
         /\ DOMAIN queue'[p] = 1..(Len(queue[p]) - 1)
         /\ \A i \in DOMAIN queue'[p] : i + 1 \in DOMAIN queue[p] /\ queue'[p][i] = queue[p][i + 1]
<1>1. writer[p] = "run" /\ queue[p] \in Seq(CommandType) /\ queue[p] # <<>> /\ Head(queue[p]).kind = kind
  BY DEF Typed, Takes
<1>2. queue'[p] = Tail(queue[p]) /\ \A q \in Processes \ {p} : queue'[q] = queue[q]
  BY DEF Typed, Takes
<1>3. /\ Len(queue[p]) \in Nat \ {0} /\ Head(queue[p]) = queue[p][1]
      /\ Len(Tail(queue[p])) = Len(queue[p]) - 1
      /\ DOMAIN Tail(queue[p]) = 1..(Len(queue[p]) - 1) /\ DOMAIN queue[p] = 1..Len(queue[p])
      /\ \A i \in 1..(Len(queue[p]) - 1) : Tail(queue[p])[i] = queue[p][i + 1]
  BY <1>1, TailOf
<1>4. 1 \in DOMAIN queue[p] /\ \A i \in 1..(Len(queue[p]) - 1) : i + 1 \in DOMAIN queue[p]
  BY <1>3
<1> QED BY <1>1, <1>2, <1>3, <1>4

\* A record is offered: it is queued, or the opening has an error from now on.
LEMMA OfferDelivers ==
  ASSUME Shape, Delivers, NEW p \in Processes, Offer(p),
         client[p] \in {"idle", "loaded-page", "read-page"},
         client' = client \/ \E state \in {"idle", "drop", "flush"} : Becomes(p, state),
         UNCHANGED <<file, writer, opening, opens, saved>>
  PROVE  Delivers'
<1>1. /\ Typed /\ Fields /\ DeliversFor(p) /\ opens \in Nat
      /\ client'[p] \in {"idle", "loaded-page", "read-page", "drop", "flush"}
      /\ \A q \in Processes \ {p} : client'[q] = client[q]
      /\ client' \in [Processes -> ClientStates]
  BY DEF Shape, Delivers, Fields, Becomes, ClientStates, Typed
<1>2. /\ \A q \in Processes \ {p} : offered'[q] = offered[q] /\ failed'[q] = failed[q]
      /\ offered'[p] = offered[p] + 1 /\ failed'[p] = (failed[p] \/ FailsRecord(p))
      /\ failed' \in [Processes -> BOOLEAN]
  BY <1>1 DEF Offer, Typed, Fields
<1>3. \A i \in DOMAIN queue[p] : queue[p][i].kind \notin {"page", "flush"}
  BY <1>1 DEF DeliversFor, Awaited
<1>4. Running(p) => ~IsSaved(opening[p])
  BY <1>1 DEF DeliversFor, NothingAfter
<1>5. Running(p)' = Running(p) /\ Begun(p)' = Begun(p) /\ IsSaved(opening[p])' = IsSaved(opening[p])
  BY DEF Running, Begun, IsSaved
<1>6. /\ \A i \in DOMAIN file' : file'[i].opening \in 0..opens'
      /\ \A s \in saved' : s.opening \in 1..opens' /\ s.records = WrittenBy(s.opening)'
      /\ \A o : WrittenBy(o)' = WrittenBy(o)
  BY <1>1, DiskKept
<1>7. /\ Running(p)' => opening[p]' \in 1..opens'
      /\ WritesOwn(p)' /\ NothingAfter(p)'
  BY <1>1, <1>4, <1>5 DEF DeliversFor, WritesOwn, LastLine, NothingAfter
<1>8. CASE ~failed[p] /\ Running(p) /\ HasRoom(p)
  <2> DEFINE c == Record(offered[p] + 1)
  <2>1. c \in CommandType /\ c.kind = "record" /\ Queued(p, c)
    BY <1>1, <1>8 DEF Record, CommandType, Offer, Typed
  <2>2. NothingLost(p)'
    <3>1. Numbered(queue[p], WrittenBy(opening[p]) + Begun(p), offered[p])
      BY <1>1, <1>8 DEF DeliversFor, NothingLost
    <3>2. queue[p] \in Seq(CommandType) /\ queue'[p] = Append(queue[p], c)
      <4> HIDE DEF c
      <4> QED BY <1>1, <2>1, QueueAppended
    <3>3. Numbered(queue'[p], WrittenBy(opening[p]) + Begun(p), offered[p] + 1)
      BY <3>1, <3>2, NumberedRecord
    <3>4. WrittenBy(opening[p])' = WrittenBy(opening[p])
      BY <1>6 DEF WrittenBy, LinesOf
    <3> QED BY <1>2, <1>5, <3>3, <3>4 DEF NothingLost
  <2> HIDE DEF c
  <2>3. \A i \in DOMAIN queue'[p] : queue'[p][i].kind \notin {"page", "flush"}
    BY <1>1, <1>3, <2>1, AppendedCases
  <2>4. \A q \in Processes \ {p} : queue'[q] = queue[q]
    BY <1>1, <2>1, QueueAppended
  <2>5. DeliversFor(p)'
    BY <1>1, <1>5, <1>7, <1>8, <2>2, <2>3 DEF DeliversFor, Awaited
  <2>6. OnlyOf(p) /\ Fields'
    BY <1>1, <1>2, <2>4 DEF OnlyOf, Fields
  <2> QED BY <1>6, <2>5, <2>6, DeliversStep
<1>9. CASE ~(~failed[p] /\ Running(p) /\ HasRoom(p))
  <2>1. queue' = queue
    BY <1>9 DEF Offer
  <2>2. failed'[p]
    BY <1>2, <1>9 DEF FailsRecord
  <2>3. DeliversFor(p)'
    BY <1>1, <1>3, <1>5, <1>7, <2>1, <2>2 DEF DeliversFor, Awaited, NothingLost
  <2>4. OnlyOf(p) /\ Fields'
    BY <1>1, <1>2, <2>1 DEF OnlyOf, Fields
  <2> QED BY <1>6, <2>3, <2>4, DeliversStep
<1> QED BY <1>8, <1>9

\* The recorder asks for a page, a flush or the shutdown, and waits.
LEMMA AskDelivers ==
  ASSUME Shape, Delivers, NEW p \in Processes, NEW c \in CommandType, Queued(p, c),
         NEW state \in ClientStates, Becomes(p, state), Running(p),
         \/ c.kind = "page" /\ state \in {"loading", "paging"}
              /\ client[p] \in {"load", "idle", "loaded-page", "read-page"}
         \/ c.kind = "flush" /\ state = "flushing" /\ client[p] = "flush" /\ ~failed[p]
         \/ c.kind = "shutdown" /\ state = "joining" /\ client[p] = "drop",
         UNCHANGED <<file, writer, failed, opening, offered, opens, saved>>
  PROVE  Delivers'
<1>1. /\ Typed /\ Fields /\ DeliversFor(p) /\ opens \in Nat
      /\ client'[p] = state
      /\ \A q \in Processes \ {p} : client'[q] = client[q]
      /\ client' \in [Processes -> ClientStates]
  BY DEF Shape, Delivers, Fields, Becomes, Typed
<1>2. \A i \in DOMAIN queue[p] : queue[p][i].kind \notin {"page", "flush"}
  BY <1>1 DEF DeliversFor, Awaited
<1>3. /\ queue'[p] = Append(queue[p], c) /\ queue[p] \in Seq(CommandType)
      /\ \A q \in Processes \ {p} : queue'[q] = queue[q]
  BY <1>1, QueueAppended
<1>4. Running(p)' = Running(p) /\ Begun(p)' = Begun(p) /\ IsSaved(opening[p])' = IsSaved(opening[p])
  BY DEF Running, Begun, IsSaved
<1>5. /\ \A i \in DOMAIN file' : file'[i].opening \in 0..opens'
      /\ \A s \in saved' : s.opening \in 1..opens' /\ s.records = WrittenBy(s.opening)'
      /\ \A o : WrittenBy(o)' = WrittenBy(o)
  BY <1>1, DiskKept
<1>6. Awaited(p, "page", {"loading", "paging"})' /\ Awaited(p, "flush", {"flushing"})'
  <2> SUFFICES ASSUME NEW i \in DOMAIN queue'[p], queue'[p][i].kind \in {"page", "flush"}
               PROVE  /\ i = Len(queue'[p])
                      /\ queue'[p][i].kind = "page" => client'[p] \in {"loading", "paging"}
                      /\ queue'[p][i].kind = "flush" => client'[p] = "flushing"
    BY DEF Awaited
  <2>1. i = Len(queue'[p]) /\ queue'[p][i] = c
    BY <1>1, <1>2, AppendedCases
  <2> QED BY <1>1, <2>1
<1>7. WritesOwn(p)'
  BY <1>1 DEF DeliversFor, WritesOwn, LastLine
<1>8. NothingLost(p)'
  <2> SUFFICES ASSUME ~failed[p] \/ state = "flushing"
               PROVE  Numbered(queue'[p], WrittenBy(opening[p]) + Begun(p), offered[p])
    <3>1. WrittenBy(opening[p])' = WrittenBy(opening[p])
      BY <1>5 DEF WrittenBy, LinesOf
    <3> QED BY <1>1, <1>4, <3>1 DEF NothingLost
  <2>1. Numbered(queue[p], WrittenBy(opening[p]) + Begun(p), offered[p])
    BY <1>1 DEF DeliversFor, NothingLost
  <2> QED BY <1>3, <2>1, NumberedOther
<1>9. NothingAfter(p)'
  <2> SUFFICES ASSUME IsSaved(opening[p])
               PROVE  /\ writer[p] \in {"run", "report"} /\ client'[p] \in {"drop", "joining"}
                      /\ \A i \in DOMAIN queue'[p] : queue'[p][i].kind # "record"
    BY <1>4 DEF NothingAfter
  <2>1. /\ writer[p] \in {"run", "report"} /\ client[p] \in {"drop", "joining"}
        /\ \A i \in DOMAIN queue[p] : queue[p][i].kind # "record"
    BY <1>1 DEF DeliversFor, NothingAfter
  <2>2. \A i \in DOMAIN queue'[p] : queue'[p][i].kind # "record"
    BY <1>1, <2>1, AppendedCases
  <2> QED BY <1>1, <2>1, <2>2
<1>10. Running(p)' => opening'[p] \in 1..opens'
  BY <1>1, <1>4 DEF DeliversFor
<1>11. DeliversFor(p)'
  BY <1>1, <1>4, <1>6, <1>7, <1>8, <1>9, <1>10 DEF DeliversFor
<1>12. OnlyOf(p) /\ Fields'
  BY <1>1, <1>3 DEF OnlyOf, Fields
<1> QED BY <1>5, <1>11, <1>12, DeliversStep

\* The recorder goes on without a word to the writer.
LEMMA MoveDelivers ==
  ASSUME Shape, Delivers, NEW p \in Processes, NEW state \in ClientStates, Becomes(p, state),
         state # "flushing",
         Running(p) => /\ client[p] \notin {"opening", "drop", "joining"}
                       /\ \A i \in DOMAIN queue[p] : queue[p][i].kind \notin {"page", "flush"},
         UNCHANGED <<file, writer, queue, failed, opening, offered, opens, saved>>
  PROVE  Delivers'
<1>1. /\ Typed /\ Fields /\ DeliversFor(p) /\ opens \in Nat
      /\ client'[p] = state
      /\ \A q \in Processes \ {p} : client'[q] = client[q]
      /\ client' \in [Processes -> ClientStates]
  BY DEF Shape, Delivers, Fields, Becomes, Typed
<1>2. /\ \A i \in DOMAIN file' : file'[i].opening \in 0..opens'
      /\ \A s \in saved' : s.opening \in 1..opens' /\ s.records = WrittenBy(s.opening)'
      /\ \A o : WrittenBy(o)' = WrittenBy(o)
  BY <1>1, DiskKept
<1>3. Running(p)' = Running(p) /\ Begun(p)' = Begun(p) /\ IsSaved(opening[p])' = IsSaved(opening[p])
  BY DEF Running, Begun, IsSaved
<1>4. Awaited(p, "page", {"loading", "paging"})' /\ Awaited(p, "flush", {"flushing"})'
  BY <1>1 DEF DeliversFor, Awaited
<1>5. NothingLost(p)'
  <2>1. WrittenBy(opening[p])' = WrittenBy(opening[p])
    BY <1>2 DEF WrittenBy, LinesOf
  <2> QED BY <1>1, <1>3, <2>1 DEF DeliversFor, NothingLost
<1>6. WritesOwn(p)' /\ NothingAfter(p)'
  BY <1>1, <1>3 DEF DeliversFor, WritesOwn, LastLine, NothingAfter
<1>7. DeliversFor(p)'
  BY <1>1, <1>3, <1>4, <1>5, <1>6 DEF DeliversFor, Running
<1>8. OnlyOf(p) /\ Fields'
  BY <1>1 DEF OnlyOf, Fields
<1> QED BY <1>2, <1>7, <1>8, DeliversStep

LEMMA RecorderDelivers ==
  ASSUME Shape, Delivers, NEW p \in Processes, Recorder(p)
  PROVE  Delivers'
<1>0. Typed /\ Fields /\ DeliversFor(p) /\ opens \in Nat /\ failed[p] \in BOOLEAN
  BY DEF Shape, Delivers, Fields, Typed
<1>a. CASE Open(p)
  <2>1. \A q \in Processes : ~Running(q)
    BY <1>a, HistoryConstants DEF Open, LockFree, Shape, Owned, OneWriter
  <2>2. /\ writer'[p] = "locked" /\ queue' = queue /\ queue[p] = <<>> /\ offered'[p] = 0
        /\ opening'[p] = opens + 1 /\ opens' = opens + 1 /\ client'[p] = "opening"
        /\ file' = file /\ saved' = saved
    BY <1>0, <1>a, <2>1 DEF Open, Becomes, DeliversFor, Shape, Owned, Typed, Fields
  <2>3. OnlyOf(p) /\ Fields'
    BY <1>0, <1>a, <2>2 DEF Open, Becomes, OnlyOf, Shape, Owned, Typed, Fields, ClientStates
  <2>4. /\ \A i \in DOMAIN file' : file'[i].opening \in 0..opens'
        /\ \A s \in saved' : s.opening \in 1..opens' /\ s.records = WrittenBy(s.opening)'
        /\ \A o : WrittenBy(o)' = WrittenBy(o)
    <3>1. opens' \in Nat /\ opens <= opens'
      BY <1>0, <2>2
    <3> QED BY <2>2, <3>1, DiskKept
  <2>5. WrittenBy(opens + 1) = 0
    <3>1. \A i \in DOMAIN file : file[i].opening # opens + 1
      <4>1. ASSUME NEW i \in DOMAIN file PROVE file[i].opening # opens + 1
        <5>1. file[i].opening \in 0..opens
          BY DEF Delivers
        <5> QED BY <1>0, <5>1
      <4> QED BY <4>1
    <3>2. LinesOf(opens + 1) = {}
      BY <3>1 DEF LinesOf
    <3> QED BY <3>2, FS_EmptySet DEF WrittenBy
  <2>6. ~IsSaved(opening[p])'
    <3>1. ASSUME NEW s \in saved PROVE s.opening # opens + 1
      <4>1. s.opening \in 1..opens
        BY DEF Delivers
      <4> QED BY <1>0, <4>1
    <3> QED BY <2>2, <3>1 DEF IsSaved
  <2>7. NothingLost(p)'
    <3>1. WrittenBy(opening[p])' = 0 /\ Begun(p)' = 0
      <4>1. WrittenBy(opening[p])' = WrittenBy(opens + 1)
        BY <2>2 DEF WrittenBy, LinesOf
      <4> QED BY <2>2, <2>5, <4>1 DEF Begun
    <3>2. Numbered(<<>>, 0, 0)
      BY NumberedEmpty
    <3> QED BY <2>2, <3>1, <3>2 DEF NothingLost
  <2>8. DeliversFor(p)'
    <3>1. opening'[p] \in 1..opens' /\ Running(p)'
      BY <1>0, <2>2 DEF Running
    <3>2. DOMAIN queue'[p] = {}
      BY <2>2
    <3> QED BY <2>2, <2>6, <2>7, <3>1, <3>2 DEF DeliversFor, Awaited, WritesOwn, NothingAfter
  <2> QED BY <2>3, <2>4, <2>8, DeliversStep
<1>b. CASE RecordEvent(p) \/ RecordBetween(p)
  BY <1>b, OfferDelivers DEF RecordEvent, RecordBetween, disk
<1>c. CASE AskPage(p)
  <2>1. PICK state \in {"loading", "paging"} : Becomes(p, state)
    BY <1>c DEF AskPage
  <2>2. state \in ClientStates
    BY DEF ClientStates
  <2> QED BY <1>c, <2>1, <2>2, AskDelivers, PlainCommands DEF AskPage, disk, counts
<1>d. CASE NextPage(p)
  <2>1. PICK state \in {"loading", "paging"} : Becomes(p, state)
    BY <1>d DEF NextPage
  <2>2. state \in ClientStates
    BY DEF ClientStates
  <2> QED BY <1>d, <2>1, <2>2, AskDelivers, PlainCommands DEF NextPage, disk, counts
<1>e. CASE LastPage(p)
  <2>1. PICK state \in {"drop", "idle"} : Becomes(p, state)
    BY <1>e DEF LastPage
  <2>2. CASE Offer(p)
    BY <1>e, <2>1, <2>2, OfferDelivers DEF LastPage, disk
  <2>3. CASE UNCHANGED <<offered, queue, failed>>
    <3>1. state \in ClientStates
      BY DEF ClientStates
    <3>2. client[p] \in {"loaded-page", "read-page"}
      BY <1>e DEF LastPage
    <3>3. \A i \in DOMAIN queue[p] : queue[p][i].kind \notin {"page", "flush"}
      BY <1>0, <3>2 DEF DeliversFor, Awaited
    <3> QED BY <1>e, <2>1, <2>3, <3>1, <3>2, <3>3, MoveDelivers DEF LastPage, disk
  <2> QED BY <1>e, <2>2, <2>3 DEF LastPage
<1>f. CASE QueryFails(p)
  <2>1. PICK state \in {"drop", "idle"} : Becomes(p, state)
    BY <1>f DEF QueryFails
  <2>2. state \in ClientStates
    BY DEF ClientStates
  <2>3. Running(p) => client[p] \in {"load", "loaded-page", "read-page"}
    BY <1>f DEF QueryFails
  <2>4. Running(p) => \A i \in DOMAIN queue[p] : queue[p][i].kind \notin {"page", "flush"}
    BY <1>0, <2>3 DEF DeliversFor, Awaited
  <2> QED BY <1>f, <2>1, <2>2, <2>3, <2>4, MoveDelivers DEF QueryFails, disk, counts
<1>g. CASE Detach(p)
  <2>1. PICK state \in {"drop", "flush"} : Becomes(p, state)
    BY <1>g DEF Detach
  <2> QED BY <1>g, <2>1, OfferDelivers DEF Detach, disk
<1>h. CASE AskFlush(p)
  <2>1. CASE failed[p] \/ ~Running(p)
    <3>1. "drop" \in ClientStates
      BY DEF ClientStates
    <3>2. \A i \in DOMAIN queue[p] : queue[p][i].kind \notin {"page", "flush"}
      BY <1>0, <1>h DEF AskFlush, DeliversFor, Awaited
    <3> QED BY <1>h, <2>1, <3>1, <3>2, MoveDelivers DEF AskFlush, disk, counts
  <2>2. CASE ~(failed[p] \/ ~Running(p))
    <3>1. "flushing" \in ClientStates
      BY DEF ClientStates
    <3> QED BY <1>h, <2>2, <3>1, AskDelivers, PlainCommands DEF AskFlush, disk, counts
  <2> QED BY <2>1, <2>2
<1>i. CASE AskShutdown(p)
  <2>1. "joining" \in ClientStates
    BY DEF ClientStates
  <2> QED BY <1>i, <2>1, AskDelivers, PlainCommands DEF AskShutdown, disk, counts
<1>j. CASE WriterGone(p)
  <2>1. PICK state \in {"drop", "closed"} : Becomes(p, state)
    BY <1>j DEF WriterGone
  <2>2. state \in ClientStates
    BY DEF ClientStates
  <2> QED BY <1>j, <2>1, <2>2, MoveDelivers DEF WriterGone, disk, counts
<1> QED BY <1>a, <1>b, <1>c, <1>d, <1>e, <1>f, <1>g, <1>h, <1>i, <1>j DEF Recorder

\* The writer goes on with the file; what the recorder asked for stays as it is.
LEMMA WriteDelivers ==
  ASSUME Shape, Delivers, NEW p \in Processes,
         writer[p] \in {"locked", "header", "text", "newline"},
         NEW state \in {"header", "run", "newline"}, writer'[p] = state,
         \A q \in Processes \ {p} : writer'[q] = writer[q],
         \/ client' = client /\ (state = "header" => writer[p] \in {"locked", "header"})
         \/ writer[p] \in {"locked", "header"} /\ state = "run" /\ Becomes(p, "load"),
         UNCHANGED <<queue, failed, opening, offered, opens, saved>>,
         \A i \in DOMAIN file' : file'[i].opening \in 0..opens,
         \A o : WrittenBy(o)' = IF o = opening[p] THEN WrittenBy(o) + Begun(p) ELSE WrittenBy(o)
  PROVE  Delivers'
<1>1. Typed /\ Fields /\ DeliversFor(p) /\ opens \in Nat
  BY DEF Shape, Delivers, Typed
<1>2. /\ client' \in [Processes -> ClientStates] /\ \A q \in Processes \ {p} : client'[q] = client[q]
      /\ client'[p] = client[p] \/ (client[p] = "opening" /\ client'[p] = "load")
      /\ state = "header" => client'[p] = "opening"
  BY <1>1 DEF Fields, Becomes, ClientStates, DeliversFor
<1>3. Running(p) /\ ~IsSaved(opening[p])
  BY <1>1 DEF DeliversFor, NothingAfter, Running
<1>4. \A s \in saved' : s.opening \in 1..opens' /\ s.records = WrittenBy(s.opening)'
  <2> SUFFICES ASSUME NEW s \in saved
               PROVE  s.opening \in 1..opens' /\ s.records = WrittenBy(s.opening)'
    OBVIOUS
  <2>1. s.opening # opening[p]
    BY <1>3 DEF IsSaved
  <2> QED BY <2>1 DEF Delivers
<1>5. NothingLost(p)'
  <2>1. WrittenBy(opening[p])' = WrittenBy(opening[p]) + Begun(p) /\ Begun(p)' = 0
    <3>1. opening'[p] = opening[p]
      OBVIOUS
    <3>2. Begun(p)' = 0
      BY DEF Begun
    <3>3. WrittenBy(opening[p])' = WrittenBy(opening[p]) + Begun(p)
      BY <3>1 DEF WrittenBy, LinesOf
    <3> QED BY <3>2, <3>3
  <2>2. client'[p] = "flushing" => client[p] = "flushing"
    BY <1>2
  <2>3. WrittenBy(opening[p])' + Begun(p)' = WrittenBy(opening[p]) + Begun(p)
    <3>1. WrittenBy(opening[p]) \in Nat /\ Begun(p) \in Nat
      BY <1>1, LinesFinite DEF Begun
    <3> QED BY <2>1, <3>1
  <2> QED BY <1>1, <1>3, <2>2, <2>3 DEF DeliversFor, NothingLost
<1>6. NothingAfter(p)' /\ WritesOwn(p)' /\ Running(p)'
  BY <1>3 DEF NothingAfter, WritesOwn, IsSaved, Running
<1>7. Awaited(p, "page", {"loading", "paging"})' /\ Awaited(p, "flush", {"flushing"})'
  BY <1>1, <1>2 DEF DeliversFor, Awaited
<1>8. OnlyOf(p) /\ Fields'
  BY <1>1, <1>2, <1>3 DEF OnlyOf, Fields
<1>9. DeliversFor(p)'
  BY <1>1, <1>2, <1>3, <1>5, <1>6, <1>7 DEF DeliversFor
<1>10. \A i \in DOMAIN file' : file'[i].opening \in 0..opens'
  OBVIOUS
<1> QED BY <1>4, <1>8, <1>9, <1>10, DeliversStep

\* The writer ends, and what was queued with it.
LEMMA EndDelivers ==
  ASSUME Shape, Delivers, NEW p \in Processes, writer' = [writer EXCEPT ![p] = "off"],
         queue' = [queue EXCEPT ![p] = <<>>],
         client' = client \/ Becomes(p, "closed"),
         failed' = failed \/ failed' = [failed EXCEPT ![p] = TRUE],
         UNCHANGED <<file, opening, offered, opens, saved>>
  PROVE  Delivers'
<1>1. /\ Typed /\ Fields /\ DeliversFor(p) /\ opens \in Nat /\ writer \in [Processes -> WriterStates]
  BY DEF Shape, Delivers, Typed, Owned
<1>2. /\ writer'[p] = "off" /\ queue'[p] = <<>> /\ ~Running(p)'
      /\ \A q \in Processes \ {p} : writer'[q] = writer[q] /\ queue'[q] = queue[q]
  BY <1>1 DEF Typed, Running
<1>3. OnlyOf(p) /\ Fields'
  <2>1. client' \in [Processes -> ClientStates] /\ \A q \in Processes \ {p} : client'[q] = client[q]
    BY <1>1 DEF Fields, Becomes, ClientStates
  <2>2. failed' \in [Processes -> BOOLEAN] /\ \A q \in Processes \ {p} : failed'[q] = failed[q]
    BY <1>1 DEF Fields
  <2>3. opens' \in Nat /\ opens <= opens'
    BY <1>1
  <2> QED BY <1>2, <2>1, <2>2, <2>3 DEF OnlyOf, Fields
<1>4. DeliversFor(p)'
  <2>1. DOMAIN queue'[p] = {}
    BY <1>2
  <2> QED BY <1>2, <2>1 DEF DeliversFor, Awaited, WritesOwn, NothingLost, NothingAfter
<1>5. /\ \A i \in DOMAIN file' : file'[i].opening \in 0..opens'
      /\ \A s \in saved' : s.opening \in 1..opens' /\ s.records = WrittenBy(s.opening)'
  BY <1>1, DiskKept
<1> QED BY <1>3, <1>4, <1>5, DeliversStep

\* The opening of every line stays one there has been.
LEMMA OpeningsRewritten ==
  ASSUME Shape, Delivers, file # <<>>, NEW line \in LineType, file' = Rewritten(line),
         line.opening \in 0..opens
  PROVE  \A i \in DOMAIN file' : file'[i].opening \in 0..opens
<1>1. /\ Len(file) \in Nat \ {0} /\ DOMAIN file = 1..Len(file)
      /\ file' \in Seq(LineType) /\ Len(file') = Len(file) /\ file'[Len(file)] = line
      /\ \A i \in 1..(Len(file) - 1) : file'[i] = file[i]
  BY LastLineTyped, LenProperties, RewrittenTyped DEF Shape, Typed
<1>2. DOMAIN file' = 1..Len(file)
  BY <1>1, LenProperties
<1>3. \A i \in 1..Len(file) : i \in 1..(Len(file) - 1) \/ i = Len(file)
  BY <1>1, UpTo
<1> QED BY <1>1, <1>2, <1>3 DEF Delivers

\* The last line, as its parts are rewritten.
LEMMA LastLineParts ==
  ASSUME Shape, Delivers, file # <<>>
  PROVE  /\ LastLine \in LineType /\ LastLine.opening \in 0..opens
         /\ \A line : line \in {[LastLine EXCEPT !.ended = TRUE], [LastLine EXCEPT !.kind = "event"]} =>
              line \in LineType /\ line.opening = LastLine.opening
         /\ [LastLine EXCEPT !.ended = TRUE].kind = LastLine.kind
<1>1. Len(file) \in Nat \ {0} /\ DOMAIN file = 1..Len(file) /\ LastLine \in LineType
  BY LastLineTyped, LenProperties DEF Shape, Typed
<1>2. LastLine.opening \in 0..opens
  <2>1. Len(file) \in DOMAIN file
    BY <1>1
  <2> QED BY <2>1 DEF Delivers, LastLine
<1>3. /\ [LastLine EXCEPT !.ended = TRUE].opening = LastLine.opening
      /\ [LastLine EXCEPT !.kind = "event"].opening = LastLine.opening
  BY <1>1 DEF LineType
<1> QED BY <1>1, <1>2, <1>3, LastLineTyped DEF Shape

LEMMA HeaderDelivers ==
  ASSUME Shape, Delivers, NEW p \in Processes,
         BeginHeader(p) \/ WriteHeader(p) \/ EndHeader(p) \/ Validate(p)
  PROVE  Delivers'
<1>1. /\ Typed /\ DeliversFor(p) /\ opens \in Nat /\ writer \in [Processes -> WriterStates]
      /\ writer[p] \in {"locked", "header"} /\ Begun(p) = 0
  BY DEF Shape, Delivers, Typed, Owned, Begun, BeginHeader, WriteHeader, EndHeader, Validate
<1>2. /\ UNCHANGED <<queue, failed, opening, offered, opens, saved>>
  BY DEF BeginHeader, WriteHeader, EndHeader, Validate, counts
<1>3. /\ \A i \in DOMAIN file' : file'[i].opening \in 0..opens
      /\ \A o : WrittenBy(o)' = WrittenBy(o)
  <2>1. CASE BeginHeader(p)
    <3> DEFINE line == Line("cut", 0, 0)
    <3>1. line \in LineType /\ ~IsEvent(line) /\ line.opening = 0
      BY DEF Line, LineType, IsEvent, Torn
    <3>2. file = <<>> /\ file' = <<line>>
      BY <2>1 DEF BeginHeader
    <3> HIDE DEF line
    <3>3. file' = Append(file, line) /\ DOMAIN file' = 1..1 /\ file'[1] = line
      BY <3>1, <3>2
    <3>4. \A i \in DOMAIN file' : i = 1
      BY <3>3
    <3> QED BY <1>1, <3>1, <3>3, <3>4, LinesAppended
  <2>2. CASE WriteHeader(p)
    <3> DEFINE line == Line("header", 0, 0)
    <3>1. line \in LineType /\ ~IsEvent(line) /\ line.opening = 0
      BY DEF Line, LineType, IsEvent
    <3>2. file # <<>> /\ ~IsEvent(LastLine) /\ file' = Rewritten(line)
      <4>1. Len(file) = 1
        BY <2>2 DEF WriteHeader, Shape, ShapeFor
      <4>2. file = <<>> => Len(file) = 0
        OBVIOUS
      <4> QED BY <2>2, <4>1, <4>2 DEF WriteHeader, IsEvent
    <3> HIDE DEF line
    <3> QED BY <1>1, <3>1, <3>2, LinesRewritten, OpeningsRewritten
  <2>3. CASE EndHeader(p) \/ Validate(p)
    <3>1. file # <<>>
      <4>1. EndHeader(p) => Len(file) = 1
        BY DEF EndHeader, Shape, ShapeFor
      <4>2. file = <<>> => Len(file) = 0
        OBVIOUS
      <4> QED BY <2>3, <4>1, <4>2 DEF Validate
    <3> DEFINE line == [LastLine EXCEPT !.ended = TRUE]
    <3>2. line \in LineType /\ line.opening = LastLine.opening /\ line.kind = LastLine.kind
          /\ line.opening \in 0..opens
      BY <3>1, LastLineParts
    <3>3. file' = file \/ file' = Rewritten(line)
      BY <2>3 DEF EndHeader, Validate, TailEnded
    <3> HIDE DEF line
    <3>4. CASE file' = file
      BY <3>4 DEF WrittenBy, LinesOf, Delivers
    <3>5. CASE file' = Rewritten(line)
      BY <1>1, <3>1, <3>2, <3>5, LinesRewritten, OpeningsRewritten DEF IsEvent
    <3> QED BY <3>3, <3>4, <3>5
  <2> QED BY <2>1, <2>2, <2>3
<1>4. \A o : WrittenBy(o)' = IF o = opening[p] THEN WrittenBy(o) + Begun(p) ELSE WrittenBy(o)
  <2>1. \A o : WrittenBy(o) + 0 = WrittenBy(o)
    <3>1. ASSUME NEW o PROVE WrittenBy(o) + 0 = WrittenBy(o)
      <4>1. WrittenBy(o) \in Nat
        BY <1>1, LinesFinite
      <4> QED BY <4>1
    <3> QED BY <3>1
  <2> QED BY <1>1, <1>3, <2>1
<1>5. \A q \in Processes \ {p} : writer'[q] = writer[q]
  BY <1>1 DEF BeginHeader, WriteHeader, EndHeader, Validate
<1>6. CASE BeginHeader(p) \/ WriteHeader(p)
  <2>1. writer'[p] = "header" /\ client' = client
    BY <1>1, <1>6 DEF BeginHeader, WriteHeader
  <2> QED BY <1>1, <1>2, <1>3, <1>4, <1>5, <2>1, WriteDelivers
<1>7. CASE EndHeader(p) \/ Validate(p)
  <2>1. writer'[p] = "run" /\ Becomes(p, "load")
    BY <1>1, <1>7 DEF EndHeader, Validate
  <2> QED BY <1>1, <1>2, <1>3, <1>4, <1>5, <2>1, WriteDelivers
<1> QED BY <1>6, <1>7

LEMMA LineDelivers ==
  ASSUME Shape, Delivers, NEW p \in Processes, WriteLine(p) \/ EndLine(p)
  PROVE  Delivers'
<1>1. /\ Typed /\ DeliversFor(p) /\ opens \in Nat /\ writer \in [Processes -> WriterStates]
      /\ writer[p] \in {"text", "newline"}
      /\ \A q \in Processes \ {p} : writer'[q] = writer[q]
      /\ UNCHANGED <<client, queue, failed, opening, offered, opens, saved>>
  BY DEF Shape, Delivers, Typed, Owned, WriteLine, EndLine, counts
<1>2. file # <<>>
  <2>1. Len(file) > 1
    BY <1>1 DEF Shape, ShapeFor
  <2>2. file = <<>> => Len(file) = 0
    OBVIOUS
  <2> QED BY <2>1, <2>2
<1>3. CASE WriteLine(p)
  <2>1. writer'[p] = "newline" /\ Begun(p) = 1
    BY <1>1, <1>3 DEF WriteLine, Begun
  <2> DEFINE line == [LastLine EXCEPT !.kind = "event"]
  <2>2. file' = Rewritten(line) /\ ~IsEvent(LastLine) /\ LastLine.opening = opening[p]
    BY <1>1, <1>3 DEF WriteLine, DeliversFor, WritesOwn, IsEvent, Torn
  <2>3. line \in LineType /\ line.opening \in 0..opens
    BY <1>2, LastLineParts
  <2>4. \A o : WrittenBy(o)' = IF o = opening[p] THEN WrittenBy(o) + Begun(p) ELSE WrittenBy(o)
    BY <1>1, <1>2, <2>1, <2>2, LinesGrow
  <2> HIDE DEF line
  <2>5. \A i \in DOMAIN file' : file'[i].opening \in 0..opens
    BY <1>2, <2>2, <2>3, OpeningsRewritten
  <2> QED BY <1>1, <2>1, <2>4, <2>5, WriteDelivers
<1>4. CASE EndLine(p)
  <2>1. writer'[p] = "run" /\ Begun(p) = 0
    BY <1>1, <1>4 DEF EndLine, Begun
  <2> DEFINE line == [LastLine EXCEPT !.ended = TRUE]
  <2>2. file' = Rewritten(line)
    BY <1>4 DEF EndLine
  <2>3. line \in LineType /\ line.opening = LastLine.opening /\ line.kind = LastLine.kind
        /\ line.opening \in 0..opens
    BY <1>2, LastLineParts
  <2> HIDE DEF line
  <2>4. ASSUME NEW o
        PROVE  WrittenBy(o)' = IF o = opening[p] THEN WrittenBy(o) + Begun(p) ELSE WrittenBy(o)
    <3>1. WrittenBy(o)' = WrittenBy(o) /\ WrittenBy(o) \in Nat
      BY <1>1, <1>2, <2>2, <2>3, LinesRewritten, LinesFinite DEF IsEvent
    <3> QED BY <2>1, <3>1
  <2>5. \A i \in DOMAIN file' : file'[i].opening \in 0..opens
    BY <1>2, <2>2, <2>3, OpeningsRewritten
  <2> QED BY <1>1, <2>1, <2>4, <2>5, WriteDelivers
<1> QED BY <1>3, <1>4

LEMMA BeginDelivers ==
  ASSUME Shape, Delivers, NEW p \in Processes, BeginLine(p)
  PROVE  Delivers'
<1>1. /\ Typed /\ Fields /\ DeliversFor(p) /\ opens \in Nat
      /\ writer \in [Processes -> WriterStates] /\ Takes(p, "record")
      /\ UNCHANGED <<client, failed, opening, offered, opens, saved>>
  BY DEF Shape, Delivers, Typed, Owned, BeginLine, counts
<1>2. /\ writer[p] = "run" /\ queue[p] \in Seq(CommandType) /\ queue[p] # <<>>
      /\ 1 \in DOMAIN queue[p] /\ queue[p][1] = Head(queue[p]) /\ Head(queue[p]).kind = "record"
      /\ queue'[p] = Tail(queue[p]) /\ \A q \in Processes \ {p} : queue'[q] = queue[q]
      /\ Len(queue'[p]) = Len(queue[p]) - 1 /\ Len(queue[p]) \in Nat \ {0}
      /\ DOMAIN queue'[p] = 1..(Len(queue[p]) - 1)
      /\ \A i \in DOMAIN queue'[p] : i + 1 \in DOMAIN queue[p] /\ queue'[p][i] = queue[p][i + 1]
  BY <1>1, TakenCases
<1>3. writer'[p] = "text" /\ \A q \in Processes \ {p} : writer'[q] = writer[q]
  BY <1>1 DEF BeginLine
<1>4. Running(p) /\ Running(p)' /\ Begun(p) = 0 /\ Begun(p)' = 1
  BY <1>2, <1>3 DEF Running, Begun
<1>5. ~IsSaved(opening[p]) /\ opening[p] \in 1..opens
  BY <1>1, <1>2, <1>4 DEF DeliversFor, NothingAfter
<1>6. PICK kind \in Torn : file' = Append(file, Line(kind, opening[p], Head(queue[p]).n))
  BY DEF BeginLine
<1> DEFINE line == Line(kind, opening[p], Head(queue[p]).n)
<1>7. /\ line \in LineType /\ ~IsEvent(line) /\ line.opening = opening[p] /\ line.kind = kind
      /\ file' = Append(file, line)
  <2>1. Head(queue[p]).n \in Nat /\ opening[p] \in Nat
    BY <1>1, <1>2, TakesTyped DEF CommandType, Typed
  <2> QED BY <1>6, <2>1 DEF Line, LineType, IsEvent, Torn
<1> HIDE DEF line
<1>8. \A o : WrittenBy(o)' = WrittenBy(o)
  BY <1>1, <1>7, LinesAppended
<1>9. /\ Len(file) \in Nat /\ Len(file') = Len(file) + 1 /\ file'[Len(file')] = line
      /\ DOMAIN file' = 1..(Len(file) + 1) /\ DOMAIN file = 1..Len(file)
      /\ \A i \in 1..Len(file) : file'[i] = file[i]
  <2>1. file \in Seq(LineType)
    BY <1>1 DEF Typed
  <2>2. /\ Append(file, line) \in Seq(LineType) /\ Len(Append(file, line)) = Len(file) + 1
        /\ Append(file, line)[Len(file) + 1] = line /\ Len(file) \in Nat
        /\ \A i \in 1..Len(file) : Append(file, line)[i] = file[i]
    BY <1>7, <2>1, AppendProperties, LenProperties
  <2> QED BY <1>7, <2>1, <2>2, LenProperties
<1>10. \A i \in DOMAIN file' : file'[i].opening \in 0..opens'
  <2> SUFFICES ASSUME NEW i \in DOMAIN file' PROVE file'[i].opening \in 0..opens
    BY <1>1
  <2>1. CASE i = Len(file) + 1
    <3>1. file'[i].opening = opening[p]
      BY <1>7, <1>9, <2>1
    <3>2. opening[p] \in 0..opens
      BY <1>1, <1>5
    <3> QED BY <3>1, <3>2
  <2>2. CASE i # Len(file) + 1
    <3>1. i \in 1..Len(file)
      BY <1>9, <2>2
    <3> QED BY <1>9, <3>1 DEF Delivers
  <2> QED BY <2>1, <2>2
<1>11. \A s \in saved' : s.opening \in 1..opens' /\ s.records = WrittenBy(s.opening)'
  BY <1>1, <1>8 DEF Delivers
<1>12. NothingLost(p)'
  <2> SUFFICES ASSUME ~failed[p] \/ client[p] = "flushing"
               PROVE  Numbered(queue'[p], WrittenBy(opening[p])' + 1, offered[p])
    BY <1>1, <1>4 DEF NothingLost
  <2>1. WrittenBy(opening[p]) \in Nat /\ WrittenBy(opening[p])' = WrittenBy(opening[p])
    <3>1. WrittenBy(opening[p])' = WrittenBy(opening[p])
      BY <1>1, <1>8 DEF WrittenBy, LinesOf
    <3> QED BY <1>1, <3>1, LinesFinite
  <2>2. Numbered(queue[p], WrittenBy(opening[p]) + 0, offered[p])
    BY <1>1, <1>4 DEF DeliversFor, NothingLost
  <2>3. Numbered(queue[p], WrittenBy(opening[p]), offered[p])
    BY <2>1, <2>2
  <2> QED BY <1>2, <2>1, <2>3, NumberedTail
<1>13. Awaited(p, "page", {"loading", "paging"})' /\ Awaited(p, "flush", {"flushing"})'
  <2> SUFFICES ASSUME NEW i \in DOMAIN queue'[p], queue'[p][i].kind \in {"page", "flush"}
               PROVE  /\ i = Len(queue'[p])
                      /\ queue'[p][i].kind = "page" => client[p] \in {"loading", "paging"}
                      /\ queue'[p][i].kind = "flush" => client[p] = "flushing"
    BY <1>1 DEF Awaited
  <2>1. /\ i + 1 = Len(queue[p])
        /\ queue'[p][i].kind = "page" => client[p] \in {"loading", "paging"}
        /\ queue'[p][i].kind = "flush" => client[p] = "flushing"
    BY <1>1, <1>2 DEF DeliversFor, Awaited
  <2>2. i \in Nat
    BY <1>2
  <2> QED BY <1>2, <2>1, <2>2
<1>14. WritesOwn(p)' /\ NothingAfter(p)'
  BY <1>1, <1>5, <1>7, <1>9 DEF WritesOwn, LastLine, NothingAfter, IsSaved
<1>15. DeliversFor(p)'
  BY <1>1, <1>3, <1>4, <1>5, <1>12, <1>13, <1>14 DEF DeliversFor
<1>16. OnlyOf(p) /\ Fields'
  BY <1>1, <1>2, <1>3, <1>4 DEF OnlyOf, Fields
<1> QED BY <1>10, <1>11, <1>15, <1>16, DeliversStep

\* The recorder's answer was the last command of the queue: nothing is left in it.
LEMMA AnswerTaken ==
  ASSUME Shape, Delivers, NEW p \in Processes, NEW kind \in {"page", "flush"}, Takes(p, kind)
  PROVE  /\ writer[p] = "run" /\ Running(p) /\ Begun(p) = 0
         /\ \A q \in Processes \ {p} : queue'[q] = queue[q]
         /\ queue[p] \in Seq(CommandType) /\ DOMAIN queue'[p] = {}
         /\ queue[p] # <<>> /\ Head(queue[p]).kind = kind /\ queue'[p] = Tail(queue[p])
         /\ \A i \in DOMAIN queue[p] : queue[p][i].kind # "record"
         /\ kind = "page" => client[p] \in {"loading", "paging"}
         /\ kind = "flush" => client[p] = "flushing"
<1>1. Typed /\ DeliversFor(p)
  BY DEF Shape, Delivers
<1>2. /\ writer[p] = "run" /\ queue[p] \in Seq(CommandType) /\ queue[p] # <<>>
      /\ 1 \in DOMAIN queue[p] /\ queue[p][1] = Head(queue[p]) /\ Head(queue[p]).kind = kind
      /\ queue'[p] = Tail(queue[p]) /\ \A q \in Processes \ {p} : queue'[q] = queue[q]
      /\ Len(queue'[p]) = Len(queue[p]) - 1 /\ Len(queue[p]) \in Nat \ {0}
      /\ DOMAIN queue'[p] = 1..(Len(queue[p]) - 1)
  BY <1>1, TakenCases
<1>3. /\ Len(queue[p]) = 1
      /\ kind = "page" => client[p] \in {"loading", "paging"}
      /\ kind = "flush" => client[p] = "flushing"
  BY <1>1, <1>2 DEF DeliversFor, Awaited
<1>4. DOMAIN queue[p] = {1}
  <2>1. DOMAIN queue[p] = 1..1
    BY <1>2, <1>3, LenProperties
  <2> QED BY <2>1
<1>5. DOMAIN queue'[p] = {}
  BY <1>2, <1>3
<1> QED BY <1>2, <1>3, <1>4, <1>5 DEF Running, Begun

LEMMA PageDelivers ==
  ASSUME Shape, Delivers, NEW p \in Processes, ReadPage(p)
  PROVE  Delivers'
<1>1. /\ Typed /\ Fields /\ DeliversFor(p) /\ opens \in Nat
      /\ writer \in [Processes -> WriterStates] /\ Takes(p, "page")
      /\ UNCHANGED <<file, failed, opening, offered, opens, saved>>
  BY DEF Shape, Delivers, Typed, Owned, ReadPage, disk, counts
<1>2. /\ writer[p] = "run" /\ Running(p) /\ Begun(p) = 0
      /\ \A q \in Processes \ {p} : queue'[q] = queue[q]
      /\ queue[p] \in Seq(CommandType) /\ DOMAIN queue'[p] = {}
      /\ queue[p] # <<>> /\ Head(queue[p]).kind = "page" /\ queue'[p] = Tail(queue[p])
      /\ client[p] \in {"loading", "paging"}
  BY <1>1, AnswerTaken
<1>3. PICK state \in {"drop", "idle", "loaded-page", "read-page"} : Becomes(p, state)
  BY DEF ReadPage
<1>4. /\ writer'[p] \in {"run", "report"} /\ \A q \in Processes \ {p} : writer'[q] = writer[q]
  BY <1>1, <1>2 DEF ReadPage
<1>5. /\ client'[p] = state /\ \A q \in Processes \ {p} : client'[q] = client[q]
      /\ client' \in [Processes -> ClientStates]
  BY <1>1, <1>3 DEF Fields, Becomes, ClientStates
<1>6. ~IsSaved(opening[p])
  BY <1>1, <1>2 DEF DeliversFor, NothingAfter
<1>7. /\ \A i \in DOMAIN file' : file'[i].opening \in 0..opens'
      /\ \A s \in saved' : s.opening \in 1..opens' /\ s.records = WrittenBy(s.opening)'
      /\ \A o : WrittenBy(o)' = WrittenBy(o)
  BY <1>1, DiskKept
<1>8. NothingLost(p)'
  <2> SUFFICES ASSUME ~failed[p]
               PROVE  Numbered(queue'[p], WrittenBy(opening[p])' + Begun(p)', offered[p])
    BY <1>1, <1>5 DEF NothingLost
  <2>1. WrittenBy(opening[p])' = WrittenBy(opening[p]) /\ Begun(p)' = Begun(p)
    BY <1>1, <1>2, <1>4 DEF WrittenBy, LinesOf, Begun
  <2>2. Numbered(queue[p], WrittenBy(opening[p]) + Begun(p), offered[p])
    BY <1>1, <1>2 DEF DeliversFor, NothingLost
  <2> QED BY <1>2, <2>1, <2>2, NumberedSkip
<1>9. DeliversFor(p)'
  <2>1. Running(p)' /\ opening'[p] \in 1..opens'
    BY <1>1, <1>2, <1>4 DEF DeliversFor, Running
  <2>2. WritesOwn(p)' /\ NothingAfter(p)'
    BY <1>1, <1>4, <1>6 DEF WritesOwn, NothingAfter, IsSaved
  <2> QED BY <1>2, <1>4, <1>8, <2>1, <2>2 DEF DeliversFor, Awaited
<1>10. OnlyOf(p) /\ Fields'
  BY <1>1, <1>2, <1>4, <1>5 DEF OnlyOf, Fields
<1> QED BY <1>7, <1>9, <1>10, DeliversStep

\* The heart of it: the flush of a close comes behind every record of its opening,
\* so that what it reports as saved is in the file.
LEMMA FlushDelivers ==
  ASSUME Shape, Delivers, NEW p \in Processes, FlushFile(p)
  PROVE  Delivers'
<1>1. /\ Typed /\ Fields /\ DeliversFor(p) /\ opens \in Nat
      /\ writer \in [Processes -> WriterStates] /\ Takes(p, "flush") /\ Becomes(p, "drop")
      /\ UNCHANGED <<file, failed, opening, offered, opens>>
  BY DEF Shape, Delivers, Typed, Owned, FlushFile, disk
<1>2. /\ writer[p] = "run" /\ Running(p) /\ Begun(p) = 0
      /\ \A q \in Processes \ {p} : queue'[q] = queue[q]
      /\ queue[p] \in Seq(CommandType) /\ DOMAIN queue'[p] = {}
      /\ queue[p] # <<>> /\ Head(queue[p]).kind = "flush" /\ queue'[p] = Tail(queue[p])
      /\ \A i \in DOMAIN queue[p] : queue[p][i].kind # "record"
      /\ client[p] = "flushing"
  BY <1>1, AnswerTaken
<1>3. /\ writer'[p] \in {"run", "report"} /\ \A q \in Processes \ {p} : writer'[q] = writer[q]
      /\ saved' \in {saved, saved \cup {[opening |-> opening[p], records |-> offered[p]]}}
  BY <1>1, <1>2 DEF FlushFile
<1>4. /\ client'[p] = "drop" /\ \A q \in Processes \ {p} : client'[q] = client[q]
      /\ client' \in [Processes -> ClientStates]
  BY <1>1 DEF Fields, Becomes, ClientStates
<1>5. Numbered(queue[p], WrittenBy(opening[p]) + Begun(p), offered[p])
  BY <1>1, <1>2 DEF DeliversFor, NothingLost
<1>6. WrittenBy(opening[p]) \in Nat /\ WrittenBy(opening[p]) + Begun(p) = WrittenBy(opening[p])
  <2>1. WrittenBy(opening[p]) \in Nat
    BY <1>1, LinesFinite
  <2> QED BY <1>2, <2>1
<1>7. WrittenBy(opening[p]) = offered[p] /\ opening[p] \in 1..opens
  <2>1. WrittenBy(opening[p]) + Begun(p) = offered[p]
    BY <1>2, <1>5, NumberedNone
  <2> QED BY <1>1, <1>2, <1>6, <2>1 DEF DeliversFor
<1>8. \A o : WrittenBy(o)' = WrittenBy(o)
  BY <1>1 DEF WrittenBy, LinesOf
<1>9. \A s \in saved' : s.opening \in 1..opens' /\ s.records = WrittenBy(s.opening)'
  <2> SUFFICES ASSUME NEW s \in saved'
               PROVE  s.opening \in 1..opens /\ s.records = WrittenBy(s.opening)
    BY <1>1, <1>8
  <2>1. CASE s \in saved
    BY <2>1 DEF Delivers
  <2>2. CASE s = [opening |-> opening[p], records |-> offered[p]]
    BY <1>7, <2>2
  <2> QED BY <1>3, <2>1, <2>2
<1>10. NothingLost(p)'
  <2> SUFFICES Numbered(queue'[p], WrittenBy(opening[p])' + Begun(p)', offered[p])
    BY <1>1 DEF NothingLost
  <2>1. WrittenBy(opening[p])' = WrittenBy(opening[p]) /\ Begun(p)' = Begun(p)
    BY <1>1, <1>2, <1>3 DEF WrittenBy, LinesOf, Begun
  <2> QED BY <1>2, <1>5, <2>1, NumberedSkip
<1>11. DeliversFor(p)'
  <2>1. Running(p)' /\ opening'[p] \in 1..opens'
    BY <1>1, <1>3, <1>7 DEF Running
  <2>2. WritesOwn(p)' /\ NothingAfter(p)'
    BY <1>2, <1>3, <1>4 DEF WritesOwn, NothingAfter
  <2> QED BY <1>2, <1>3, <1>10, <2>1, <2>2 DEF DeliversFor, Awaited
<1>12. OnlyOf(p) /\ Fields'
  BY <1>1, <1>2, <1>3, <1>4 DEF OnlyOf, Fields
<1>13. \A i \in DOMAIN file' : file'[i].opening \in 0..opens'
  BY <1>1 DEF Delivers
<1> QED BY <1>9, <1>11, <1>12, <1>13, DeliversStep

LEMMA ReportDelivers ==
  ASSUME Shape, Delivers, NEW p \in Processes, Report(p)
  PROVE  Delivers'
<1>1. /\ Typed /\ Fields /\ DeliversFor(p) /\ opens \in Nat
      /\ writer \in [Processes -> WriterStates] /\ writer[p] = "report"
      /\ UNCHANGED <<file, client, queue, opening, offered, opens, saved>>
  BY DEF Shape, Delivers, Typed, Owned, Report, disk, counts
<1>2. /\ writer'[p] = "run" /\ \A q \in Processes \ {p} : writer'[q] = writer[q]
      /\ failed' \in [Processes -> BOOLEAN] /\ failed'[p]
      /\ \A q \in Processes \ {p} : failed'[q] = failed[q]
  BY <1>1 DEF Report, Fields
<1>3. /\ \A i \in DOMAIN file' : file'[i].opening \in 0..opens'
      /\ \A s \in saved' : s.opening \in 1..opens' /\ s.records = WrittenBy(s.opening)'
      /\ \A o : WrittenBy(o)' = WrittenBy(o)
  BY <1>1, DiskKept
<1>4. WrittenBy(opening[p])' = WrittenBy(opening[p]) /\ Begun(p)' = Begun(p)
  BY <1>1, <1>2 DEF WrittenBy, LinesOf, Begun
<1>5. Running(p) /\ Running(p)' /\ IsSaved(opening[p])' = IsSaved(opening[p])
  BY <1>1, <1>2 DEF Running, IsSaved
<1>6. NothingLost(p)'
  BY <1>1, <1>2, <1>4, <1>5 DEF DeliversFor, NothingLost
<1>7. WritesOwn(p)' /\ NothingAfter(p)'
  BY <1>1, <1>2, <1>5 DEF DeliversFor, WritesOwn, NothingAfter
<1>8. DeliversFor(p)'
  BY <1>1, <1>2, <1>5, <1>6, <1>7 DEF DeliversFor, Awaited
<1>9. OnlyOf(p) /\ Fields'
  BY <1>1, <1>2 DEF OnlyOf, Fields
<1> QED BY <1>3, <1>8, <1>9, DeliversStep

LEMMA ThreadDelivers ==
  ASSUME Shape, Delivers, NEW p \in Processes, Thread(p)
  PROVE  Delivers'
<1>1. CASE OpenFails(p) \/ WriteFails(p) \/ Stopped(p)
  BY <1>1, EndDelivers DEF OpenFails, WriteFails, Stopped, WriterEnds, Becomes, counts
<1> QED
  BY <1>1, HeaderDelivers, LineDelivers, BeginDelivers, PageDelivers, FlushDelivers, ReportDelivers
  DEF Thread

LEMMA DeliversNext == Shape /\ Delivers /\ [Next]_vars => Delivers'
<1> SUFFICES ASSUME Shape, Delivers, [Next]_vars PROVE Delivers'
  OBVIOUS
<1>1. CASE UNCHANGED <<file, writer, queue, failed, client, opening, offered, opens, saved>>
  <2>1. opens' \in Nat /\ opens <= opens'
    BY <1>1 DEF Shape, Typed
  <2>2. /\ \A i \in DOMAIN file' : file'[i].opening \in 0..opens'
        /\ \A s \in saved' : s.opening \in 1..opens' /\ s.records = WrittenBy(s.opening)'
        /\ \A o : WrittenBy(o)' = WrittenBy(o)
    BY <1>1, <2>1, DiskKept
  <2>3. ASSUME NEW p \in Processes PROVE DeliversFor(p)'
    <3>1. DeliversFor(p)
      BY DEF Delivers
    <3>2. WrittenBy(opening[p])' = WrittenBy(opening[p])
      BY <1>1 DEF WrittenBy, LinesOf
    <3> QED
      BY <1>1, <3>1, <3>2
      DEF DeliversFor, Running, Awaited, WritesOwn, LastLine, NothingLost, NothingAfter, Begun, IsSaved
  <2> QED BY <1>1, <2>2, <2>3 DEF Delivers, Fields
<1>2. CASE RemoveLock
  BY <1>1, <1>2 DEF RemoveLock, counts
<1>3. ASSUME NEW p \in Processes, Crash(p) PROVE Delivers'
  BY <1>3, EndDelivers DEF Crash, disk, counts
<1>4. CASE UNCHANGED vars
  BY <1>1, <1>4 DEF vars, disk, counts
<1> QED BY <1>2, <1>3, <1>4, RecorderDelivers, ThreadDelivers DEF Next

LEMMA DeliversInit == Init => Delivers
BY DEF Init, Delivers, Fields, ClientStates, DeliversFor, Running, Awaited, WritesOwn, NothingLost, NothingAfter

\* A close that reports success has saved every record offered to its opening,
\* whatever crashed before or behind it, and whichever reads failed in between
\* (close_active, HistoryStore::flush, Writer::run).
THEOREM CloseSavesHolds == Spec => []CloseSaves
<1>1. Delivers => CloseSaves
  BY DEF Delivers, CloseSaves, WrittenBy, LinesOf
<1> QED BY <1>1, ShapeInit, ShapeStep, DeliversInit, DeliversNext, PTL DEF Spec

-----------------------------------------------------------------------------
(* Induction, for a set rather than a predicate *)

\* A set of naturals that holds zero and with every number the next holds them all.
LEMMA SetInduction ==
  ASSUME NEW S, 0 \in S, \A n \in Nat : n \in S => n + 1 \in S
  PROVE  Nat \subseteq S
<1> SUFFICES ASSUME Nat \ S # {} PROVE FALSE
  OBVIOUS
<1> DEFINE R == {p \in Nat \X Nat : p[1] < p[2]}
           T == Nat \ S
<1>1. R = {p \in Nat \X Nat : p[1] < p[2]}
  OBVIOUS
<1>2. IsWellFoundedOn(R, Nat)
  BY NatLessThanWellFounded, <1>1 DEF OpToRel
<1>3. \A m, n \in Nat : m < n => <<m, n>> \in R
  OBVIOUS
<1>4. T \subseteq Nat /\ T # {} /\ \A n \in Nat : n \in T <=> n \notin S
  OBVIOUS
<1> HIDE DEF R, T
<1>5. PICK x \in T : \A y \in T : ~(<<y, x>> \in R)
  BY <1>2, <1>4, WFMin
<1>6. x \in Nat /\ x \notin S /\ x # 0
  BY <1>4, <1>5
<1>7. x - 1 \in Nat /\ x - 1 < x /\ (x - 1) + 1 = x
  BY <1>6
<1>8. x - 1 \notin S
  BY <1>6, <1>7
<1>9. x - 1 \in T
  BY <1>4, <1>7, <1>8
<1> QED BY <1>3, <1>5, <1>6, <1>7, <1>9

\* A set of naturals that has an element has a smallest one.
LEMMA Smallest ==
  ASSUME NEW low \in Nat, NEW high \in Nat, NEW T, T \subseteq (low + 1)..high, T # {}
  PROVE  \E i \in T : \A j \in T : i <= j
<1> SUFFICES ASSUME \A i \in T : \E j \in T : ~(i <= j) PROVE FALSE
  OBVIOUS
<1> DEFINE S == {n \in Nat : \A i \in T : n < i}
<1>1. 0 \in S
  OBVIOUS
<1>2. ASSUME NEW n \in Nat, n \in S PROVE n + 1 \in S
  <2> SUFFICES ASSUME NEW i \in T PROVE n + 1 < i
    OBVIOUS
  <2>1. PICK j \in T : ~(i <= j)
    OBVIOUS
  <2>2. n < j /\ i \in Nat /\ j \in Nat
    BY <1>2
  <2> QED BY <2>1, <2>2
<1>3. Nat \subseteq S
  <2> HIDE DEF S
  <2> QED BY <1>1, <1>2, SetInduction
<1>4. PICK i \in T : TRUE
  OBVIOUS
<1>5. i \in Nat /\ i \in S
  BY <1>3
<1> QED BY <1>5

\* Induction up to a bound.
LEMMA InductionUpTo ==
  ASSUME NEW low \in Nat, NEW high \in Nat, NEW S, low \in S,
         \A n \in low..high : n \in S /\ n < high => n + 1 \in S
  PROVE  \A n \in low..high : n \in S
<1> DEFINE T == {n \in Nat : low + n <= high => low + n \in S}
<1>1. 0 \in T
  OBVIOUS
<1>2. ASSUME NEW n \in Nat, n \in T PROVE n + 1 \in T
  <2>1. SUFFICES ASSUME low + (n + 1) <= high PROVE low + (n + 1) \in S
    OBVIOUS
  <2>2. low + n \in S /\ low + n \in low..high /\ low + n < high /\ (low + n) + 1 = low + (n + 1)
    BY <1>2, <2>1
  <2> QED BY <2>2
<1>3. Nat \subseteq T
  <2> HIDE DEF T
  <2> QED BY <1>1, <1>2, SetInduction
<1>4. ASSUME NEW n \in low..high PROVE n \in S
  <2>1. n - low \in Nat /\ low + (n - low) = n
    OBVIOUS
  <2>2. n - low \in T
    BY <1>3, <2>1
  <2> QED BY <2>1, <2>2
<1> QED BY <1>4

-----------------------------------------------------------------------------
(* Reading the file *)

\* RecordsBehind is what its definition says.
ReadOn(read, s, k, i) ==
  CASE i <= k                -> <<>>
    [] i > k /\ IsEvent(s[i]) -> Append(read[i - 1], s[i])
    [] OTHER                 -> read[i - 1]
Reading(read, s, k, n) == read = [i \in 0..n |-> ReadOn(read, s, k, i)]

LEMMA ReadingExists ==
  ASSUME NEW s, NEW k \in Nat
  PROVE  \A n \in Nat : \E read : Reading(read, s, k, n)
<1> DEFINE S == {n \in Nat : \E read : Reading(read, s, k, n)}
<1>1. 0 \in S
  <2>1. Reading([i \in 0..0 |-> <<>>], s, k, 0)
    BY DEF Reading
  <2> QED BY <2>1
<1>2. ASSUME NEW n \in Nat, n \in S PROVE n + 1 \in S
  <2>1. PICK g : Reading(g, s, k, n)
    BY <1>2
  <2> DEFINE h == [i \in 0..(n + 1) |-> IF i <= n THEN g[i] ELSE ReadOn(g, s, k, i)]
  <2>2. \A i \in 0..n : h[i] = g[i] /\ g[i] = ReadOn(g, s, k, i)
    BY <2>1 DEF Reading
  <2>3. h[n + 1] = ReadOn(g, s, k, n + 1)
    OBVIOUS
  <2>4. \A i \in 0..(n + 1) : h[i] = ReadOn(h, s, k, i)
    <3> SUFFICES ASSUME NEW i \in 0..(n + 1) PROVE h[i] = ReadOn(h, s, k, i)
      OBVIOUS
    <3>1. h[i] = ReadOn(g, s, k, i)
      <4>1. CASE i \in 0..n
        BY <4>1, <2>2
      <4>2. CASE i = n + 1
        BY <4>2, <2>3
      <4> QED BY <4>1, <4>2
    <3>2. CASE i <= k
      BY <3>1, <3>2 DEF ReadOn
    <3>3. CASE i > k
      <4>1. i - 1 \in 0..n
        BY <3>3
      <4>2. h[i - 1] = g[i - 1]
        BY <4>1, <2>2
      <4> HIDE DEF h
      <4> QED BY <3>1, <4>2 DEF ReadOn
    <3> QED BY <3>2, <3>3
  <2>5. h = [i \in 0..(n + 1) |-> ReadOn(h, s, k, i)]
    <3>1. h = [i \in 0..(n + 1) |-> h[i]]
      OBVIOUS
    <3> HIDE DEF h
    <3> QED BY <3>1, <2>4
  <2>6. Reading(h, s, k, n + 1)
    BY <2>5 DEF Reading
  <2> QED BY <2>6
<1>3. Nat \subseteq S
  <2> HIDE DEF S
  <2> QED BY <1>1, <1>2, SetInduction
<1> QED BY <1>3

LEMMA RecordsBehindIs ==
  ASSUME NEW s, Len(s) \in Nat, NEW k \in Nat
  PROVE  Reading(RecordsBehind(s, k), s, k, Len(s))
<1>1. \E read : Reading(read, s, k, Len(s))
  BY ReadingExists
<1> QED BY <1>1 DEF RecordsBehind, Reading, ReadOn


LEMMA ReadingUnfolds ==
  ASSUME NEW s, Len(s) \in Nat, NEW k \in Nat, NEW i \in 0..Len(s)
  PROVE  /\ i <= k => RecordsBehind(s, k)[i] = <<>>
         /\ i > k /\ IsEvent(s[i]) => RecordsBehind(s, k)[i] = Append(RecordsBehind(s, k)[i - 1], s[i])
         /\ i > k /\ ~IsEvent(s[i]) => RecordsBehind(s, k)[i] = RecordsBehind(s, k)[i - 1]
<1>1. RecordsBehind(s, k)[i] = ReadOn(RecordsBehind(s, k), s, k, i)
  BY RecordsBehindIs DEF Reading
<1> QED BY <1>1 DEF ReadOn

LEMMA ReadsNothing ==
  ASSUME NEW s, Len(s) \in Nat, NEW k \in Nat, NEW i \in 0..Len(s), i <= k
  PROVE  RecordsBehind(s, k)[i] = <<>>
BY ReadingUnfolds

LEMMA ReadsRecord ==
  ASSUME NEW s, Len(s) \in Nat, NEW k \in Nat, NEW i \in 0..Len(s), i > k, IsEvent(s[i])
  PROVE  RecordsBehind(s, k)[i] = Append(RecordsBehind(s, k)[i - 1], s[i])
BY ReadingUnfolds

LEMMA ReadsOther ==
  ASSUME NEW s, Len(s) \in Nat, NEW k \in Nat, NEW i \in 0..Len(s), i > k, ~IsEvent(s[i])
  PROVE  RecordsBehind(s, k)[i] = RecordsBehind(s, k)[i - 1]
BY ReadingUnfolds

\* Appending behind the second part appends to the whole.
LEMMA AppendConcat ==
  ASSUME NEW a \in Seq(LineType), NEW b \in Seq(LineType), NEW x \in LineType
  PROVE  Append(a \o b, x) = a \o Append(b, x)
<1>1. a \o b \in Seq(LineType) /\ <<x>> \in Seq(LineType)
  OBVIOUS
<1>2. Append(a \o b, x) = (a \o b) \o <<x>> /\ Append(b, x) = b \o <<x>>
  BY <1>1, AppendIsConcat
<1>3. (a \o b) \o <<x>> = a \o (b \o <<x>>)
  BY <1>1, ConcatAssociative
<1> QED BY <1>2, <1>3

LEMMA RecordsTyped ==
  ASSUME NEW s \in Seq(LineType), NEW k \in Nat, NEW to \in 0..Len(s)
  PROVE  RecordsBehind(s, k)[to] \in Seq(LineType)
<1> DEFINE S == {n \in Nat : RecordsBehind(s, k)[n] \in Seq(LineType)}
<1>1. Len(s) \in Nat
  OBVIOUS
<1>2. 0 \in S
  <2>1. 0 \in 0..Len(s) /\ 0 \in 0..Len(s) /\ 0 <= k
    BY <1>1
  <2>2. RecordsBehind(s, k)[0] = <<>>
    BY <1>1, <2>1, ReadsNothing
  <2> QED BY <2>2, EmptySeq
<1>3. ASSUME NEW n \in 0..Len(s), n \in S, n < Len(s) PROVE n + 1 \in S
  <2>1. n + 1 \in 0..Len(s) /\ n + 1 \in 1..Len(s) /\ (n + 1) - 1 = n /\ n + 1 \in Nat
    BY <1>1, <1>3
  <2>2. s[n + 1] \in LineType
    BY <2>1
  <2>3. RecordsBehind(s, k)[n] \in Seq(LineType)
    BY <1>3
  <2>4. Append(RecordsBehind(s, k)[n], s[n + 1]) \in Seq(LineType)
    BY <2>2, <2>3, AppendProperties
  <2>5. RecordsBehind(s, k)[n + 1] \in Seq(LineType)
    <3>1. CASE n + 1 <= k
      BY <1>1, <2>1, <3>1, ReadsNothing, EmptySeq
    <3>2. CASE n + 1 > k /\ IsEvent(s[n + 1])
      BY <1>1, <2>1, <2>4, <3>2, ReadsRecord
    <3>3. CASE n + 1 > k /\ ~IsEvent(s[n + 1])
      BY <1>1, <2>1, <2>3, <3>3, ReadsOther
    <3> QED BY <2>1, <3>1, <3>2, <3>3
  <2> QED BY <2>1, <2>5
<1>4. \A n \in 0..Len(s) : n \in S
  <2> HIDE DEF S
  <2> QED BY <1>1, <1>2, <1>3, InductionUpTo
<1> QED BY <1>4

\* Two files that hold the same records up to a line read the same up to it.
LEMMA RecordsAgree ==
  ASSUME NEW s \in Seq(LineType), NEW t \in Seq(LineType), NEW k \in Nat, NEW to \in 0..Len(s), to <= Len(t),
         \A i \in 1..to : (IsEvent(s[i]) <=> IsEvent(t[i])) /\ (IsEvent(s[i]) => s[i] = t[i])
  PROVE  RecordsBehind(s, k)[to] = RecordsBehind(t, k)[to]
<1> DEFINE S == {n \in Nat : RecordsBehind(s, k)[n] = RecordsBehind(t, k)[n]}
<1>1. Len(s) \in Nat /\ Len(t) \in Nat /\ to \in Nat
  OBVIOUS
<1>2. 0 \in S
  <2>1. 0 \in 0..Len(s) /\ 0 \in 0..Len(t) /\ 0 <= k
    BY <1>1
  <2>2. RecordsBehind(s, k)[0] = <<>> /\ RecordsBehind(t, k)[0] = <<>>
    BY <1>1, <2>1, ReadsNothing
  <2> QED BY <2>2
<1>3. ASSUME NEW n \in 0..to, n \in S, n < to PROVE n + 1 \in S
  <2>1. n + 1 \in 0..Len(s) /\ n + 1 \in 0..Len(t) /\ n + 1 \in 1..to /\ (n + 1) - 1 = n /\ n + 1 \in Nat
    BY <1>1, <1>3
  <2>2. (IsEvent(s[n + 1]) <=> IsEvent(t[n + 1])) /\ (IsEvent(s[n + 1]) => s[n + 1] = t[n + 1])
    BY <2>1
  <2>3. RecordsBehind(s, k)[n] = RecordsBehind(t, k)[n]
    BY <1>3
  <2>4. RecordsBehind(s, k)[n + 1] = RecordsBehind(t, k)[n + 1]
    <3>1. CASE n + 1 <= k
      BY <1>1, <2>1, <3>1, ReadsNothing
    <3>2. CASE n + 1 > k /\ IsEvent(s[n + 1])
      <4>1. RecordsBehind(s, k)[n + 1] = Append(RecordsBehind(s, k)[n], s[n + 1])
        BY <1>1, <2>1, <3>2, ReadsRecord
      <4>2. RecordsBehind(t, k)[n + 1] = Append(RecordsBehind(t, k)[n], t[n + 1])
        BY <1>1, <2>1, <2>2, <3>2, ReadsRecord
      <4> QED BY <2>2, <2>3, <3>2, <4>1, <4>2
    <3>3. CASE n + 1 > k /\ ~IsEvent(s[n + 1])
      <4>1. RecordsBehind(s, k)[n + 1] = RecordsBehind(s, k)[n]
        BY <1>1, <2>1, <3>3, ReadsOther
      <4>2. RecordsBehind(t, k)[n + 1] = RecordsBehind(t, k)[n]
        BY <1>1, <2>1, <2>2, <3>3, ReadsOther
      <4> QED BY <2>3, <4>1, <4>2
    <3> QED BY <2>1, <3>1, <3>2, <3>3
  <2> QED BY <2>1, <2>4
<1>4. \A n \in 0..to : n \in S
  <2> HIDE DEF S
  <2> QED BY <1>1, <1>2, <1>3, InductionUpTo
<1> QED BY <1>4

\* What is read in two parts is read in one.
LEMMA RecordsSplit ==
  ASSUME NEW s \in Seq(LineType), NEW k \in Nat, NEW mid \in 0..Len(s), NEW to \in mid..Len(s), k <= mid
  PROVE  RecordsBehind(s, k)[to] = RecordsBehind(s, k)[mid] \o RecordsBehind(s, mid)[to]
<1> DEFINE S == {n \in Nat : RecordsBehind(s, k)[n] = RecordsBehind(s, k)[mid] \o RecordsBehind(s, mid)[n]}
<1>1. Len(s) \in Nat /\ mid \in Nat /\ to \in Nat
  OBVIOUS
<1>2. mid \in S
  <2>1. RecordsBehind(s, mid)[mid] = <<>>
    BY <1>1, ReadingUnfolds
  <2>2. RecordsBehind(s, k)[mid] \in Seq(LineType)
    BY <1>1, RecordsTyped
  <2> QED BY <1>1, <2>1, <2>2, ConcatEmptySeq
<1>3. ASSUME NEW n \in mid..Len(s), n \in S, n < Len(s) PROVE n + 1 \in S
  <2>1. n \in 0..Len(s) /\ n + 1 \in 0..Len(s) /\ (n + 1) - 1 = n /\ n + 1 \in Nat /\ n + 1 > k /\ n + 1 > mid
        /\ n + 1 \in 1..Len(s)
    BY <1>1, <1>3
  <2>2. RecordsBehind(s, k)[n] = RecordsBehind(s, k)[mid] \o RecordsBehind(s, mid)[n]
    BY <1>3
  <2>3. RecordsBehind(s, k)[mid] \in Seq(LineType) /\ RecordsBehind(s, mid)[n] \in Seq(LineType) /\ s[n + 1] \in LineType
    BY <1>1, <2>1, RecordsTyped
  <2>4. RecordsBehind(s, k)[n + 1] = RecordsBehind(s, k)[mid] \o RecordsBehind(s, mid)[n + 1]
    <3>2. CASE IsEvent(s[n + 1])
      <4>1. RecordsBehind(s, k)[n + 1] = Append(RecordsBehind(s, k)[n], s[n + 1])
        BY <1>1, <2>1, <3>2, ReadsRecord
      <4>2. RecordsBehind(s, mid)[n + 1] = Append(RecordsBehind(s, mid)[n], s[n + 1])
        BY <1>1, <2>1, <3>2, ReadsRecord
      <4>3. Append(RecordsBehind(s, k)[mid] \o RecordsBehind(s, mid)[n], s[n + 1])
              = RecordsBehind(s, k)[mid] \o Append(RecordsBehind(s, mid)[n], s[n + 1])
        BY <2>3, AppendConcat
      <4> QED BY <2>2, <4>1, <4>2, <4>3
    <3>3. CASE ~IsEvent(s[n + 1])
      <4>1. RecordsBehind(s, k)[n + 1] = RecordsBehind(s, k)[n]
        BY <1>1, <2>1, <3>3, ReadsOther
      <4>2. RecordsBehind(s, mid)[n + 1] = RecordsBehind(s, mid)[n]
        BY <1>1, <2>1, <3>3, ReadsOther
      <4> QED BY <2>2, <4>1, <4>2
    <3> QED BY <3>2, <3>3
  <2> QED BY <2>1, <2>4
<1>4. \A n \in mid..Len(s) : n \in S
  <2> HIDE DEF S
  <2> QED BY <1>1, <1>2, <1>3, InductionUpTo
<1> QED BY <1>4

-----------------------------------------------------------------------------
(* A page *)

LEMMA EventsInFinite ==
  ASSUME NEW from \in Nat, NEW to \in Nat
  PROVE  IsFiniteSet(EventsIn(from, to)) /\ Cardinality(EventsIn(from, to)) \in Nat
<1>1. IsFiniteSet((from + 1)..to) /\ EventsIn(from, to) \in SUBSET ((from + 1)..to)
  BY FS_Interval DEF EventsIn
<1>2. IsFiniteSet(EventsIn(from, to))
  BY <1>1, FS_Subset
<1> QED BY <1>2, FS_CardinalityType

\* The next line counts if it is a record.
LEMMA EventsInNext ==
  ASSUME NEW from \in Nat, NEW n \in Nat, from <= n
  PROVE  /\ IsEvent(file[n + 1]) =>
              /\ Cardinality(EventsIn(from, n + 1)) = Cardinality(EventsIn(from, n)) + 1
              /\ n + 1 \in EventsIn(from, n + 1)
         /\ ~IsEvent(file[n + 1]) => Cardinality(EventsIn(from, n + 1)) = Cardinality(EventsIn(from, n))
<1>1. IsFiniteSet(EventsIn(from, n)) /\ Cardinality(EventsIn(from, n)) \in Nat
  BY EventsInFinite
<1>2. n + 1 \notin EventsIn(from, n)
  BY DEF EventsIn
<1>3. CASE IsEvent(file[n + 1])
  <2>1. \A i : i \in (from + 1)..(n + 1) <=> i \in (from + 1)..n \/ i = n + 1
    OBVIOUS
  <2>2. EventsIn(from, n + 1) = EventsIn(from, n) \cup {n + 1}
    BY <1>3, <2>1 DEF EventsIn, IsEvent
  <2> QED BY <1>1, <1>2, <1>3, <2>2, FS_AddElement
<1>4. CASE ~IsEvent(file[n + 1])
  <2>1. \A i : i \in (from + 1)..(n + 1) <=> i \in (from + 1)..n \/ i = n + 1
    OBVIOUS
  <2>2. EventsIn(from, n + 1) = EventsIn(from, n)
    BY <1>4, <2>1 DEF EventsIn, IsEvent
  <2> QED BY <1>4, <2>2
<1> QED BY <1>3, <1>4

\* What is read has as many records as are counted.
LEMMA EventsCounted ==
  ASSUME Typed, NEW from \in Nat, NEW to \in from..Len(file)
  PROVE  Events(from, to) \in Seq(LineType) /\ Len(Events(from, to)) = Cardinality(EventsIn(from, to))
<1> DEFINE read(n) == RecordsBehind(file, from)[n]
           S == {n \in Nat : Len(read(n)) = Cardinality(EventsIn(from, n))}
<1>1. file \in Seq(LineType) /\ Len(file) \in Nat
  BY LenProperties DEF Typed
<1>2. \A n \in 0..Len(file) : read(n) \in Seq(LineType)
  BY <1>1, RecordsTyped
<1>3. from \in S
  <2>1. from \in 0..Len(file) /\ from <= from
    BY <1>1
  <2>2. read(from) = <<>>
    BY <1>1, <2>1, ReadsNothing
  <2>3. EventsIn(from, from) = {}
    BY DEF EventsIn
  <2> QED BY <2>2, <2>3, FS_EmptySet
<1>4. ASSUME NEW n \in from..Len(file), n \in S, n < Len(file) PROVE n + 1 \in S
  <2>1. n \in Nat /\ from <= n /\ n + 1 \in 0..Len(file) /\ n + 1 > from /\ (n + 1) - 1 = n /\ n + 1 \in 1..Len(file)
        /\ n \in 0..Len(file) /\ n + 1 \in Nat
    BY <1>1, <1>4
  <2>2. Len(read(n)) = Cardinality(EventsIn(from, n)) /\ read(n) \in Seq(LineType) /\ file[n + 1] \in LineType
    BY <1>1, <1>2, <1>4, <2>1
  <2>3. CASE IsEvent(file[n + 1])
    <3>1. read(n + 1) = Append(read(n), file[n + 1])
      BY <1>1, <2>1, <2>3, ReadsRecord
    <3> HIDE DEF read
    <3>2. Len(read(n + 1)) = Len(read(n)) + 1
      BY <2>2, <3>1, AppendProperties
    <3>3. Cardinality(EventsIn(from, n + 1)) = Cardinality(EventsIn(from, n)) + 1
      BY <2>1, <2>3, EventsInNext
    <3> QED BY <2>1, <2>2, <3>2, <3>3
  <2>4. CASE ~IsEvent(file[n + 1])
    <3>1. read(n + 1) = read(n)
      BY <1>1, <2>1, <2>4, ReadsOther
    <3>2. Cardinality(EventsIn(from, n + 1)) = Cardinality(EventsIn(from, n))
      BY <2>1, <2>4, EventsInNext
    <3> HIDE DEF read
    <3> QED BY <2>1, <2>2, <3>1, <3>2
  <2> QED BY <2>3, <2>4
<1>5. \A n \in from..Len(file) : n \in S
  <2> HIDE DEF S
  <2> QED BY <1>1, <1>3, <1>4, InductionUpTo
<1>6. to \in S /\ to \in 0..Len(file)
  BY <1>1, <1>5
<1> QED BY <1>2, <1>6 DEF Events

\* The page ends before the first record past the limit: what it reads is within it.
LEMMA StopWithinLimit ==
  ASSUME Typed, NEW from \in Nat, NEW mark \in from..Len(file)
  PROVE  Stop(from, mark) \in from..mark /\ Cardinality(EventsIn(from, Stop(from, mark))) <= Limit
<1> DEFINE past == {i \in EventsIn(from, mark) : Cardinality(EventsIn(from, i)) > Limit}
           S == {n \in Nat : Cardinality(EventsIn(from, n)) <= Limit \/ \E i \in past : i <= n}
<1>1. Len(file) \in Nat /\ mark \in Nat /\ from <= mark /\ Limit \in Nat \ {0}
  BY LenProperties, HistoryConstants DEF Typed
<1>2. from \in S
  <2>1. EventsIn(from, from) = {}
    BY DEF EventsIn
  <2>2. Cardinality(EventsIn(from, from)) = 0
    BY <2>1, FS_EmptySet
  <2> QED BY <1>1, <2>2
<1>3. ASSUME NEW n \in from..mark, n \in S, n < mark PROVE n + 1 \in S
  <2>1. n \in Nat /\ n + 1 \in Nat /\ from <= n
    BY <1>1, <1>3
  <2>2. Cardinality(EventsIn(from, n)) \in Nat /\ Cardinality(EventsIn(from, n + 1)) \in Nat
    BY <2>1, EventsInFinite
  <2>3. CASE \E i \in past : i <= n
    <3>1. PICK i \in past : i <= n
      BY <2>3
    <3>2. i \in Nat
      BY DEF EventsIn
    <3>3. i <= n + 1
      BY <2>1, <3>1, <3>2
    <3> QED BY <2>1, <3>3
  <2>4. CASE Cardinality(EventsIn(from, n)) <= Limit /\ ~IsEvent(file[n + 1])
    BY <2>1, <2>4, EventsInNext
  <2>5. CASE Cardinality(EventsIn(from, n + 1)) > Limit /\ IsEvent(file[n + 1])
    <3>1. n + 1 \in EventsIn(from, mark)
      BY <1>1, <1>3, <2>1, <2>5 DEF EventsIn, IsEvent
    <3>2. n + 1 \in past
      BY <2>5, <3>1
    <3>3. n + 1 <= n + 1
      BY <2>1
    <3> QED BY <2>1, <3>2, <3>3
  <2>6. CASE Cardinality(EventsIn(from, n + 1)) <= Limit
    BY <2>1, <2>6
  <2>7. Cardinality(EventsIn(from, n)) <= Limit \/ \E i \in past : i <= n
    BY <1>3
  <2>8. Cardinality(EventsIn(from, n + 1)) > Limit \/ Cardinality(EventsIn(from, n + 1)) <= Limit
    BY <1>1, <2>2
  <2> HIDE DEF past, S
  <2> QED BY <2>3, <2>4, <2>5, <2>6, <2>7, <2>8
<1>4. \A n \in from..mark : n \in S
  <2> HIDE DEF S
  <2> QED BY <1>1, <1>2, <1>3, InductionUpTo
<1>5. CASE past = {}
  <2>1. Stop(from, mark) = mark
    BY <1>5 DEF Stop
  <2>2. mark \in from..mark /\ mark \in S
    BY <1>1, <1>4
  <2>3. Cardinality(EventsIn(from, mark)) <= Limit
    BY <1>5, <2>2
  <2> QED BY <2>1, <2>2, <2>3
<1>6. CASE past # {}
  <2>1. past \subseteq (from + 1)..mark
    BY DEF EventsIn
  <2>2. \E i \in past : \A j \in past : i <= j
    <3> HIDE DEF past, S
    <3> QED BY <1>1, <1>6, <2>1, Smallest
  <2> DEFINE first == CHOOSE i \in past : \A j \in past : i <= j
  <2>3. first \in past /\ \A j \in past : first <= j
    BY <2>2
  <2>4. Stop(from, mark) = first - 1
    BY <1>6 DEF Stop
  <2>5. first \in (from + 1)..mark
    BY <2>1, <2>3
  <2> HIDE DEF first
  <2>6. first - 1 \in from..mark
    BY <1>1, <2>5
  <2>7. first - 1 \in S
    BY <1>4, <2>6
  <2>8. ~\E i \in past : i <= first - 1
    <3> SUFFICES ASSUME NEW i \in past, i <= first - 1 PROVE FALSE
      OBVIOUS
    <3>1. i \in Nat /\ first \in Nat /\ first <= i
      BY <1>1, <2>1, <2>3, <2>5
    <3> QED BY <3>1
  <2>9. Cardinality(EventsIn(from, first - 1)) <= Limit
    BY <2>7, <2>8
  <2> QED BY <2>4, <2>6, <2>9
<1> QED BY <1>5, <1>6

\* A page is all the records up to where it stops.
LEMMA PageWhole ==
  ASSUME Typed, NEW from \in Nat, NEW mark \in from..Len(file)
  PROVE  Taken(from, Stop(from, mark)) = Events(from, Stop(from, mark))
<1> DEFINE stop == Stop(from, mark)
           events == Events(from, stop)
<1>1. Len(file) \in Nat /\ Limit \in Nat \ {0}
  BY LenProperties, HistoryConstants DEF Typed
<1>2. stop \in from..Len(file) /\ Cardinality(EventsIn(from, stop)) <= Limit
  <2>1. stop \in from..mark /\ Cardinality(EventsIn(from, stop)) <= Limit
    BY StopWithinLimit
  <2> HIDE DEF stop
  <2> QED BY <1>1, <2>1
<1> HIDE DEF stop
<1>3. events \in Seq(LineType) /\ Len(events) = Cardinality(EventsIn(from, stop))
  BY <1>2, EventsCounted
<1> HIDE DEF events
<1>4. Len(events) \in Nat /\ Len(events) <= Limit
  BY <1>2, <1>3
<1>5. (IF Len(events) < Limit THEN Len(events) ELSE Limit) = Len(events)
  BY <1>1, <1>4
<1>6. SubSeq(events, 1, Len(events)) = events
  BY <1>3, SubSeqFull
<1>7. Taken(from, stop) = SubSeq(events, 1, Len(events))
  BY <1>5 DEF Taken, events
<1> QED BY <1>6, <1>7 DEF events, stop

-----------------------------------------------------------------------------
(* Queries *)

\* The pages read so far are the records up to where they stop, all of them in
\* lines that are ended, and that nobody rewrites.
ReadSoFar(q) ==
  /\ q \in QueryType
  /\ q.from <= q.mark /\ q.mark <= Len(file)
  /\ \A i \in 1..q.mark : file[i].ended
  /\ q.got = Events(0, q.from)

\* The line the writer is at is not ended.
AtOpenLine(p) == writer[p] \in {"header", "text", "newline"} => file # <<>> /\ ~LastLine.ended

Paging ==
  /\ query \in [Processes -> QueryType] /\ answer \in [Processes -> QueryType]
  /\ \A p \in Processes :
       /\ AtOpenLine(p)
       /\ ReadSoFar(query[p])
       /\ ReadSoFar(answer[p]) /\ answer[p].from = answer[p].mark

\* A file changes at its end only, where it is not ended.
Grows ==
  \/ file' = file
  \/ \E line \in LineType : file' = Append(file, line)
  \/ file # <<>> /\ ~LastLine.ended /\ \E line \in LineType : file' = Rewritten(line)

LEMMA NewQueryRead == ASSUME Typed PROVE ReadSoFar(NewQuery) /\ NewQuery \in QueryType /\ NewQuery.from = NewQuery.mark
<1>1. file \in Seq(LineType) /\ Len(file) \in Nat /\ 0 \in 0..Len(file)
  BY LenProperties DEF Typed
<1>2. Events(0, 0) = <<>>
  <2>1. RecordsBehind(file, 0)[0] = <<>>
    BY <1>1, ReadsNothing
  <2> QED BY <2>1 DEF Events
<1>3. NewQuery.from = 0 /\ NewQuery.mark = 0 /\ NewQuery.got = <<>> /\ <<>> \in Seq(LineType)
  BY EmptySeq DEF NewQuery
<1>4. NewQuery \in QueryType
  BY <1>3 DEF NewQuery, QueryType
<1> QED BY <1>1, <1>2, <1>3, <1>4 DEF ReadSoFar

LEMMA GrowsKeeps ==
  ASSUME Typed, Grows, NEW m \in Nat, m <= Len(file), \A i \in 1..m : file[i].ended
  PROVE  file' \in Seq(LineType) /\ m <= Len(file') /\ \A i \in 1..m : file'[i] = file[i]
<1>1. file \in Seq(LineType) /\ Len(file) \in Nat
  BY LenProperties DEF Typed
<1>2. CASE file' = file
  BY <1>1, <1>2
<1>3. ASSUME NEW line \in LineType, file' = Append(file, line)
      PROVE  file' \in Seq(LineType) /\ m <= Len(file') /\ \A i \in 1..m : file'[i] = file[i]
  <2>1. /\ file' \in Seq(LineType) /\ Len(file') = Len(file) + 1
        /\ \A i \in 1..Len(file) : file'[i] = file[i]
    BY <1>1, <1>3, AppendProperties
  <2>2. \A i \in 1..m : i \in 1..Len(file)
    BY <1>1
  <2> QED BY <1>1, <2>1, <2>2
<1>4. ASSUME file # <<>>, ~LastLine.ended, NEW line \in LineType, file' = Rewritten(line)
      PROVE  file' \in Seq(LineType) /\ m <= Len(file') /\ \A i \in 1..m : file'[i] = file[i]
  <2>1. /\ file' \in Seq(LineType) /\ Len(file') = Len(file)
        /\ \A i \in 1..(Len(file) - 1) : file'[i] = file[i]
    BY <1>4, RewrittenTyped
  <2>2. Len(file) \in Nat \ {0}
    BY <1>4, LastLineTyped
  <2>3. m # Len(file)
    BY <1>4, <2>2 DEF LastLine
  <2>4. \A i \in 1..m : i \in 1..(Len(file) - 1)
    BY <2>2, <2>3
  <2> QED BY <1>1, <2>1, <2>4
<1> QED BY <1>2, <1>3, <1>4 DEF Grows

\* What a query has read stays what it would read.
LEMMA ReadKept ==
  ASSUME Typed, Grows, NEW q, ReadSoFar(q)
  PROVE  ReadSoFar(q)'
<1>1. q.from \in Nat /\ q.mark \in Nat /\ q.mark <= Len(file) /\ q.from <= q.mark
  BY DEF ReadSoFar, QueryType
<1>2. file' \in Seq(LineType) /\ q.mark <= Len(file') /\ \A i \in 1..q.mark : file'[i] = file[i]
  BY <1>1, GrowsKeeps DEF ReadSoFar
<1>3. file \in Seq(LineType) /\ Len(file) \in Nat /\ Len(file') \in Nat
  BY <1>2, LenProperties DEF Typed
<1>4. q.from \in 0..Len(file) /\ q.from <= Len(file') /\ \A i \in 1..q.from : file'[i] = file[i]
  BY <1>1, <1>2, <1>3
<1>5. RecordsBehind(file, 0)[q.from] = RecordsBehind(file', 0)[q.from]
  BY <1>2, <1>3, <1>4, RecordsAgree
<1> QED BY <1>1, <1>2, <1>5 DEF ReadSoFar, Events

\* Every step lets the file grow, and leaves an open line where a writer is at one.
LEMMA ThreadGrows ==
  ASSUME Shape, NEW p \in Processes, AtOpenLine(p), Thread(p)
  PROVE  Grows /\ AtOpenLine(p)'
<1>1. file \in Seq(LineType) /\ Len(file) \in Nat /\ writer \in [Processes -> WriterStates] /\ Typed
  BY LenProperties DEF Shape, Typed, Owned
<1>a. CASE BeginHeader(p)
  <2>1. Line("cut", 0, 0) \in LineType /\ ~Line("cut", 0, 0).ended
    BY LineTyped DEF Torn
  <2>2. file' = Append(file, Line("cut", 0, 0)) /\ file' = <<Line("cut", 0, 0)>>
    BY <1>a DEF BeginHeader
  <2> HIDE DEF Line
  <2>3. Len(file') = 1 /\ file'[1] = Line("cut", 0, 0) /\ file' # <<>>
    BY <2>2
  <2> QED BY <2>1, <2>2, <2>3 DEF Grows, AtOpenLine, LastLine
<1>b. CASE WriteHeader(p)
  <2>1. Line("header", 0, 0) \in LineType /\ ~Line("header", 0, 0).ended
    BY LineTyped
  <2>2. file' = Rewritten(Line("header", 0, 0)) /\ file # <<>> /\ ~LastLine.ended /\ writer' = writer
    BY <1>b DEF WriteHeader, AtOpenLine
  <2>3. Len(file) \in Nat \ {0}
    BY <1>1, <2>2, LastLineTyped
  <2>4. Len(file') = Len(file) /\ file'[Len(file)] = Line("header", 0, 0)
    BY <1>1, <2>1, <2>2, RewrittenTyped
  <2>5. file' # <<>>
    BY <2>3, <2>4
  <2> QED BY <2>1, <2>2, <2>4, <2>5 DEF Grows, AtOpenLine, LastLine
<1>c. CASE EndHeader(p) \/ EndLine(p)
  <2> DEFINE line == [LastLine EXCEPT !.ended = TRUE]
  <2>1. /\ file' = Rewritten(line) /\ file # <<>> /\ ~LastLine.ended
        /\ writer'[p] = "run"
    BY <1>1, <1>c DEF EndHeader, EndLine, AtOpenLine
  <2>2. line \in LineType
    BY <1>1, <2>1, LastLineTyped
  <2> HIDE DEF line
  <2> QED BY <2>1, <2>2 DEF Grows, AtOpenLine
<1>d. CASE Validate(p)
  <2> DEFINE line == [LastLine EXCEPT !.ended = TRUE]
  <2>1. /\ file # <<>> /\ writer'[p] = "run"
        /\ file' = IF LastLine.ended THEN file ELSE Rewritten(line)
    BY <1>1, <1>d DEF Validate, TailEnded
  <2>2. line \in LineType
    BY <1>1, <2>1, LastLineTyped
  <2> HIDE DEF line
  <2> QED BY <2>1, <2>2 DEF Grows, AtOpenLine
<1>e. CASE OpenFails(p) \/ WriteFails(p) \/ Stopped(p)
  BY <1>1, <1>e DEF OpenFails, WriteFails, Stopped, WriterEnds, Grows, AtOpenLine
<1>f. CASE BeginLine(p)
  <2>1. PICK kind \in Torn : file' = Append(file, Line(kind, opening[p], Head(queue[p]).n))
    BY <1>f DEF BeginLine
  <2> DEFINE line == Line(kind, opening[p], Head(queue[p]).n)
  <2>2. Head(queue[p]).n \in Nat /\ opening[p] \in Nat
    BY <1>1, <1>f, TakesTyped DEF BeginLine, CommandType, Typed
  <2>3. line \in LineType /\ ~line.ended
    BY <2>2, LineTyped
  <2>4. file' = Append(file, line)
    BY <2>1
  <2> HIDE DEF line
  <2>5. Len(file') = Len(file) + 1 /\ file'[Len(file) + 1] = line /\ file' # <<>>
    BY <1>1, <2>3, <2>4, AppendProperties
  <2> QED BY <2>3, <2>4, <2>5 DEF Grows, AtOpenLine, LastLine
<1>g. CASE WriteLine(p)
  <2> DEFINE line == [LastLine EXCEPT !.kind = "event"]
  <2>1. /\ file' = Rewritten(line) /\ file # <<>> /\ ~LastLine.ended
    BY <1>1, <1>g DEF WriteLine, AtOpenLine
  <2>2. line \in LineType /\ LastLine \in LineType
    BY <1>1, <2>1, LastLineTyped
  <2>3. ~line.ended
    BY <2>1, <2>2 DEF LineType
  <2> HIDE DEF line
  <2>4. Len(file) \in Nat \ {0} /\ Len(file') = Len(file) /\ file'[Len(file)] = line
    BY <1>1, <2>1, <2>2, LastLineTyped, RewrittenTyped
  <2>5. file' # <<>>
    BY <2>4
  <2> QED BY <2>1, <2>2, <2>3, <2>4, <2>5 DEF Grows, AtOpenLine, LastLine
<1>h. CASE ReadPage(p) \/ FlushFile(p) \/ Report(p)
  BY <1>1, <1>h DEF ReadPage, FlushFile, Report, Takes, disk, Grows, AtOpenLine, LastLine
<1> QED BY <1>a, <1>b, <1>c, <1>d, <1>e, <1>f, <1>g, <1>h DEF Thread

\* One writer works on the file at a time.
LEMMA AtOpenLineOthers ==
  ASSUME Shape, NEW p \in Processes, Thread(p), NEW q \in Processes \ {p}
  PROVE  AtOpenLine(q)'
<1>1. Running(p)
  BY DEF Thread, BeginHeader, WriteHeader, EndHeader, Validate, OpenFails, BeginLine, WriteLine, EndLine,
         WriteFails, ReadPage, FlushFile, Report, Stopped, Takes, Running
<1>2. writer[q] = "off"
  BY <1>1 DEF Shape, Owned, OneWriter, Running
<1>3. writer' = writer \/ \E state : writer' = [writer EXCEPT ![p] = state]
  BY DEF Thread, BeginHeader, WriteHeader, EndHeader, Validate, OpenFails, BeginLine, WriteLine, EndLine,
         WriteFails, ReadPage, FlushFile, Report, Stopped, WriterEnds
<1>4. writer'[q] = writer[q]
  BY <1>3 DEF Shape, Owned
<1> QED BY <1>2, <1>4 DEF AtOpenLine

\* What two pages read is what one would.
LEMMA EventsSplit ==
  ASSUME Typed, NEW mid \in Nat, NEW to \in mid..Len(file)
  PROVE  Events(0, to) = Events(0, mid) \o Events(mid, to)
<1>1. file \in Seq(LineType) /\ Len(file) \in Nat
  BY LenProperties DEF Typed
<1>2. mid \in 0..Len(file) /\ 0 <= mid
  BY <1>1
<1>3. ASSUME NEW s \in Seq(LineType), NEW a \in 0..Len(s), NEW b \in a..Len(s)
      PROVE  RecordsBehind(s, 0)[b] = RecordsBehind(s, 0)[a] \o RecordsBehind(s, a)[b]
  <2> DEFINE k == 0
  <2>1. k \in Nat /\ k <= a
    OBVIOUS
  <2> HIDE DEF k
  <2>2. RecordsBehind(s, k)[b] = RecordsBehind(s, k)[a] \o RecordsBehind(s, a)[b]
    BY <2>1, RecordsSplit
  <2> QED BY <2>2 DEF k
<1> QED BY <1>1, <1>2, <1>3 DEF Events

\* A page goes on where the last one stopped, up to the watermark of the first.
LEMMA PageRead ==
  ASSUME Shape, Paging, NEW p \in Processes, ReadPage(p)
  PROVE  /\ query' \in [Processes -> QueryType]
         /\ \A r \in Processes : query'[r] = query[r] \/ ReadSoFar(query'[r])
<1> DEFINE q == query[p]
           m == Mark(q)
           stop == Stop(q.from, m)
           r == [from |-> stop, mark |-> m, got |-> q.got \o Taken(q.from, stop)]
<1>1. /\ Typed /\ file \in Seq(LineType) /\ Len(file) \in Nat /\ query \in [Processes -> QueryType]
      /\ q \in QueryType /\ ReadSoFar(q)
  BY LenProperties DEF Shape, Typed, Paging
<1>2. \A i \in 1..Len(file) : file[i].ended
  <2>1. file # <<>> /\ LastLine.ended /\ LinesApart
    BY DEF ReadPage, Takes, Shape, ShapeFor
  <2>2. Len(file) \in Nat \ {0}
    BY <1>1, <2>1, LastLineTyped
  <2>3. \A i \in 1..Len(file) : i \in 1..(Len(file) - 1) \/ i = Len(file)
    BY <2>2, UpTo
  <2> QED BY <2>1, <2>3 DEF LinesApart, LastLine
<1>3. q.from \in Nat /\ m \in q.from..Len(file)
  <2>1. q.from \in Nat /\ q.mark \in Nat /\ q.from <= q.mark /\ q.mark <= Len(file)
    BY <1>1 DEF ReadSoFar, QueryType
  <2> QED BY <1>1, <2>1 DEF Mark
<1>4. stop \in q.from..m /\ Taken(q.from, stop) = Events(q.from, stop)
  BY <1>1, <1>3, StopWithinLimit, PageWhole
<1>5. Events(0, stop) = Events(0, q.from) \o Events(q.from, stop) /\ Events(0, stop) \in Seq(LineType)
  <2>1. q.from \in 0..Len(file) /\ stop \in q.from..Len(file) /\ stop \in 0..Len(file) /\ 0 <= q.from
    BY <1>1, <1>3, <1>4
  <2> HIDE DEF q, stop
  <2>2. RecordsBehind(file, 0)[stop] = RecordsBehind(file, 0)[q.from] \o RecordsBehind(file, q.from)[stop]
    <3>1. stop \in Nat /\ q.from \in Nat
      BY <1>1, <2>1
    <3>2. Events(0, stop) = Events(0, q.from) \o Events(q.from, stop)
      BY <1>1, <2>1, <3>1, EventsSplit
    <3> QED BY <3>2 DEF Events
  <2>3. RecordsBehind(file, 0)[stop] \in Seq(LineType)
    BY <1>1, <2>1, RecordsTyped
  <2> QED BY <2>2, <2>3 DEF Events
<1>6. r.from = stop /\ r.mark = m /\ r.got = Events(0, stop)
  <2>1. q.got = Events(0, q.from)
    BY <1>1 DEF ReadSoFar
  <2> QED BY <1>4, <1>5, <2>1
<1>7. r \in QueryType
  <2>1. stop \in Nat /\ m \in Nat
    BY <1>1, <1>3, <1>4
  <2>2. r = [from |-> stop, mark |-> m, got |-> Events(0, stop)]
    BY <1>6
  <2> HIDE DEF stop, m, q, r
  <2> QED BY <1>5, <2>1, <2>2 DEF QueryType
<1>8. ReadSoFar(r)
  <2>1. stop <= m /\ m <= Len(file) /\ \A i \in 1..m : file[i].ended
    BY <1>1, <1>2, <1>3, <1>4
  <2> HIDE DEF stop, m, q, r
  <2> QED BY <1>6, <1>7, <2>1 DEF ReadSoFar
<1>9. query' = query \/ query' = [query EXCEPT ![p] = r]
  BY DEF ReadPage
<1> HIDE DEF r
<1> QED BY <1>1, <1>7, <1>8, <1>9

\* What remains to be shown of a step: where the writers are, and what it read.
LEMMA PagingStep ==
  ASSUME Typed, Paging, Grows, \A p \in Processes : AtOpenLine(p)',
         query' \in [Processes -> QueryType], answer' \in [Processes -> QueryType],
         \A p \in Processes : query'[p] = query[p] \/ ReadSoFar(query'[p]),
         \A p \in Processes : \/ answer'[p] = answer[p]
                              \/ ReadSoFar(answer'[p]) /\ answer'[p].from = answer'[p].mark
  PROVE  Paging'
<1>1. ASSUME NEW q, ReadSoFar(q)
      PROVE  q \in QueryType /\ q.from <= q.mark /\ q.mark <= Len(file')
             /\ (\A i \in 1..q.mark : file'[i].ended) /\ q.got = RecordsBehind(file', 0)[q.from]
  <2>1. ReadSoFar(q)'
    BY <1>1, ReadKept
  <2> QED BY <2>1 DEF ReadSoFar, Events
<1>2. ASSUME NEW p \in Processes PROVE ReadSoFar(query[p])'
  <2>1. ReadSoFar(query'[p])
    BY DEF Paging
  <2> QED BY <1>1, <2>1 DEF ReadSoFar, Events
<1>3. ASSUME NEW p \in Processes PROVE ReadSoFar(answer[p])' /\ answer'[p].from = answer'[p].mark
  <2>1. ReadSoFar(answer'[p]) /\ answer'[p].from = answer'[p].mark
    BY DEF Paging
  <2> QED BY <1>1, <2>1 DEF ReadSoFar, Events
<1> QED BY <1>2, <1>3 DEF Paging

LEMMA PagingRecorder ==
  ASSUME Shape, Paging, NEW p \in Processes, Recorder(p)
  PROVE  Paging'
<1>1. Typed /\ query \in [Processes -> QueryType] /\ answer \in [Processes -> QueryType]
      /\ writer \in [Processes -> WriterStates]
  BY DEF Shape, Paging, Owned
<1>2. ReadSoFar(NewQuery) /\ NewQuery \in QueryType /\ NewQuery.from = NewQuery.mark
  BY <1>1, NewQueryRead
<1>3. file' = file /\ Grows
  BY DEF Recorder, Open, RecordEvent, RecordBetween, AskPage, NextPage, LastPage, QueryFails, Detach,
         AskFlush, AskShutdown, WriterGone, disk, Grows
<1>4. writer' = writer \/ writer' = [writer EXCEPT ![p] = "locked"]
  BY DEF Recorder, Open, RecordEvent, RecordBetween, AskPage, NextPage, LastPage, QueryFails, Detach,
         AskFlush, AskShutdown, WriterGone
<1>5. \A q \in Processes : AtOpenLine(q)'
  BY <1>1, <1>3, <1>4 DEF Paging, AtOpenLine, LastLine
<1>6. query' = query \/ query' = [query EXCEPT ![p] = NewQuery]
  BY DEF Recorder, Open, RecordEvent, RecordBetween, AskPage, NextPage, LastPage, QueryFails, Detach,
         AskFlush, AskShutdown, WriterGone, reading
<1>7. \/ answer' = answer \/ answer' = [answer EXCEPT ![p] = NewQuery]
      \/ answer' = [answer EXCEPT ![p] = query[p]] /\ query[p].from = query[p].mark
  BY DEF Recorder, Open, RecordEvent, RecordBetween, AskPage, NextPage, LastPage, QueryFails, Detach,
         AskFlush, AskShutdown, WriterGone, reading
<1>8. /\ query' \in [Processes -> QueryType]
      /\ \A q \in Processes : query'[q] = query[q] \/ ReadSoFar(query'[q])
  BY <1>1, <1>2, <1>6
<1>9. /\ answer' \in [Processes -> QueryType]
      /\ \A q \in Processes : \/ answer'[q] = answer[q]
                              \/ ReadSoFar(answer'[q]) /\ answer'[q].from = answer'[q].mark
  <2>1. ReadSoFar(query[p]) /\ query[p] \in QueryType
    BY <1>1 DEF Paging
  <2> QED BY <1>1, <1>2, <1>7, <2>1
<1> QED BY <1>1, <1>3, <1>5, <1>8, <1>9, PagingStep

LEMMA PagingThread ==
  ASSUME Shape, Paging, NEW p \in Processes, Thread(p)
  PROVE  Paging'
<1>1. Typed /\ query \in [Processes -> QueryType] /\ answer \in [Processes -> QueryType]
  BY DEF Shape, Paging
<1>2. Grows /\ AtOpenLine(p)'
  BY ThreadGrows DEF Paging
<1>3. \A q \in Processes : AtOpenLine(q)'
  BY <1>2, AtOpenLineOthers
<1>4. answer' = answer /\ (query' = query \/ ReadPage(p))
  BY DEF Thread, BeginHeader, WriteHeader, EndHeader, Validate, OpenFails, BeginLine, WriteLine, EndLine,
         WriteFails, ReadPage, FlushFile, Report, Stopped, reading
<1>5. /\ query' \in [Processes -> QueryType]
      /\ \A q \in Processes : query'[q] = query[q] \/ ReadSoFar(query'[q])
  <2>1. CASE query' = query
    BY <1>1, <2>1
  <2>2. CASE ReadPage(p)
    BY <2>2, PageRead
  <2> QED BY <1>4, <2>1, <2>2
<1> QED BY <1>1, <1>2, <1>3, <1>4, <1>5, PagingStep

LEMMA PagingNext == Shape /\ Paging /\ [Next]_vars => Paging'
<1> SUFFICES ASSUME Shape, Paging, [Next]_vars PROVE Paging'
  OBVIOUS
<1>1. Typed /\ query \in [Processes -> QueryType] /\ answer \in [Processes -> QueryType]
      /\ writer \in [Processes -> WriterStates]
  BY DEF Shape, Paging, Owned
<1>2. ASSUME UNCHANGED <<file, query, answer>>,
             writer' = writer \/ \E p \in Processes : writer' = [writer EXCEPT ![p] = "off"]
      PROVE  Paging'
  <2>1. Grows
    BY <1>2 DEF Grows
  <2>2. \A p \in Processes : AtOpenLine(p)'
    BY <1>1, <1>2 DEF Paging, AtOpenLine, LastLine
  <2> QED BY <1>1, <1>2, <2>1, <2>2, PagingStep
<1>3. CASE RemoveLock
  BY <1>2, <1>3 DEF RemoveLock, reading
<1>4. ASSUME NEW p \in Processes, Crash(p) PROVE Paging'
  BY <1>2, <1>4 DEF Crash, disk, reading
<1>5. CASE UNCHANGED vars
  BY <1>2, <1>5 DEF vars, disk, reading
<1> QED BY <1>3, <1>4, <1>5, PagingRecorder, PagingThread DEF Next

LEMMA PagingInit == Init => Paging
<1> SUFFICES ASSUME Init PROVE Paging
  OBVIOUS
<1>1. ReadSoFar(NewQuery) /\ NewQuery \in QueryType /\ NewQuery.from = NewQuery.mark
  BY TypedInit, NewQueryRead
<1> QED BY <1>1 DEF Init, Paging, AtOpenLine

\* A query that is answered has read every record below its watermark once and in
\* order, whatever other openings wrote between its pages and whichever pages were
\* full (HistoryStore::read_snapshot, query, load_trace_metrics).
THEOREM PagesExactHolds == Spec => []PagesExact
<1>1. Paging => PagesExact
  BY DEF Paging, PagesExact, ReadSoFar
<1> QED BY <1>1, ShapeInit, ShapeStep, PagingInit, PagingNext, PTL DEF Spec

-----------------------------------------------------------------------------
(* Records in order *)

\* What is queued goes on where the file ends, with an error or without one, and the
\* line the writer is writing is the next of its opening.
OrderedFor(p) ==
  Running(p) =>
    /\ \E m \in Nat : Numbered(queue[p], WrittenBy(opening[p]) + Begun(p), m)
    /\ writer[p] = "text" => LastLine.n = WrittenBy(opening[p]) + 1

Ordered == \A p \in Processes : OrderedFor(p)

\* No record is added: the file grows by a line that is none, or its last line is
\* rewritten and stays the record it was, or none.
SameRecord(line, other) ==
  IsEvent(line) \/ IsEvent(other) =>
    IsEvent(line) /\ IsEvent(other) /\ line.opening = other.opening /\ line.n = other.n
NoRecord ==
  \/ file' = file
  \/ \E line \in LineType : ~IsEvent(line) /\ file' = Append(file, line)
  \/ file # <<>> /\ \E line \in LineType : SameRecord(line, LastLine) /\ file' = Rewritten(line)

LEMMA NumberedHead ==
  ASSUME NEW q \in Seq(CommandType), NEW k, NEW m, Numbered(q, k, m),
         q # <<>>, Head(q).kind = "record"
  PROVE  Head(q).n = k + 1
<1>1. Len(q) \in Nat \ {0} /\ Head(q) = q[1] /\ DOMAIN q = 1..Len(q)
  BY TailOf
<1>2. 1 \in DOMAIN q /\ q[1].kind = "record" /\ k \in Nat /\ m \in Nat
  BY <1>1 DEF Numbered
<1>3. q[1].n \in (k + 1)..m
  BY <1>2 DEF Numbered
<1>4. k + 1 \in (k + 1)..m
  BY <1>2, <1>3
<1>5. PICK i \in DOMAIN q : q[i].kind = "record" /\ q[i].n = k + 1
  BY <1>4 DEF Numbered
<1>6. CASE i = 1
  BY <1>1, <1>5, <1>6
<1>7. CASE i # 1
  <2>1. 1 < i
    BY <1>1, <1>7
  <2>2. q[1].n < q[i].n
    BY <1>2, <1>5, <2>1 DEF Numbered
  <2> QED BY <1>2, <1>3, <1>5, <2>2
<1> QED BY <1>6, <1>7

LEMMA FileNotEmpty ==
  ASSUME Shape, NEW p \in Processes, writer[p] \in {"header", "run", "text", "newline", "report"}
  PROVE  file # <<>>
<1>1. file = <<>> => Len(file) = 0
  OBVIOUS
<1> QED BY <1>1 DEF Shape, ShapeFor

\* Ending the last line keeps its record.
LEMMA LastLineEnded ==
  ASSUME Shape, file # <<>>
  PROVE  /\ [LastLine EXCEPT !.ended = TRUE] \in LineType
         /\ SameRecord([LastLine EXCEPT !.ended = TRUE], LastLine)
<1>1. LastLine \in LineType /\ [LastLine EXCEPT !.ended = TRUE] \in LineType
  BY LastLineTyped DEF Shape
<1>2. /\ [LastLine EXCEPT !.ended = TRUE].kind = LastLine.kind
      /\ [LastLine EXCEPT !.ended = TRUE].opening = LastLine.opening
      /\ [LastLine EXCEPT !.ended = TRUE].n = LastLine.n
  BY <1>1 DEF LineType
<1> QED BY <1>1, <1>2 DEF SameRecord, IsEvent

LEMMA ThreadNoRecord ==
  ASSUME Shape, NEW p \in Processes, Thread(p), ~WriteLine(p)
  PROVE  NoRecord
<1>1. Typed /\ writer \in [Processes -> WriterStates]
  BY DEF Shape, Owned
<1>a. CASE BeginHeader(p)
  <2> DEFINE line == Line("cut", 0, 0)
  <2>1. line \in LineType /\ ~IsEvent(line)
    BY DEF Line, LineType, IsEvent, Torn
  <2>2. file' = Append(file, line)
    BY <1>a DEF BeginHeader
  <2> HIDE DEF line
  <2> QED BY <2>1, <2>2 DEF NoRecord
<1>b. CASE WriteHeader(p)
  <2> DEFINE line == Line("header", 0, 0)
  <2>1. line \in LineType /\ ~IsEvent(line)
    BY DEF Line, LineType, IsEvent
  <2>2. file # <<>> /\ ~IsEvent(LastLine) /\ file' = Rewritten(line)
    BY <1>b, FileNotEmpty DEF WriteHeader, IsEvent
  <2> HIDE DEF line
  <2> QED BY <2>1, <2>2 DEF NoRecord, SameRecord
<1>c. CASE EndHeader(p) \/ EndLine(p) \/ Validate(p)
  <2>1. file # <<>>
    BY <1>c, FileNotEmpty DEF EndHeader, EndLine, Validate
  <2> DEFINE line == [LastLine EXCEPT !.ended = TRUE]
  <2>2. file' = file \/ file' = Rewritten(line)
    BY <1>c DEF EndHeader, EndLine, Validate, TailEnded
  <2>3. line \in LineType /\ SameRecord(line, LastLine)
    BY <2>1, LastLineEnded
  <2> HIDE DEF line
  <2> QED BY <2>1, <2>2, <2>3 DEF NoRecord
<1>d. CASE BeginLine(p)
  <2>1. PICK kind \in Torn : file' = Append(file, Line(kind, opening[p], Head(queue[p]).n))
    BY <1>d DEF BeginLine
  <2> DEFINE line == Line(kind, opening[p], Head(queue[p]).n)
  <2>2. Head(queue[p]).n \in Nat /\ opening[p] \in Nat
    BY <1>1, <1>d, TakesTyped DEF BeginLine, CommandType, Typed
  <2>3. line \in LineType /\ ~IsEvent(line) /\ file' = Append(file, line)
    BY <2>1, <2>2 DEF Line, LineType, IsEvent, Torn
  <2> HIDE DEF line
  <2> QED BY <2>3 DEF NoRecord
<1>e. CASE OpenFails(p) \/ WriteFails(p) \/ Stopped(p) \/ ReadPage(p) \/ FlushFile(p) \/ Report(p)
  BY <1>e DEF OpenFails, WriteFails, Stopped, ReadPage, FlushFile, Report, disk, NoRecord
<1> QED BY <1>a, <1>b, <1>c, <1>d, <1>e DEF Thread

LEMMA NoRecordWritten ==
  ASSUME Typed, NoRecord, NEW o
  PROVE  WrittenBy(o)' = WrittenBy(o)
<1>1. CASE file' = file
  BY <1>1 DEF WrittenBy, LinesOf
<1>2. CASE \E line \in LineType : ~IsEvent(line) /\ file' = Append(file, line)
  BY <1>2, LinesAppended
<1>3. CASE file # <<>> /\ \E line \in LineType : SameRecord(line, LastLine) /\ file' = Rewritten(line)
  BY <1>3, LinesRewritten DEF SameRecord
<1> QED BY <1>1, <1>2, <1>3 DEF NoRecord

LEMMA OrderedThread ==
  ASSUME Shape, Delivers, Ordered, NEW p \in Processes, Thread(p)
  PROVE  Ordered'
<1>1. /\ Typed /\ DeliversFor(p) /\ writer \in [Processes -> WriterStates] /\ OrderedFor(p)
      /\ queue \in [Processes -> Seq(CommandType)]
  BY DEF Shape, Delivers, Owned, Ordered, Typed
<1>2. Running(p) /\ WrittenBy(opening[p]) \in Nat
  BY <1>1, LinesFinite
  DEF Thread, BeginHeader, WriteHeader, EndHeader, Validate, OpenFails, BeginLine, WriteLine, EndLine,
      WriteFails, ReadPage, FlushFile, Report, Stopped, Takes, Running
<1>3. ASSUME NEW q \in Processes \ {p} PROVE OrderedFor(q)'
  <2>1. writer[q] = "off"
    BY <1>2 DEF Shape, Owned, OneWriter, Running
  <2>2. writer' = writer \/ \E state : writer' = [writer EXCEPT ![p] = state]
    BY DEF Thread, BeginHeader, WriteHeader, EndHeader, Validate, OpenFails, BeginLine, WriteLine, EndLine,
           WriteFails, ReadPage, FlushFile, Report, Stopped, WriterEnds
  <2>3. writer'[q] = "off"
    BY <1>1, <2>1, <2>2
  <2> QED BY <2>3 DEF OrderedFor, Running
<1>4. opening' = opening
  BY DEF Thread, BeginHeader, WriteHeader, EndHeader, Validate, OpenFails, BeginLine, WriteLine, EndLine,
         WriteFails, ReadPage, FlushFile, Report, Stopped, counts
<1>5. PICK m \in Nat : Numbered(queue[p], WrittenBy(opening[p]) + Begun(p), m)
  BY <1>1, <1>2 DEF OrderedFor
<1>6. ~WriteLine(p) => WrittenBy(opening[p])' = WrittenBy(opening[p])
  <2> SUFFICES ASSUME ~WriteLine(p) PROVE WrittenBy(opening[p])' = WrittenBy(opening[p])
    OBVIOUS
  <2>1. \A o : WrittenBy(o)' = WrittenBy(o)
    BY <1>1, ThreadNoRecord, NoRecordWritten
  <2> QED BY <1>4, <2>1 DEF WrittenBy, LinesOf
<1>a. CASE BeginHeader(p) \/ WriteHeader(p) \/ EndHeader(p) \/ Validate(p) \/ EndLine(p) \/ Report(p)
  <2>1. /\ queue' = queue /\ writer'[p] # "text" /\ Begun(p) = 0 /\ Begun(p)' = 0 /\ ~WriteLine(p)
    BY <1>1, <1>a DEF BeginHeader, WriteHeader, EndHeader, Validate, EndLine, Report, WriteLine, Begun, counts
  <2>2. OrderedFor(p)'
    BY <1>4, <1>5, <1>6, <2>1 DEF OrderedFor
  <2> QED BY <1>3, <2>2 DEF Ordered
<1>b. CASE BeginLine(p)
  <2>1. /\ Takes(p, "record") /\ writer[p] = "run" /\ writer'[p] = "text" /\ Begun(p) = 0 /\ Begun(p)' = 1
        /\ ~WriteLine(p)
    BY <1>1, <1>b DEF BeginLine, Takes, Begun, WriteLine
  <2>2. /\ queue[p] \in Seq(CommandType) /\ queue[p] # <<>> /\ Head(queue[p]).kind = "record"
        /\ queue'[p] = Tail(queue[p])
    BY <1>1, <2>1, TakenCases
  <2>3. Numbered(queue[p], WrittenBy(opening[p]), m)
    <3>1. WrittenBy(opening[p]) + Begun(p) = WrittenBy(opening[p])
      BY <1>2, <2>1
    <3> QED BY <1>5, <3>1
  <2>4. Numbered(queue'[p], WrittenBy(opening[p]) + 1, m) /\ Head(queue[p]).n = WrittenBy(opening[p]) + 1
    BY <2>2, <2>3, NumberedTail, NumberedHead
  <2>5. PICK kind \in Torn : file' = Append(file, Line(kind, opening[p], Head(queue[p]).n))
    BY <1>b DEF BeginLine
  <2> DEFINE line == Line(kind, opening[p], Head(queue[p]).n)
  <2>6. line \in LineType /\ line.n = Head(queue[p]).n
    <3>1. Head(queue[p]).n \in Nat /\ opening[p] \in Nat
      BY <1>1, <2>1, TakesTyped DEF CommandType, Typed
    <3> QED BY <3>1, LineTyped DEF Line
  <2>7. file' = Append(file, line) /\ file \in Seq(LineType) /\ Len(file) \in Nat
    BY <1>1, <2>5, LenProperties DEF Typed
  <2> HIDE DEF line
  <2>8. Len(file') = Len(file) + 1 /\ file'[Len(file) + 1] = line
    BY <2>6, <2>7, AppendProperties
  <2>9. LastLine' = line
    BY <2>8 DEF LastLine
  <2>10. LastLine'.n = WrittenBy(opening[p]) + 1
    BY <2>4, <2>6, <2>9
  <2>11. OrderedFor(p)'
    BY <1>4, <1>6, <2>1, <2>4, <2>10 DEF OrderedFor
  <2> QED BY <1>3, <2>11 DEF Ordered
<1>c. CASE WriteLine(p)
  <2>1. /\ queue' = queue /\ writer'[p] = "newline" /\ Begun(p) = 1 /\ Begun(p)' = 0
        /\ file' = Rewritten([LastLine EXCEPT !.kind = "event"])
    BY <1>1, <1>c DEF WriteLine, Begun, counts
  <2>2. file # <<>> /\ ~IsEvent(LastLine) /\ LastLine.opening = opening[p]
    BY <1>1, <1>c, FileNotEmpty DEF WriteLine, DeliversFor, WritesOwn, IsEvent, Torn
  <2>3. \A o : WrittenBy(o)' = IF o = LastLine.opening THEN WrittenBy(o) + 1 ELSE WrittenBy(o)
    BY <1>1, <2>1, <2>2, LinesGrow
  <2>4. WrittenBy(opening[p])' = WrittenBy(opening[p]) + 1
    BY <1>4, <2>2, <2>3 DEF WrittenBy, LinesOf
  <2>5. WrittenBy(opening[p])' + Begun(p)' = WrittenBy(opening[p]) + Begun(p)
    BY <1>2, <2>1, <2>4
  <2>6. OrderedFor(p)'
    BY <1>5, <2>1, <2>5 DEF OrderedFor
  <2> QED BY <1>3, <2>6 DEF Ordered
<1>d. CASE OpenFails(p) \/ WriteFails(p) \/ Stopped(p)
  <2>1. ~Running(p)'
    BY <1>1, <1>d DEF OpenFails, WriteFails, Stopped, WriterEnds, Running
  <2> QED BY <1>3, <2>1 DEF Ordered, OrderedFor
<1>e. CASE ReadPage(p) \/ FlushFile(p)
  <2>1. /\ \E kind \in {"page", "flush"} : Takes(p, kind)
        /\ writer[p] = "run" /\ writer'[p] # "text" /\ Begun(p) = 0 /\ Begun(p)' = 0 /\ ~WriteLine(p)
    BY <1>1, <1>e DEF ReadPage, FlushFile, Takes, Begun, WriteLine
  <2>2. /\ queue[p] \in Seq(CommandType) /\ queue[p] # <<>> /\ Head(queue[p]).kind # "record"
        /\ queue'[p] = Tail(queue[p])
    BY <1>1, <2>1 DEF Takes
  <2>3. Numbered(queue'[p], WrittenBy(opening[p]) + Begun(p), m)
    BY <1>5, <2>2, NumberedSkip
  <2>4. OrderedFor(p)'
    BY <1>4, <1>6, <2>1, <2>3 DEF OrderedFor
  <2> QED BY <1>3, <2>4 DEF Ordered
<1> QED BY <1>a, <1>b, <1>c, <1>d, <1>e DEF Thread

\* What the recorder of p puts into the queue: nothing, a record while the opening has
\* no error, or a command that is no record.
LEMMA RecorderQueues ==
  ASSUME Shape, NEW p \in Processes, Recorder(p), ~Open(p)
  PROVE  /\ UNCHANGED <<file, writer, opening>>
         /\ \/ queue' = queue
            \/ ~failed[p] /\ Running(p) /\ Queued(p, Record(offered[p] + 1))
            \/ \E c \in {Page, Flush, Shutdown} : Queued(p, c)
<1>1. ASSUME Offer(p)
      PROVE  queue' = queue \/ (~failed[p] /\ Running(p) /\ Queued(p, Record(offered[p] + 1)))
  BY <1>1 DEF Offer
<1>2. CASE RecordEvent(p) \/ RecordBetween(p) \/ Detach(p)
  BY <1>1, <1>2 DEF RecordEvent, RecordBetween, Detach, disk
<1>3. CASE LastPage(p)
  BY <1>1, <1>3 DEF LastPage, disk
<1>4. CASE AskPage(p) \/ NextPage(p) \/ AskFlush(p) \/ AskShutdown(p) \/ QueryFails(p) \/ WriterGone(p)
  BY <1>4 DEF AskPage, NextPage, AskFlush, AskShutdown, QueryFails, WriterGone, disk, counts
<1> QED BY <1>2, <1>3, <1>4 DEF Recorder

LEMMA OrderedRecorder ==
  ASSUME Shape, Delivers, Ordered, NEW p \in Processes, Recorder(p)
  PROVE  Ordered'
<1>1. /\ Typed /\ DeliversFor(p) /\ writer \in [Processes -> WriterStates] /\ OrderedFor(p)
      /\ queue \in [Processes -> Seq(CommandType)] /\ opening \in [Processes -> Nat]
  BY DEF Shape, Delivers, Owned, Ordered, Typed
<1>2. \A q \in Processes : queue[q] \in Seq(CommandType)
  BY <1>1
<1>3. CASE Open(p)
  <2>1. /\ file' = file /\ queue' = queue
        /\ \A q \in Processes \ {p} : writer'[q] = writer[q] /\ opening'[q] = opening[q]
        /\ writer'[p] = "locked"
    BY <1>1, <1>3 DEF Open
  <2>2. ASSUME NEW q \in Processes \ {p} PROVE OrderedFor(q)'
    <3>1. OrderedFor(q)
      BY DEF Ordered
    <3>2. /\ Running(q)' = Running(q) /\ Begun(q)' = Begun(q) /\ LastLine' = LastLine
          /\ WrittenBy(opening[q])' = WrittenBy(opening[q])
      BY <2>1 DEF Running, Begun, LastLine, WrittenBy, LinesOf
    <3> QED BY <2>1, <3>1, <3>2 DEF OrderedFor
  <2>3. OrderedFor(p)'
    <3>1. ~Running(p)
      BY <1>3, HistoryConstants DEF Open, LockFree, Shape, Owned, OneWriter
    <3>2. queue[p] = <<>>
      BY <1>1, <3>1 DEF DeliversFor
    <3>3. Begun(p)' = 0
      BY <2>1 DEF Begun
    <3>4. WrittenBy(opening[p])' \in Nat
      <4>1. WrittenBy(opening'[p]) \in Nat
        BY <1>1, LinesFinite
      <4> QED BY <2>1, <4>1 DEF WrittenBy, LinesOf
    <3>5. WrittenBy(opening[p])' + Begun(p)' = WrittenBy(opening[p])'
      BY <3>3, <3>4
    <3>6. Numbered(<<>>, WrittenBy(opening[p])', WrittenBy(opening[p])')
      BY <3>4, NumberedEmpty
    <3> QED BY <2>1, <3>2, <3>4, <3>5, <3>6 DEF OrderedFor
  <2> QED BY <2>2, <2>3 DEF Ordered
<1>4. CASE ~Open(p)
  <2>1. /\ UNCHANGED <<file, writer, opening>>
        /\ \/ queue' = queue
           \/ ~failed[p] /\ Running(p) /\ Queued(p, Record(offered[p] + 1))
           \/ \E c \in {Page, Flush, Shutdown} : Queued(p, c)
    BY <1>4, RecorderQueues
  <2>2. ASSUME NEW q \in Processes
        PROVE  /\ Running(q)' = Running(q) /\ Begun(q)' = Begun(q) /\ LastLine' = LastLine
               /\ WrittenBy(opening[q])' = WrittenBy(opening[q]) /\ OrderedFor(q)
    BY <2>1 DEF Running, Begun, LastLine, WrittenBy, LinesOf, Ordered
  <2>3. \A q \in Processes \ {p} : queue'[q] = queue[q]
    BY <1>1, <2>1 DEF Queued
  <2>4. ASSUME NEW q \in Processes \ {p} PROVE OrderedFor(q)'
    BY <2>1, <2>2, <2>3 DEF OrderedFor
  <2>5. OrderedFor(p)'
    <3>1. CASE queue' = queue
      BY <2>1, <2>2, <3>1 DEF OrderedFor
    <3>2. CASE ~failed[p] /\ Running(p) /\ Queued(p, Record(offered[p] + 1))
      <4>1. Numbered(queue[p], WrittenBy(opening[p]) + Begun(p), offered[p])
        BY <1>1, <3>2 DEF DeliversFor, NothingLost
      <4>2. queue'[p] = Append(queue[p], Record(offered[p] + 1))
        BY <1>1, <3>2 DEF Queued
      <4>3. Numbered(queue'[p], WrittenBy(opening[p]) + Begun(p), offered[p] + 1) /\ offered[p] + 1 \in Nat
        BY <1>1, <1>2, <4>1, <4>2, NumberedRecord DEF Typed
      <4> QED BY <2>1, <2>2, <4>3 DEF OrderedFor
    <3>3. ASSUME NEW c \in {Page, Flush, Shutdown}, Queued(p, c) PROVE OrderedFor(p)'
      <4>1. c \in CommandType /\ c.kind # "record"
        BY PlainCommands
      <4>2. queue'[p] = Append(queue[p], c)
        BY <1>1, <3>3 DEF Queued
      <4>3. ASSUME NEW m, Numbered(queue[p], WrittenBy(opening[p]) + Begun(p), m)
            PROVE  Numbered(queue'[p], WrittenBy(opening[p]) + Begun(p), m)
        BY <1>2, <4>1, <4>2, <4>3, NumberedOther
      <4> QED BY <2>1, <2>2, <4>3 DEF OrderedFor
    <3> QED BY <2>1, <3>1, <3>2, <3>3
  <2> QED BY <2>4, <2>5 DEF Ordered
<1> QED BY <1>3, <1>4

LEMMA OrderedNext == Shape /\ Delivers /\ Ordered /\ [Next]_vars => Ordered'
<1> SUFFICES ASSUME Shape, Delivers, Ordered, [Next]_vars PROVE Ordered'
  OBVIOUS
<1>1. CASE UNCHANGED <<file, writer, queue, opening>>
  <2> SUFFICES ASSUME NEW p \in Processes PROVE OrderedFor(p)'
    BY DEF Ordered
  <2>1. /\ Running(p)' = Running(p) /\ Begun(p)' = Begun(p) /\ LastLine' = LastLine
        /\ WrittenBy(opening[p])' = WrittenBy(opening[p]) /\ OrderedFor(p)
    BY <1>1 DEF Running, Begun, LastLine, WrittenBy, LinesOf, Ordered
  <2> QED BY <1>1, <2>1 DEF OrderedFor
<1>2. CASE RemoveLock
  BY <1>1, <1>2 DEF RemoveLock, counts
<1>3. ASSUME NEW p \in Processes, Crash(p) PROVE Ordered'
  <2>1. /\ UNCHANGED <<file, opening>> /\ writer'[p] = "off"
        /\ \A q \in Processes \ {p} : writer'[q] = writer[q] /\ queue'[q] = queue[q]
    BY <1>3 DEF Crash, Shape, Owned, Typed, disk, counts
  <2>2. ASSUME NEW q \in Processes \ {p} PROVE OrderedFor(q)'
    <3>1. /\ Running(q)' = Running(q) /\ Begun(q)' = Begun(q) /\ LastLine' = LastLine
          /\ WrittenBy(opening[q])' = WrittenBy(opening[q]) /\ OrderedFor(q)
      BY <2>1 DEF Running, Begun, LastLine, WrittenBy, LinesOf, Ordered
    <3> QED BY <2>1, <3>1 DEF OrderedFor
  <2>3. OrderedFor(p)'
    BY <2>1 DEF OrderedFor, Running
  <2> QED BY <2>2, <2>3 DEF Ordered
<1>4. CASE UNCHANGED vars
  BY <1>1, <1>4 DEF vars, disk, counts
<1> QED BY <1>2, <1>3, <1>4, OrderedRecorder, OrderedThread DEF Next

LEMMA OrderedInit == Init => Ordered
BY DEF Init, Ordered, OrderedFor, Running

-----------------------------------------------------------------------------
(* The records of the file *)

RecordOf(line) == [opening |-> line.opening, n |-> line.n]
RecordsOf(s) == [i \in DOMAIN s |-> RecordOf(s[i])]
OfOpening(s, o) == {i \in DOMAIN s : s[i].opening = o}

LEMMA RecordsOfAppend ==
  ASSUME NEW s \in Seq(LineType), NEW line \in LineType
  PROVE  RecordsOf(Append(s, line)) = Append(RecordsOf(s), RecordOf(line))
<1> DEFINE R == {RecordOf(x) : x \in LineType}
           r == RecordsOf(s)
           t == Append(s, line)
           left == RecordsOf(t)
           right == Append(r, RecordOf(line))
<1>1. /\ Len(s) \in Nat /\ DOMAIN s = 1..Len(s) /\ \A i \in 1..Len(s) : s[i] \in LineType
      /\ t \in Seq(LineType) /\ Len(t) = Len(s) + 1 /\ DOMAIN t = 1..(Len(s) + 1)
      /\ t[Len(s) + 1] = line /\ \A i \in 1..Len(s) : t[i] = s[i]
  BY LenProperties, AppendProperties, ElementOfSeq
<1> HIDE DEF t
<1>2. r = [i \in 1..Len(s) |-> RecordOf(s[i])] /\ \A i \in 1..Len(s) : RecordOf(s[i]) \in R
  BY <1>1 DEF RecordsOf
<1>3. left = [i \in 1..(Len(s) + 1) |-> RecordOf(t[i])]
  BY <1>1 DEF RecordsOf
<1>4. RecordOf(line) \in R
  OBVIOUS
<1> HIDE DEF R, r, left
<1>5. r \in Seq(R) /\ Len(r) = Len(s)
  BY <1>1, <1>2
<1>6. /\ Len(right) = Len(s) + 1 /\ DOMAIN right = 1..(Len(s) + 1) /\ right \in Seq(R)
      /\ right[Len(s) + 1] = RecordOf(line) /\ \A i \in 1..Len(s) : right[i] = r[i]
  BY <1>4, <1>5, AppendProperties, LenProperties
<1> HIDE DEF right
<1>7. \A i \in 1..(Len(s) + 1) : right[i] = RecordOf(t[i])
  <2> SUFFICES ASSUME NEW i \in 1..(Len(s) + 1) PROVE right[i] = RecordOf(t[i])
    OBVIOUS
  <2>1. CASE i = Len(s) + 1
    BY <1>1, <1>6, <2>1
  <2>2. CASE i # Len(s) + 1
    <3>1. i \in 1..Len(s)
      BY <1>1, <2>2
    <3> QED BY <1>1, <1>2, <1>6, <3>1
  <2> QED BY <2>1, <2>2
<1>8. right = [i \in 1..(Len(s) + 1) |-> right[i]]
  BY <1>6
<1>9. left = right
  BY <1>3, <1>7, <1>8
<1> QED BY <1>9 DEF left, right, r, t

\* One more line counts for its own opening.
LEMMA OfOpeningAppend ==
  ASSUME NEW s \in Seq(LineType), NEW line \in LineType, NEW o
  PROVE  /\ IsFiniteSet(OfOpening(s, o)) /\ Cardinality(OfOpening(s, o)) \in Nat
         /\ Cardinality(OfOpening(Append(s, line), o)) =
              Cardinality(OfOpening(s, o)) + IF line.opening = o THEN 1 ELSE 0
<1> DEFINE t == Append(s, line)
<1>1. /\ Len(s) \in Nat /\ DOMAIN s = 1..Len(s)
      /\ DOMAIN t = 1..(Len(s) + 1) /\ t[Len(s) + 1] = line /\ \A i \in 1..Len(s) : t[i] = s[i]
  BY LenProperties, AppendProperties
<1> HIDE DEF t
<1>2. OfOpening(s, o) \in SUBSET (1..Len(s)) /\ IsFiniteSet(1..Len(s))
  BY <1>1, FS_Interval DEF OfOpening
<1>3. IsFiniteSet(OfOpening(s, o)) /\ Cardinality(OfOpening(s, o)) \in Nat
  BY <1>2, FS_Subset, FS_CardinalityType
<1>4. Len(s) + 1 \notin OfOpening(s, o)
  BY <1>1, <1>2
<1>5. \A i : i \in 1..(Len(s) + 1) <=> i \in 1..Len(s) \/ i = Len(s) + 1
  BY <1>1
<1>6. CASE line.opening = o
  <2>1. OfOpening(t, o) = OfOpening(s, o) \cup {Len(s) + 1}
    BY <1>1, <1>5, <1>6 DEF OfOpening
  <2>2. Cardinality(OfOpening(t, o)) = Cardinality(OfOpening(s, o)) + 1
    BY <1>3, <1>4, <2>1, FS_AddElement
  <2> QED BY <1>3, <1>6, <2>2 DEF t
<1>7. CASE line.opening # o
  <2>1. OfOpening(t, o) = OfOpening(s, o)
    BY <1>1, <1>5, <1>7 DEF OfOpening
  <2> QED BY <1>3, <1>7, <2>1 DEF t
<1> QED BY <1>6, <1>7

\* The records read from the file, counted by opening, are the lines of the file.
LinesUpTo(n, o) == {i \in 1..n : IsEvent(file[i]) /\ file[i].opening = o}

LEMMA LinesUpToNext ==
  ASSUME NEW n \in Nat, NEW o
  PROVE  Cardinality(LinesUpTo(n + 1, o)) =
           Cardinality(LinesUpTo(n, o)) + IF IsEvent(file[n + 1]) /\ file[n + 1].opening = o THEN 1 ELSE 0
<1>1. IsFiniteSet(1..n) /\ LinesUpTo(n, o) \in SUBSET (1..n)
  BY FS_Interval DEF LinesUpTo
<1>2. IsFiniteSet(LinesUpTo(n, o)) /\ Cardinality(LinesUpTo(n, o)) \in Nat
  BY <1>1, FS_Subset, FS_CardinalityType
<1>3. n + 1 \notin LinesUpTo(n, o)
  BY <1>1
<1>4. \A i : i \in 1..(n + 1) <=> i \in 1..n \/ i = n + 1
  OBVIOUS
<1>5. CASE IsEvent(file[n + 1]) /\ file[n + 1].opening = o
  <2>1. LinesUpTo(n + 1, o) = LinesUpTo(n, o) \cup {n + 1}
    BY <1>4, <1>5 DEF LinesUpTo
  <2>2. Cardinality(LinesUpTo(n + 1, o)) = Cardinality(LinesUpTo(n, o)) + 1
    BY <1>2, <1>3, <2>1, FS_AddElement
  <2> QED BY <1>5, <2>2
<1>6. CASE ~(IsEvent(file[n + 1]) /\ file[n + 1].opening = o)
  <2>1. LinesUpTo(n + 1, o) = LinesUpTo(n, o)
    BY <1>4, <1>6 DEF LinesUpTo
  <2> QED BY <1>2, <1>6, <2>1
<1> QED BY <1>5, <1>6

LEMMA RecordsCounted ==
  ASSUME Typed, NEW o
  PROVE  Cardinality({i \in DOMAIN Recorded : Recorded[i].opening = o}) = WrittenBy(o)
<1> DEFINE read(n) == RecordsBehind(file, 0)[n]
           S == {n \in Nat : Cardinality(OfOpening(read(n), o)) = Cardinality(LinesUpTo(n, o))}
<1>1. file \in Seq(LineType) /\ Len(file) \in Nat /\ DOMAIN file = 1..Len(file) /\ 0 \in Nat
  BY LenProperties DEF Typed
<1>2. 0 \in S
  <2>1. 0 \in 0..Len(file) /\ 0 <= 0
    BY <1>1
  <2>2. read(0) = <<>>
    BY <1>1, <2>1, ReadsNothing
  <2>3. OfOpening(<<>>, o) = {} /\ LinesUpTo(0, o) = {}
    BY DEF OfOpening, LinesUpTo
  <2> HIDE DEF read
  <2> QED BY <2>2, <2>3
<1>3. ASSUME NEW n \in 0..Len(file), n \in S, n < Len(file) PROVE n + 1 \in S
  <2>1. n \in Nat /\ n + 1 \in 0..Len(file) /\ n + 1 > 0 /\ (n + 1) - 1 = n /\ n + 1 \in 1..Len(file) /\ n + 1 \in Nat
    BY <1>1, <1>3
  <2>2. file[n + 1] \in LineType /\ read(n) \in Seq(LineType)
    BY <1>1, <2>1, RecordsTyped
  <2>3. Cardinality(OfOpening(read(n), o)) = Cardinality(LinesUpTo(n, o))
    BY <1>3
  <2>4. Cardinality(OfOpening(read(n), o)) \in Nat
    BY <2>2, OfOpeningAppend
  <2>5. CASE IsEvent(file[n + 1])
    <3>1. read(n + 1) = Append(read(n), file[n + 1])
      BY <1>1, <2>1, <2>5, ReadsRecord
    <3> HIDE DEF read
    <3>2. Cardinality(OfOpening(Append(read(n), file[n + 1]), o)) =
            Cardinality(OfOpening(read(n), o)) + IF file[n + 1].opening = o THEN 1 ELSE 0
      BY <2>2, OfOpeningAppend
    <3>3. Cardinality(LinesUpTo(n + 1, o)) =
            Cardinality(LinesUpTo(n, o)) + IF file[n + 1].opening = o THEN 1 ELSE 0
      BY <2>1, <2>5, LinesUpToNext
    <3> QED BY <2>1, <2>3, <3>1, <3>2, <3>3
  <2>6. CASE ~IsEvent(file[n + 1])
    <3>1. read(n + 1) = read(n)
      BY <1>1, <2>1, <2>6, ReadsOther
    <3> HIDE DEF read
    <3>2. Cardinality(LinesUpTo(n + 1, o)) = Cardinality(LinesUpTo(n, o)) + 0
      BY <2>1, <2>6, LinesUpToNext
    <3>3. Cardinality(LinesUpTo(n + 1, o)) = Cardinality(LinesUpTo(n, o))
      BY <2>3, <2>4, <3>2
    <3> QED BY <2>1, <2>3, <3>1, <3>3
  <2> QED BY <2>5, <2>6
<1>4. \A n \in 0..Len(file) : n \in S
  <2> HIDE DEF S
  <2> QED BY <1>1, <1>2, <1>3, InductionUpTo
<1>5. Len(file) \in S /\ Len(file) \in 0..Len(file)
  BY <1>1, <1>4
<1>6. LinesUpTo(Len(file), o) = LinesOf(o)
  BY <1>1 DEF LinesUpTo, LinesOf
<1>7. {i \in DOMAIN Recorded : Recorded[i].opening = o} = OfOpening(read(Len(file)), o)
  BY DEF Recorded, Events, OfOpening
<1> QED BY <1>5, <1>6, <1>7 DEF WrittenBy

\* What was read of the lines before the last.
LEMMA RecordedLast ==
  ASSUME NEW s \in Seq(LineType), Len(s) > 0
  PROVE  RecordsBehind(s, 0)[Len(s)] =
           IF IsEvent(s[Len(s)]) THEN Append(RecordsBehind(s, 0)[Len(s) - 1], s[Len(s)])
           ELSE RecordsBehind(s, 0)[Len(s) - 1]
<1>1. Len(s) \in Nat /\ Len(s) \in 0..Len(s) /\ 0 \in Nat /\ Len(s) > 0
  OBVIOUS
<1> QED BY <1>1, ReadsRecord, ReadsOther

LEMMA RecordedIs == Recorded = RecordsOf(RecordsBehind(file, 0)[Len(file)])
BY DEF Recorded, RecordsOf, RecordOf, Events

LEMMA RecordedRewritten ==
  ASSUME Typed, file # <<>>, NEW line \in LineType, file' = Rewritten(line)
  PROVE  LET before == RecordsBehind(file, 0)[Len(file) - 1]
         IN /\ before \in Seq(LineType)
            /\ RecordsBehind(file, 0)[Len(file)] = IF IsEvent(LastLine) THEN Append(before, LastLine) ELSE before
            /\ RecordsBehind(file', 0)[Len(file')] = IF IsEvent(line) THEN Append(before, line) ELSE before
<1>1. /\ file \in Seq(LineType) /\ Len(file) \in Nat \ {0} /\ LastLine = file[Len(file)]
      /\ file' \in Seq(LineType) /\ Len(file') = Len(file) /\ file'[Len(file)] = line
      /\ \A i \in 1..(Len(file) - 1) : file'[i] = file[i]
  BY LastLineTyped, RewrittenTyped DEF Typed, LastLine
<1>2. Len(file) > 0 /\ Len(file') > 0 /\ Len(file) - 1 \in 0..Len(file) /\ Len(file) - 1 <= Len(file') /\ 0 \in Nat
  BY <1>1
<1>3. RecordsBehind(file, 0)[Len(file) - 1] = RecordsBehind(file', 0)[Len(file) - 1]
  BY <1>1, <1>2, RecordsAgree
<1>4. RecordsBehind(file, 0)[Len(file) - 1] \in Seq(LineType)
  BY <1>1, <1>2, RecordsTyped
<1>5. RecordsBehind(file, 0)[Len(file)] =
        IF IsEvent(file[Len(file)]) THEN Append(RecordsBehind(file, 0)[Len(file) - 1], file[Len(file)])
        ELSE RecordsBehind(file, 0)[Len(file) - 1]
  BY <1>1, <1>2, RecordedLast
<1>6. RecordsBehind(file', 0)[Len(file')] =
        IF IsEvent(file'[Len(file')]) THEN Append(RecordsBehind(file', 0)[Len(file') - 1], file'[Len(file')])
        ELSE RecordsBehind(file', 0)[Len(file') - 1]
  BY <1>1, <1>2, RecordedLast
<1> QED BY <1>1, <1>3, <1>4, <1>5, <1>6

LEMMA RecordedKept ==
  ASSUME Typed, NoRecord
  PROVE  Recorded' = Recorded
<1>1. file \in Seq(LineType) /\ Len(file) \in Nat
  BY LenProperties DEF Typed
<1>2. CASE file' = file
  BY <1>2 DEF Recorded, Events
<1>3. ASSUME NEW line \in LineType, ~IsEvent(line), file' = Append(file, line)
      PROVE  Recorded' = Recorded
  <2>1. /\ file' \in Seq(LineType) /\ Len(file') = Len(file) + 1 /\ file'[Len(file) + 1] = line
        /\ \A i \in 1..Len(file) : file'[i] = file[i]
    BY <1>1, <1>3, AppendProperties
  <2>2. Len(file') > 0 /\ Len(file) \in 0..Len(file) /\ Len(file) <= Len(file') /\ Len(file') - 1 = Len(file) /\ 0 \in Nat
    BY <1>1, <2>1
  <2>3. RecordsBehind(file', 0)[Len(file')] = RecordsBehind(file', 0)[Len(file)]
    <3>1. RecordsBehind(file', 0)[Len(file')] =
            IF IsEvent(file'[Len(file')]) THEN Append(RecordsBehind(file', 0)[Len(file') - 1], file'[Len(file')])
            ELSE RecordsBehind(file', 0)[Len(file') - 1]
      BY <2>1, <2>2, RecordedLast
    <3> QED BY <1>3, <2>1, <2>2, <3>1
  <2>4. RecordsBehind(file, 0)[Len(file)] = RecordsBehind(file', 0)[Len(file)]
    BY <1>1, <2>1, <2>2, RecordsAgree
  <2>5. Recorded' = RecordsOf(RecordsBehind(file', 0)[Len(file')])
    BY DEF Recorded, RecordsOf, RecordOf, Events
  <2> QED BY <2>3, <2>4, <2>5, RecordedIs
<1>4. ASSUME file # <<>>, NEW line \in LineType, SameRecord(line, LastLine), file' = Rewritten(line)
      PROVE  Recorded' = Recorded
  <2> DEFINE before == RecordsBehind(file, 0)[Len(file) - 1]
  <2>1. /\ before \in Seq(LineType)
        /\ RecordsBehind(file, 0)[Len(file)] = IF IsEvent(LastLine) THEN Append(before, LastLine) ELSE before
        /\ RecordsBehind(file', 0)[Len(file')] = IF IsEvent(line) THEN Append(before, line) ELSE before
    BY <1>4, RecordedRewritten
  <2>2. LastLine \in LineType
    BY <1>4, LastLineTyped
  <2> HIDE DEF before
  <2>3. Recorded' = RecordsOf(RecordsBehind(file', 0)[Len(file')])
    BY DEF Recorded, RecordsOf, RecordOf, Events
  <2>4. CASE ~IsEvent(line)
    BY <1>4, <2>1, <2>3, <2>4, RecordedIs DEF SameRecord
  <2>5. CASE IsEvent(line)
    <3>1. IsEvent(LastLine) /\ RecordOf(line) = RecordOf(LastLine)
      BY <1>4, <2>5 DEF SameRecord, RecordOf
    <3>2. RecordsOf(Append(before, LastLine)) = Append(RecordsOf(before), RecordOf(LastLine))
      BY <2>1, <2>2, RecordsOfAppend
    <3>3. RecordsOf(Append(before, line)) = Append(RecordsOf(before), RecordOf(line))
      BY <1>4, <2>1, RecordsOfAppend
    <3> QED BY <2>1, <2>3, <2>5, <3>1, <3>2, <3>3, RecordedIs
  <2> QED BY <2>4, <2>5
<1> QED BY <1>2, <1>3, <1>4 DEF NoRecord

LEMMA RecordedGrows ==
  ASSUME Typed, file # <<>>, ~IsEvent(LastLine), file' = Rewritten([LastLine EXCEPT !.kind = "event"])
  PROVE  Recorded' = Append(Recorded, [opening |-> LastLine.opening, n |-> LastLine.n])
<1> DEFINE line == [LastLine EXCEPT !.kind = "event"]
           before == RecordsBehind(file, 0)[Len(file) - 1]
<1>1. LastLine \in LineType /\ line \in LineType /\ file' = Rewritten(line)
  BY LastLineTyped
<1>2. IsEvent(line) /\ line.opening = LastLine.opening /\ line.n = LastLine.n
  BY <1>1 DEF LineType, IsEvent
<1> HIDE DEF line
<1>3. /\ before \in Seq(LineType)
      /\ RecordsBehind(file, 0)[Len(file)] = IF IsEvent(LastLine) THEN Append(before, LastLine) ELSE before
      /\ RecordsBehind(file', 0)[Len(file')] = IF IsEvent(line) THEN Append(before, line) ELSE before
  BY <1>1, RecordedRewritten
<1> HIDE DEF before
<1>4. Recorded' = RecordsOf(RecordsBehind(file', 0)[Len(file')])
  BY DEF Recorded, RecordsOf, RecordOf, Events
<1>5. RecordsOf(Append(before, line)) = Append(RecordsOf(before), RecordOf(line))
  BY <1>1, <1>3, RecordsOfAppend
<1>6. RecordOf(line) = [opening |-> LastLine.opening, n |-> LastLine.n]
  BY <1>2 DEF RecordOf
<1> QED BY <1>2, <1>3, <1>4, <1>5, <1>6, RecordedIs

-----------------------------------------------------------------------------
(* The file is a log *)

Done == {s.opening : s \in saved}

\* The opening whose writer runs, if one does.
LEMMA CurrentIs ==
  ASSUME Owned
  PROVE  /\ \A p \in Processes : Running(p) => Current = opening[p]
         /\ (\A p \in Processes : ~Running(p)) => Current = 0
BY HistoryConstants DEF Owned, OneWriter, Current

LEMMA CurrentNext ==
  ASSUME Owned'
  PROVE  /\ \A p \in Processes : writer'[p] # "off" => Current' = opening'[p]
         /\ (\A p \in Processes : writer'[p] = "off") => Current' = 0
BY HistoryConstants DEF Owned, OneWriter, Current, Running

\* A step of the log is one of its own, or none.
LogStep ==
  \/ Log!Begin \/ Log!Write \/ Log!Close \/ Log!End
  \/ UNCHANGED <<Recorded, Current, opens, Done>>

LEMMA LogKept ==
  ASSUME Typed, Owned, Owned', NoRecord, saved' = saved, opens' = opens,
         \A p \in Processes : (writer'[p] = "off" <=> writer[p] = "off") /\ (writer[p] # "off" => opening'[p] = opening[p])
  PROVE  LogStep
<1>1. Recorded' = Recorded
  BY RecordedKept
<1>2. Current' = Current
  <2>1. CASE \A p \in Processes : ~Running(p)
    BY <2>1, CurrentIs, CurrentNext DEF Running
  <2>2. ASSUME NEW p \in Processes, Running(p) PROVE Current' = Current
    BY <2>2, CurrentIs, CurrentNext DEF Running
  <2> QED BY <2>1, <2>2
<1> QED BY <1>1, <1>2 DEF LogStep, Done

\* The one writer ends.
LEMMA LogEnds ==
  ASSUME Shape, Delivers, Owned', NEW p \in Processes, Running(p), writer' = [writer EXCEPT ![p] = "off"],
         file' = file, saved' = saved, opens' = opens
  PROVE  LogStep
<1>1. Current = opening[p] /\ opening[p] \in 1..opens /\ opens \in Nat
  BY CurrentIs DEF Shape, Typed, Delivers, DeliversFor
<1>2. \A q \in Processes : writer'[q] = "off"
  BY DEF Shape, Owned, OneWriter, Running
<1>3. Current' = 0
  BY <1>2, CurrentNext
<1>4. Recorded' = Recorded
  BY RecordedKept DEF Shape, NoRecord
<1>5. Log!End
  BY <1>1, <1>3, <1>4 DEF Log!End
<1> QED BY <1>5 DEF LogStep

LEMMA LogRecorder ==
  ASSUME Shape, Owned', NEW p \in Processes, Recorder(p)
  PROVE  LogStep
<1>1. Typed /\ Owned /\ writer \in [Processes -> WriterStates] /\ opening \in [Processes -> Nat]
  BY DEF Shape, Owned, Typed
<1>2. CASE Open(p)
  <2>1. /\ file' = file /\ saved' = saved /\ opens' = opens + 1
        /\ writer'[p] = "locked" /\ opening'[p] = opens + 1
    BY <1>1, <1>2 DEF Open
  <2>2. \A q \in Processes : ~Running(q)
    BY <1>1, <1>2, HistoryConstants DEF Open, LockFree, Owned, OneWriter
  <2>3. Current = 0 /\ Current' = opens + 1
    BY <1>1, <2>1, <2>2, CurrentIs, CurrentNext
  <2>4. Recorded' = Recorded
    BY <1>1, <2>1, RecordedKept DEF NoRecord
  <2>5. Log!Begin
    BY <2>1, <2>3, <2>4 DEF Log!Begin
  <2> QED BY <2>5 DEF LogStep
<1>3. CASE ~Open(p)
  <2>1. UNCHANGED <<file, writer, opening>>
    BY <1>3, RecorderQueues
  <2>2. UNCHANGED <<saved, opens>>
    BY <1>3 DEF Recorder, RecordEvent, RecordBetween, AskPage, NextPage, LastPage, QueryFails, Detach,
                AskFlush, AskShutdown, WriterGone, counts
  <2> QED BY <1>1, <2>1, <2>2, LogKept DEF NoRecord
<1> QED BY <1>2, <1>3

\* The log counts as the history does.
LEMMA LogCardinality == \A S : Log!Cardinality(S) = Cardinality(S)
BY DEF Log!Cardinality, Cardinality

\* A record of the running opening, the next of it, is appended.
LEMMA LogWrites ==
  ASSUME Shape, Delivers, Ordered, Owned', NEW p \in Processes, WriteLine(p)
  PROVE  LogStep
<1>1. /\ Typed /\ Owned /\ DeliversFor(p) /\ OrderedFor(p) /\ opens \in Nat /\ Running(p)
      /\ writer[p] = "text" /\ writer \in [Processes -> WriterStates]
  BY DEF Shape, Owned, Typed, Delivers, Ordered, WriteLine, Running
<1>2. /\ file' = Rewritten([LastLine EXCEPT !.kind = "event"]) /\ UNCHANGED <<saved, opens, opening>>
      /\ writer'[p] = "newline"
  BY <1>1 DEF WriteLine, counts
<1>3. /\ file # <<>> /\ ~IsEvent(LastLine) /\ LastLine.opening = opening[p]
      /\ LastLine.n = WrittenBy(opening[p]) + 1
      /\ ~IsSaved(opening[p]) /\ opening[p] \in 1..opens
  BY <1>1, FileNotEmpty DEF DeliversFor, WritesOwn, NothingAfter, OrderedFor, IsEvent, Torn
<1>4. Current = opening[p] /\ Current' = opening[p]
  BY <1>1, <1>2, CurrentIs, CurrentNext
<1>5. Recorded' = Append(Recorded, [opening |-> opening[p], n |-> WrittenBy(opening[p]) + 1])
  BY <1>1, <1>2, <1>3, RecordedGrows
<1>6. Log!Written = WrittenBy(opening[p])
  <2>1. Cardinality({i \in DOMAIN Recorded : Recorded[i].opening = opening[p]}) = WrittenBy(opening[p])
    BY <1>1, RecordsCounted
  <2>2. Log!Written = Cardinality({i \in DOMAIN Recorded : Recorded[i].opening = Current})
    BY LogCardinality DEF Log!Written
  <2> QED BY <1>4, <2>1, <2>2
<1>7. Current # 0 /\ Current \notin {s.opening : s \in saved}
  BY <1>1, <1>3, <1>4 DEF IsSaved
<1>8. Log!Write
  BY <1>2, <1>4, <1>5, <1>6, <1>7 DEF Log!Write
<1> QED BY <1>8 DEF LogStep

LEMMA LogThread ==
  ASSUME Shape, Delivers, Ordered, Owned', NEW p \in Processes, Thread(p)
  PROVE  LogStep
<1>1. Typed /\ Owned /\ DeliversFor(p) /\ writer \in [Processes -> WriterStates] /\ opens \in Nat
  BY DEF Shape, Owned, Typed, Delivers
<1>2. CASE WriteLine(p)
  BY <1>2, LogWrites
<1>3. CASE OpenFails(p) \/ WriteFails(p) \/ Stopped(p)
  <2>1. /\ Running(p) /\ writer' = [writer EXCEPT ![p] = "off"] /\ UNCHANGED <<file, saved, opens>>
    BY <1>3 DEF OpenFails, WriteFails, Stopped, WriterEnds, Running, counts
  <2> QED BY <2>1, LogEnds
<1>4. CASE FlushFile(p)
  <2>1. /\ Running(p) /\ writer'[p] # "off" /\ UNCHANGED <<file, opens, opening>>
        /\ \A q \in Processes : writer'[q] = "off" <=> writer[q] = "off"
    BY <1>1, <1>4 DEF FlushFile, Takes, Running, disk
  <2>2. CASE saved' = saved
    BY <1>1, <2>1, <2>2, LogKept DEF NoRecord
  <2>3. CASE saved' = saved \cup {[opening |-> opening[p], records |-> offered[p]]}
    <3>1. Current = opening[p] /\ Current' = opening[p] /\ opening[p] \in 1..opens
      BY <1>1, <2>1, CurrentIs, CurrentNext DEF DeliversFor
    <3>2. Recorded' = Recorded
      BY <1>1, <2>1, RecordedKept DEF NoRecord
    <3>3. {s.opening : s \in saved'} = {s.opening : s \in saved} \cup {Current}
      <4> DEFINE close == [opening |-> opening[p], records |-> offered[p]]
      <4>1. close.opening = Current /\ saved' = saved \cup {close}
        BY <2>3, <3>1
      <4> HIDE DEF close
      <4> QED BY <4>1
    <3>4. Log!Close
      BY <1>1, <2>1, <3>1, <3>2, <3>3 DEF Log!Close
    <3> QED BY <3>4 DEF LogStep
  <2> QED BY <1>4, <2>2, <2>3 DEF FlushFile
<1>5. CASE \/ BeginHeader(p) \/ WriteHeader(p) \/ EndHeader(p) \/ Validate(p) \/ BeginLine(p) \/ EndLine(p)
           \/ ReadPage(p) \/ Report(p)
  <2>1. /\ UNCHANGED <<saved, opens, opening>>
        /\ \A q \in Processes : writer'[q] = "off" <=> writer[q] = "off"
    BY <1>1, <1>5 DEF BeginHeader, WriteHeader, EndHeader, Validate, BeginLine, EndLine, ReadPage, Report, Takes, counts
  <2>2. ~WriteLine(p)
    BY <1>1, <1>5 DEF BeginHeader, WriteHeader, EndHeader, Validate, BeginLine, EndLine, ReadPage, Report, Takes, WriteLine
  <2>3. NoRecord
    BY <2>2, ThreadNoRecord
  <2> QED BY <1>1, <2>1, <2>3, LogKept
<1> QED BY <1>2, <1>3, <1>4, <1>5 DEF Thread

LEMMA LogNext ==
  ASSUME Shape, Delivers, Ordered, Owned', [Next]_vars
  PROVE  LogStep
<1>1. Typed /\ Owned /\ writer \in [Processes -> WriterStates]
  BY DEF Shape, Owned
<1>2. CASE UNCHANGED <<file, writer, opening, opens, saved>>
  BY <1>1, <1>2, LogKept DEF NoRecord
<1>3. CASE RemoveLock
  BY <1>2, <1>3 DEF RemoveLock, counts
<1>4. ASSUME NEW p \in Processes, Crash(p) PROVE LogStep
  <2>1. writer' = [writer EXCEPT ![p] = "off"] /\ UNCHANGED <<file, opening, opens, saved>>
    BY <1>4 DEF Crash, disk, counts
  <2>2. CASE Running(p)
    BY <2>1, <2>2, LogEnds
  <2>3. CASE ~Running(p)
    <3>1. writer' = writer
      BY <1>1, <2>1, <2>3 DEF Running
    <3> QED BY <1>2, <2>1, <3>1
  <2> QED BY <2>2, <2>3
<1>5. CASE UNCHANGED vars
  BY <1>2, <1>5 DEF vars, disk, counts
<1> QED BY <1>3, <1>4, <1>5, LogRecorder, LogThread DEF Next

\* Nothing is recorded in a history nobody has opened.
LEMMA LogInit == Init => Log!Init
<1> SUFFICES ASSUME Init PROVE Log!Init
  OBVIOUS
<1>1. file = <<>> /\ opens = 0 /\ saved = {} /\ \A p \in Processes : ~Running(p)
  BY DEF Init, Running
<1>2. Current = 0
  BY <1>1 DEF Current
<1>3. RecordsBehind(file, 0)[0] = <<>>
  <2>1. Len(file) = 0 /\ Len(file) \in Nat /\ 0 \in 0..Len(file) /\ 0 \in Nat /\ 0 <= 0
    BY <1>1
  <2> QED BY <2>1, ReadsNothing
<1>4. Recorded = <<>>
  BY <1>1, <1>3 DEF Recorded, Events
<1> QED BY <1>1, <1>2, <1>4 DEF Log!Init

\* The file is the log ExecutionLog describes: one opening at a time appends its
\* records in the order they were offered and without a gap, whichever writes
\* failed, queues filled up or processes crashed, and an opening whose close
\* succeeded appends none (Writer::run, write_line, close_active).
THEOREM IsLogHolds == Spec => IsLog
<1>1. LogStep => [Log!Next]_(Log!logVars)
  BY DEF LogStep, Done, Log!Next, Log!logVars
<1>2. Shape /\ Delivers /\ Ordered /\ Owned' /\ [Next]_vars => [Log!Next]_(Log!logVars)
  BY <1>1, LogNext
<1>3. Shape => Owned
  BY DEF Shape
<1> QED
  BY <1>2, <1>3, LogInit, ShapeInit, ShapeStep, DeliversInit, DeliversNext, OrderedInit, OrderedNext, PTL
  DEF Spec, IsLog, Log!Spec
=============================================================================
