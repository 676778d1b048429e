--------------------------- MODULE PiWorkerProofs ---------------------------
(***************************************************************************)
(* What the frontend is told by a session worker is true, for all          *)
(* capacities, numbers of records and parts of the state.                  *)
(*                                                                         *)
(* While the worker's loop goes on, the records Pi has written are spread  *)
(* over five places, one behind the other without a gap: given to the      *)
(* frontend, held by the worker, among the events, held by the reader, in  *)
(* the pipe (Chain).  Every step moves the border between two neighbours   *)
(* by one.  When the end of the output reaches the worker, all places but  *)
(* the first are empty (EndLast), hence every record was given.            *)
(***************************************************************************)
EXTENDS PiWorker, TLAPS

Items == {Record(n) : n \in Nat} \cup {Ready, Fatal}
EventItems == {Record(n) : n \in Nat} \cup Endings

Ats == {"prepare", "select", "rpc", "publish", "ready", "teardown", "report", "gone"}
Typed ==
  /\ written \in Nat
  /\ stdout \in Seq(Nat)
  /\ events \in Seq(EventItems)
  /\ seen \in Seq(Items)
  /\ inbox \in Seq(Items)
  /\ worker = Task(worker.at, worker.owed, worker.record)
  /\ worker.at \in Ats /\ worker.owed \in Nat /\ worker.record \in Nat
  /\ ready \in BOOLEAN
  /\ reader = [at |-> reader.at, item |-> reader.item]
  /\ reader.at \in {"read", "send", "ended"} /\ reader.item \in EventItems

\* The loop of the worker goes on.
Running == worker.at \in {"prepare", "select", "rpc", "publish", "ready"}

\* What the worker waits on, where it waits.
Positions ==
  /\ worker.at \in {"prepare", "select", "ready"} => worker.record = 0
  /\ worker.at = "publish" => worker.record # 0
  /\ worker.at = "prepare" => pi = "none" /\ stdout = <<>> /\ reader.at = "read"

IsRecord(item) == item.is = "record"
InEvents(s) == {s[j].n : j \in {k \in DOMAIN s : IsRecord(s[k])}}
Rising(s) == \A i, j \in DOMAIN s : i < j /\ IsRecord(s[i]) /\ IsRecord(s[j]) => s[i].n < s[j].n
Holding == reader.at = "send" /\ IsRecord(reader.item)

\* Frontend, worker, events, reader and pipe hold the records Pi wrote, one
\* behind the other: up to g, up to h, up to e, and the rest.
WorkerHas(g, h) == \/ worker.record = 0 /\ h = g
                   \/ worker.record = h /\ h = g + 1
ReaderHas(e) == IF Holding THEN reader.item.n = e + 1 /\ written - Len(stdout) = e + 1
                ELSE written - Len(stdout) = e
Piped == \A i \in DOMAIN stdout : stdout[i] = (written - Len(stdout)) + i
Cut(g, h, e) ==
  /\ Given = 1..g
  /\ WorkerHas(g, h)
  /\ InEvents(events) = (h + 1)..e
  /\ h <= e
  /\ ReaderHas(e)
Chain == Rising(events) /\ Piped /\ \E g, h, e \in Nat : Cut(g, h, e)

\* An announced end of the output is behind every record.
Over == stdout = <<>> /\ pi = "exited"
EndLast ==
  /\ reader.at = "send" /\ reader.item = Eof => Over
  /\ \A i \in DOMAIN events : events[i] = Eof =>
       /\ Over /\ reader.at = "ended"
       /\ \A j \in DOMAIN events : i < j => ~IsRecord(events[j])
  /\ reason = "eof" => ~Running /\ pi = "exited" /\ Given = 1..written

\* What has been told.
InTold(item) == \E i \in DOMAIN Told : Told[i] = item
InOrder == \A i \in DOMAIN Told : IsRecord(Told[i]) => Before(Told, i) = 1..(Told[i].n - 1)
Announcements ==
  /\ InTold(Ready) => ready /\ worker.at # "ready"
  /\ worker.at = "ready" => ready /\ Parts \subseteq PartsIn(Given)
  /\ InTold(Fatal) => worker.at = "gone"

IInv ==
  /\ Typed
  /\ Positions
  /\ Running => Chain
  /\ EndLast
  /\ InOrder
  /\ ReadyAfterParts
  /\ Announcements

-----------------------------------------------------------------------------
\* Items are told apart by what they are.
LEMMA ItemKinds ==
  /\ \A n \in Nat : /\ Record(n).is = "record" /\ Record(n).n = n
                    /\ Record(n) # Ready /\ Record(n) # Fatal
                    /\ Record(n) # Eof /\ Record(n) # WriteError
  /\ Ready # Fatal /\ Eof # WriteError
  /\ ~IsRecord(Ready) /\ ~IsRecord(Fatal) /\ ~IsRecord(Eof) /\ ~IsRecord(WriteError)
  /\ Eof.is = "eof" /\ WriteError.is = "write error"
<1>1. /\ Ready.is = "ready" /\ Fatal.is = "fatal" /\ Eof.is = "eof" /\ WriteError.is = "write error"
  BY DEF Ready, Fatal, Eof, WriteError
<1>2. \A n \in Nat : Record(n).is = "record" /\ Record(n).n = n
  BY DEF Record
<1> QED
  BY <1>1, <1>2 DEF IsRecord

\* Telling one more item changes nothing of what stands before the others.
LEMMA BeforeAppend ==
  ASSUME NEW items \in Seq(Items), NEW x \in Items
  PROVE  /\ \A i \in 1..(Len(items) + 1) : Before(Append(items, x), i) = Before(items, i)
         /\ Before(Append(items, x), Len(items) + 2)
              = Before(items, Len(items) + 1) \cup (IF IsRecord(x) THEN {x.n} ELSE {})
<1> DEFINE more == Append(items, x)
<1>1. Len(items) \in Nat /\ \A k \in 1..Len(items) : more[k] = items[k]
  OBVIOUS
<1>2. more[Len(items) + 1] = x
  OBVIOUS
<1> HIDE DEF more
<1>3. ASSUME NEW i \in 1..(Len(items) + 1) PROVE Before(more, i) = Before(items, i)
  <2>1. \A k \in 1..(i - 1) : more[k] = items[k]
    BY <1>1
  <2> QED
    BY <2>1 DEF Before
<1>4. Before(more, Len(items) + 2) = Before(items, Len(items) + 1) \cup (IF IsRecord(x) THEN {x.n} ELSE {})
  <2>1. 1..((Len(items) + 2) - 1) = 1..((Len(items) + 1) - 1) \cup {Len(items) + 1}
    BY <1>1
  <2>2. \A k \in 1..((Len(items) + 1) - 1) : more[k] = items[k]
    BY <1>1
  <2> QED
    BY <2>1, <2>2, <1>2 DEF Before, IsRecord
<1> QED
  BY <1>3, <1>4 DEF more

\* What has been told is a sequence of items.
LEMMA ToldType == Typed => Told \in Seq(Items)
BY DEF Typed, Told

\* The frontend takes from the inbox: nothing more is told.
LEMMA ToldTaken == Typed /\ Take => Told' = Told
<1> SUFFICES ASSUME Typed, Take PROVE Told' = Told
  OBVIOUS
<1>1. seen \in Seq(Items) /\ inbox \in Seq(Items) /\ inbox # <<>>
  BY DEF Typed, Take
<1>2. seen' = Append(seen, Head(inbox)) /\ inbox' = Tail(inbox)
  BY DEF Take
<1>3. Append(seen, Head(inbox)) \o Tail(inbox) = seen \o inbox
  BY <1>1
<1> QED
  BY <1>2, <1>3 DEF Told

\* What is put in the inbox is told behind all the rest.
LEMMA ToldOneMore ==
  ASSUME Typed, NEW x \in Items, inbox' = Append(inbox, x), seen' = seen
  PROVE  Told' = Append(Told, x)
<1>1. seen \in Seq(Items) /\ inbox \in Seq(Items)
  BY DEF Typed
<1>2. seen \o Append(inbox, x) = Append(seen \o inbox, x)
  BY <1>1
<1> QED
  BY <1>2 DEF Told

-----------------------------------------------------------------------------
\* Sequences keep their type.
LEMMA SequenceTypes ==
  ASSUME NEW S
  PROVE  /\ <<>> \in Seq(S)
         /\ \A s \in Seq(S) : /\ \A x \in S : Append(s, x) \in Seq(S)
                              /\ s # <<>> => Head(s) \in S /\ Tail(s) \in Seq(S)
OBVIOUS

\* The items that the steps make are items.
LEMMA ItemTypes ==
  /\ Eof \in EventItems /\ WriteError \in EventItems /\ Ready \in Items /\ Fatal \in Items
  /\ \A n \in Nat : Record(n) \in Items /\ Record(n) \in EventItems
BY DEF Items, EventItems, Endings

\* Types and positions hold at first.
LEMMA TypedInit == Init => Typed /\ Positions
<1> SUFFICES ASSUME Init PROVE Typed /\ Positions
  OBVIOUS
<1>1. /\ stdout \in Seq(Nat) /\ events \in Seq(EventItems)
      /\ seen \in Seq(Items) /\ inbox \in Seq(Items)
  BY SequenceTypes DEF Init
<1>2. /\ worker = Task(worker.at, worker.owed, worker.record)
      /\ worker.at = "prepare" /\ worker.owed = 0 /\ worker.record = 0
      /\ reader = [at |-> reader.at, item |-> reader.item] /\ reader.at = "read" /\ reader.item = Eof
  BY DEF Init, Task
<1>3. Positions
  BY <1>2 DEF Init, Positions
<1>4. /\ worker.at \in Ats /\ worker.owed \in Nat /\ worker.record \in Nat
      /\ reader.at \in {"read", "send", "ended"} /\ reader.item \in EventItems
  BY <1>2, ItemTypes DEF Ats
<1>5. written \in Nat /\ ready \in BOOLEAN
  BY DEF Init
<1> QED
  BY <1>1, <1>2, <1>3, <1>4, <1>5, Zenon DEF Typed

\* Every step keeps types and positions.
LEMMA TypedStep == Typed /\ Positions /\ [Next]_vars => Typed' /\ Positions'
<1> SUFFICES ASSUME Typed, Positions, [Next]_vars PROVE Typed' /\ Positions'
  OBVIOUS
<1>0. MaxBatch \in Nat
  BY BoundsAssumption
<1> USE DEF Ats, Task
<1>1. CASE Request \/ Stop \/ Take
  BY <1>1, SequenceTypes DEF Request, Stop, Take, tasks, Typed, Positions
<1>2. CASE WorkerStep
  <2>1. CASE Prepare
    <3>1. PICK n \in 1..(MaxBatch + 1) : worker' = Task("rpc", n, 0)
      BY <2>1 DEF Prepare
    <3> QED
      BY <1>0, <2>1, <3>1, ItemTypes, SequenceTypes DEF Prepare, Typed, Positions
  <2>2. CASE PrepareFails
    BY <2>2, ItemTypes, SequenceTypes DEF PrepareFails, Typed, Positions
  <2>3. CASE SendCommand
    <3>1. worker.owed - 1 \in Nat
      BY <2>3 DEF SendCommand, Typed
    <3>2. worker' = [worker EXCEPT !.owed = @ - 1] /\ worker = Task(worker.at, worker.owed, worker.record)
      BY <2>3 DEF SendCommand, Typed
    <3>3. worker' = Task(worker.at, worker.owed - 1, worker.record)
      BY <3>2
    <3> QED
      BY <2>3, <3>1, <3>3 DEF SendCommand, Typed, Positions
  <2>4. CASE CommandRefused
    BY <2>4, ItemTypes, SequenceTypes DEF CommandRefused, Fail, Typed, Positions
  <2>5. CASE CommandsSent
    BY <2>5, ItemTypes, SequenceTypes DEF CommandsSent, Waiting, Typed, Positions
  <2>6. CASE Publish
    <3>1. Record(worker.record) \in Items
      BY ItemTypes, SequenceTypes DEF Typed
    <3> QED
      BY <2>6, <3>1, ItemTypes, SequenceTypes DEF Publish, Waiting, Typed, Positions
  <2>7. CASE PublishReady
    BY <2>7, ItemTypes, SequenceTypes DEF PublishReady, Waiting, Typed, Positions
  <2>8. CASE TakeRecord
    <3>1. Head(events) \in EventItems /\ Head(events) \notin Endings /\ events' \in Seq(EventItems)
      BY <2>8 DEF TakeRecord, Typed
    <3>2. Head(events).n \in Nat
      BY <3>1, ItemKinds DEF EventItems
    <3>3. PICK n \in 0..MaxBatch : worker' = Task("rpc", n, Head(events).n)
      BY <2>8 DEF TakeRecord
    <3> QED
      BY <1>0, <2>8, <3>1, <3>2, <3>3, ItemTypes, SequenceTypes DEF TakeRecord, Typed, Positions
  <2>9. CASE TakeRequest
    <3>1. PICK n \in 0..MaxBatch : worker' = Task("rpc", n, 0)
      BY <2>9 DEF TakeRequest
    <3> QED
      BY <1>0, <2>9, <3>1, ItemTypes, SequenceTypes DEF TakeRequest, Typed, Positions
  <2>10. CASE TakeEnding \/ InitializationTimeout
    BY <2>10, ItemTypes, SequenceTypes DEF TakeEnding, InitializationTimeout, Fail, Typed, Positions
  <2>11. CASE Stopped
    BY <2>11, ItemTypes, SequenceTypes DEF Stopped, Typed, Positions
  <2>12. CASE Teardown
    BY <2>12, ItemTypes, SequenceTypes DEF Teardown, Typed, Positions
  <2>13. CASE Report
    BY <2>13, ItemTypes, SequenceTypes DEF Report, Typed, Positions
  <2> QED
    BY <1>2, <2>1, <2>2, <2>3, <2>4, <2>5, <2>6, <2>7, <2>8, <2>9, <2>10, <2>11, <2>12, <2>13
    DEF WorkerStep
<1>3. CASE WriterTakes \/ WriterWrites
  BY <1>3 DEF WriterTakes, WriterWrites, Typed, Positions
<1>4. CASE WriterFails
  BY <1>4, ItemTypes, SequenceTypes DEF WriterFails, Typed, Positions
<1>5. CASE ReaderReads
  <2>1. CASE stdout # <<>> /\ reader' = [at |-> "send", item |-> Record(Head(stdout))] /\ stdout' = Tail(stdout)
    <3>1. Head(stdout) \in Nat /\ stdout' \in Seq(Nat)
      BY <2>1, SequenceTypes DEF Typed
    <3>2. Record(Head(stdout)) \in EventItems
      BY <3>1, ItemTypes
    <3>3. reader'.at = "send" /\ reader'.item = Record(Head(stdout))
      BY <2>1
    <3>4. worker.at # "prepare"
      BY <2>1 DEF Positions
    <3> QED
      BY <1>5, <2>1, <3>1, <3>2, <3>3, <3>4 DEF ReaderReads, Typed, Positions
  <2>2. CASE reader' = [at |-> "send", item |-> Eof] /\ Dead /\ UNCHANGED stdout
    BY <1>5, <2>2, ItemTypes, SequenceTypes DEF ReaderReads, Dead, Typed, Positions
  <2> QED
    BY <1>5, <2>1, <2>2 DEF ReaderReads, Announced
<1>6. CASE ReaderSends
  <2>0. reader.item \in EventItems
    BY DEF Typed
  <2>1. events' \in Seq(EventItems)
    BY <1>6, <2>0, SequenceTypes DEF ReaderSends, Typed
  <2> QED
    BY <1>6, <2>1, ItemTypes, SequenceTypes DEF ReaderSends, Connected, Typed, Positions
<1>7. CASE PiReads \/ PiStarts \/ PiExits
  BY <1>7 DEF PiReads, PiStarts, PiExits, Typed, Positions
<1>8. CASE PiWrites
  BY <1>8 DEF PiWrites, Typed, Positions
<1>9. CASE UNCHANGED vars
  BY <1>9 DEF vars, tasks, Typed, Positions
<1> QED
  BY <1>1, <1>2, <1>3, <1>4, <1>5, <1>6, <1>7, <1>8, <1>9 DEF Next

-----------------------------------------------------------------------------
\* All steps but three tell the frontend nothing new, and lead neither to where
\* readiness is told nor away from the end.
LEMMA ToldSame ==
  ASSUME Typed, [Next]_vars, ~Publish, ~PublishReady, ~Report
  PROVE  /\ Told' = Told /\ ready' = ready
         /\ worker'.at = "ready" => worker.at = "ready"
         /\ worker.at = "gone" => worker'.at = "gone"
<1>1. CASE Take
  BY <1>1, ToldTaken DEF Take, tasks
<1>2. CASE WorkerStep
  <2>1. seen' = seen /\ inbox' = inbox /\ ready' = ready
    BY <1>2 DEF WorkerStep, Prepare, PrepareFails, SendCommand, CommandRefused, CommandsSent,
                TakeRecord, TakeRequest, TakeEnding, InitializationTimeout, Stopped, Teardown
  <2>2. worker.at # "gone"
    BY <1>2 DEF WorkerStep, Prepare, PrepareFails, SendCommand, CommandRefused, CommandsSent,
                TakeRecord, TakeRequest, TakeEnding, InitializationTimeout, Stopped, Teardown,
                SeesStop
  <2>3. worker'.at # "ready"
    <3>1. CASE SendCommand
      BY <3>1 DEF SendCommand, Typed
    <3>2. CASE ~SendCommand
      BY <1>2, <3>2 DEF WorkerStep, Prepare, PrepareFails, CommandRefused, CommandsSent, Fail,
                TakeRecord, TakeRequest, TakeEnding, InitializationTimeout, Stopped, Teardown,
                Task, Waiting
    <3> QED
      BY <3>1, <3>2
  <2> QED
    BY <2>1, <2>2, <2>3 DEF Told
<1>3. CASE ~Take /\ ~WorkerStep
  <2>1. seen' = seen /\ inbox' = inbox /\ ready' = ready /\ worker' = worker
    BY <1>3 DEF Next, Request, Stop, WriterTakes, WriterWrites, WriterFails, ReaderReads,
                ReaderSends, PiReads, PiStarts, PiWrites, PiExits, vars, tasks
  <2> QED
    BY <2>1 DEF Told
<1> QED
  BY <1>1, <1>2, <1>3

\* A record is published behind those before it.
LEMMA PublishedNext ==
  ASSUME Typed, Positions, Running => Chain, worker.at = "publish"
  PROVE  worker.record \in Nat \ {0} /\ Given = 1..(worker.record - 1)
<1>1. PICK g, h, e \in Nat : Cut(g, h, e)
  BY DEF Running, Chain
<1>2. worker.record \in Nat /\ worker.record # 0
  BY DEF Typed, Positions
<1>3. worker.record = g + 1 /\ Given = 1..g
  BY <1>1, <1>2 DEF Cut, WorkerHas
<1> QED
  BY <1>2, <1>3

\* One more item keeps what was true of those before it.
LEMMA AppendKeeps ==
  ASSUME Typed, NEW x \in Items, Told' = Append(Told, x),
         InOrder, ReadyAfterParts, x = Ready => ~InTold(Ready), ~InTold(Fatal),
         IsRecord(x) => Given = 1..(x.n - 1),
         x = Ready => Parts \subseteq PartsIn(Given)
  PROVE  /\ InOrder' /\ ReadyAfterParts'
         /\ InTold(Ready)' => InTold(Ready) \/ x = Ready
         /\ InTold(Fatal)' => x = Fatal
         /\ Given' = Given \cup (IF IsRecord(x) THEN {x.n} ELSE {})
<1> DEFINE n == Len(Told)
<1>1. Told \in Seq(Items) /\ n \in Nat
  BY ToldType
<1>2. /\ Len(Told') = n + 1 /\ DOMAIN Told' = 1..(n + 1) /\ DOMAIN Told = 1..n
      /\ \A i \in 1..n : Told'[i] = Told[i]
      /\ Told'[n + 1] = x
  BY <1>1
<1>3. \A i \in 1..(n + 1) : Before(Told', i) = Before(Told, i)
  BY <1>1, BeforeAppend
<1>4. Given' = Given \cup (IF IsRecord(x) THEN {x.n} ELSE {})
  <2>1. Before(Told', n + 2) = Before(Told, n + 1) \cup (IF IsRecord(x) THEN {x.n} ELSE {})
    BY <1>1, BeforeAppend
  <2>2. Given' = Before(Told', n + 2)
    BY <1>1, <1>2 DEF Given
  <2> QED
    BY <2>1, <2>2 DEF Given
<1>5. Before(Told', n + 1) = Given
  BY <1>1, <1>3 DEF Given
<1>6. InOrder'
  <2>1. ASSUME NEW i \in 1..(n + 1), IsRecord(Told'[i])
        PROVE  Before(Told', i) = 1..(Told'[i].n - 1)
    <3>1. CASE i \in 1..n
      BY <1>1, <1>2, <1>3, <2>1, <3>1 DEF InOrder
    <3>2. CASE i = n + 1
      BY <1>2, <1>5, <2>1, <3>2
    <3> QED
      BY <1>1, <3>1, <3>2
  <2> QED
    BY <1>2, <2>1 DEF InOrder
<1>7. ReadyAfterParts'
  <2>1. ASSUME NEW i \in 1..(n + 1), Told'[i] = Ready
        PROVE  /\ Parts \subseteq PartsIn(Before(Told', i))
               /\ \A j \in (i + 1)..(n + 1) : Told'[j] # Ready
    <3>1. CASE i \in 1..n
      <4>1. Told[i] = Ready /\ i \in DOMAIN Told
        BY <1>2, <2>1, <3>1
      <4>2. x # Ready
        BY <4>1 DEF InTold
      <4>3. Parts \subseteq PartsIn(Before(Told, i)) /\ \A j \in (i + 1)..n : Told[j] # Ready
        BY <4>1 DEF ReadyAfterParts
      <4>4. ASSUME NEW j \in (i + 1)..(n + 1) PROVE Told'[j] # Ready
        BY <1>1, <1>2, <3>1, <4>2, <4>3
      <4> QED
        BY <1>3, <4>3, <4>4
    <3>2. CASE i = n + 1
      BY <1>1, <1>2, <1>5, <2>1, <3>2
    <3> QED
      BY <1>1, <3>1, <3>2
  <2>2. ASSUME NEW i \in 1..(n + 1), Told'[i] = Fatal PROVE i = n + 1
    BY <1>1, <1>2, <2>2 DEF InTold
  <2> QED
    BY <1>2, <2>1, <2>2 DEF ReadyAfterParts
<1>8. /\ InTold(Ready)' => InTold(Ready) \/ x = Ready
      /\ InTold(Fatal)' => x = Fatal
  BY <1>1, <1>2 DEF InTold
<1> QED
  BY <1>4, <1>6, <1>7, <1>8

\* Every step keeps the order of what is told and what Ready and Fatal say.
LEMMA ToldStep ==
  ASSUME Typed, Positions, Running => Chain, InOrder, ReadyAfterParts, Announcements, [Next]_vars
  PROVE  InOrder' /\ ReadyAfterParts' /\ Announcements'
<1>1. CASE Publish
  <2> DEFINE x == Record(worker.record)
  <2>1. worker.record \in Nat \ {0} /\ Given = 1..(worker.record - 1) /\ worker.at = "publish"
    BY <1>1, PublishedNext DEF Publish
  <2>2. x \in Items /\ IsRecord(x) /\ x.n = worker.record /\ x # Ready /\ x # Fatal
    BY <2>1, ItemTypes, ItemKinds DEF IsRecord
  <2>3. Told' = Append(Told, x)
    BY <1>1, <2>2, ToldOneMore DEF Publish
  <2>4. ~InTold(Fatal)
    BY <2>1 DEF Announcements
  <2> HIDE DEF x
  <2>5. /\ InOrder' /\ ReadyAfterParts'
        /\ InTold(Ready)' => InTold(Ready)
        /\ ~InTold(Fatal)'
        /\ Given' = Given \cup {worker.record}
    BY <2>1, <2>2, <2>3, <2>4, AppendKeeps
  <2>6. Given' = 1..worker.record
    BY <2>1, <2>5
  <2>7. CASE ~ready /\ Initialized(worker.record)
    BY <1>1, <2>5, <2>6, <2>7 DEF Publish, Announcements, Initialized, Task
  <2>8. CASE ~(~ready /\ Initialized(worker.record))
    <3>1. worker'.at = "select" /\ (ready => ready')
      BY <1>1, <2>8 DEF Publish, Waiting, Task
    <3> QED
      BY <2>5, <3>1 DEF Announcements
  <2> QED
    BY <2>5, <2>7, <2>8
<1>2. CASE PublishReady
  <2>1. worker.at = "ready" /\ ready' = ready /\ worker'.at = "select"
    BY <1>2 DEF PublishReady, Waiting, Task
  <2>2. Told' = Append(Told, Ready) /\ Ready \in Items
    BY <1>2, ToldOneMore, ItemTypes DEF PublishReady
  <2>3. ~InTold(Ready) /\ ~InTold(Fatal) /\ Parts \subseteq PartsIn(Given) /\ ready
    BY <2>1 DEF Announcements
  <2>4. InOrder' /\ ReadyAfterParts' /\ ~InTold(Fatal)'
    BY <2>2, <2>3, AppendKeeps, ItemKinds
  <2> QED
    BY <2>1, <2>3, <2>4 DEF Announcements
<1>3. CASE Report
  <2>1. worker.at = "report" /\ ready' = ready /\ worker'.at = "gone"
    BY <1>3 DEF Report, Task
  <2>2. Told' = Append(Told, Fatal) /\ Fatal \in Items
    BY <1>3, ToldOneMore, ItemTypes DEF Report
  <2>3. ~InTold(Fatal) /\ (InTold(Ready) => ready)
    BY <2>1 DEF Announcements
  <2>4. InOrder' /\ ReadyAfterParts' /\ (InTold(Ready)' => InTold(Ready))
    BY <2>2, <2>3, AppendKeeps, ItemKinds
  <2> QED
    BY <2>1, <2>3, <2>4 DEF Announcements
<1>4. CASE ~Publish /\ ~PublishReady /\ ~Report
  <2>1. /\ Told' = Told /\ ready' = ready
        /\ worker'.at = "ready" => worker.at = "ready"
        /\ worker.at = "gone" => worker'.at = "gone"
    BY <1>4, ToldSame
  <2>2. /\ InTold(Ready)' <=> InTold(Ready)
        /\ InTold(Fatal)' <=> InTold(Fatal)
        /\ Given' = Given
    BY <2>1 DEF InTold, Given
  <2>3. InOrder' /\ ReadyAfterParts'
    BY <2>1 DEF InOrder, ReadyAfterParts
  <2> QED
    BY <2>1, <2>2, <2>3 DEF Announcements
<1> QED
  BY <1>1, <1>2, <1>3, <1>4

-----------------------------------------------------------------------------
\* One more event at the end.
LEMMA EventsAppend ==
  ASSUME NEW s \in Seq(EventItems), NEW x \in EventItems, Rising(s),
         IsRecord(x) => \A k \in InEvents(s) : k < x.n
  PROVE  /\ Rising(Append(s, x))
         /\ InEvents(Append(s, x)) = InEvents(s) \cup (IF IsRecord(x) THEN {x.n} ELSE {})
<1> DEFINE more == Append(s, x)
<1>1. /\ Len(s) \in Nat /\ DOMAIN s = 1..Len(s) /\ DOMAIN more = 1..(Len(s) + 1)
      /\ \A k \in 1..Len(s) : more[k] = s[k]
      /\ more[Len(s) + 1] = x
  OBVIOUS
<1> HIDE DEF more
<1>2. 1..(Len(s) + 1) = 1..Len(s) \cup {Len(s) + 1}
  BY <1>1
<1>3. InEvents(more) = InEvents(s) \cup (IF IsRecord(x) THEN {x.n} ELSE {})
  BY <1>1, <1>2 DEF InEvents
<1>4. ASSUME NEW i \in DOMAIN more, NEW j \in DOMAIN more, i < j, IsRecord(more[i]), IsRecord(more[j])
      PROVE  more[i].n < more[j].n
  <2>1. i \in DOMAIN s /\ more[i] = s[i]
    BY <1>1, <1>4
  <2>2. CASE j \in DOMAIN s
    BY <1>1, <1>4, <2>1, <2>2 DEF Rising
  <2>3. CASE j = Len(s) + 1
    BY <1>1, <1>4, <2>1, <2>3 DEF InEvents
  <2> QED
    BY <1>1, <2>2, <2>3
<1> QED
  BY <1>3, <1>4 DEF more, Rising

\* One less at the head: the first record is the least.
LEMMA EventsTail ==
  ASSUME NEW s \in Seq(EventItems), s # <<>>, Rising(s), IsRecord(Head(s)),
         NEW a \in Nat, NEW b \in Nat, InEvents(s) = a..b
  PROVE  Head(s).n = a /\ a <= b /\ Rising(Tail(s)) /\ InEvents(Tail(s)) = (a + 1)..b
<1> DEFINE rest == Tail(s)
<1>1. /\ Len(s) \in Nat \ {0} /\ DOMAIN s = 1..Len(s) /\ DOMAIN rest = 1..(Len(s) - 1)
      /\ \A k \in 1..(Len(s) - 1) : rest[k] = s[k + 1]
      /\ Head(s) = s[1]
  OBVIOUS
<1> HIDE DEF rest
<1>2. s[1].n \in a..b
  BY <1>1 DEF InEvents
<1>3. \A k \in InEvents(s) : s[1].n <= k
  <2>1. ASSUME NEW j \in DOMAIN s, IsRecord(s[j]) PROVE s[1].n <= s[j].n
    <3>1. s[j].n \in a..b
      BY <2>1 DEF InEvents
    <3>2. CASE j = 1
      BY <3>1, <3>2
    <3>3. CASE 1 < j
      BY <1>1, <1>2, <2>1, <3>1, <3>3 DEF Rising
    <3> QED
      BY <1>1, <3>2, <3>3
  <2> QED
    BY <2>1 DEF InEvents
<1>4. s[1].n = a /\ a <= b
  <2>1. a \in InEvents(s)
    BY <1>2
  <2> QED
    BY <1>2, <1>3, <2>1
<1>5. Rising(rest)
  <2>1. ASSUME NEW i \in DOMAIN rest, NEW j \in DOMAIN rest, i < j, IsRecord(rest[i]), IsRecord(rest[j])
        PROVE  rest[i].n < rest[j].n
    <3>1. i + 1 \in DOMAIN s /\ j + 1 \in DOMAIN s /\ i + 1 < j + 1
      BY <1>1, <2>1
    <3>2. rest[i] = s[i + 1] /\ rest[j] = s[j + 1]
      BY <1>1
    <3> QED
      BY <2>1, <3>1, <3>2 DEF Rising
  <2> QED
    BY <2>1 DEF Rising
<1>6. InEvents(rest) = InEvents(s) \ {a}
  <2>1. ASSUME NEW k \in InEvents(rest) PROVE k \in InEvents(s) \ {a}
    <3>1. PICK i \in DOMAIN rest : IsRecord(rest[i]) /\ k = rest[i].n
      BY <2>1 DEF InEvents
    <3>2. i + 1 \in DOMAIN s /\ rest[i] = s[i + 1] /\ 1 < i + 1
      BY <1>1, <3>1
    <3>3. s[i + 1].n \in InEvents(s)
      BY <3>1, <3>2 DEF InEvents
    <3>4. s[1].n < s[i + 1].n
      BY <1>1, <3>1, <3>2 DEF Rising
    <3> QED
      BY <1>2, <1>4, <3>1, <3>2, <3>3, <3>4
  <2>2. ASSUME NEW k \in InEvents(s) \ {a} PROVE k \in InEvents(rest)
    <3>1. PICK i \in DOMAIN s : IsRecord(s[i]) /\ k = s[i].n
      BY <2>2 DEF InEvents
    <3>2. i # 1
      BY <1>4, <2>2, <3>1
    <3>3. i - 1 \in DOMAIN rest /\ rest[i - 1] = s[i]
      BY <1>1, <3>1, <3>2
    <3> QED
      BY <3>1, <3>3 DEF InEvents
  <2> QED
    BY <2>1, <2>2
<1>7. (a..b) \ {a} = (a + 1)..b
  OBVIOUS
<1> QED
  BY <1>1, <1>4, <1>5, <1>6, <1>7 DEF rest

-----------------------------------------------------------------------------
\* At first all places are empty.
LEMMA ChainInit == Init => Chain
<1> SUFFICES ASSUME Init PROVE Chain
  OBVIOUS
<1>1. Told = <<>> /\ events = <<>> /\ stdout = <<>> /\ written = 0 /\ worker.record = 0 /\ ~Holding
  BY DEF Init, Told, Holding, Task
<1>2. Given = {} /\ InEvents(events) = {}
  BY <1>1 DEF Given, Before, InEvents
<1>3. Cut(0, 0, 0)
  <2>1. 1..0 = {} /\ (0 + 1)..0 = {}
    OBVIOUS
  <2>2. written - Len(stdout) = 0
    <3>1. written = 0 /\ Len(stdout) = 0
      BY DEF Init
    <3> QED
      BY <3>1
  <2> QED
    BY <1>1, <1>2, <2>1, <2>2 DEF Cut, WorkerHas, ReaderHas
<1> QED
  BY <1>1, <1>3 DEF Chain, Rising, Piped

\* A step that neither takes, gives nor writes a record.
LEMMA ChainSame ==
  ASSUME Chain, Given' = Given, UNCHANGED <<events, stdout, written, reader>>,
         worker'.record = worker.record
  PROVE  Chain'
<1>1. PICK g \in Nat, h \in Nat, e \in Nat : Cut(g, h, e)
  BY DEF Chain
<1>2. Cut(g, h, e)'
  BY <1>1 DEF Cut, WorkerHas, ReaderHas, Holding
<1> QED
  BY <1>2 DEF Chain, Rising, Piped

\* When nothing is told, no record is given.
LEMMA GivenSame == Told' = Told => Given' = Given
BY DEF Given

\* What a record's publication adds to the records given.
LEMMA GivenMore ==
  ASSUME Typed, NEW x \in Items, Told' = Append(Told, x)
  PROVE  Given' = Given \cup (IF IsRecord(x) THEN {x.n} ELSE {})
<1>1. Told \in Seq(Items)
  BY ToldType
<1>2. Len(Told') + 1 = Len(Told) + 2
  BY <1>1
<1> QED
  BY <1>1, <1>2, BeforeAppend DEF Given

\* The worker passes the record it holds on to the frontend.
LEMMA ChainPublish ==
  ASSUME Typed, Positions, Chain, Publish
  PROVE  Chain'
<1>1. PICK g \in Nat, h \in Nat, e \in Nat : Cut(g, h, e)
  BY DEF Chain
<1>2. worker.record # 0 /\ worker.record \in Nat /\ worker'.record = 0
      /\ UNCHANGED <<events, stdout, written, reader>>
  BY DEF Publish, Positions, Typed, Task, Waiting
<1>3. worker.record = h /\ h = g + 1
  BY <1>1, <1>2 DEF Cut, WorkerHas
<1>4. Given' = Given \cup {worker.record}
  <2>1. /\ Record(worker.record) \in Items /\ IsRecord(Record(worker.record))
        /\ Record(worker.record).n = worker.record
    BY <1>2, ItemTypes, ItemKinds DEF IsRecord
  <2>2. Told' = Append(Told, Record(worker.record))
    BY <2>1, ToldOneMore DEF Publish
  <2> QED
    BY <2>1, <2>2, GivenMore
<1>5. Given' = 1..h
  BY <1>1, <1>3, <1>4 DEF Cut
<1>6. Cut(h, h, e)'
  BY <1>1, <1>2, <1>5 DEF Cut, WorkerHas, ReaderHas, Holding
<1> QED
  BY <1>2, <1>6 DEF Chain, Rising, Piped

\* The worker takes a record off the events.
LEMMA ChainTake ==
  ASSUME Typed, Positions, Chain, TakeRecord
  PROVE  Chain'
<1>1. PICK g \in Nat, h \in Nat, e \in Nat : Cut(g, h, e)
  BY DEF Chain
<1>2. /\ events \in Seq(EventItems) /\ events # <<>> /\ events' = Tail(events)
      /\ IsRecord(Head(events)) /\ Rising(events)
  <2>1. events \in Seq(EventItems) /\ events # <<>> /\ events' = Tail(events)
        /\ Head(events) \notin Endings
    BY DEF TakeRecord, Typed
  <2>2. Head(events) \in EventItems
    BY <2>1, SequenceTypes
  <2> QED
    BY <2>1, <2>2, ItemKinds DEF EventItems, IsRecord, Chain
<1>3. worker.record = 0 /\ h = g
  BY <1>1 DEF TakeRecord, Positions, Cut, WorkerHas
<1>4. /\ Head(events).n = h + 1 /\ h + 1 <= e
      /\ Rising(events') /\ InEvents(events') = ((h + 1) + 1)..e
  BY <1>1, <1>2, EventsTail DEF Cut
<1>5. worker'.record = h + 1
  BY <1>4 DEF TakeRecord, Task
<1>6. Given' = Given /\ UNCHANGED <<stdout, written, reader>>
  BY DEF TakeRecord, Given, Told
<1>7. Cut(g, h + 1, e)'
  BY <1>1, <1>3, <1>4, <1>5, <1>6 DEF Cut, WorkerHas, ReaderHas, Holding
<1> QED
  BY <1>4, <1>6, <1>7 DEF Chain, Piped

\* An ending is put among the events; no record is.
LEMMA ChainEnding ==
  ASSUME Typed, Chain, NEW x \in Endings, events' = Append(events, x),
         Given' = Given, UNCHANGED <<stdout, written, worker>>,
         reader' = reader \/ (~Holding /\ ~Holding')
  PROVE  Chain'
<1>1. PICK g \in Nat, h \in Nat, e \in Nat : Cut(g, h, e)
  BY DEF Chain
<1>2. ~IsRecord(x) /\ x \in EventItems
  BY ItemKinds DEF Endings, EventItems
<1>3. Rising(events') /\ InEvents(events') = InEvents(events)
  BY <1>2, EventsAppend DEF Chain, Typed
<1>4. Cut(g, h, e)'
  BY <1>1, <1>3 DEF Cut, WorkerHas, ReaderHas, Holding
<1> QED
  BY <1>3, <1>4 DEF Chain, Piped

\* The reader takes a record off Pi's output.
LEMMA ChainRead ==
  ASSUME Typed, Chain, ReaderReads
  PROVE  Chain'
<1>1. PICK g \in Nat, h \in Nat, e \in Nat : Cut(g, h, e)
  BY DEF Chain
<1>2. Given' = Given /\ UNCHANGED <<written, worker, events>> /\ ~Holding
  BY DEF ReaderReads, Given, Told, Holding
<1>3. written - Len(stdout) = e
  BY <1>1, <1>2 DEF Cut, ReaderHas
<1>4. CASE /\ stdout # <<>> /\ stdout' = Tail(stdout)
           /\ reader' = [at |-> "send", item |-> Record(Head(stdout))]
  <2>1. /\ stdout \in Seq(Nat) /\ written \in Nat /\ Len(stdout) \in Nat \ {0}
        /\ Head(stdout) = stdout[1] /\ Len(stdout') = Len(stdout) - 1
        /\ \A i \in DOMAIN stdout' : stdout'[i] = stdout[i + 1] /\ i + 1 \in DOMAIN stdout
        /\ DOMAIN stdout' \subseteq Nat /\ 1 \in DOMAIN stdout
    BY <1>4 DEF Typed
  <2>2. Head(stdout) = e + 1
    BY <1>3, <2>1 DEF Chain, Piped
  <2>3. Holding' /\ reader'.item.n = e + 1
    <3>1. reader'.at = "send" /\ reader'.item = Record(e + 1)
      BY <1>4, <2>2
    <3>2. Record(e + 1).is = "record" /\ Record(e + 1).n = e + 1
      BY DEF Record
    <3> QED
      BY <3>1, <3>2 DEF Holding, IsRecord
  <2>4. written' - Len(stdout') = e + 1
    BY <1>2, <1>3, <2>1
  <2>5. Cut(g, h, e)'
    BY <1>1, <1>2, <2>3, <2>4 DEF Cut, WorkerHas, ReaderHas
  <2>6. Piped'
    BY <1>2, <1>3, <2>1, <2>4 DEF Chain, Piped
  <2> QED
    BY <1>2, <2>5, <2>6 DEF Chain
<1>5. CASE stdout' = stdout /\ reader'.item = Eof
  <2>1. ~Holding'
    BY <1>5, ItemKinds DEF Holding
  <2>2. Cut(g, h, e)'
    BY <1>1, <1>2, <1>5, <2>1 DEF Cut, WorkerHas, ReaderHas
  <2> QED
    BY <1>2, <1>5, <2>2 DEF Chain, Piped
<1> QED
  BY <1>4, <1>5 DEF ReaderReads, Announced

\* The reader puts what it has read among the events.
LEMMA ChainSend ==
  ASSUME Typed, Positions, Chain, ReaderSends, Running
  PROVE  Chain'
<1>1. PICK g \in Nat, h \in Nat, e \in Nat : Cut(g, h, e)
  BY DEF Chain
<1>2. Connected /\ reader.at = "send"
  BY DEF ReaderSends, Running, Positions, Connected
<1>3. /\ Given' = Given /\ UNCHANGED <<written, worker, stdout>> /\ ~Holding'
      /\ events' = Append(events, reader.item)
  BY <1>2, ItemKinds DEF ReaderSends, Given, Told, Holding, Room
<1>4. reader.item \in EventItems /\ events \in Seq(EventItems) /\ Rising(events)
  BY DEF Typed, Chain
<1>5. CASE IsRecord(reader.item)
  <2>1. Holding /\ reader.item.n = e + 1 /\ written - Len(stdout) = e + 1
    BY <1>1, <1>2, <1>5 DEF Holding, Cut, ReaderHas
  <2>2. \A k \in InEvents(events) : k < reader.item.n
    BY <1>1, <2>1 DEF Cut
  <2>3. Rising(events') /\ InEvents(events') = InEvents(events) \cup {e + 1}
    BY <1>3, <1>4, <1>5, <2>1, <2>2, EventsAppend
  <2>4. InEvents(events') = (h + 1)..(e + 1)
    BY <1>1, <2>3 DEF Cut
  <2>5. Cut(g, h, e + 1)'
    BY <1>1, <1>3, <2>1, <2>4 DEF Cut, WorkerHas, ReaderHas
  <2> QED
    BY <1>3, <2>3, <2>5 DEF Chain, Piped
<1>6. CASE ~IsRecord(reader.item)
  <2>1. reader.item \in Endings /\ ~Holding
    BY <1>4, <1>6, ItemKinds DEF EventItems, Holding, IsRecord
  <2> QED
    BY <1>3, <2>1, ChainEnding
<1> QED
  BY <1>5, <1>6

\* Pi writes its next record.
LEMMA ChainWrite ==
  ASSUME Typed, Chain, PiWrites
  PROVE  Chain'
<1>1. PICK g \in Nat, h \in Nat, e \in Nat : Cut(g, h, e)
  BY DEF Chain
<1>2. /\ Given' = Given /\ UNCHANGED <<worker, events, reader>>
      /\ written' = written + 1 /\ stdout' = Append(stdout, written + 1)
  BY DEF PiWrites, Given, Told
<1>3. /\ written \in Nat /\ Len(stdout) \in Nat /\ Len(stdout') = Len(stdout) + 1
      /\ DOMAIN stdout' = 1..(Len(stdout) + 1) /\ DOMAIN stdout = 1..Len(stdout)
      /\ \A i \in 1..Len(stdout) : stdout'[i] = stdout[i]
      /\ stdout'[Len(stdout) + 1] = written + 1
  BY <1>2 DEF Typed
<1>4. written' - Len(stdout') = written - Len(stdout)
  BY <1>2, <1>3
<1>5. Piped'
  <2>1. ASSUME NEW i \in 1..(Len(stdout) + 1)
        PROVE  stdout'[i] = (written - Len(stdout)) + i
    <3>1. CASE i \in 1..Len(stdout)
      BY <1>3, <3>1 DEF Chain, Piped
    <3>2. CASE i = Len(stdout) + 1
      BY <1>3, <3>2
    <3> QED
      BY <1>3, <3>1, <3>2
  <2> QED
    BY <1>3, <1>4, <2>1 DEF Piped
<1>6. Cut(g, h, e)'
  BY <1>1, <1>2, <1>4 DEF Cut, WorkerHas, ReaderHas, Holding
<1> QED
  BY <1>2, <1>5, <1>6 DEF Chain

\* Every step that goes on keeps the chain.
LEMMA ChainStep ==
  ASSUME Typed, Positions, Running => Chain, [Next]_vars, Running'
  PROVE  Chain'
<1>0. Running /\ Chain
  BY DEF Running, Next, WorkerStep, Request, Take, Stop, Prepare, PrepareFails, SendCommand,
         CommandRefused, CommandsSent, Publish, PublishReady, TakeRecord, TakeRequest, TakeEnding,
         InitializationTimeout, Stopped, Teardown, Report, Fail, Task, WriterTakes, WriterWrites,
         WriterFails, ReaderReads, ReaderSends, PiReads, PiStarts, PiWrites, PiExits, vars, tasks
<1>1. CASE Publish \/ TakeRecord \/ ReaderReads \/ ReaderSends \/ PiWrites
  BY <1>0, <1>1, ChainPublish, ChainTake, ChainRead, ChainSend, ChainWrite
<1>2. CASE WriterFails
  <2>1. Given' = Given /\ UNCHANGED <<stdout, written, worker, reader>>
    BY <1>2 DEF WriterFails, Given, Told
  <2>2. CASE Connected
    <3>1. WriteError \in Endings /\ events' = Append(events, WriteError)
      BY <1>2, <2>2 DEF WriterFails, Endings
    <3> QED
      BY <1>0, <2>1, <3>1, ChainEnding
  <2>3. CASE ~Connected
    <3>1. events' = events
      BY <1>2, <2>3 DEF WriterFails
    <3> QED
      BY <1>0, <2>1, <3>1, ChainSame
  <2> QED
    BY <2>2, <2>3
<1>3. CASE PublishReady
  <2>1. Told' = Append(Told, Ready) /\ Ready \in Items /\ ~IsRecord(Ready)
    BY <1>3, ToldOneMore, ItemTypes, ItemKinds DEF PublishReady
  <2>2. Given' = Given
    BY <2>1, GivenMore
  <2>3. worker'.record = worker.record
    BY <1>3 DEF PublishReady, Waiting, Task, Positions
  <2> QED
    BY <1>0, <1>3, <2>2, <2>3, ChainSame DEF PublishReady
<1>4. CASE Take
  BY <1>0, <1>4, ToldTaken, GivenSame, ChainSame DEF Take, tasks
<1>5. CASE Prepare \/ SendCommand \/ CommandsSent \/ TakeRequest
  <2>1. Told' = Told /\ UNCHANGED <<events, stdout, written, reader>>
    BY <1>5 DEF Prepare, SendCommand, CommandsSent, TakeRequest, Told
  <2>2. worker'.record = worker.record
    <3>1. CASE SendCommand
      BY <3>1 DEF SendCommand
    <3>2. CASE CommandsSent
      BY <3>2 DEF CommandsSent, Waiting, Task
    <3>3. CASE Prepare \/ TakeRequest
      BY <3>3 DEF Prepare, TakeRequest, Task, Positions
    <3> QED
      BY <1>5, <3>1, <3>2, <3>3
  <2> QED
    BY <1>0, <2>1, <2>2, GivenSame, ChainSame
<1>6. CASE PrepareFails \/ CommandRefused \/ TakeEnding \/ InitializationTimeout \/ Stopped \/ Teardown \/ Report
  BY <1>6 DEF PrepareFails, CommandRefused, TakeEnding, InitializationTimeout, Stopped, SeesStop,
              Teardown, Report, Fail, Task, Running
<1>7. CASE \/ Request \/ Stop \/ WriterTakes \/ WriterWrites \/ PiReads \/ PiStarts \/ PiExits
           \/ UNCHANGED vars
  <2>1. Told' = Told /\ UNCHANGED <<events, stdout, written, reader, worker>>
    BY <1>7 DEF Request, Stop, WriterTakes, WriterWrites, PiReads, PiStarts, PiExits, vars, tasks, Told
  <2> QED
    BY <1>0, <2>1, GivenSame, ChainSame
<1> QED
  BY <1>1, <1>2, <1>3, <1>4, <1>5, <1>6, <1>7 DEF Next, WorkerStep

-----------------------------------------------------------------------------
\* Nothing comes after Pi's output is read and Pi has exited.
LEMMA OverStays ==
  ASSUME Positions, [Next]_vars, pi = "exited"
  PROVE  pi' = "exited" /\ written' = written /\ (stdout = <<>> => stdout' = <<>>)
<1>1. ~Prepare
  BY DEF Positions, Prepare
<1> QED
  BY <1>1 DEF Next, WorkerStep, Request, Take, Stop, PrepareFails, SendCommand,
         CommandRefused, CommandsSent, Publish, PublishReady, TakeRecord, TakeRequest, TakeEnding,
         InitializationTimeout, Stopped, Teardown, Report, WriterTakes, WriterWrites,
         WriterFails, ReaderReads, ReaderSends, PiReads, PiStarts, PiWrites, PiExits, vars, tasks

\* How a step changes the events and the reader together.
LEMMA EventsStep ==
  ASSUME Typed, [Next]_vars
  PROVE  \/ events' = events /\ (reader' = reader \/ reader'.at = "ended" \/ ReaderReads)
         \/ events' = <<>> /\ reader' = reader
         \/ events # <<>> /\ events' = Tail(events) /\ reader' = reader
         \/ events' = Append(events, WriteError) /\ reader' = reader
         \/ /\ events' = Append(events, reader.item) /\ reader.at = "send"
            /\ reader'.at # "send" /\ (reader.item = Eof => reader'.at = "ended")
<1>1. CASE ReaderSends
  <2>1. CASE Connected
    BY <1>1, <2>1 DEF ReaderSends, Room, Endings
  <2>2. CASE ~Connected
    BY <1>1, <2>2 DEF ReaderSends
  <2> QED
    BY <2>1, <2>2
<1>2. CASE ReaderReads
  BY <1>2 DEF ReaderReads
<1>3. CASE ~ReaderSends /\ ~ReaderReads
  BY <1>3 DEF Next, WorkerStep, Request, Take, Stop, Prepare, PrepareFails, SendCommand,
         CommandRefused, CommandsSent, Publish, PublishReady, TakeRecord, TakeRequest, TakeEnding,
         InitializationTimeout, Stopped, Teardown, Report, WriterTakes, WriterWrites,
         WriterFails, PiReads, PiStarts, PiWrites, PiExits, vars, tasks
<1> QED
  BY <1>1, <1>2, <1>3

\* An announced end stays behind every record.
LEMMA EndBehind ==
  ASSUME Typed, Positions, EndLast, [Next]_vars
  PROVE  /\ reader'.at = "send" /\ reader'.item = Eof => Over'
         /\ \A i \in DOMAIN events' : events'[i] = Eof =>
              /\ Over' /\ reader'.at = "ended"
              /\ \A j \in DOMAIN events' : i < j => ~IsRecord(events'[j])
<1>1. Over => Over'
  BY OverStays DEF Over
<1>2. events \in Seq(EventItems)
  BY DEF Typed
<1>3. ASSUME NEW x, x = WriteError \/ (reader.at = "send" /\ x = reader.item), events' = Append(events, x),
             IF x = WriteError THEN reader' = reader
             ELSE reader'.at # "send" /\ (x = Eof => reader'.at = "ended")
      PROVE  /\ reader'.at = "send" /\ reader'.item = Eof => Over'
             /\ \A i \in DOMAIN events' : events'[i] = Eof =>
                  /\ Over' /\ reader'.at = "ended"
                  /\ \A j \in DOMAIN events' : i < j => ~IsRecord(events'[j])
  <2>1. /\ Len(events) \in Nat /\ DOMAIN events = 1..Len(events) /\ DOMAIN events' = 1..(Len(events) + 1)
        /\ \A k \in 1..Len(events) : events'[k] = events[k]
        /\ events'[Len(events) + 1] = x
    BY <1>2, <1>3
  <2>2. WriteError # Eof /\ ~IsRecord(WriteError)
    BY ItemKinds
  <2>3. reader'.at = "send" /\ reader'.item = Eof => Over'
    BY <1>1, <1>3 DEF EndLast
  <2>4. ASSUME NEW i \in DOMAIN events', events'[i] = Eof
        PROVE  /\ Over' /\ reader'.at = "ended"
               /\ \A j \in DOMAIN events' : i < j => ~IsRecord(events'[j])
    <3>1. CASE i \in DOMAIN events
      <4>1. Over /\ reader.at = "ended" /\ \A j \in DOMAIN events : i < j => ~IsRecord(events[j])
        BY <2>1, <2>4, <3>1 DEF EndLast
      <4>2. x = WriteError /\ reader' = reader
        BY <1>3, <4>1
      <4> QED
        BY <1>1, <2>1, <2>2, <4>1, <4>2
    <3>2. CASE i = Len(events) + 1
      <4>1. x = Eof /\ reader.at = "send" /\ reader.item = Eof /\ reader'.at = "ended"
        BY <1>3, <2>1, <2>2, <2>4, <3>2
      <4> QED
        BY <1>1, <2>1, <3>2, <4>1 DEF EndLast
    <3> QED
      BY <2>1, <3>1, <3>2
  <2> QED
    BY <2>3, <2>4
<1>4. CASE events' = Append(events, WriteError) /\ reader' = reader
  BY <1>3, <1>4
<1>5. CASE /\ events' = Append(events, reader.item) /\ reader.at = "send"
           /\ reader'.at # "send" /\ (reader.item = Eof => reader'.at = "ended")
  <2>1. CASE reader.item = WriteError
    <3>1. \A i \in DOMAIN events : events[i] # Eof
      BY <1>5 DEF EndLast
    <3>2. /\ DOMAIN events' = 1..(Len(events) + 1) /\ DOMAIN events = 1..Len(events) /\ Len(events) \in Nat
          /\ \A k \in 1..Len(events) : events'[k] = events[k]
          /\ events'[Len(events) + 1] = WriteError
      BY <1>2, <1>5, <2>1
    <3>3. WriteError # Eof
      BY ItemKinds
    <3>4. \A i \in DOMAIN events' : events'[i] # Eof
      BY <3>1, <3>2, <3>3
    <3> QED
      BY <1>5, <3>4
  <2>2. CASE reader.item # WriteError
    BY <1>3, <1>5, <2>2
  <2> QED
    BY <2>1, <2>2
<1>6. CASE events # <<>> /\ events' = Tail(events) /\ reader' = reader
  <2>1. \A k \in DOMAIN events' : k \in Nat /\ k + 1 \in DOMAIN events /\ events'[k] = events[k + 1]
    BY <1>2, <1>6
  <2>2. \A i \in DOMAIN events' : events'[i] = Eof =>
          Over /\ reader.at = "ended" /\ \A j \in DOMAIN events : i + 1 < j => ~IsRecord(events[j])
    BY <2>1 DEF EndLast
  <2>3. \A i, j \in DOMAIN events' : i < j => i + 1 < j + 1
    BY <2>1
  <2> QED
    BY <1>1, <1>6, <2>1, <2>2, <2>3 DEF EndLast
<1>7. CASE events' = <<>> /\ reader' = reader
  BY <1>1, <1>7 DEF EndLast
<1>8. CASE events' = events /\ (reader' = reader \/ reader'.at = "ended")
  BY <1>1, <1>8 DEF EndLast
<1>9. CASE events' = events /\ ReaderReads
  <2>1. reader.at = "read"
    BY <1>9 DEF ReaderReads
  <2>2. \A i \in DOMAIN events : events[i] # Eof
    BY <2>1 DEF EndLast
  <2>3. reader'.at = "send" /\ reader'.item = Eof => Over
    <3>1. CASE stdout # <<>> /\ reader' = [at |-> "send", item |-> Record(Head(stdout))]
      <4>1. Head(stdout) \in Nat
        BY <3>1, SequenceTypes DEF Typed
      <4> QED
        BY <3>1, <4>1, ItemKinds
    <3>2. CASE stdout = <<>> /\ Dead
      BY <3>2 DEF Dead, Over
    <3> QED
      BY <1>9, <3>1, <3>2 DEF ReaderReads
  <2> QED
    BY <1>1, <1>9, <2>2, <2>3
<1> QED
  BY <1>4, <1>5, <1>6, <1>7, <1>8, <1>9, EventsStep

\* A worker that ends because the output ended has given every record.
LEMMA EndGiven ==
  ASSUME Typed, Positions, Running => Chain, EndLast, TakeEnding, Head(events) = Eof
  PROVE  ~Running' /\ pi' = "exited" /\ Given' = 1..written'
<1>1. PICK g \in Nat, h \in Nat, e \in Nat : Cut(g, h, e)
  BY DEF TakeEnding, Running, Chain
<1>2. events \in Seq(EventItems) /\ events # <<>>
  BY DEF TakeEnding, Typed
<1>3. Len(events) \in Nat /\ 1 \in DOMAIN events /\ events[1] = Eof /\ DOMAIN events = 1..Len(events)
  BY <1>2
<1>4. /\ stdout = <<>> /\ pi = "exited" /\ reader.at = "ended"
      /\ \A j \in DOMAIN events : 1 < j => ~IsRecord(events[j])
  BY <1>3 DEF EndLast, Over
<1>5. \A j \in DOMAIN events : ~IsRecord(events[j])
  <2>1. ~IsRecord(Eof)
    BY ItemKinds
  <2>2. \A j \in DOMAIN events : j = 1 \/ 1 < j
    BY <1>3
  <2> QED
    BY <1>3, <1>4, <2>1, <2>2
<1>6. InEvents(events) = {}
  BY <1>5 DEF InEvents
<1>7. h = e
  <2>1. (h + 1)..e = {} /\ h <= e
    BY <1>1, <1>6 DEF Cut
  <2>2. h + 1 <= e => h + 1 \in (h + 1)..e
    OBVIOUS
  <2> QED
    BY <2>1, <2>2
<1>8. worker.record = 0
  BY DEF TakeEnding, Positions
<1>9. h = g
  BY <1>1, <1>8 DEF Cut, WorkerHas
<1>10. written = e
  <2>1. written - Len(stdout) = e
    BY <1>1, <1>4 DEF Cut, ReaderHas, Holding
  <2>2. Len(stdout) = 0 /\ written \in Nat
    BY <1>4 DEF Typed
  <2> QED
    BY <2>1, <2>2
<1>11. Given' = Given /\ written' = written /\ pi' = pi /\ ~Running'
  BY DEF TakeEnding, Given, Told, Fail, Running, Task
<1> QED
  BY <1>1, <1>4, <1>7, <1>9, <1>10, <1>11 DEF Cut

\* Every step keeps what an announced end stands for.
LEMMA EndStep ==
  ASSUME Typed, Positions, Running => Chain, EndLast, [Next]_vars
  PROVE  EndLast'
<1>1. reason' = "eof" => ~Running' /\ pi' = "exited" /\ Given' = 1..written'
  <2>1. CASE TakeEnding /\ Head(events) = Eof
    BY <2>1, EndGiven
  <2>2. CASE reason' # "eof"
    BY <2>2
  <2>3. CASE reason' = "eof" /\ ~(TakeEnding /\ Head(events) = Eof)
    <3>1. ~TakeEnding
      <4>1. CASE TakeEnding
        <5>1. Head(events) = WriteError /\ reason' = Head(events).is
          BY <2>3, <4>1 DEF TakeEnding, Endings, Fail
        <5> QED
          BY <2>3, <5>1, ItemKinds
      <4> QED
        BY <4>1
    <3>2. reason = "eof"
      BY <2>3, <3>1 DEF Next, WorkerStep, Request, Take, Stop, Prepare, PrepareFails, SendCommand,
         CommandRefused, CommandsSent, Publish, PublishReady, TakeRecord, TakeRequest, Fail,
         InitializationTimeout, Stopped, Teardown, Report, WriterTakes, WriterWrites,
         WriterFails, ReaderReads, ReaderSends, PiReads, PiStarts, PiWrites, PiExits, vars, tasks
    <3>3. ~Running /\ pi = "exited" /\ Given = 1..written
      BY <3>2 DEF EndLast
    <3>4. ~Running'
      BY <3>1, <3>3 DEF Running, Next, WorkerStep, Request, Take, Stop, Prepare, PrepareFails, SendCommand,
         CommandRefused, CommandsSent, Publish, PublishReady, TakeRecord, TakeRequest, Fail, Task,
         InitializationTimeout, Stopped, Teardown, Report, WriterTakes, WriterWrites,
         WriterFails, ReaderReads, ReaderSends, PiReads, PiStarts, PiWrites, PiExits, vars, tasks
    <3>5. Given' = Given
      <4>1. CASE Report
        <5>1. Told' = Append(Told, Fatal) /\ Fatal \in Items /\ ~IsRecord(Fatal)
          BY <4>1, ToldOneMore, ItemTypes, ItemKinds DEF Report
        <5> QED
          BY <5>1, GivenMore
      <4>2. CASE ~Report
        <5>1. ~Publish /\ ~PublishReady
          BY <3>3 DEF Publish, PublishReady, Running
        <5> QED
          BY <4>2, <5>1, ToldSame, GivenSame
      <4> QED
        BY <4>1, <4>2
    <3> QED
      BY <3>3, <3>4, <3>5, OverStays
  <2> QED
    BY <2>1, <2>2, <2>3
<1> QED
  BY <1>1, EndBehind DEF EndLast

-----------------------------------------------------------------------------
\* The invariant holds at first.
LEMMA IInvInit == Init => IInv
<1> SUFFICES ASSUME Init PROVE IInv
  OBVIOUS
<1>1. Told = <<>> /\ worker.at = "prepare" /\ reader.at = "read" /\ reason = "none" /\ events = <<>>
  BY DEF Init, Told, Task
<1>2. InOrder /\ ReadyAfterParts /\ Announcements
  BY <1>1 DEF InOrder, ReadyAfterParts, Announcements, InTold
<1>3. EndLast
  BY <1>1 DEF EndLast
<1> QED
  BY <1>2, <1>3, TypedInit, ChainInit DEF IInv

\* Every step keeps the invariant.
LEMMA IInvStep == IInv /\ [Next]_vars => IInv'
<1> SUFFICES ASSUME IInv, [Next]_vars PROVE IInv'
  OBVIOUS
<1>1. Typed' /\ Positions'
  BY TypedStep DEF IInv
<1>2. Running' => Chain'
  BY ChainStep DEF IInv
<1>3. EndLast'
  BY EndStep DEF IInv
<1>4. InOrder' /\ ReadyAfterParts' /\ Announcements'
  BY ToldStep DEF IInv
<1> QED
  BY <1>1, <1>2, <1>3, <1>4 DEF IInv

\* The invariant says that the inbox tells the truth.
LEMMA IInvTrue == IInv => InboxTrue
<1>1. Eof.is = "eof"
  BY ItemKinds
<1> QED
  BY <1>1 DEF IInv, InboxTrue, RecordsWhole, InOrder, EndLast, IsRecord

\* The inbox tells the truth: the frontend is given Pi's records in order and
\* whole, Ready only behind the parts of the state it stands for, and Fatal last
\* (session_worker.rs, process.rs).
THEOREM InboxTrueHolds == Spec => []InboxTrue
<1> QED
  BY IInvInit, IInvStep, IInvTrue, PTL DEF Spec
=============================================================================
