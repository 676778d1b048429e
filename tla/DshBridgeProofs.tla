---------------------------- MODULE DshBridgeProofs ----------------------------
(***************************************************************************)
(* What DshBridge promises, for all bounds: prompts meet the session in    *)
(* order and under the models selected before them; what the client reads  *)
(* is about its session and up to date; a fence is answered with the model *)
(* in force where it stands.                                               *)
(*                                                                         *)
(* All three rest on the chain of model updates (Chain): a handler that    *)
(* waited for the updates before it comes after all of them, so the one    *)
(* that goes on is the first (Unblocked).  From that follow the order of   *)
(* the prompts (Order) and what was selected when they were admitted       *)
(* (Selected).  The channel is described by the sessions its frames are of *)
(* (Way), the queue last sent on it (Shows), and the pongs on it and what  *)
(* the client will have read before each (Answers); the fences of the      *)
(* client are tied to it and to the pings under way by Fences.             *)
(*                                                                         *)
(* Each action has a lemma, <Action>Does, that says what it does to the    *)
(* tasks in terms of four shapes (Leaves, Moves, Replaces, Adds) and what  *)
(* it sends; each part of the invariant has a lemma <Part>Step.            *)
(***************************************************************************)
EXTENDS DshBridge, TLAPS

\* What the fields hold.
TaskKinds  == {"text", "image", "steer", "steerImage", "clear", "set", "get", "ping", "command",
               "attach", "new", "newInput", "attached"}
TaskSet    == [id : Int, kind : TaskKinds, conn : Conns, waits : Nat, step : {"wait", "host", "catalog"}]
Plain      == [kind : {"model", "failed", "answer", "pong", "welcome"}, conn : Conns, id : Int, payload : Nat]
Queues     == [kind : {"asap"}, conn : Conns, id : Int, payload : Seq(Nat)]
FrameSet   == Plain \cup Queues
FenceSet   == [id : Nat, session : Conns, model : Int, failed : BOOLEAN]
EntrySet   == [id : Nat, conn : Conns, kind : TaskKinds, model : Nat]
ChoiceSet  == [id : Nat, conn : Conns]


TaskTypes == sent \in Nat /\ conn \in Conns /\ modelUpdates \in Nat /\ tasks \subseteq TaskSet
DataTypes ==
  /\ selection \in [Conns -> Nat] /\ nextStep \in [Conns -> Seq(Nat)]
  /\ toClient \in Seq(FrameSet)
  /\ session \in Conns /\ pings \in Seq(FenceSet) /\ shown \in Seq(Nat)
  /\ admitted \in Seq(EntrySet) /\ confirmed \in Seq(ChoiceSet) /\ captured \subseteq FenceSet

\* The elements of a sequence.
Items(s) == {s[i] : i \in DOMAIN s}

\* A task is named by its message, which comes after the one it waits for; what is
\* waited for is a model update.
Named ==
  /\ modelUpdates <= sent
  /\ \A t \in tasks :
       /\ t.conn <= conn
       /\ t.kind \in Changes => t.conn < MaxConns
       /\ t.kind = "text" => t.step = "wait"
       /\ IF t.kind = "attached" THEN t.id = -t.conn /\ t.waits = 0
          ELSE t.id \in 1..sent /\ t.waits < t.id
  /\ \A t, u \in tasks : t.id = u.id => t = u
  /\ \A t, w \in tasks : w.id = t.waits => w.kind \in Updates

\* A handler that does not wait for updates, and one that still waits for an update.
Free == {"attach", "new", "clear", "attached"}
Behind(t, u) == t.step = "wait" /\ u.id <= t.waits /\ ~Settled(t.waits)
\* A handler is behind every earlier update, and the last update is the last in the chain.
Chain ==
  /\ \A t, u \in tasks :
       t.kind \notin Free /\ u.kind \in Updates /\ u.id < t.id => Behind(t, u)
  /\ \A u \in tasks : u.kind \in Updates => u.id <= modelUpdates
  /\ modelUpdates # 0 => \E w \in tasks : w.id = modelUpdates /\ w.kind \in Updates

\* An admitted prompt was sent before the handlers under way that it must precede.
Ahead(e) ==
  /\ e.id \in 1..sent
  /\ \A t \in tasks :
       /\ t.kind \in Updates => e.id < t.id
       /\ e.kind = "text" /\ t.kind = "text" => e.id < t.id
       /\ e.kind \in Steered /\ t.kind \in Steered /\ t.conn = e.conn => e.id < t.id
\* Admitted prompts are in order, and those to come come after them.
Order ==
  /\ PromptsInOrder
  /\ \A e \in Items(admitted) : Ahead(e)
  /\ \A t \in tasks : t.step # "wait" => First(t)

\* A handler that has selected no model; what is selected was sent before its message.
Unset(t) == t.kind = "text" \/ (t.kind \in Updates /\ (t.kind = "set" => t.step # "catalog"))
Selected ==
  /\ ModelsBefore
  /\ \A e \in Items(admitted) : e.kind = "text" => e.model < e.id
  /\ \A m \in Items(confirmed) : m.conn <= conn /\ m.id <= selection[m.conn]
  /\ \A c \in Conns : selection[c] <= sent
  /\ \A t \in tasks : Unset(t) => selection[t.conn] < t.id
  /\ \A t, u \in tasks : t.kind = "text" /\ u.kind \in Updates /\ t.id < u.id => u.step = "wait"

\* A channel that leads a client of one session to another: every frame is of the session
\* welcomed before it, and the welcomes ascend.
Way(s, from, to) ==
  /\ from <= to
  /\ from = to \/ \E j \in DOMAIN s : s[j].kind = "welcome" /\ s[j].conn = to
  /\ \A i \in DOMAIN s :
       /\ from <= s[i].conn /\ s[i].conn <= to
       /\ IF s[i].kind = "welcome" THEN from < s[i].conn
          ELSE s[i].conn = from \/ \E j \in DOMAIN s : j < i /\ s[j].kind = "welcome" /\ s[j].conn = s[i].conn
  /\ \A i, j \in DOMAIN s :
       i < j => s[i].conn <= s[j].conn /\ (s[j].kind = "welcome" => s[i].conn < s[j].conn)

\* The last queue of session c on the channel, or the one shown when there is none.
QueueOf(f, c) == f.kind = "asap" /\ f.conn = c
Shows(s, at, seen, c, queue) ==
  \/ at = c /\ seen = queue /\ \A i \in DOMAIN s : ~QueueOf(s[i], c)
  \/ \E i \in DOMAIN s : QueueOf(s[i], c) /\ s[i].payload = queue /\ \A k \in DOMAIN s : i < k => ~QueueOf(s[k], c)

\* The client will be led to the session of the dispatcher, and shown its queue.
Informed ==
  /\ Way(toClient, session, conn)
  /\ Busy(conn) \/ Shows(toClient, session, shown, conn, nextStep[conn])

\* A model answers a fence well when it was selected before it, and after every other
\* model of its session that was; so the frame just before each pong has to tell, and the
\* oldest fence has to know when its pong comes first.  Pongs are in the order of the
\* fences, and no fence is passed over.
IsPong(f) == f.kind = "pong"
Good(v, id, made, c) == v < id /\ \A m \in made : m.conn = c /\ m.id < id => m.id <= v
Tells(f, id, made, c) == f.kind = "failed" \/ (f.kind = "model" /\ Good(f.payload, id, made, c))
Answers(s, p, made, c) ==
  /\ \A i, j \in DOMAIN s : IsPong(s[i]) /\ IsPong(s[j]) /\ i < j => s[i].id < s[j].id
  /\ \A i \in DOMAIN s : IsPong(s[i]) =>
       \E k \in DOMAIN p : p[k].id = s[i].id /\ \A l \in DOMAIN p : l < k =>
          \E j \in DOMAIN s : j < i /\ IsPong(s[j]) /\ s[j].id = p[l].id
  /\ \A i \in DOMAIN s : IsPong(s[i]) /\ i > 1 => Tells(s[i - 1], s[i].id, made, c)
  /\ \A i \in DOMAIN s : IsPong(s[i]) /\ i = 1 => p[1].failed \/ Good(p[1].model, p[1].id, made, c)

\* Welcomes ascend, and no pong follows one.
Welcomes(s, at, last) ==
  /\ at <= last
  /\ \A i \in DOMAIN s : s[i].kind = "welcome" => at < s[i].conn /\ s[i].conn <= last
  /\ \A i, j \in DOMAIN s : i < j /\ s[i].kind = "welcome" =>
       ~IsPong(s[j]) /\ (s[j].kind = "welcome" => s[i].conn < s[j].conn)

\* FenceExact, of one fence and the models made.
Exact(f, made) ==
  ~f.failed =>
    /\ f.model # -1 => f.model < f.id
    /\ \A m \in made : m.conn = f.session /\ m.id < f.id => m.id <= f.model

\* The fences are of the client's session, in order (Fenced); a ping under way has a fence
\* (Asked); a fence has a ping under way, or its pong is on the way (Awaited); and a fence
\* that was answered, or is about to be, comes before the updates under way (Passed).
Fenced ==
  /\ \A p \in Items(pings) : p.session = session /\ p.id \in 1..sent
  /\ \A k, l \in DOMAIN pings : k < l => pings[k].id < pings[l].id
Asked ==
  \A t \in tasks : t.kind = "ping" =>
    t.conn <= session /\ (t.conn = conn => \E p \in Items(pings) : p.id = t.id)
Awaited ==
  session = conn => \A p \in Items(pings) :
    \/ \E t \in tasks : t.kind = "ping" /\ t.conn = conn /\ t.id = p.id
    \/ \E f \in Items(toClient) : IsPong(f) /\ f.id = p.id
Earlier(id) == id \in 1..sent /\ \A t \in tasks : t.kind \in Updates => id < t.id
Passed ==
  /\ \A f \in Items(toClient) : IsPong(f) => Earlier(f.id)
  /\ \A f \in captured : Earlier(f.id) /\ Exact(f, Items(confirmed))
Fences ==
  /\ Welcomes(toClient, session, conn)
  /\ Fenced /\ Asked /\ Awaited /\ Passed
  /\ Answers(toClient, pings, Items(confirmed), session)

\* An update is unblocked when it is the first.
Unblocked(t) == \A u \in tasks : u.kind \in Updates => t.id <= u.id
FirstText(t) == \A u \in tasks : u.kind = "text" => t.id <= u.id

\* What a step does to the tasks: one is done, goes a step further, gives way to a new
\* connection, or begins.
Leaves(t) ==
  /\ t \in tasks /\ tasks' = tasks \ {t} /\ modelUpdates' = ClearUpdate(t) /\ UNCHANGED <<sent, conn>>
  /\ t.kind \in Updates => Unblocked(t)
Moves(t, step) ==
  /\ t \in tasks /\ tasks' = (tasks \ {t}) \cup {[t EXCEPT !.step = step]}
  /\ UNCHANGED <<sent, conn, modelUpdates>>
  /\ step \in {"host", "catalog"} /\ t.kind # "text" /\ t.step # "catalog" /\ First(t)
  /\ t.kind \notin Free => Unblocked(t)
Replaces(t) ==
  /\ t \in tasks /\ t.kind \in Changes /\ Current(t) /\ conn' = conn + 1
  /\ tasks' = (tasks \ {t}) \cup {Task(-(conn + 1), "attached", conn + 1, 0, "catalog")}
  /\ UNCHANGED <<sent, modelUpdates>>
Adds(kind) ==
  /\ kind \in Kinds /\ sent' = sent + 1 /\ UNCHANGED conn
  /\ kind \in Changes => conn < MaxConns
  /\ tasks' = tasks \cup {Task(sent + 1, kind, conn, WaitFor(kind),
                               IF kind \in {"attach", "new"} THEN "host" ELSE "wait")}
  /\ modelUpdates' = IF kind \in Updates THEN sent + 1 ELSE modelUpdates

-----------------------------------------------------------------------------
\* The four shapes keep the tasks named and in the chain.
LEMMA TaskIs ==
  ASSUME NEW id \in Int, NEW kind \in TaskKinds, NEW c \in Conns, NEW w \in Nat, NEW s \in {"wait", "host", "catalog"}
  PROVE  /\ Task(id, kind, c, w, s) \in TaskSet
         /\ Task(id, kind, c, w, s).id = id /\ Task(id, kind, c, w, s).kind = kind
         /\ Task(id, kind, c, w, s).conn = c /\ Task(id, kind, c, w, s).waits = w
         /\ Task(id, kind, c, w, s).step = s
BY DEF Task, TaskSet

LEMMA TaskFields ==
  ASSUME TaskTypes, NEW t \in tasks
  PROVE  t \in TaskSet /\ t.id \in Int /\ t.kind \in TaskKinds /\ t.conn \in Conns /\ t.conn \in Nat \ {0} /\ t.waits \in Nat
         /\ t.step \in {"wait", "host", "catalog"}
BY BoundsAssumption DEF TaskTypes, TaskSet, Conns

LEMMA LeavesKeeps ==
  ASSUME TaskTypes, Named, Chain, NEW t \in tasks, Leaves(t)
  PROVE  TaskTypes' /\ Named' /\ Chain'
<1>1. /\ tasks' = tasks \ {t} /\ sent' = sent /\ conn' = conn
      /\ modelUpdates' = IF modelUpdates = t.id THEN 0 ELSE modelUpdates
      /\ t.kind \in Updates => Unblocked(t)
  BY DEF Leaves, ClearUpdate
<1>2. TaskTypes'
  BY <1>1 DEF TaskTypes
<1>3. Named'
  <2>1. modelUpdates' <= sent'
    BY <1>1 DEF Named, TaskTypes
  <2> QED
    BY <1>1, <2>1 DEF Named
<1>4. Chain'
  <2>1. ASSUME NEW a \in tasks', NEW u \in tasks', a.kind \notin Free, u.kind \in Updates, u.id < a.id
        PROVE  Behind(a, u)'
    <3>1. a \in tasks /\ u \in tasks /\ u # t
      BY <1>1
    <3>2. Behind(a, u)
      BY <2>1, <3>1 DEF Chain
    <3>3. PICK w \in tasks : w.id = a.waits
      BY <3>2 DEF Behind, Settled
    <3>4. w # t
      <4>1. SUFFICES ASSUME w = t PROVE FALSE
        OBVIOUS
      <4>2. t.kind \in Updates
        BY <3>1, <3>3, <4>1 DEF Named
      <4>3. t.id <= u.id /\ u.id <= t.id
        BY <1>1, <2>1, <3>1, <3>2, <3>3, <4>1, <4>2 DEF Unblocked, Behind
      <4>4. u.id = t.id
        BY <3>1, <4>3, TaskFields
      <4> QED
        BY <3>1, <4>4 DEF Named
    <3> QED
      BY <1>1, <3>2, <3>3, <3>4 DEF Behind, Settled
  <2>2. ASSUME NEW u \in tasks', u.kind \in Updates PROVE u.id <= modelUpdates'
    <3>1. u \in tasks /\ u # t /\ u.id <= modelUpdates
      BY <1>1, <2>2 DEF Chain
    <3>2. modelUpdates # t.id
      <4>1. SUFFICES ASSUME modelUpdates = t.id PROVE FALSE
        OBVIOUS
      <4>2. t.id # 0
        BY TaskFields DEF Named
      <4>3. t.kind \in Updates
        BY <4>1, <4>2 DEF Chain, Named
      <4>4. t.id <= u.id
        BY <1>1, <2>2, <3>1, <4>3 DEF Unblocked
      <4>5. t.id = u.id
        BY <3>1, <4>1, <4>4, TaskFields
      <4> QED
        BY <3>1, <4>5 DEF Named
    <3> QED
      BY <1>1, <3>1, <3>2
  <2>3. ASSUME modelUpdates' # 0 PROVE \E w \in tasks' : w.id = modelUpdates' /\ w.kind \in Updates
    <3>1. modelUpdates' = modelUpdates /\ modelUpdates # t.id
      BY <1>1, <2>3
    <3>2. PICK w \in tasks : w.id = modelUpdates /\ w.kind \in Updates
      BY <2>3, <3>1 DEF Chain
    <3> QED
      BY <1>1, <3>1, <3>2
  <2> QED
    BY <2>1, <2>2, <2>3 DEF Chain
<1> QED
  BY <1>2, <1>3, <1>4

\* A moved task is the old one at another step.
Alike(a, b) == a.id = b.id /\ a.kind = b.kind /\ a.conn = b.conn /\ a.waits = b.waits
LEMMA MovesShape ==
  ASSUME TaskTypes, NEW t \in tasks, NEW s \in {"host", "catalog"}, Moves(t, s)
  PROVE  /\ tasks' \subseteq TaskSet
         /\ \A a \in tasks' : \E b \in tasks : Alike(a, b) /\ ((a = b /\ b # t) \/ (b = t /\ a.step = s))
         /\ \A b \in tasks : \E a \in tasks' : Alike(a, b) /\ ((a = b /\ b # t) \/ (b = t /\ a.step = s))
<1> DEFINE m == [t EXCEPT !.step = s]
<1>0. t \in TaskSet
  BY TaskFields
<1>1. m \in TaskSet /\ Alike(m, t) /\ m.step = s
  BY <1>0 DEF Alike, TaskSet
<1>2. tasks' = (tasks \ {t}) \cup {m}
  BY DEF Moves
<1>3. \A b \in tasks : Alike(b, b)
  BY DEF Alike
<1> HIDE DEF m
<1> QED
  BY <1>1, <1>2, <1>3 DEF TaskTypes

LEMMA MovesKeeps ==
  ASSUME TaskTypes, Named, Chain, NEW t \in tasks, NEW s \in {"host", "catalog"}, Moves(t, s)
  PROVE  TaskTypes' /\ Named' /\ Chain'
<1>1. /\ tasks' \subseteq TaskSet
      /\ \A a \in tasks' : \E b \in tasks : Alike(a, b) /\ ((a = b /\ b # t) \/ (b = t /\ a.step = s))
      /\ \A b \in tasks : \E a \in tasks' : Alike(a, b)
  BY MovesShape
<1>2. sent' = sent /\ conn' = conn /\ modelUpdates' = modelUpdates /\ t.kind # "text"
      /\ (t.kind \notin Free => Unblocked(t))
  BY DEF Moves
<1>3. TaskTypes'
  BY <1>1, <1>2 DEF TaskTypes
<1>4. Named'
  <2>1. modelUpdates' <= sent'
    BY <1>2 DEF Named
  <2>2. ASSUME NEW a \in tasks'
        PROVE  /\ a.conn <= conn'
               /\ a.kind \in Changes => a.conn < MaxConns
               /\ a.kind = "text" => a.step = "wait"
               /\ IF a.kind = "attached" THEN a.id = -a.conn /\ a.waits = 0
                  ELSE a.id \in 1..sent' /\ a.waits < a.id
    BY <1>1, <1>2 DEF Named, Alike
  <2>3. ASSUME NEW a \in tasks', NEW u \in tasks', a.id = u.id PROVE a = u
    <3>1. PICK b \in tasks : Alike(a, b) /\ ((a = b /\ b # t) \/ (b = t /\ a.step = s))
      BY <1>1
    <3>2. PICK v \in tasks : Alike(u, v) /\ ((u = v /\ v # t) \/ (v = t /\ u.step = s))
      BY <1>1
    <3>3. b = v
      BY <2>3, <3>1, <3>2 DEF Named, Alike
    <3>5. a.step = u.step
      BY <3>1, <3>2, <3>3
    <3> QED
      BY <1>1, <3>1, <3>2, <3>3, <3>5 DEF Alike, TaskSet
  <2>4. ASSUME NEW a \in tasks', NEW w \in tasks', w.id = a.waits PROVE w.kind \in Updates
    BY <1>1, <2>4 DEF Named, Alike
  <2> QED
    BY <2>1, <2>2, <2>3, <2>4 DEF Named
<1>5. Chain'
  <2>1. ASSUME NEW a \in tasks', NEW u \in tasks', a.kind \notin Free, u.kind \in Updates, u.id < a.id
        PROVE  Behind(a, u)'
    <3>1. PICK b \in tasks : Alike(a, b) /\ ((a = b /\ b # t) \/ (b = t /\ a.step = s))
      BY <1>1
    <3>2. PICK v \in tasks : Alike(u, v)
      BY <1>1
    <3>3. Behind(b, v)
      BY <2>1, <3>1, <3>2 DEF Chain, Alike
    <3>4. b # t
      <4>1. SUFFICES ASSUME b = t PROVE FALSE
        OBVIOUS
      <4>2. t.id <= v.id /\ v.id < t.id
        BY <1>2, <2>1, <3>1, <3>2, <4>1 DEF Unblocked, Alike
      <4> QED
        BY <3>2, <4>2, TaskFields
    <3>5. PICK w \in tasks : w.id = b.waits
      BY <3>3 DEF Behind, Settled
    <3>6. \E x \in tasks' : x.id = a.waits
      BY <1>1, <3>1, <3>5 DEF Alike
    <3> QED
      BY <3>1, <3>2, <3>3, <3>4, <3>6 DEF Behind, Settled, Alike
  <2>2. ASSUME NEW u \in tasks', u.kind \in Updates PROVE u.id <= modelUpdates'
    BY <1>1, <1>2, <2>2 DEF Chain, Alike
  <2>3. ASSUME modelUpdates' # 0 PROVE \E w \in tasks' : w.id = modelUpdates' /\ w.kind \in Updates
    BY <1>1, <1>2, <2>3 DEF Chain, Alike
  <2> QED
    BY <2>1, <2>2, <2>3 DEF Chain
<1> QED
  BY <1>3, <1>4, <1>5

\* The task of a message just sent.
LEMMA NewTask ==
  ASSUME TaskTypes, Named, NEW kind \in Kinds,
         NEW n, n = Task(sent + 1, kind, conn, WaitFor(kind), IF kind \in {"attach", "new"} THEN "host" ELSE "wait")
  PROVE  /\ n \in TaskSet /\ n.id = sent + 1 /\ n.kind = kind /\ n.conn = conn /\ n.waits \in 0..sent
         /\ kind \in TaskKinds /\ kind # "attached"
         /\ kind \in Free => n.waits = 0
         /\ kind \notin Free => n.waits = modelUpdates /\ n.step = "wait"
         /\ \A a \in tasks : a.id <= sent /\ a.id # 0 /\ a.waits <= sent /\ a.id # n.id
<1>1. kind \in TaskKinds /\ kind # "attached"
  BY KindsAssumption DEF TaskKinds
<1>2. WaitFor(kind) \in 0..sent
  BY DEF WaitFor, TaskTypes, Named
<1>3. n \in TaskSet /\ n.id = sent + 1 /\ n.kind = kind /\ n.conn = conn /\ n.waits = WaitFor(kind)
      /\ n.step = IF kind \in {"attach", "new"} THEN "host" ELSE "wait"
  BY <1>1, <1>2, TaskIs DEF TaskTypes
<1>4. ASSUME NEW a \in tasks PROVE a.id <= sent /\ a.id # 0 /\ a.waits <= sent /\ a.id # sent + 1
  BY TaskFields DEF Named, TaskTypes
<1> QED
  BY <1>1, <1>2, <1>3, <1>4 DEF WaitFor, Free

LEMMA AddsKeeps ==
  ASSUME TaskTypes, Named, Chain, NEW kind, Adds(kind)
  PROVE  TaskTypes' /\ Named' /\ Chain'
<1> DEFINE n == Task(sent + 1, kind, conn, WaitFor(kind), IF kind \in {"attach", "new"} THEN "host" ELSE "wait")
<1>1. /\ kind \in Kinds /\ sent' = sent + 1 /\ conn' = conn /\ (kind \in Changes => conn < MaxConns)
      /\ tasks' = tasks \cup {n}
      /\ modelUpdates' = IF kind \in Updates THEN sent + 1 ELSE modelUpdates
  BY DEF Adds
<1>2. /\ n \in TaskSet /\ n.id = sent + 1 /\ n.kind = kind /\ n.conn = conn /\ n.waits \in 0..sent
      /\ kind \in TaskKinds /\ kind # "attached"
      /\ kind \in Free => n.waits = 0
      /\ kind \notin Free => n.waits = modelUpdates /\ n.step = "wait"
      /\ \A a \in tasks : a.id <= sent /\ a.id # 0 /\ a.waits <= sent /\ a.id # n.id
  BY <1>1, NewTask
<1> HIDE DEF n
<1>3. sent \in Nat /\ conn \in Nat \ {0} /\ modelUpdates \in 0..sent /\ modelUpdates' \in 0..sent'
  BY <1>1, BoundsAssumption DEF TaskTypes, Named, Conns
<1>4. TaskTypes'
  BY <1>1, <1>2, <1>3 DEF TaskTypes
<1>5. Named'
  <2>1. ASSUME NEW a \in tasks'
        PROVE  /\ a.conn <= conn'
               /\ a.kind \in Changes => a.conn < MaxConns
               /\ a.kind = "text" => a.step = "wait"
               /\ IF a.kind = "attached" THEN a.id = -a.conn /\ a.waits = 0
                  ELSE a.id \in 1..sent' /\ a.waits < a.id
    <3>1. CASE a = n
      BY <1>1, <1>2, <1>3, <3>1 DEF Free
    <3>2. CASE a \in tasks
      BY <1>1, <1>3, <3>2, TaskFields DEF Named
    <3> QED
      BY <1>1, <3>1, <3>2
  <2>2. \A a, u \in tasks' : a.id = u.id => a = u
    BY <1>1, <1>2 DEF Named
  <2>3. ASSUME NEW a \in tasks', NEW w \in tasks', w.id = a.waits PROVE w.kind \in Updates
    <3>1. w \in tasks
      BY <1>1, <1>2, <1>3, <2>3
    <3>2. CASE a \in tasks
      BY <2>3, <3>1, <3>2 DEF Named
    <3>3. CASE a = n
      <4>1. w.id = modelUpdates /\ modelUpdates # 0
        BY <1>2, <2>3, <3>1, <3>3
      <4> QED
        BY <3>1, <4>1 DEF Chain, Named
    <3> QED
      BY <1>1, <3>2, <3>3
  <2> QED
    BY <1>3, <2>1, <2>2, <2>3 DEF Named
<1>6. Chain'
  <2>1. ASSUME NEW a \in tasks', NEW u \in tasks', a.kind \notin Free, u.kind \in Updates, u.id < a.id
        PROVE  Behind(a, u)'
    <3>1. u \in tasks
      BY <1>1, <1>2, <1>3, <2>1, TaskFields
    <3>2. CASE a \in tasks
      BY <1>1, <2>1, <3>1, <3>2 DEF Chain, Behind, Settled
    <3>3. CASE a = n
      <4>1. a.waits = modelUpdates /\ a.step = "wait" /\ u.id <= modelUpdates
        BY <1>2, <2>1, <3>1, <3>3 DEF Chain
      <4>2. modelUpdates # 0
        BY <1>3, <2>1, <3>1, <4>1, TaskFields DEF Named, Updates
      <4> QED
        BY <1>1, <4>1, <4>2 DEF Chain, Behind, Settled
    <3> QED
      BY <1>1, <3>2, <3>3
  <2>2. ASSUME NEW u \in tasks', u.kind \in Updates PROVE u.id <= modelUpdates'
    BY <1>1, <1>2, <1>3, <2>2, TaskFields DEF Chain
  <2>3. ASSUME modelUpdates' # 0 PROVE \E w \in tasks' : w.id = modelUpdates' /\ w.kind \in Updates
    BY <1>1, <1>2, <2>3 DEF Chain
  <2> QED
    BY <2>1, <2>2, <2>3 DEF Chain
<1> QED
  BY <1>4, <1>5, <1>6

LEMMA ReplacesKeeps ==
  ASSUME TaskTypes, Named, Chain, NEW t \in tasks, Replaces(t)
  PROVE  TaskTypes' /\ Named' /\ Chain'
<1> DEFINE n == Task(-(conn + 1), "attached", conn + 1, 0, "catalog")
<1>1. /\ tasks' = (tasks \ {t}) \cup {n} /\ conn' = conn + 1 /\ UNCHANGED <<sent, modelUpdates>>
      /\ t.kind \in Changes /\ t.conn = conn
  BY DEF Replaces, Current
<1>2. conn + 1 \in Conns /\ conn \in Nat \ {0} /\ sent \in Nat /\ modelUpdates \in 0..sent
  BY <1>1, BoundsAssumption DEF TaskTypes, Named, Conns
<1>3. /\ n \in TaskSet /\ n.id = -(conn + 1) /\ n.kind = "attached" /\ n.conn = conn + 1 /\ n.waits = 0
  BY <1>2, TaskIs DEF TaskKinds
<1> HIDE DEF n
<1>4. \A a \in tasks : a.id # n.id /\ a.id # 0 /\ a.waits \in Nat /\ a.id > -(conn + 1)
  BY <1>2, <1>3, TaskFields DEF Named
<1>5. TaskTypes'
  BY <1>1, <1>2, <1>3 DEF TaskTypes
<1>6. Named'
  <2>1. ASSUME NEW a \in tasks'
        PROVE  /\ a.conn <= conn'
               /\ a.kind \in Changes => a.conn < MaxConns
               /\ a.kind = "text" => a.step = "wait"
               /\ IF a.kind = "attached" THEN a.id = -a.conn /\ a.waits = 0
                  ELSE a.id \in 1..sent' /\ a.waits < a.id
    <3>1. CASE a = n
      BY <1>1, <1>2, <1>3, <3>1 DEF Changes
    <3>2. CASE a \in tasks
      BY <1>1, <1>2, <3>2, TaskFields DEF Named
    <3> QED
      BY <1>1, <3>1, <3>2
  <2>2. \A a, u \in tasks' : a.id = u.id => a = u
    BY <1>1, <1>3, <1>4 DEF Named
  <2>3. \A a, w \in tasks' : w.id = a.waits => w.kind \in Updates
    BY <1>1, <1>2, <1>3, <1>4 DEF Named
  <2> QED
    BY <1>1, <1>2, <2>1, <2>2, <2>3 DEF Named
<1>7. Chain'
  <2>1. t.kind \notin Updates
    BY <1>1 DEF Changes, Updates
  <2>2. ASSUME NEW a \in tasks', NEW u \in tasks', a.kind \notin Free, u.kind \in Updates, u.id < a.id
        PROVE  Behind(a, u)'
    <3>1. a \in tasks /\ u \in tasks
      BY <1>1, <1>3, <2>2 DEF Free, Updates
    <3>2. Behind(a, u)
      BY <2>2, <3>1 DEF Chain
    <3>3. PICK w \in tasks : w.id = a.waits
      BY <3>2 DEF Behind, Settled
    <3>4. w \in tasks'
      BY <1>1, <2>1, <3>1, <3>3 DEF Named
    <3> QED
      BY <3>2, <3>3, <3>4 DEF Behind, Settled
  <2>3. ASSUME NEW u \in tasks', u.kind \in Updates PROVE u.id <= modelUpdates'
    BY <1>1, <1>3, <2>3 DEF Chain, Updates
  <2>4. ASSUME modelUpdates' # 0 PROVE \E w \in tasks' : w.id = modelUpdates' /\ w.kind \in Updates
    BY <1>1, <2>1, <2>4 DEF Chain
  <2> QED
    BY <2>2, <2>3, <2>4 DEF Chain
<1> QED
  BY <1>5, <1>6, <1>7

-----------------------------------------------------------------------------
\* The structure the other parts rest on.
Base == TaskTypes /\ DataTypes /\ Named /\ Chain

\* A handler that waits for no update is the first, and so is the one that goes on.
LEMMA Running ==
  ASSUME Base, NEW t \in tasks, t.step # "wait" \/ Settled(t.waits), t.kind \notin Free
  PROVE  Unblocked(t)
<1> SUFFICES ASSUME NEW u \in tasks, u.kind \in Updates, ~(t.id <= u.id) PROVE FALSE
  BY DEF Unblocked
<1>1. u.id < t.id
  BY TaskFields DEF Base
<1>2. Behind(t, u)
  BY <1>1 DEF Base, Chain
<1> QED
  BY <1>2 DEF Behind

LEMMA Resumed ==
  ASSUME Base, NEW t, Next1(t)
  PROVE  /\ t \in tasks /\ t.step = "wait" /\ First(t)
         /\ t.kind \notin Free => Unblocked(t)
         /\ t.kind \in Updates \cup {"text"} => FirstText(t)
<1>1. t \in tasks /\ t.step = "wait" /\ Settled(t.waits) /\ First(t) /\ \A u \in tasks : Ready(u) => t.id <= u.id
  BY DEF Next1, Ready
<1>2. t.kind \notin Free => Unblocked(t)
  BY <1>1, Running
<1>3. ASSUME t.kind \in Updates \cup {"text"}, NEW u \in tasks, u.kind = "text" PROVE t.id <= u.id
  <2>1. SUFFICES ASSUME u.id < t.id PROVE FALSE
    BY <1>1, TaskFields DEF Base
  <2>2. Unblocked(t)
    BY <1>2, <1>3 DEF Free, Updates
  <2>3. u.step = "wait" /\ First(u)
    BY <1>3 DEF Base, Named, First, Prompts, Steered
  <2>4. ~Settled(u.waits)
    BY <1>1, <2>1, <2>3, TaskFields DEF Base, Ready
  <2>5. PICK w \in tasks : w.id = u.waits
    BY <2>4 DEF Settled
  <2>6. w.kind \in Updates /\ w.id < u.id
    BY <1>3, <2>5 DEF Base, Named
  <2>7. t.id <= w.id
    BY <2>2, <2>6 DEF Unblocked
  <2> QED
    BY <1>1, <2>1, <2>6, <2>7, TaskFields DEF Base
<1> QED
  BY <1>1, <1>2, <1>3 DEF FirstText

-----------------------------------------------------------------------------
\* Reading and writing a channel.
LEMMA TailOf ==
  ASSUME NEW S, NEW s \in Seq(S), s # <<>>
  PROVE  /\ Tail(s) \in Seq(S) /\ Head(s) \in S /\ Head(s) = s[1]
         /\ Len(s) \in Nat \ {0} /\ Len(Tail(s)) = Len(s) - 1
         /\ DOMAIN s = 1..Len(s) /\ DOMAIN Tail(s) = 1..(Len(s) - 1)
         /\ \A i \in 1..(Len(s) - 1) : Tail(s)[i] = s[i + 1]
OBVIOUS

LEMMA AppendOf ==
  ASSUME NEW S, NEW s \in Seq(S), NEW e \in S
  PROVE  /\ Append(s, e) \in Seq(S) /\ Append(s, e) # <<>>
         /\ Len(s) \in Nat /\ Len(Append(s, e)) = Len(s) + 1
         /\ DOMAIN s = 1..Len(s) /\ DOMAIN Append(s, e) = 1..(Len(s) + 1)
         /\ \A i \in 1..Len(s) : Append(s, e)[i] = s[i]
         /\ Append(s, e)[Len(s) + 1] = e
OBVIOUS

LEMMA JoinOf ==
  ASSUME NEW S, NEW s \in Seq(S), NEW e \in S, NEW f \in S
  PROVE  /\ s \o << >> = s /\ s \o <<e>> = Append(s, e)
         /\ s \o <<e, f>> = Append(Append(s, e), f)
<1>1. s \o << >> = s /\ s \o <<e>> = Append(s, e)
  OBVIOUS
<1>2. <<e, f>> \in Seq(S) /\ <<e>> \in Seq(S) /\ <<e, f>> = Append(<<e>>, f)
  OBVIOUS
<1>3. \A t \in Seq(S) : s \o Append(t, f) = Append(s \o t, f)
  OBVIOUS
<1>4. s \o <<e, f>> = Append(s \o <<e>>, f)
  BY <1>2, <1>3
<1> QED
  BY <1>1, <1>4

LEMMA ItemsAre == ASSUME NEW S, NEW s \in Seq(S) PROVE Items(s) \subseteq S
BY DEF Items

LEMMA ItemsWritten ==
  ASSUME NEW S, NEW s \in Seq(S), NEW e \in S
  PROVE  Items(Append(s, e)) = Items(s) \cup {e}
<1> DEFINE t == Append(s, e)
<1>1. /\ Len(s) \in Nat /\ DOMAIN s = 1..Len(s) /\ DOMAIN t = 1..(Len(s) + 1)
      /\ \A i \in 1..Len(s) : t[i] = s[i]
      /\ t[Len(s) + 1] = e
  BY AppendOf
<1>2. DOMAIN t = DOMAIN s \cup {Len(s) + 1}
  BY <1>1
<1> HIDE DEF t
<1> QED
  BY <1>1, <1>2 DEF Items, t

LEMMA FrameFields ==
  ASSUME NEW f \in FrameSet
  PROVE  /\ f.kind \in {"model", "failed", "answer", "pong", "asap", "welcome"} /\ f.conn \in Conns /\ f.id \in Int
         /\ f.kind = "asap" => f.payload \in Seq(Nat)
         /\ f.kind # "asap" => f.payload \in Nat
BY DEF FrameSet, Plain, Queues

\* What a guarded reply writes.
Writes(t, f) == IF Current(t) THEN toClient' = Append(toClient, f) ELSE UNCHANGED toClient
LEMMA GuardedWrites ==
  ASSUME Base, NEW t, NEW f \in FrameSet, Send(Guarded(t, <<f>>))
  PROVE  Writes(t, f)
<1>1. toClient \in Seq(FrameSet)
  BY DEF Base, DataTypes
<1> QED
  BY <1>1, JoinOf DEF Send, Guarded, Writes

-----------------------------------------------------------------------------
\* What the steps of the dispatcher do.
Shown(c) == toClient' = Append(toClient, Queue(c))

LEMMA ResumeDoes ==
  ASSUME Base, Resume
  PROVE  /\ UNCHANGED <<selection, session, pings, shown, confirmed, captured>>
         /\ \E t \in tasks :
              \/ /\ Leaves(t) /\ t.conn # conn /\ UNCHANGED <<nextStep, toClient, admitted>>
              \/ /\ Leaves(t) /\ t.conn = conn /\ t.kind = "text" /\ Unblocked(t) /\ FirstText(t)
                 /\ Admit(t.conn, t.id, t.kind) /\ UNCHANGED <<nextStep, toClient>>
              \/ /\ Leaves(t) /\ t.conn = conn /\ t.kind = "steer" /\ Unblocked(t) /\ First(t)
                 /\ Admit(t.conn, t.id, t.kind)
                 /\ nextStep' = [nextStep EXCEPT ![conn] = Append(@, t.id)] /\ Shown(conn)
              \/ /\ Leaves(t) /\ t.conn = conn /\ t.kind = "clear" /\ UNCHANGED admitted
                 /\ nextStep' = [nextStep EXCEPT ![conn] = <<>>] /\ Shown(conn)
              \/ /\ \E s \in {"host", "catalog"} : Moves(t, s)
                 /\ t.kind \in Updates => FirstText(t)
                 /\ UNCHANGED <<nextStep, toClient, admitted>>
<1>1. PICK t \in tasks :
        /\ Next1(t)
        /\ Abandon(t) \/ AdmitText(t) \/ Steer(t) \/ AskHost(t)
        /\ UNCHANGED <<sent, conn, client, confirmed, captured>>
  BY DEF Resume
<1>2. /\ First(t) /\ t.step = "wait"
      /\ t.kind \notin Free => Unblocked(t)
      /\ t.kind \in Updates \cup {"text"} => FirstText(t)
  BY <1>1, Resumed
<1>3. UNCHANGED <<sent, conn, session, pings, shown, confirmed, captured>>
  BY <1>1 DEF client
<1>4. ASSUME Done(t) PROVE Leaves(t)
  BY <1>2, <1>3, <1>4 DEF Done, Leaves, Free, Updates
<1>5. CASE Abandon(t)
  BY <1>3, <1>4, <1>5 DEF Abandon, Stale, Current, host
<1>6. CASE AdmitText(t)
  BY <1>2, <1>3, <1>4, <1>6 DEF AdmitText, Stale, Current, host, Free, Updates
<1>7. CASE Steer(t)
  <2>1. t.conn = conn /\ Leaves(t) /\ UNCHANGED selection
    BY <1>3, <1>4, <1>7 DEF Steer, Stale, Current
  <2>3. nextStep' = [nextStep EXCEPT ![conn] = IF t.kind = "steer" THEN Append(@, t.id) ELSE <<>>]
    BY <1>7, <2>1 DEF Steer
  <2>4. Shown(conn)
    <3>1. nextStep \in [Conns -> Seq(Nat)] /\ conn \in Conns
      BY DEF Base, DataTypes, TaskTypes
    <3>2. t.id \in Nat
      BY <1>7 DEF Steer, Base, Named
    <3>3. nextStep'[conn] \in Seq(Nat)
      <4>1. Append(nextStep[conn], t.id) \in Seq(Nat)
        BY <3>1, <3>2
      <4> QED
        BY <2>3, <3>1, <4>1
    <3>4. Queue(conn) \in FrameSet
      BY <3>1, <3>3 DEF Queue, Frame, FrameSet, Queues
    <3>5. Send(Guarded(t, <<Queue(conn)>>))
      BY <1>7, <2>1 DEF Steer
    <3> QED
      BY <2>1, <3>4, <3>5, GuardedWrites DEF Writes, Shown, Current
  <2>5. CASE t.kind = "steer"
    BY <1>2, <1>3, <1>7, <2>1, <2>3, <2>4, <2>5 DEF Steer, Free
  <2>6. CASE t.kind = "clear"
    BY <1>3, <1>7, <2>1, <2>3, <2>4, <2>6 DEF Steer
  <2> QED
    BY <1>7, <2>5, <2>6 DEF Steer
<1>8. CASE AskHost(t)
  <2>1. PICK s \in {"host", "catalog"} : Step(t, s)
    BY <1>8 DEF AskHost
  <2>2. Moves(t, s)
    BY <1>2, <1>3, <1>8, <2>1 DEF Moves, Step, AskHost
  <2> QED
    BY <1>2, <1>3, <1>8, <2>2 DEF AskHost, host
<1> QED
  BY <1>1, <1>5, <1>6, <1>7, <1>8

\* The frames of an answer, a failure and a pong.
LEMMA AnswerIs ==
  ASSUME Base, NEW t \in tasks
  PROVE  /\ Answer(t) \in FrameSet /\ Answer(t).kind = "answer" /\ Answer(t).conn = t.conn
         /\ ModelFailed(t.conn) \in FrameSet /\ ModelFailed(t.conn).kind = "failed"
         /\ ModelFailed(t.conn).conn = t.conn
         /\ Pong(t) \in FrameSet /\ IsPong(Pong(t)) /\ Pong(t).conn = t.conn /\ Pong(t).id = t.id
<1>1. t.id \in Int /\ t.conn \in Conns
  BY TaskFields DEF Base
<1> QED
  BY <1>1 DEF Answer, ModelFailed, Pong, IsPong, Frame, FrameSet, Plain

\* A task that awaited the host leaves.
LEMMA DoneDoes ==
  ASSUME Base, NEW t \in tasks, t.step # "wait", UNCHANGED <<sent, conn>>, Done(t)
  PROVE  Leaves(t) /\ (t.kind \notin Free => Unblocked(t))
<1>1. t.kind \notin Free => Unblocked(t)
  BY Running
<1> QED
  BY <1>1 DEF Done, Leaves, Free, Updates

LEMMA ImageDoes ==
  ASSUME Base, ImageDone
  PROVE  /\ UNCHANGED <<selection, nextStep, session, pings, shown, confirmed, captured>>
         /\ \E t \in tasks :
              /\ Leaves(t) /\ t.kind = "image" /\ Unblocked(t)
              /\ \/ Admit(t.conn, t.id, t.kind) /\ UNCHANGED toClient
                 \/ Writes(t, Answer(t)) /\ UNCHANGED admitted
<1>1. PICK t \in tasks :
        /\ HostAnswers(t, {"image"}, "host")
        /\ Done(t)
        /\ \/ Admit(t.conn, t.id, t.kind) /\ UNCHANGED toClient
           \/ Fails("image") /\ Send(Guarded(t, <<Answer(t)>>)) /\ UNCHANGED admitted
        /\ UNCHANGED <<sent, conn, host, client, confirmed, captured>>
  BY DEF ImageDone
<1>2. t.kind = "image" /\ t.step = "host"
  BY <1>1 DEF HostAnswers
<1>3. UNCHANGED <<sent, conn, selection, nextStep, session, pings, shown, confirmed, captured>>
  BY <1>1 DEF host, client
<1>4. Leaves(t) /\ Unblocked(t)
  BY <1>1, <1>2, <1>3, DoneDoes DEF Free
<1>5. Send(Guarded(t, <<Answer(t)>>)) => Writes(t, Answer(t))
  BY AnswerIs, GuardedWrites
<1> QED
  BY <1>1, <1>2, <1>3, <1>4, <1>5

LEMMA SteerImageDoes ==
  ASSUME Base, SteerImageDone
  PROVE  /\ UNCHANGED <<selection, session, pings, shown, confirmed, captured>>
         /\ \E t \in tasks :
              /\ Leaves(t) /\ t.kind = "steerImage" /\ t.step = "host" /\ Unblocked(t)
              /\ \/ nextStep' = [nextStep EXCEPT ![t.conn] = Append(@, t.id)] /\ Admit(t.conn, t.id, t.kind)
                 \/ UNCHANGED <<nextStep, admitted>>
              /\ IF t.conn = conn THEN Shown(conn) ELSE UNCHANGED toClient
<1>1. PICK t \in tasks :
        /\ HostAnswers(t, {"steerImage"}, "host")
        /\ Done(t)
        /\ \/ nextStep' = [nextStep EXCEPT ![t.conn] = Append(@, t.id)] /\ Admit(t.conn, t.id, t.kind)
           \/ Fails("image") /\ UNCHANGED <<nextStep, admitted>>
        /\ Send(Guarded(t, <<Queue(t.conn)>>))
        /\ UNCHANGED <<sent, conn, selection, client, confirmed, captured>>
  BY DEF SteerImageDone
<1>2. t.kind = "steerImage" /\ t.step = "host"
  BY <1>1 DEF HostAnswers
<1>3. UNCHANGED <<sent, conn, selection, session, pings, shown, confirmed, captured>>
  BY <1>1 DEF client
<1>4. Leaves(t) /\ Unblocked(t)
  BY <1>1, <1>2, <1>3, DoneDoes DEF Free
<1>5. Writes(t, Queue(t.conn))
  <2>1. nextStep \in [Conns -> Seq(Nat)] /\ t.conn \in Conns
    BY TaskFields DEF Base, DataTypes
  <2>2. t.id \in Nat
    BY <1>2 DEF Base, Named
  <2>3. Append(nextStep[t.conn], t.id) \in Seq(Nat)
    BY <2>1, <2>2
  <2>4. nextStep'[t.conn] \in Seq(Nat)
    BY <1>1, <2>1, <2>3
  <2>5. Queue(t.conn) \in FrameSet
    BY <2>1, <2>4 DEF Queue, Frame, FrameSet, Queues
  <2> QED
    BY <1>1, <2>5, GuardedWrites
<1>6. IF t.conn = conn THEN Shown(conn) ELSE UNCHANGED toClient
  BY <1>5 DEF Writes, Shown, Current
<1> QED
  BY <1>1, <1>2, <1>3, <1>4, <1>6

LEMMA SelectDoes ==
  ASSUME Base, SelectDone
  PROVE  /\ UNCHANGED <<nextStep, session, pings, shown, admitted, captured>>
         /\ \E t \in tasks :
              /\ t.kind = "set" /\ t.step = "host" /\ Unblocked(t)
              /\ \/ /\ t.conn = conn /\ Moves(t, "catalog")
                    /\ selection' = [selection EXCEPT ![conn] = t.id]
                    /\ confirmed' = Append(confirmed, [id |-> t.id, conn |-> conn])
                    /\ UNCHANGED toClient
                 \/ /\ Leaves(t) /\ UNCHANGED <<selection, confirmed>>
                    /\ UNCHANGED toClient \/ Writes(t, ModelFailed(t.conn))
<1>1. PICK t \in tasks :
    /\ HostAnswers(t, {"set"}, "host")
    /\ \/ /\ ~Stale(t)
          /\ selection' = [selection EXCEPT ![t.conn] = t.id]
          /\ confirmed' = Append(confirmed, [id |-> t.id, conn |-> t.conn])
          /\ Step(t, "catalog")
          /\ UNCHANGED toClient
       \/ Stale(t) /\ Done(t) /\ UNCHANGED <<selection, confirmed, toClient>>
       \/ /\ Fails("select")
          /\ Done(t) /\ Send(Guarded(t, <<ModelFailed(t.conn)>>))
          /\ UNCHANGED <<selection, confirmed>>
    /\ UNCHANGED <<sent, conn, nextStep, client, admitted, captured>>
  BY DEF SelectDone
<1>2. t.kind = "set" /\ t.step = "host"
  BY <1>1 DEF HostAnswers
<1>3. UNCHANGED <<sent, conn, nextStep, session, pings, shown, admitted, captured>>
  BY <1>1 DEF client
<1>4. Unblocked(t)
  BY <1>2, Running DEF Free
<1>5. Done(t) => Leaves(t)
  BY <1>2, <1>3, DoneDoes
<1>6. Send(Guarded(t, <<ModelFailed(t.conn)>>)) => Writes(t, ModelFailed(t.conn))
  BY AnswerIs, GuardedWrites
<1>7. CASE ~Stale(t) /\ Step(t, "catalog")
  <2>1. t.conn = conn
    BY <1>7 DEF Stale, Current
  <2>2. Moves(t, "catalog")
    BY <1>2, <1>3, <1>4, <1>7 DEF Moves, Step, First, Prompts, Steered
  <2>3. CASE selection' = [selection EXCEPT ![t.conn] = t.id]
             /\ confirmed' = Append(confirmed, [id |-> t.id, conn |-> t.conn]) /\ UNCHANGED toClient
    BY <1>2, <1>3, <1>4, <2>1, <2>2, <2>3
  <2>4. CASE Done(t) /\ UNCHANGED <<selection, confirmed>>
              /\ (UNCHANGED toClient \/ Send(Guarded(t, <<ModelFailed(t.conn)>>)))
    BY <1>2, <1>3, <1>4, <1>5, <1>6, <2>4
  <2> QED
    BY <1>1, <2>3, <2>4
<1>8. CASE Done(t) /\ UNCHANGED <<selection, confirmed>>
            /\ (UNCHANGED toClient \/ Send(Guarded(t, <<ModelFailed(t.conn)>>)))
  BY <1>2, <1>3, <1>4, <1>5, <1>6, <1>8
<1> QED
  BY <1>1, <1>7, <1>8

\* What sendModel writes: the catalog or its failure, then the pong of a ping.
CatalogShown(t, f) ==
  /\ f \in FrameSet /\ f.conn = t.conn
  /\ f.kind = "failed" \/ (f.kind = "model" /\ f.payload = selection[t.conn])
  /\ IF t.conn # conn THEN UNCHANGED toClient
     ELSE IF t.kind # "ping" THEN toClient' = Append(toClient, f)
     ELSE \/ toClient' = Append(Append(toClient, f), Pong(t))
          \/ f.kind = "failed" /\ toClient' = Append(Append(Append(toClient, f), f), Pong(t))
LEMMA CatalogDoes ==
  ASSUME Base, CatalogDone
  PROVE  /\ UNCHANGED <<selection, nextStep, session, pings, shown, admitted, confirmed, captured>>
         /\ \E t \in tasks :
              /\ Leaves(t) /\ t.kind \in Updates \cup {"attached"} /\ t.step = "catalog"
              /\ t.kind \in Updates => Unblocked(t)
              /\ \E f : CatalogShown(t, f)
<1>1. PICK t \in tasks :
    /\ HostAnswers(t, Updates \cup {"attached"}, "catalog")
    /\ Done(t)
    /\ UNCHANGED host
    /\ \/ Send(Guarded(t, <<Model(t.conn)>> \o FencePong(t, FALSE)))
       \/ Fails("catalog") /\ Send(Guarded(t, <<ModelFailed(t.conn)>> \o FencePong(t, TRUE)))
    /\ UNCHANGED <<sent, conn, client, past>>
  BY DEF CatalogDone
<1>2. t.kind \in Updates \cup {"attached"} /\ t.step = "catalog"
  BY <1>1 DEF HostAnswers
<1>3. UNCHANGED <<sent, conn, selection, nextStep, session, pings, shown, admitted, confirmed, captured>>
  BY <1>1 DEF client, host, past
<1>4. Leaves(t) /\ (t.kind \in Updates => Unblocked(t))
  BY <1>1, <1>2, <1>3, DoneDoes DEF Free, Updates
<1>5. toClient \in Seq(FrameSet) /\ t.conn \in Conns /\ selection[t.conn] \in Nat
  BY TaskFields DEF Base, DataTypes
<1>6. /\ Model(t.conn) \in FrameSet /\ Model(t.conn).kind = "model" /\ Model(t.conn).conn = t.conn
      /\ Model(t.conn).payload = selection[t.conn]
  BY <1>3, <1>5 DEF Model, Frame, FrameSet, Plain
<1>7. /\ t.kind # "ping" => FencePong(t, FALSE) = << >> /\ FencePong(t, TRUE) = << >>
      /\ t.kind = "ping" => FencePong(t, FALSE) = <<Pong(t)>> /\ FencePong(t, TRUE) = <<ModelFailed(t.conn), Pong(t)>>
  BY DEF FencePong
<1>8. ASSUME NEW f \in FrameSet
      PROVE  /\ toClient \o (<<f>> \o << >>) = Append(toClient, f)
             /\ toClient \o (<<f>> \o <<Pong(t)>>) = Append(Append(toClient, f), Pong(t))
             /\ toClient \o (<<f>> \o <<f, Pong(t)>>) = Append(Append(Append(toClient, f), f), Pong(t))
  <2> DEFINE p == Pong(t)
  <2>1. p \in FrameSet
    BY AnswerIs
  <2> HIDE DEF p
  <2>2. <<f>> \in Seq(FrameSet) /\ << >> \in Seq(FrameSet) /\ <<p>> \in Seq(FrameSet) /\ <<f, p>> \in Seq(FrameSet)
    BY <2>1
  <2>3. \A u \in Seq(FrameSet) : toClient \o (<<f>> \o u) = (toClient \o <<f>>) \o u
    BY <1>5, <2>2
  <2>4. toClient \o <<f>> = Append(toClient, f) /\ Append(toClient, f) \in Seq(FrameSet)
    BY <1>5, JoinOf
  <2>5. /\ Append(toClient, f) \o << >> = Append(toClient, f)
        /\ Append(toClient, f) \o <<p>> = Append(Append(toClient, f), p)
        /\ Append(toClient, f) \o <<f, p>> = Append(Append(Append(toClient, f), f), p)
    BY <2>1, <2>4, JoinOf
  <2> QED
    BY <2>2, <2>3, <2>4, <2>5 DEF p
<1>9. CASE Send(Guarded(t, <<Model(t.conn)>> \o FencePong(t, FALSE)))
  <2> DEFINE f == Model(t.conn)
  <2>1. f \in FrameSet
    BY <1>6
  <2>2. t.conn = conn => toClient' = IF t.kind = "ping" THEN Append(Append(toClient, f), Pong(t)) ELSE Append(toClient, f)
    BY <1>7, <1>8, <1>9, <2>1 DEF Send, Guarded, Current
  <2>3. t.conn # conn => toClient' = toClient
    BY <1>5, <1>9 DEF Send, Guarded, Current
  <2>4. CatalogShown(t, f)
    BY <1>6, <2>2, <2>3 DEF CatalogShown
  <2> QED
    BY <1>2, <1>3, <1>4, <2>4
<1>10. CASE Send(Guarded(t, <<ModelFailed(t.conn)>> \o FencePong(t, TRUE)))
  <2> DEFINE f == ModelFailed(t.conn)
  <2>1. f \in FrameSet /\ f.conn = t.conn /\ f.kind = "failed"
    BY AnswerIs
  <2>2. t.conn = conn => toClient' = IF t.kind = "ping" THEN Append(Append(Append(toClient, f), f), Pong(t))
                                     ELSE Append(toClient, f)
    BY <1>7, <1>8, <1>10, <2>1 DEF Send, Guarded, Current
  <2>3. t.conn # conn => toClient' = toClient
    BY <1>5, <1>10 DEF Send, Guarded, Current
  <2>4. CatalogShown(t, f)
    BY <2>1, <2>2, <2>3 DEF CatalogShown
  <2> QED
    BY <1>2, <1>3, <1>4, <2>4
<1> QED
  BY <1>1, <1>9, <1>10

LEMMA CommandDoes ==
  ASSUME Base, CommandDone
  PROVE  /\ UNCHANGED <<selection, nextStep, session, pings, shown, admitted, confirmed, captured>>
         /\ \E t \in tasks : Leaves(t) /\ t.kind = "command" /\ Writes(t, Answer(t))
<1>1. PICK t \in tasks :
    /\ HostAnswers(t, {"command"}, "host")
    /\ Done(t)
    /\ Send(Guarded(t, <<Answer(t)>>))
    /\ UNCHANGED <<sent, conn, host, client, past>>
  BY DEF CommandDone
<1>2. t.kind = "command" /\ t.step = "host"
  BY <1>1 DEF HostAnswers
<1>3. UNCHANGED <<sent, conn, selection, nextStep, session, pings, shown, admitted, confirmed, captured>>
  BY <1>1 DEF client, host, past
<1>4. Leaves(t)
  BY <1>1, <1>2, <1>3, DoneDoes
<1>5. Writes(t, Answer(t))
  BY <1>1, AnswerIs, GuardedWrites
<1> QED
  BY <1>2, <1>3, <1>4, <1>5

\* A session change replaces the connection, or only answers.
Welcomed(c) == Frame("welcome", c, 0, 0)
LEMMA SessionDoes ==
  ASSUME Base, SessionDone
  PROVE  /\ UNCHANGED <<selection, nextStep, session, pings, shown, confirmed, captured>>
         /\ \E t \in tasks :
              /\ t.kind \in Changes
              /\ Unblocked(t) \/ t.kind # "newInput"
              /\ \/ /\ Replaces(t) /\ t.conn = conn /\ conn + 1 \in Conns
                    /\ toClient' = Append(Append(toClient, Welcomed(conn + 1)), Queue(conn + 1))
                    /\ IF t.kind = "newInput" THEN Admit(conn + 1, t.id, t.kind) ELSE UNCHANGED admitted
                 \/ /\ Leaves(t) /\ UNCHANGED admitted
                    /\ \/ UNCHANGED toClient \/ Writes(t, Answer(t))
                       \/ t.kind # "newInput" /\ Fails(t.kind) /\ toClient' = Append(toClient, Answer(t))
<1>1. PICK t \in tasks :
    /\ HostAnswers(t, Changes, "host")
    /\ UNCHANGED <<modelUpdates, host>>
    /\ \/ Replace(t)
       \/ ~Current(t) /\ tasks' = tasks \ {t} /\ UNCHANGED <<conn, toClient, admitted>>
       \/ /\ Fails(t.kind)
          /\ tasks' = tasks \ {t} /\ Send(Reported(t))
          /\ UNCHANGED <<conn, admitted>>
    /\ UNCHANGED <<sent, client, confirmed, captured>>
  BY DEF SessionDone
<1>2. t.kind \in Changes /\ t.step = "host"
  BY <1>1 DEF HostAnswers
<1>3. UNCHANGED <<sent, modelUpdates, selection, nextStep, session, pings, shown, confirmed, captured>>
  BY <1>1 DEF client, host
<1>4. Unblocked(t) \/ t.kind # "newInput"
  BY <1>2, Running DEF Free
<1>5. ASSUME tasks' = tasks \ {t}, conn' = conn PROVE Leaves(t)
  <2>1. t.kind \notin Updates /\ t.id # 0
    BY <1>2, TaskFields DEF Base, Changes, Updates, Named
  <2>2. modelUpdates # t.id
    BY <2>1 DEF Base, Chain, Named
  <2> QED
    BY <1>3, <1>5, <2>1, <2>2 DEF Leaves, ClearUpdate
<1>6. toClient \in Seq(FrameSet)
  BY DEF Base, DataTypes
<1>7. CASE Replace(t)
  <2>1. t.conn = conn /\ conn' = conn + 1
        /\ tasks' = (tasks \ {t}) \cup {Task(-(conn + 1), "attached", conn + 1, 0, "catalog")}
        /\ Send(<<Welcomed(conn + 1), Queue(conn + 1)>>)
        /\ IF t.kind = "newInput" THEN Admit(conn + 1, t.id, t.kind) ELSE UNCHANGED admitted
    BY <1>7 DEF Replace, Current, Welcomed
  <2>2. Replaces(t)
    BY <1>2, <1>3, <2>1 DEF Replaces, Current
  <2>3. conn + 1 \in Conns
    BY <1>2, <2>1, BoundsAssumption DEF Base, TaskTypes, Named, Conns
  <2>4. Welcomed(conn + 1) \in FrameSet /\ Queue(conn + 1) \in FrameSet
    <3>1. nextStep'[conn + 1] \in Seq(Nat)
      BY <1>3, <2>3 DEF Base, DataTypes
    <3> QED
      BY <2>3, <3>1 DEF Welcomed, Queue, Frame, FrameSet, Plain, Queues
  <2>5. toClient' = Append(Append(toClient, Welcomed(conn + 1)), Queue(conn + 1))
    BY <1>6, <2>1, <2>4, JoinOf DEF Send
  <2> QED
    BY <1>2, <1>3, <1>4, <2>1, <2>2, <2>3, <2>5
<1>8. CASE ~Current(t) /\ tasks' = tasks \ {t} /\ UNCHANGED <<conn, toClient, admitted>>
  BY <1>2, <1>3, <1>4, <1>5, <1>8
<1>9. CASE Fails(t.kind) /\ tasks' = tasks \ {t} /\ Send(Reported(t)) /\ UNCHANGED <<conn, admitted>>
  <2>1. CASE t.kind = "newInput"
    <3>1. Writes(t, Answer(t))
      BY <1>9, <2>1, AnswerIs, GuardedWrites DEF Reported
    <3> QED
      BY <1>2, <1>3, <1>4, <1>5, <1>9, <3>1
  <2>2. CASE t.kind # "newInput"
    <3>1. toClient' = Append(toClient, Answer(t))
      BY <1>6, <1>9, <2>2, AnswerIs, JoinOf DEF Reported, Send
    <3> QED
      BY <1>2, <1>3, <1>4, <1>5, <1>9, <2>2, <3>1
  <2> QED
    BY <2>1, <2>2
<1> QED
  BY <1>1, <1>7, <1>8, <1>9

LEMMA ClaimDoes ==
  ASSUME Base, Claim
  PROVE  /\ UNCHANGED <<sent, conn, modelUpdates, tasks, selection, session, pings, shown, admitted, confirmed, captured>>
         /\ nextStep' = [nextStep EXCEPT ![conn] = <<>>]
         /\ IF Busy(conn) THEN UNCHANGED toClient ELSE Shown(conn)
<1>1. nextStep' = [nextStep EXCEPT ![conn] = <<>>]
  BY DEF Claim
<1>2. nextStep'[conn] \in Seq(Nat)
  BY <1>1 DEF Base, TaskTypes, DataTypes
<1>3. Queue(conn) \in FrameSet /\ toClient \in Seq(FrameSet)
  BY <1>2 DEF Base, TaskTypes, DataTypes, Queue, Frame, FrameSet, Queues
<1>4. IF Busy(conn) THEN UNCHANGED toClient ELSE Shown(conn)
  BY <1>3, JoinOf DEF Claim, Shown, Send
<1> QED
  BY <1>1, <1>4 DEF Claim, client, past

-----------------------------------------------------------------------------
(* The client, the sender, and the structure and types after a step. *)

\* The client reads: the dispatcher and the host rest.
LEMMA ClientDoes ==
  ASSUME Client
  PROVE  /\ UNCHANGED <<sent, conn, modelUpdates, tasks, selection, nextStep, admitted, confirmed>>
         /\ toClient # <<>> /\ toClient' = Tail(toClient)
         /\ \/ /\ Head(toClient).kind = "welcome" /\ session' = Head(toClient).conn
               /\ pings' = <<>> /\ shown' = <<>> /\ UNCHANGED captured
            \/ /\ Head(toClient).kind = "model" /\ pings' = SetFront([Head(pings) EXCEPT !.model = Head(toClient).payload])
               /\ UNCHANGED <<session, shown, captured>>
            \/ /\ Head(toClient).kind = "failed" /\ pings' = SetFront([Head(pings) EXCEPT !.failed = TRUE])
               /\ UNCHANGED <<session, shown, captured>>
            \/ /\ Head(toClient).kind = "pong" /\ UNCHANGED <<session, shown>>
               /\ \/ pings = <<>> /\ UNCHANGED <<pings, captured>>
                  \/ pings # <<>> /\ pings' = Tail(pings) /\ captured' = captured \cup {Head(pings)}
            \/ /\ Head(toClient).kind = "asap" /\ UNCHANGED <<session, pings, captured>>
               /\ shown' = IF Head(toClient).conn = session THEN Head(toClient).payload ELSE shown
            \/ /\ Head(toClient).kind = "answer" /\ UNCHANGED <<session, pings, shown, captured>>
BY DEF Client, ReadWelcome, ReadModel, ReadFailed, ReadPong, ReadQueue, ReadAnswer, Read, host, client, past

LEMMA InputDoes ==
  ASSUME InputText
  PROVE  /\ sent' = sent + 1 /\ Drained /\ modelUpdates = 0 /\ Admit(conn, sent + 1, "text")
         /\ UNCHANGED <<conn, modelUpdates, tasks, selection, nextStep, toClient, session, pings, shown, confirmed, captured>>
BY DEF InputText, Receive, WaitFor, host, client

LEMMA MessageDoes ==
  ASSUME NEW kind, Message(kind)
  PROVE  /\ Adds(kind) /\ Drained
         /\ kind = "ping" => Across \/ ~Changing
         /\ pings' = IF kind = "ping"
                     THEN Append(pings, [id |-> sent + 1, session |-> session, model |-> -1, failed |-> FALSE])
                     ELSE pings
         /\ UNCHANGED <<selection, nextStep, toClient, session, shown, admitted, confirmed, captured>>
BY DEF Message, Receive, Adds, PushFence, host, client, past

LEMMA StutterDoes == ASSUME UNCHANGED vars
  PROVE UNCHANGED <<sent, conn, modelUpdates, tasks, selection, nextStep, toClient, session, pings, shown,
                    admitted, confirmed, captured>>
BY DEF vars, host, client, past

LEMMA NextIs ==
  ASSUME [Next]_vars
  PROVE  \/ InputText \/ (\E kind \in Kinds : Message(kind)) \/ Resume
         \/ ImageDone \/ SteerImageDone \/ SelectDone \/ CatalogDone \/ CommandDone \/ SessionDone
         \/ Claim \/ Client \/ UNCHANGED vars
BY DEF Next, Messages, Host

\* What a step does to the tasks.
Rests == UNCHANGED <<tasks, modelUpdates, conn>> /\ sent' \in {sent, sent + 1}
LEMMA TasksMove ==
  ASSUME Base, [Next]_vars
  PROVE  \/ Rests
         \/ \E t \in tasks : Leaves(t) \/ Replaces(t) \/ \E s \in {"host", "catalog"} : Moves(t, s)
         \/ \E kind \in Kinds : Adds(kind)
<1>1. CASE InputText
  BY <1>1, InputDoes DEF Rests
<1>2. CASE \E kind \in Kinds : Message(kind)
  BY <1>2, MessageDoes
<1>3. CASE Resume
  BY <1>3, ResumeDoes
<1>4. CASE ImageDone
  BY <1>4, ImageDoes
<1>5. CASE SteerImageDone
  BY <1>5, SteerImageDoes
<1>6. CASE SelectDone
  BY <1>6, SelectDoes
<1>7. CASE CatalogDone
  BY <1>7, CatalogDoes
<1>8. CASE CommandDone
  BY <1>8, CommandDoes
<1>9. CASE SessionDone
  BY <1>9, SessionDoes
<1>10. CASE Claim
  BY <1>10, ClaimDoes DEF Rests
<1>11. CASE Client
  BY <1>11, ClientDoes DEF Rests
<1>12. CASE UNCHANGED vars
  BY <1>12, StutterDoes DEF Rests
<1> QED
  BY <1>1, <1>2, <1>3, <1>4, <1>5, <1>6, <1>7, <1>8, <1>9, <1>10, <1>11, <1>12, NextIs

LEMMA RestsKeeps ==
  ASSUME TaskTypes, Named, Chain, Rests
  PROVE  TaskTypes' /\ Named' /\ Chain'
<1>1. tasks' = tasks /\ modelUpdates' = modelUpdates /\ conn' = conn /\ sent' \in {sent, sent + 1} /\ sent \in Nat
      /\ modelUpdates \in Nat
  BY DEF Rests, TaskTypes
<1>2. \A t \in tasks : t.id \in Int
  BY TaskFields
<1> QED
  BY <1>1, <1>2 DEF TaskTypes, Named, Chain, Behind, Settled

LEMMA StructureStep == Base /\ [Next]_vars => TaskTypes' /\ Named' /\ Chain'
<1> SUFFICES ASSUME Base, [Next]_vars PROVE TaskTypes' /\ Named' /\ Chain'
  OBVIOUS
<1>1. TaskTypes /\ Named /\ Chain
  BY DEF Base
<1>2. CASE Rests
  BY <1>1, <1>2, RestsKeeps
<1>3. ASSUME NEW t \in tasks, Leaves(t) PROVE TaskTypes' /\ Named' /\ Chain'
  BY <1>1, <1>3, LeavesKeeps
<1>4. ASSUME NEW t \in tasks, Replaces(t) PROVE TaskTypes' /\ Named' /\ Chain'
  BY <1>1, <1>4, ReplacesKeeps
<1>5. ASSUME NEW t \in tasks, NEW s \in {"host", "catalog"}, Moves(t, s) PROVE TaskTypes' /\ Named' /\ Chain'
  BY <1>1, <1>5, MovesKeeps
<1>6. ASSUME NEW kind \in Kinds, Adds(kind) PROVE TaskTypes' /\ Named' /\ Chain'
  BY <1>1, <1>6, AddsKeeps
<1> QED
  BY <1>2, <1>3, <1>4, <1>5, <1>6, TasksMove

-----------------------------------------------------------------------------
\* The types of the rest.
LEMMA AdmitTyped ==
  ASSUME Base, NEW c \in Conns, NEW id \in Nat, NEW kind \in TaskKinds, Admit(c, id, kind)
  PROVE  admitted' \in Seq(EntrySet)
<1>1. [id |-> id, conn |-> c, kind |-> kind, model |-> selection[c]] \in EntrySet
  BY DEF Base, DataTypes, EntrySet
<1> QED
  BY <1>1 DEF Base, DataTypes, Admit

LEMMA TaskAdmits ==
  ASSUME Base, NEW t \in tasks, t.kind # "attached", NEW c \in Conns, Admit(c, t.id, t.kind)
  PROVE  admitted' \in Seq(EntrySet)
<1>1. t.id \in Nat /\ t.kind \in TaskKinds
  BY TaskFields DEF Base, Named
<1> QED
  BY <1>1, AdmitTyped

LEMMA ShownTyped ==
  ASSUME Base, NEW c \in Conns, nextStep' \in [Conns -> Seq(Nat)], Shown(c)
  PROVE  toClient' \in Seq(FrameSet) /\ Queue(c) \in FrameSet
<1>1. Queue(c) \in FrameSet
  BY DEF Queue, Frame, FrameSet, Queues
<1> QED
  BY <1>1 DEF Base, DataTypes, Shown

LEMMA WritesTyped ==
  ASSUME Base, NEW t, NEW f \in FrameSet, Writes(t, f)
  PROVE  toClient' \in Seq(FrameSet)
<1>1. toClient \in Seq(FrameSet)
  BY DEF Base, DataTypes
<1>2. Append(toClient, f) \in Seq(FrameSet)
  BY <1>1
<1> QED
  BY <1>1, <1>2 DEF Writes

LEMMA QueuedTyped ==
  ASSUME Base, NEW c \in Conns
  PROVE  /\ \A id \in Nat : nextStep' = [nextStep EXCEPT ![c] = Append(@, id)] => nextStep' \in [Conns -> Seq(Nat)]
         /\ nextStep' = [nextStep EXCEPT ![c] = <<>>] => nextStep' \in [Conns -> Seq(Nat)]
<1>1. \A id \in Nat : Append(nextStep[c], id) \in Seq(Nat)
  BY DEF Base, DataTypes
<1>2. << >> \in Seq(Nat)
  OBVIOUS
<1> QED
  BY <1>1, <1>2 DEF Base, DataTypes

LEMMA DataStep == Base /\ [Next]_vars => DataTypes'
<1> SUFFICES ASSUME Base, [Next]_vars PROVE DataTypes'
  OBVIOUS
<1>0. DataTypes /\ conn \in Conns
  BY DEF Base, TaskTypes
<1>1. CASE InputText
  <2>1. admitted' \in Seq(EntrySet)
    BY <1>0, <1>1, InputDoes, AdmitTyped DEF Base, TaskTypes, TaskKinds
  <2> QED
    BY <1>0, <1>1, <2>1, InputDoes DEF DataTypes
<1>2. CASE \E kind \in Kinds : Message(kind)
  <2>1. PICK kind \in Kinds : Message(kind)
    BY <1>2
  <2>2. pings' \in Seq(FenceSet)
    <3>1. [id |-> sent + 1, session |-> session, model |-> -1, failed |-> FALSE] \in FenceSet
      BY DEF FenceSet, Base, TaskTypes, DataTypes
    <3>2. pings \in Seq(FenceSet)
      BY <1>0 DEF DataTypes
    <3>3. Append(pings, [id |-> sent + 1, session |-> session, model |-> -1, failed |-> FALSE]) \in Seq(FenceSet)
      BY <3>1, <3>2
    <3> QED
      BY <2>1, <3>2, <3>3, MessageDoes
  <2> QED
    BY <1>0, <2>1, <2>2, MessageDoes DEF DataTypes
<1>3. CASE Resume
  <2>1. UNCHANGED <<selection, session, pings, shown, confirmed, captured>>
    BY <1>3, ResumeDoes
  <2>2. nextStep' \in [Conns -> Seq(Nat)] /\ toClient' \in Seq(FrameSet) /\ admitted' \in Seq(EntrySet)
    <3>1. PICK t \in tasks :
              \/ UNCHANGED <<nextStep, toClient, admitted>>
              \/ /\ t.conn = conn /\ t.kind = "text"
                 /\ Admit(t.conn, t.id, t.kind) /\ UNCHANGED <<nextStep, toClient>>
              \/ /\ t.conn = conn /\ t.kind = "steer"
                 /\ Admit(t.conn, t.id, t.kind)
                 /\ nextStep' = [nextStep EXCEPT ![conn] = Append(@, t.id)] /\ Shown(conn)
              \/ /\ t.kind = "clear" /\ UNCHANGED admitted
                 /\ nextStep' = [nextStep EXCEPT ![conn] = <<>>] /\ Shown(conn)
      BY <1>3, ResumeDoes
    <3>2. t.kind # "attached" => t.id \in Nat
      BY DEF Base, Named
    <3>3. CASE UNCHANGED <<nextStep, toClient, admitted>>
      BY <1>0, <3>3 DEF DataTypes
    <3>4. CASE /\ t.conn = conn /\ t.kind = "text"
               /\ Admit(t.conn, t.id, t.kind) /\ UNCHANGED <<nextStep, toClient>>
      BY <1>0, <3>4, TaskAdmits DEF DataTypes
    <3>5. CASE /\ t.conn = conn /\ t.kind = "steer"
               /\ Admit(t.conn, t.id, t.kind)
               /\ nextStep' = [nextStep EXCEPT ![conn] = Append(@, t.id)] /\ Shown(conn)
      <4>1. admitted' \in Seq(EntrySet)
        BY <1>0, <3>5, TaskAdmits
      <4>2. nextStep' \in [Conns -> Seq(Nat)]
        BY <1>0, <3>2, <3>5, QueuedTyped
      <4> QED
        BY <1>0, <3>5, <4>1, <4>2, ShownTyped
    <3>6. CASE /\ t.kind = "clear" /\ UNCHANGED admitted
               /\ nextStep' = [nextStep EXCEPT ![conn] = <<>>] /\ Shown(conn)
      <4>1. nextStep' \in [Conns -> Seq(Nat)]
        BY <1>0, <3>6, QueuedTyped
      <4> QED
        BY <1>0, <3>6, <4>1, ShownTyped DEF DataTypes
    <3> QED
      BY <3>1, <3>3, <3>4, <3>5, <3>6
  <2> QED
    BY <1>0, <2>1, <2>2 DEF DataTypes
<1>4. CASE ImageDone
  <2>1. UNCHANGED <<selection, nextStep, session, pings, shown, confirmed, captured>>
    BY <1>4, ImageDoes
  <2>2. PICK t \in tasks :
          /\ t.kind = "image"
          /\ \/ Admit(t.conn, t.id, t.kind) /\ UNCHANGED toClient
             \/ Writes(t, Answer(t)) /\ UNCHANGED admitted
    BY <1>4, ImageDoes
  <2>3. t.conn \in Conns
    BY TaskFields DEF Base
  <2>4. admitted' \in Seq(EntrySet) /\ toClient' \in Seq(FrameSet)
    BY <1>0, <2>2, <2>3, TaskAdmits, WritesTyped, AnswerIs DEF DataTypes
  <2> QED
    BY <1>0, <2>1, <2>4 DEF DataTypes
<1>5. CASE SteerImageDone
  <2>1. UNCHANGED <<selection, session, pings, shown, confirmed, captured>>
    BY <1>5, SteerImageDoes
  <2>2. PICK t \in tasks :
          /\ t.kind = "steerImage"
          /\ \/ nextStep' = [nextStep EXCEPT ![t.conn] = Append(@, t.id)] /\ Admit(t.conn, t.id, t.kind)
             \/ UNCHANGED <<nextStep, admitted>>
          /\ IF t.conn = conn THEN Shown(conn) ELSE UNCHANGED toClient
    BY <1>5, SteerImageDoes
  <2>3. t.conn \in Conns /\ t.id \in Nat
    BY <2>2, TaskFields DEF Base, Named
  <2>4. admitted' \in Seq(EntrySet)
    BY <1>0, <2>2, <2>3, TaskAdmits DEF DataTypes
  <2>5. nextStep' \in [Conns -> Seq(Nat)]
    BY <1>0, <2>2, <2>3, QueuedTyped DEF DataTypes
  <2>6. toClient' \in Seq(FrameSet)
    BY <1>0, <2>2, <2>5, ShownTyped DEF DataTypes
  <2> QED
    BY <1>0, <2>1, <2>4, <2>5, <2>6 DEF DataTypes
<1>6. CASE SelectDone
  <2>1. UNCHANGED <<nextStep, session, pings, shown, admitted, captured>>
    BY <1>6, SelectDoes
  <2>2. PICK t \in tasks :
              /\ t.kind = "set"
              /\ \/ /\ selection' = [selection EXCEPT ![conn] = t.id]
                    /\ confirmed' = Append(confirmed, [id |-> t.id, conn |-> conn])
                    /\ UNCHANGED toClient
                 \/ /\ UNCHANGED <<selection, confirmed>>
                    /\ UNCHANGED toClient \/ Writes(t, ModelFailed(t.conn))
    BY <1>6, SelectDoes
  <2>3. t.id \in Nat
    BY <2>2 DEF Base, Named
  <2>4. [id |-> t.id, conn |-> conn] \in ChoiceSet
    BY <1>0, <2>3 DEF ChoiceSet
  <2>5. selection' \in [Conns -> Nat] /\ confirmed' \in Seq(ChoiceSet)
    <3>1. selection \in [Conns -> Nat] /\ confirmed \in Seq(ChoiceSet)
      BY <1>0 DEF DataTypes
    <3>2. Append(confirmed, [id |-> t.id, conn |-> conn]) \in Seq(ChoiceSet)
      BY <2>4, <3>1
    <3>3. [selection EXCEPT ![conn] = t.id] \in [Conns -> Nat]
      BY <2>3, <3>1
    <3> QED
      BY <2>2, <3>1, <3>2, <3>3
  <2>6. toClient' \in Seq(FrameSet)
    BY <1>0, <2>2, WritesTyped, AnswerIs DEF DataTypes
  <2> QED
    BY <1>0, <2>1, <2>5, <2>6 DEF DataTypes
<1>7. CASE CatalogDone
  <2>1. UNCHANGED <<selection, nextStep, session, pings, shown, admitted, confirmed, captured>>
    BY <1>7, CatalogDoes
  <2>2. PICK t \in tasks, f \in FrameSet : CatalogShown(t, f)
    BY <1>7, CatalogDoes DEF CatalogShown
  <2>3. Pong(t) \in FrameSet
    BY AnswerIs
  <2>4. Append(toClient, f) \in Seq(FrameSet) /\ Append(Append(toClient, f), f) \in Seq(FrameSet)
    BY <1>0 DEF DataTypes
  <2>5. \A s \in Seq(FrameSet) : Append(s, Pong(t)) \in Seq(FrameSet)
    BY <2>3
  <2>6. toClient' \in Seq(FrameSet)
    BY <1>0, <2>2, <2>4, <2>5 DEF CatalogShown, DataTypes
  <2> QED
    BY <1>0, <2>1, <2>6 DEF DataTypes
<1>8. CASE CommandDone
  BY <1>0, <1>8, CommandDoes, WritesTyped, AnswerIs DEF DataTypes
<1>9. CASE SessionDone
  <2>1. UNCHANGED <<selection, nextStep, session, pings, shown, confirmed, captured>>
    BY <1>9, SessionDoes
  <2>2. PICK t \in tasks :
              /\ t.kind \in Changes
              /\ \/ /\ conn + 1 \in Conns
                    /\ toClient' = Append(Append(toClient, Welcomed(conn + 1)), Queue(conn + 1))
                    /\ IF t.kind = "newInput" THEN Admit(conn + 1, t.id, t.kind) ELSE UNCHANGED admitted
                 \/ /\ UNCHANGED admitted
                    /\ \/ UNCHANGED toClient \/ Writes(t, Answer(t))
                       \/ toClient' = Append(toClient, Answer(t))
    BY <1>9, SessionDoes
  <2>3. admitted' \in Seq(EntrySet)
    BY <1>0, <2>2, TaskAdmits DEF DataTypes, Changes
  <2>4. toClient' \in Seq(FrameSet)
    <3>1. CASE conn + 1 \in Conns /\ toClient' = Append(Append(toClient, Welcomed(conn + 1)), Queue(conn + 1))
      <4>1. Welcomed(conn + 1) \in FrameSet
        BY <3>1 DEF Welcomed, Frame, FrameSet, Plain
      <4>2. Queue(conn + 1) \in FrameSet
        BY <1>0, <2>1, <3>1 DEF DataTypes, Queue, Frame, FrameSet, Queues
      <4> QED
        BY <1>0, <3>1, <4>1, <4>2 DEF DataTypes
    <3>2. Answer(t) \in FrameSet
      BY AnswerIs
    <3>3. toClient \in Seq(FrameSet) /\ Append(toClient, Answer(t)) \in Seq(FrameSet)
      BY <1>0, <3>2 DEF DataTypes
    <3>4. Writes(t, Answer(t)) => toClient' \in Seq(FrameSet)
      BY <3>2, WritesTyped
    <3> QED
      BY <2>2, <3>1, <3>3, <3>4
  <2> QED
    BY <1>0, <2>1, <2>3, <2>4 DEF DataTypes
<1>10. CASE Claim
  <2>1. nextStep' \in [Conns -> Seq(Nat)]
    BY <1>0, <1>10, ClaimDoes, QueuedTyped
  <2>2. toClient' \in Seq(FrameSet)
    BY <1>0, <1>10, <2>1, ClaimDoes, ShownTyped DEF DataTypes
  <2> QED
    BY <1>0, <1>10, <2>1, <2>2, ClaimDoes DEF DataTypes
<1>11. CASE Client
  <2>1. /\ UNCHANGED <<selection, nextStep, admitted, confirmed>>
        /\ toClient # <<>> /\ toClient' = Tail(toClient)
    BY <1>11, ClientDoes
  <2>2. toClient' \in Seq(FrameSet) /\ Head(toClient) \in FrameSet
    BY <1>0, <2>1, TailOf DEF DataTypes
  <2>3. session' \in Conns
    BY <1>0, <1>11, <2>2, ClientDoes, FrameFields DEF DataTypes
  <2>4. shown' \in Seq(Nat)
    <3>1. Head(toClient).kind = "asap" => Head(toClient).payload \in Seq(Nat)
      BY <2>2, FrameFields
    <3>2. shown \in Seq(Nat) /\ << >> \in Seq(Nat)
      BY <1>0 DEF DataTypes
    <3>3. shown' = shown \/ shown' = << >> \/ (Head(toClient).kind = "asap" /\ shown' = Head(toClient).payload)
      BY <1>11, ClientDoes
    <3> QED
      BY <3>1, <3>2, <3>3
  <2>5. /\ \A v \in Nat : SetFront([Head(pings) EXCEPT !.model = v]) \in Seq(FenceSet)
        /\ SetFront([Head(pings) EXCEPT !.failed = TRUE]) \in Seq(FenceSet)
    <3>1. CASE pings = <<>>
      BY <1>0, <3>1 DEF SetFront, DataTypes
    <3>2. CASE pings # <<>>
      <4>1. 1 \in DOMAIN pings /\ Head(pings) \in FenceSet /\ pings \in Seq(FenceSet)
        BY <1>0, <3>2 DEF DataTypes
      <4>2. /\ \A v \in Nat : [Head(pings) EXCEPT !.model = v] \in FenceSet
            /\ [Head(pings) EXCEPT !.failed = TRUE] \in FenceSet
        <5>1. \A g \in FenceSet, v \in Nat : [g EXCEPT !.model = v] \in FenceSet
          BY DEF FenceSet
        <5>2. \A g \in FenceSet : [g EXCEPT !.failed = TRUE] \in FenceSet
          BY DEF FenceSet
        <5> QED
          BY <4>1, <5>1, <5>2
      <4>3. \A f \in FenceSet : [pings EXCEPT ![1] = f] \in Seq(FenceSet)
        BY <4>1
      <4> QED
        BY <3>2, <4>2, <4>3 DEF SetFront
    <3> QED
      BY <3>1, <3>2
  <2>6. pings' \in Seq(FenceSet) /\ captured' \subseteq FenceSet
    <3>1. pings # <<>> => Tail(pings) \in Seq(FenceSet) /\ Head(pings) \in FenceSet
      BY <1>0, TailOf DEF DataTypes
    <3>2. Head(toClient).kind = "model" => Head(toClient).payload \in Nat
      BY <2>2, FrameFields
    <3>3. pings \in Seq(FenceSet) /\ captured \subseteq FenceSet /\ << >> \in Seq(FenceSet)
      BY <1>0 DEF DataTypes
    <3>4. \/ pings' = pings \/ pings' = <<>> \/ (pings # <<>> /\ pings' = Tail(pings))
          \/ Head(toClient).kind = "model" /\ pings' = SetFront([Head(pings) EXCEPT !.model = Head(toClient).payload])
          \/ pings' = SetFront([Head(pings) EXCEPT !.failed = TRUE])
      BY <1>11, ClientDoes
    <3>5. captured' = captured \/ (pings # <<>> /\ captured' = captured \cup {Head(pings)})
      BY <1>11, ClientDoes
    <3> QED
      BY <2>5, <3>1, <3>2, <3>3, <3>4, <3>5
  <2> QED
    BY <1>0, <2>1, <2>2, <2>3, <2>4, <2>6 DEF DataTypes
<1>12. CASE UNCHANGED vars
  BY <1>0, <1>12, StutterDoes DEF DataTypes
<1> QED
  BY <1>1, <1>2, <1>3, <1>4, <1>5, <1>6, <1>7, <1>8, <1>9, <1>10, <1>11, <1>12, NextIs

-----------------------------------------------------------------------------
(* Prompts meet the session in order. *)

\* The tasks after a step: those there were, and new ones.
Follows ==
  /\ sent' \in Nat /\ sent <= sent' /\ conn' \in Conns /\ conn <= conn'
  /\ \A a \in tasks' : a.kind = "attached" \/ a.id = sent + 1 \/ \E b \in tasks : Alike(a, b)

LEMMA LeavesFollows ==
  ASSUME Base, NEW t \in tasks, Leaves(t)
  PROVE  Follows /\ \A a \in tasks' : a \in tasks /\ a # t /\ a.id # t.id
BY DEF Leaves, Follows, Alike, Base, TaskTypes, Named, Conns

LEMMA MovesFollows ==
  ASSUME Base, NEW t \in tasks, NEW s \in {"host", "catalog"}, Moves(t, s)
  PROVE  Follows
<1>1. \A a \in tasks' : \E b \in tasks : Alike(a, b)
  BY MovesShape DEF Base
<1> QED
  BY <1>1 DEF Moves, Follows, Base, TaskTypes, Conns

LEMMA ReplacesFollows ==
  ASSUME Base, NEW t \in tasks, Replaces(t)
  PROVE  Follows /\ \A a \in tasks' : a.kind = "attached" \/ (a \in tasks /\ a # t /\ a.id # t.id)
<1>1. tasks' = (tasks \ {t}) \cup {Task(-(conn + 1), "attached", conn + 1, 0, "catalog")} /\ UNCHANGED sent /\ conn' = conn + 1
  BY DEF Replaces
<1>2. Task(-(conn + 1), "attached", conn + 1, 0, "catalog").kind = "attached"
  BY DEF Task
<1>3. conn' \in Conns /\ conn \in Nat /\ sent \in Nat
  BY ReplacesKeeps DEF Base, TaskTypes, Conns
<1> QED
  BY <1>1, <1>2, <1>3 DEF Follows, Alike, Base, Named

LEMMA AddsShape ==
  ASSUME Base, NEW kind \in Kinds, Adds(kind)
  PROVE  \E n \in TaskSet :
           /\ tasks' = tasks \cup {n} /\ n.id = sent + 1 /\ n.kind = kind /\ n.conn = conn
           /\ n.step # "wait" => kind \in {"attach", "new"}
           /\ \A a \in tasks : a.id <= sent
<1> DEFINE n == Task(sent + 1, kind, conn, WaitFor(kind), IF kind \in {"attach", "new"} THEN "host" ELSE "wait")
<1>1. tasks' = tasks \cup {n}
  BY DEF Adds
<1>2. /\ n \in TaskSet /\ n.id = sent + 1 /\ n.kind = kind /\ n.conn = conn
      /\ \A a \in tasks : a.id <= sent
  BY NewTask DEF Base
<1>3. n.step # "wait" => kind \in {"attach", "new"}
  BY DEF Task
<1> QED
  BY <1>1, <1>2, <1>3

LEMMA AddsFollows ==
  ASSUME Base, NEW kind \in Kinds, Adds(kind)
  PROVE  Follows
BY AddsShape DEF Adds, Follows, Alike, Base, TaskTypes, Conns

LEMMA RestsFollows == ASSUME Base, Rests PROVE Follows
BY DEF Rests, Follows, Alike, Base, TaskTypes, Conns

LEMMA StepFollows == ASSUME Base, [Next]_vars PROVE Follows
BY TasksMove, LeavesFollows, MovesFollows, ReplacesFollows, AddsFollows, RestsFollows

-----------------------------------------------------------------------------
\* No task that awaits the host passed a prompt before it.
LEMMA FirstKept ==
  ASSUME Base, Order, [Next]_vars
  PROVE  \A a \in tasks' : a.step # "wait" => First(a)'
<1> SUFFICES ASSUME NEW a \in tasks', a.step # "wait", a.kind \in Prompts,
                    NEW u \in tasks', u.kind \in Prompts, u.conn = a.conn, u.id < a.id
             PROVE  FALSE
  BY DEF First
<1>0. \A t \in tasks : t.step # "wait" => First(t)
  BY DEF Order
<1>1. CASE Rests
  BY <1>0, <1>1 DEF Rests, First
<1>2. ASSUME NEW t \in tasks, Leaves(t) PROVE FALSE
  BY <1>0, <1>2 DEF Leaves, First
<1>3. ASSUME NEW t \in tasks, Replaces(t) PROVE FALSE
  <2>1. a \in tasks /\ u \in tasks
    BY <1>3, ReplacesFollows DEF Prompts, Steered
  <2> QED
    BY <1>0, <2>1 DEF First
<1>4. ASSUME NEW t \in tasks, NEW s \in {"host", "catalog"}, Moves(t, s) PROVE FALSE
  <2>1. PICK b \in tasks : Alike(a, b) /\ ((a = b /\ b # t) \/ (b = t /\ a.step = s))
    BY <1>4, MovesShape DEF Base
  <2>2. PICK v \in tasks : Alike(u, v)
    BY <1>4, MovesShape DEF Base
  <2>3. First(b)
    BY <1>0, <1>4, <2>1 DEF Moves
  <2> QED
    BY <2>1, <2>2, <2>3 DEF First, Alike
<1>5. ASSUME NEW kind \in Kinds, Adds(kind) PROVE FALSE
  <2>1. PICK n \in TaskSet :
           /\ tasks' = tasks \cup {n} /\ n.id = sent + 1 /\ n.kind = kind
           /\ n.step # "wait" => kind \in {"attach", "new"}
           /\ \A b \in tasks : b.id <= sent
    BY <1>5, AddsShape
  <2>2. a \in tasks
    BY <2>1 DEF Prompts, Steered
  <2>3. a.id \in Int /\ sent \in Nat
    BY <2>2, TaskFields DEF Base, TaskTypes
  <2>4. u # n
    BY <2>1, <2>2, <2>3
  <2> QED
    BY <1>0, <2>1, <2>2, <2>4 DEF First
<1> QED
  BY <1>1, <1>2, <1>3, <1>4, <1>5, TasksMove

LEMMA EntryFields ==
  ASSUME Base, NEW e \in Items(admitted)
  PROVE  e \in EntrySet /\ e.id \in Nat /\ e.conn \in Conns /\ e.model \in Nat
<1>1. e \in EntrySet
  BY ItemsAre DEF Base, DataTypes
<1> QED
  BY <1>1 DEF EntrySet

LEMMA ChoiceFields ==
  ASSUME Base, NEW m \in Items(confirmed)
  PROVE  m.id \in Nat /\ m.conn \in Conns /\ m.conn \in Nat
<1>1. m \in ChoiceSet
  BY ItemsAre DEF Base, DataTypes
<1> QED
  BY <1>1 DEF ChoiceSet, Conns

\* What was admitted stays ahead.
LEMMA AheadKept ==
  ASSUME Base, Order, Follows, NEW e \in Items(admitted)
  PROVE  Ahead(e)'
<1>1. Ahead(e) /\ e.id \in 1..sent /\ sent \in Nat
  BY DEF Order, Ahead, Base, TaskTypes
<1>2. e.id \in 1..sent'
  BY <1>1 DEF Follows
<1>3. ASSUME NEW a \in tasks'
      PROVE  /\ a.kind \in Updates => e.id < a.id
             /\ e.kind = "text" /\ a.kind = "text" => e.id < a.id
             /\ e.kind \in Steered /\ a.kind \in Steered /\ a.conn = e.conn => e.id < a.id
  <2>1. CASE a.kind = "attached"
    BY <2>1 DEF Updates, Steered
  <2>2. CASE a.id = sent + 1
    BY <1>1, <2>2
  <2>3. CASE \E b \in tasks : Alike(a, b)
    BY <1>1, <2>3 DEF Ahead, Alike
  <2> QED
    BY <2>1, <2>2, <2>3 DEF Follows
<1> QED
  BY <1>2, <1>3 DEF Ahead

\* Prompts whose order is promised, and PromptsInOrder of a sequence.
Paired(e, f) == e.conn = f.conn /\ ((e.kind = "text" /\ f.kind = "text") \/ (e.kind \in Steered /\ f.kind \in Steered))
InOrder(s) == \A i, j \in DOMAIN s : i < j /\ Paired(s[i], s[j]) => s[i].id < s[j].id
LEMMA OrderIs == (PromptsInOrder <=> InOrder(admitted)) /\ (PromptsInOrder' <=> InOrder(admitted)')
<1>1. \A k, l : (\E kinds \in {{"text"}, Steered} : {k, l} \subseteq kinds) <=>
                  ((k = "text" /\ l = "text") \/ (k \in Steered /\ l \in Steered))
  OBVIOUS
<1>2. PromptsInOrder <=> InOrder(admitted)
  BY <1>1 DEF PromptsInOrder, InOrder, Paired
<1>3. PromptsInOrder' <=> InOrder(admitted)'
  BY <1>1 DEF PromptsInOrder, InOrder, Paired
<1> QED
  BY <1>2, <1>3

LEMMA OrderRest ==
  ASSUME Base, Order, [Next]_vars, UNCHANGED admitted
  PROVE  Order'
<1>1. PromptsInOrder'
  BY DEF Order, PromptsInOrder
<1>2. \A e \in Items(admitted)' : Ahead(e)'
  BY StepFollows, AheadKept DEF Items
<1>3. \A t \in tasks' : t.step # "wait" => First(t)'
  BY FirstKept
<1> QED
  BY <1>1, <1>2, <1>3 DEF Order

LEMMA OrderAdmit ==
  ASSUME Base, Order, [Next]_vars, NEW e \in EntrySet, admitted' = Append(admitted, e), Ahead(e)',
         \A f \in Items(admitted) : Paired(f, e) => f.id < e.id
  PROVE  Order'
<1>1. admitted \in Seq(EntrySet)
  BY DEF Base, DataTypes
<1>2. InOrder(admitted)'
  <2> DEFINE n == Len(admitted)
  <2>1. /\ n \in Nat /\ DOMAIN admitted = 1..n /\ DOMAIN admitted' = 1..(n + 1)
        /\ \A i \in 1..n : admitted'[i] = admitted[i]
        /\ admitted'[n + 1] = e
    BY <1>1, AppendOf
  <2>2. InOrder(admitted)
    BY OrderIs DEF Order
  <2>3. \A i \in 1..n : Paired(admitted[i], e) => admitted[i].id < e.id
    BY <2>1 DEF Items
  <2> HIDE DEF n
  <2> QED
    BY <2>1, <2>2, <2>3 DEF InOrder
<1>3. ASSUME NEW f \in Items(admitted)' PROVE Ahead(f)'
  <2>1. Items(admitted)' = Items(admitted) \cup {e}
    <3>1. Items(Append(admitted, e)) = Items(admitted) \cup {e}
      BY <1>1, ItemsWritten
    <3> QED
      BY <3>1 DEF Items
  <2>2. CASE f \in Items(admitted)
    BY <2>2, StepFollows, AheadKept
  <2> QED
    BY <1>3, <2>1, <2>2
<1>4. \A t \in tasks' : t.step # "wait" => First(t)'
  BY FirstKept
<1> QED
  BY <1>2, <1>3, <1>4, OrderIs DEF Order

LEMMA OrderByTask ==
  ASSUME Base, Order, [Next]_vars, NEW t \in tasks, Leaves(t) \/ Replaces(t), Unblocked(t), t.kind # "attached",
         NEW c \in Conns, Admit(c, t.id, t.kind),
         t.kind = "text" => FirstText(t),
         t.kind \in Steered => c = t.conn /\ First(t)
  PROVE  Order'
<1>1. t.id \in 1..sent /\ t.kind \in TaskKinds /\ sent' = sent /\ sent \in Nat
  BY TaskFields DEF Base, Named, Leaves, Replaces, TaskTypes
<1>2. [id |-> t.id, conn |-> c, kind |-> t.kind, model |-> selection[c]] \in EntrySet
  BY <1>1 DEF EntrySet, Base, DataTypes
<1>3. PICK e \in EntrySet : e = [id |-> t.id, conn |-> c, kind |-> t.kind, model |-> selection[c]]
  BY <1>2
<1>8. admitted' = Append(admitted, e) /\ e.id = t.id /\ e.conn = c /\ e.kind = t.kind
  BY <1>3 DEF Admit
<1>4. \A a \in tasks' : a.kind = "attached" \/ (a \in tasks /\ a # t /\ a.id # t.id)
  BY LeavesFollows, ReplacesFollows
<1>5. ASSUME NEW a \in tasks'
      PROVE  /\ a.kind \in Updates => e.id < a.id
             /\ e.kind = "text" /\ a.kind = "text" => e.id < a.id
             /\ e.kind \in Steered /\ a.kind \in Steered /\ a.conn = e.conn => e.id < a.id
  <2>1. CASE a.kind = "attached"
    BY <2>1 DEF Updates, Steered
  <2>2. CASE a \in tasks /\ a # t /\ a.id # t.id
    <3>1. a.id \in Int /\ t.id \in Int
      BY <2>2, TaskFields DEF Base
    <3>2. a.kind \in Updates => t.id <= a.id
      BY <2>2 DEF Unblocked
    <3>3. e.kind = "text" /\ a.kind = "text" => t.id <= a.id
      BY <1>8, <2>2 DEF FirstText
    <3>4. e.kind \in Steered /\ a.kind \in Steered /\ a.conn = e.conn => ~(a.id < t.id)
      BY <1>8, <2>2 DEF First, Prompts
    <3> QED
      BY <1>8, <2>2, <3>1, <3>2, <3>3, <3>4
  <2> QED
    BY <1>4, <2>1, <2>2
<1>6. Ahead(e)'
  BY <1>1, <1>8, <1>5 DEF Ahead
<1>7. ASSUME NEW f \in Items(admitted), Paired(f, e) PROVE f.id < e.id
  BY <1>8, <1>7 DEF Order, Ahead, Paired
<1> QED
  BY <1>8, <1>6, <1>7, OrderAdmit

LEMMA OrderStep == Base /\ Order /\ [Next]_vars => Order'
<1> SUFFICES ASSUME Base, Order, [Next]_vars PROVE Order'
  OBVIOUS
<1>0. conn \in Conns /\ \A t \in tasks : t.conn \in Conns
  BY TaskFields DEF Base, TaskTypes
<1>1. CASE InputText
  <2>1. sent' = sent + 1 /\ tasks' = tasks /\ modelUpdates = 0 /\ Drained /\ Admit(conn, sent + 1, "text")
    BY <1>1, InputDoes
  <2>2. sent \in Nat
    BY DEF Base, TaskTypes
  <2>3. PICK e \in EntrySet : e = [id |-> sent + 1, conn |-> conn, kind |-> "text", model |-> selection[conn]]
    <3>1. sent + 1 \in Nat /\ "text" \in TaskKinds /\ selection[conn] \in Nat
      BY <1>0, <2>2 DEF TaskKinds, Base, DataTypes
    <3>2. [id |-> sent + 1, conn |-> conn, kind |-> "text", model |-> selection[conn]] \in EntrySet
      BY <1>0, <3>1 DEF EntrySet
    <3> QED
      BY <3>2
  <2>4. admitted' = Append(admitted, e) /\ e.id = sent + 1 /\ e.kind = "text"
    BY <2>1, <2>3 DEF Admit
  <2>5. \A a \in tasks : a.kind \notin Updates
    BY <2>1, TaskFields DEF Base, Chain, Named, Updates
  <2>6. ASSUME NEW a \in tasks, a.kind = "text" PROVE FALSE
    <3>1. a.step = "wait" /\ First(a)
      BY <2>6 DEF Base, Named, First, Prompts, Steered
    <3>2. ~Settled(a.waits)
      BY <2>1, <3>1 DEF Drained, Ready
    <3> QED
      BY <2>5, <3>2 DEF Settled, Base, Named
  <2>7. Ahead(e)'
    BY <2>1, <2>2, <2>4, <2>5, <2>6 DEF Ahead, Steered
  <2>8. ASSUME NEW f \in Items(admitted) PROVE f.id < e.id
    BY <2>2, <2>4, EntryFields DEF Order, Ahead
  <2> QED
    BY <2>4, <2>7, <2>8, OrderAdmit
<1>2. CASE \E kind \in Kinds : Message(kind)
  BY <1>2, MessageDoes, OrderRest
<1>3. CASE Resume
  <2>1. PICK t \in tasks :
          \/ UNCHANGED admitted
          \/ /\ Leaves(t) /\ t.conn = conn /\ t.kind = "text" /\ Unblocked(t) /\ FirstText(t)
             /\ Admit(t.conn, t.id, t.kind)
          \/ /\ Leaves(t) /\ t.conn = conn /\ t.kind = "steer" /\ Unblocked(t) /\ First(t)
             /\ Admit(t.conn, t.id, t.kind)
    BY <1>3, ResumeDoes
  <2>2. t.conn \in Conns
    BY <1>0
  <2>3. CASE /\ Leaves(t) /\ t.conn = conn /\ t.kind = "text" /\ Unblocked(t) /\ FirstText(t)
             /\ Admit(t.conn, t.id, t.kind)
    BY <2>2, <2>3, OrderByTask DEF Steered
  <2>4. CASE /\ Leaves(t) /\ t.conn = conn /\ t.kind = "steer" /\ Unblocked(t) /\ First(t)
             /\ Admit(t.conn, t.id, t.kind)
    BY <2>2, <2>4, OrderByTask
  <2> QED
    BY <2>1, <2>3, <2>4, OrderRest
<1>4. CASE ImageDone
  <2>1. PICK t \in tasks :
              /\ Leaves(t) /\ t.kind = "image" /\ Unblocked(t)
              /\ Admit(t.conn, t.id, t.kind) \/ UNCHANGED admitted
    BY <1>4, ImageDoes
  <2>2. CASE Admit(t.conn, t.id, t.kind)
    BY <1>0, <2>1, <2>2, OrderByTask DEF Steered
  <2> QED
    BY <2>1, <2>2, OrderRest
<1>5. CASE SteerImageDone
  <2>1. PICK t \in tasks :
              /\ Leaves(t) /\ t.kind = "steerImage" /\ t.step = "host" /\ Unblocked(t)
              /\ Admit(t.conn, t.id, t.kind) \/ UNCHANGED admitted
    BY <1>5, SteerImageDoes
  <2>2. First(t)
    BY <2>1 DEF Order
  <2>3. CASE Admit(t.conn, t.id, t.kind)
    BY <1>0, <2>1, <2>2, <2>3, OrderByTask
  <2> QED
    BY <2>1, <2>3, OrderRest
<1>6. CASE SelectDone
  BY <1>6, SelectDoes, OrderRest
<1>7. CASE CatalogDone
  BY <1>7, CatalogDoes, OrderRest
<1>8. CASE CommandDone
  BY <1>8, CommandDoes, OrderRest
<1>9. CASE SessionDone
  <2>1. PICK t \in tasks :
              \/ UNCHANGED admitted
              \/ /\ Replaces(t) /\ conn + 1 \in Conns /\ t.kind = "newInput"
                 /\ Unblocked(t) \/ t.kind # "newInput"
                 /\ Admit(conn + 1, t.id, t.kind)
    BY <1>9, SessionDoes
  <2>2. CASE /\ Replaces(t) /\ conn + 1 \in Conns /\ t.kind = "newInput"
             /\ Unblocked(t) \/ t.kind # "newInput"
             /\ Admit(conn + 1, t.id, t.kind)
    BY <2>2, OrderByTask DEF Steered
  <2> QED
    BY <2>1, <2>2, OrderRest
<1>10. CASE Claim
  BY <1>10, ClaimDoes, OrderRest
<1>11. CASE Client
  BY <1>11, ClientDoes, OrderRest
<1>12. CASE UNCHANGED vars
  BY <1>12, StutterDoes, OrderRest
<1> QED
  BY <1>1, <1>2, <1>3, <1>4, <1>5, <1>6, <1>7, <1>8, <1>9, <1>10, <1>11, <1>12, NextIs

-----------------------------------------------------------------------------
(* Models are selected in the order of the messages. *)

\* The parts of Selected.
PassedOver == \A t, u \in tasks : t.kind = "text" /\ u.kind \in Updates /\ t.id < u.id => u.step = "wait"
Later      == \A t \in tasks : Unset(t) => selection[t.conn] < t.id
Made       == \A m \in Items(confirmed) : m.conn <= conn /\ m.id <= selection[m.conn]
TextUnder  == \A e \in Items(admitted) : e.kind = "text" => e.model < e.id

LEMMA SelectedIs ==
  /\ Selected <=> ModelsBefore /\ TextUnder /\ Made /\ (\A c \in Conns : selection[c] <= sent) /\ Later /\ PassedOver
  /\ Selected' <=> ModelsBefore' /\ TextUnder' /\ Made' /\ (\A c \in Conns : selection'[c] <= sent') /\ Later' /\ PassedOver'
BY DEF Selected, TextUnder, Made, Later, PassedOver

\* A moved update has no text before it.
Steps(t) == Leaves(t) \/ Replaces(t) \/ \E s \in {"host", "catalog"} : Moves(t, s) /\ (t.kind \in Updates => FirstText(t))
Shape == Rests \/ (\E t \in tasks : Steps(t)) \/ (\E kind \in Kinds : Adds(kind))

LEMMA PassedOverKept ==
  ASSUME Base, PassedOver, Shape
  PROVE  PassedOver'
<1> SUFFICES ASSUME NEW a \in tasks', NEW u \in tasks', a.kind = "text", u.kind \in Updates, a.id < u.id
             PROVE  u.step = "wait"
  BY DEF PassedOver
<1>1. CASE Rests
  BY <1>1 DEF Rests, PassedOver
<1>2. ASSUME NEW t \in tasks, Leaves(t) PROVE u.step = "wait"
  BY <1>2 DEF Leaves, PassedOver
<1>3. ASSUME NEW t \in tasks, Replaces(t) PROVE u.step = "wait"
  BY <1>3, ReplacesFollows DEF PassedOver, Updates
<1>4. ASSUME NEW t \in tasks, NEW s \in {"host", "catalog"}, Moves(t, s), t.kind \in Updates => FirstText(t)
      PROVE  u.step = "wait"
  <2>1. PICK b \in tasks : Alike(a, b)
    BY <1>4, MovesShape DEF Base
  <2>2. PICK v \in tasks : Alike(u, v) /\ ((u = v /\ v # t) \/ (v = t /\ u.step = s))
    BY <1>4, MovesShape DEF Base
  <2>3. v.step = "wait"
    BY <2>1, <2>2 DEF PassedOver, Alike
  <2>4. v # t
    <3>1. SUFFICES ASSUME v = t PROVE FALSE
      OBVIOUS
    <3>2. t.id <= b.id /\ b.id < t.id
      BY <1>4, <2>1, <2>2, <3>1 DEF FirstText, Alike
    <3> QED
      BY <2>1, <3>2, TaskFields DEF Base
  <2> QED
    BY <2>2, <2>3, <2>4
<1>5. ASSUME NEW kind \in Kinds, Adds(kind) PROVE u.step = "wait"
  <2>1. PICK n \in TaskSet :
           /\ tasks' = tasks \cup {n} /\ n.id = sent + 1 /\ n.kind = kind
           /\ n.step # "wait" => kind \in {"attach", "new"}
           /\ \A b \in tasks : b.id <= sent
    BY <1>5, AddsShape
  <2>2. CASE u = n
    BY <2>1, <2>2 DEF Updates
  <2>3. CASE u \in tasks
    <3>1. a # n
      BY <2>1, <2>3, TaskFields DEF Base, TaskTypes
    <3> QED
      BY <2>1, <2>3, <3>1 DEF PassedOver
  <2> QED
    BY <2>1, <2>2, <2>3
<1> QED
  BY <1>1, <1>2, <1>3, <1>4, <1>5 DEF Shape, Steps

LEMMA LaterKept ==
  ASSUME Base, Later, \A c \in Conns : selection[c] <= sent, Shape, UNCHANGED selection
  PROVE  Later'
<1> SUFFICES ASSUME NEW a \in tasks', Unset(a) PROVE selection[a.conn] < a.id
  BY DEF Later, Unset
<1>1. CASE Rests
  BY <1>1 DEF Rests, Later
<1>2. ASSUME NEW t \in tasks, Leaves(t) PROVE selection[a.conn] < a.id
  BY <1>2 DEF Leaves, Later
<1>3. ASSUME NEW t \in tasks, Replaces(t) PROVE selection[a.conn] < a.id
  BY <1>3, ReplacesFollows DEF Later, Unset, Updates
<1>4. ASSUME NEW t \in tasks, NEW s \in {"host", "catalog"}, Moves(t, s) PROVE selection[a.conn] < a.id
  <2>1. PICK b \in tasks : Alike(a, b) /\ ((a = b /\ b # t) \/ (b = t /\ a.step = s))
    BY <1>4, MovesShape DEF Base
  <2>2. Unset(b)
    BY <1>4, <2>1 DEF Moves, Unset, Alike
  <2> QED
    BY <2>1, <2>2 DEF Later, Alike
<1>5. ASSUME NEW kind \in Kinds, Adds(kind) PROVE selection[a.conn] < a.id
  <2>1. PICK n \in TaskSet : tasks' = tasks \cup {n} /\ n.id = sent + 1 /\ n.conn = conn
    BY <1>5, AddsShape
  <2>2. selection[conn] <= sent /\ selection[conn] \in Nat /\ sent \in Nat
    BY DEF Base, TaskTypes, DataTypes
  <2> QED
    BY <2>1, <2>2 DEF Later
<1> QED
  BY <1>1, <1>2, <1>3, <1>4, <1>5 DEF Shape, Steps

LEMMA SelectionIs ==
  ASSUME Base
  PROVE  sent \in Nat /\ conn \in Conns /\ conn \in Nat /\ \A c \in Conns : selection[c] \in Nat
BY DEF Base, TaskTypes, DataTypes, Conns

LEMMA ShapeFollows == ASSUME Base, Shape PROVE Follows
BY LeavesFollows, MovesFollows, ReplacesFollows, AddsFollows, RestsFollows DEF Shape, Steps

\* Nothing was admitted or confirmed.
LEMMA SelectedRest ==
  ASSUME Base, Selected, Shape, UNCHANGED <<selection, admitted, confirmed>>
  PROVE  Selected'
<1>1. ModelsBefore /\ TextUnder /\ Made /\ (\A c \in Conns : selection[c] <= sent) /\ Later /\ PassedOver
  BY SelectedIs
<1>2. PassedOver' /\ Later'
  BY <1>1, PassedOverKept, LaterKept
<1>3. sent <= sent' /\ conn <= conn' /\ sent' \in Nat /\ conn' \in Nat
  BY ShapeFollows DEF Follows, Conns
<1>4. \A c \in Conns : selection'[c] <= sent'
  BY <1>1, <1>3, SelectionIs
<1>5. ModelsBefore' /\ TextUnder'
  BY <1>1 DEF ModelsBefore, TextUnder, Items
<1>6. Made'
  <2>1. \A m \in Items(confirmed) : m.conn <= conn' /\ m.id <= selection[m.conn]
    BY <1>1, <1>3, SelectionIs, ChoiceFields DEF Made
  <2> QED
    BY <2>1 DEF Made, Items
<1> QED
  BY <1>2, <1>4, <1>5, <1>6, SelectedIs

\* A prompt was admitted.
LEMMA SelectedAdmit ==
  ASSUME Base, Selected, Shape, UNCHANGED <<selection, confirmed>>,
         NEW e \in EntrySet, admitted' = Append(admitted, e), e.model = selection[e.conn],
         e.kind = "text" => selection[e.conn] < e.id
  PROVE  Selected'
<1>1. ModelsBefore /\ TextUnder /\ Made /\ (\A c \in Conns : selection[c] <= sent) /\ Later /\ PassedOver
  BY SelectedIs
<1>2. PassedOver' /\ Later'
  BY <1>1, PassedOverKept, LaterKept
<1>3. sent <= sent' /\ conn <= conn' /\ sent' \in Nat /\ conn' \in Nat
  BY ShapeFollows DEF Follows, Conns
<1>4. \A c \in Conns : selection'[c] <= sent'
  BY <1>1, <1>3, SelectionIs
<1>5. Items(admitted)' = Items(admitted) \cup {e}
  <2>1. Items(Append(admitted, e)) = Items(admitted) \cup {e}
    BY ItemsWritten DEF Base, DataTypes
  <2> QED
    BY <2>1 DEF Items
<1>6. TextUnder'
  BY <1>1, <1>5 DEF TextUnder
<1>7. Made'
  <2>1. \A m \in Items(confirmed) : m.conn <= conn' /\ m.id <= selection[m.conn]
    BY <1>1, <1>3, SelectionIs, ChoiceFields DEF Made
  <2> QED
    BY <2>1 DEF Made, Items
<1>8. ModelsBefore'
  <2>1. \A f \in Items(admitted), m \in Items(confirmed) :
          m.conn = f.conn => (m.id < f.id => m.id <= f.model) /\ (f.kind = "text" => f.model < f.id)
    BY <1>1 DEF ModelsBefore, Items
  <2>2. \A m \in Items(confirmed) :
          m.conn = e.conn => (m.id < e.id => m.id <= e.model) /\ (e.kind = "text" => e.model < e.id)
    BY <1>1 DEF Made
  <2>3. \A f \in Items(admitted)', m \in Items(confirmed)' :
          m.conn = f.conn => (m.id < f.id => m.id <= f.model) /\ (f.kind = "text" => f.model < f.id)
    BY <1>5, <2>1, <2>2 DEF Items
  <2> QED
    BY <2>3 DEF ModelsBefore, Items
<1> QED
  BY <1>2, <1>4, <1>6, <1>7, <1>8, SelectedIs

\* A model was selected.
LEMMA SelectedSet ==
  ASSUME Base, Order, Selected, NEW t \in tasks, t.kind = "set", t.step = "host", Unblocked(t), t.conn = conn,
         Moves(t, "catalog"), selection' = [selection EXCEPT ![conn] = t.id],
         confirmed' = Append(confirmed, [id |-> t.id, conn |-> conn]), UNCHANGED admitted
  PROVE  Selected'
<1>1. ModelsBefore /\ TextUnder /\ Made /\ (\A c \in Conns : selection[c] <= sent) /\ Later /\ PassedOver
  BY SelectedIs
<1>2. FirstText(t)
  <2>1. SUFFICES ASSUME NEW u \in tasks, u.kind = "text", ~(t.id <= u.id) PROVE FALSE
    BY DEF FirstText
  <2>2. u.id < t.id
    BY <2>1, TaskFields DEF Base
  <2> QED
    BY <1>1, <2>1, <2>2 DEF PassedOver, Updates
<1>3. PassedOver'
  BY <1>1, <1>2, PassedOverKept DEF Shape, Steps
<1>4. /\ conn \in Conns /\ t.id \in 1..sent /\ sent' = sent /\ sent \in Nat /\ conn' = conn /\ conn \in Nat
      /\ selection \in [Conns -> Nat]
  BY SelectionIs DEF Moves, Base, Named, DataTypes
<1>5. \A c \in Conns : selection'[c] = IF c = conn THEN t.id ELSE selection[c]
  BY <1>4
<1>6. \A c \in Conns : selection'[c] <= sent'
  BY <1>1, <1>4, <1>5
<1>7. selection[conn] < t.id
  BY <1>1 DEF Later, Unset, Updates
<1>8. Later'
  <2> SUFFICES ASSUME NEW a \in tasks', Unset(a) PROVE selection'[a.conn] < a.id
    BY DEF Later, Unset
  <2>1. PICK b \in tasks : Alike(a, b) /\ ((a = b /\ b # t) \/ (b = t /\ a.step = "catalog"))
    BY MovesShape DEF Base
  <2>2. b # t /\ a = b
    BY <2>1 DEF Unset, Updates, Alike
  <2>3. selection[a.conn] < a.id /\ a.id # t.id /\ a.id \in Int /\ a.conn \in Conns
    BY <1>1, <2>1, <2>2, TaskFields DEF Later, Base, Named
  <2>4. t.id <= a.id
    BY <1>2, <2>1, <2>2 DEF Unset, Unblocked, FirstText
  <2> QED
    BY <1>4, <1>5, <2>3, <2>4
<1>9. PICK m0 \in ChoiceSet : m0 = [id |-> t.id, conn |-> conn]
  BY <1>4 DEF ChoiceSet
<1>10. Items(confirmed)' = Items(confirmed) \cup {m0} /\ m0.id = t.id /\ m0.conn = conn
  <2>1. Items(Append(confirmed, m0)) = Items(confirmed) \cup {m0}
    BY ItemsWritten DEF Base, DataTypes
  <2> QED
    BY <1>9, <2>1 DEF Items
<1>11. Made'
  <2> SUFFICES ASSUME NEW m \in Items(confirmed)' PROVE m.conn <= conn' /\ m.id <= selection'[m.conn]
    BY DEF Made
  <2>1. CASE m = m0
    BY <1>4, <1>5, <1>10, <2>1
  <2>2. CASE m \in Items(confirmed)
    <3>1. m.conn <= conn /\ m.id <= selection[m.conn] /\ m.id \in Nat /\ m.conn \in Conns
      BY <1>1, <2>2, ChoiceFields DEF Made
    <3> QED
      BY <1>4, <1>5, <1>7, <3>1
  <2> QED
    BY <1>10, <2>1, <2>2
<1>12. TextUnder'
  BY <1>1 DEF TextUnder, Items
<1>13. ModelsBefore'
  <2>1. \A f \in Items(admitted), m \in Items(confirmed) :
          m.conn = f.conn => (m.id < f.id => m.id <= f.model) /\ (f.kind = "text" => f.model < f.id)
    BY <1>1 DEF ModelsBefore, Items
  <2>2. \A f \in Items(admitted) : f.id < t.id /\ f.id \in Nat
    BY EntryFields DEF Order, Ahead, Updates
  <2>3. \A f \in Items(admitted) :
          m0.conn = f.conn => (m0.id < f.id => m0.id <= f.model) /\ (f.kind = "text" => f.model < f.id)
    BY <1>1, <1>4, <1>10, <2>2 DEF TextUnder
  <2>4. \A f \in Items(admitted)', m \in Items(confirmed)' :
          m.conn = f.conn => (m.id < f.id => m.id <= f.model) /\ (f.kind = "text" => f.model < f.id)
    BY <1>10, <2>1, <2>3 DEF Items
  <2> QED
    BY <2>4 DEF ModelsBefore, Items
<1> QED
  BY <1>3, <1>6, <1>8, <1>11, <1>12, <1>13, SelectedIs

LEMMA SelectedByTask ==
  ASSUME Base, Selected, NEW t \in tasks, Leaves(t) \/ Replaces(t), t.kind # "attached", UNCHANGED <<selection, confirmed>>,
         NEW c \in Conns, Admit(c, t.id, t.kind), t.kind = "text" => c = t.conn
  PROVE  Selected'
<1>1. [id |-> t.id, conn |-> c, kind |-> t.kind, model |-> selection[c]] \in EntrySet
  <2>1. t.id \in Nat /\ t.kind \in TaskKinds /\ selection[c] \in Nat
    BY TaskFields, SelectionIs DEF Base, Named
  <2> QED
    BY <2>1 DEF EntrySet
<1>2. PICK e \in EntrySet : e = [id |-> t.id, conn |-> c, kind |-> t.kind, model |-> selection[c]]
  BY <1>1
<1>3. admitted' = Append(admitted, e) /\ e.id = t.id /\ e.conn = c /\ e.kind = t.kind /\ e.model = selection[c]
  BY <1>2 DEF Admit
<1>4. e.kind = "text" => selection[e.conn] < e.id
  BY <1>3 DEF Selected, Unset
<1>5. Shape
  BY DEF Shape, Steps
<1> QED
  BY <1>3, <1>4, <1>5, SelectedAdmit

LEMMA SelectedStep == Base /\ Order /\ Selected /\ [Next]_vars => Selected'
<1> SUFFICES ASSUME Base, Order, Selected, [Next]_vars PROVE Selected'
  OBVIOUS
<1>0. conn \in Conns /\ \A t \in tasks : t.conn \in Conns
  BY TaskFields DEF Base, TaskTypes
<1>00. \A t \in tasks : Leaves(t) \/ Replaces(t) => Shape
  BY DEF Shape, Steps
<1>1. CASE InputText
  <2>1. sent' = sent + 1 /\ UNCHANGED <<tasks, modelUpdates, conn, selection, confirmed>> /\ Admit(conn, sent + 1, "text")
    BY <1>1, InputDoes
  <2>2. sent + 1 \in Nat /\ "text" \in TaskKinds /\ selection[conn] \in Nat /\ selection[conn] < sent + 1
    BY <1>0, SelectionIs DEF TaskKinds, Selected
  <2>3. [id |-> sent + 1, conn |-> conn, kind |-> "text", model |-> selection[conn]] \in EntrySet
    BY <1>0, <2>2 DEF EntrySet
  <2>4. PICK e \in EntrySet : e = [id |-> sent + 1, conn |-> conn, kind |-> "text", model |-> selection[conn]]
    BY <2>3
  <2>5. admitted' = Append(admitted, e) /\ e.id = sent + 1 /\ e.conn = conn /\ e.model = selection[conn]
    BY <2>1, <2>4 DEF Admit
  <2>6. Shape
    BY <2>1 DEF Shape, Rests
  <2> QED
    BY <2>1, <2>2, <2>5, <2>6, SelectedAdmit
<1>2. CASE \E kind \in Kinds : Message(kind)
  BY <1>2, MessageDoes, SelectedRest DEF Shape
<1>3. CASE Resume
  <2>0. UNCHANGED <<selection, confirmed>>
    BY <1>3, ResumeDoes
  <2>1. PICK t \in tasks :
          \/ UNCHANGED admitted /\ Steps(t)
          \/ /\ Leaves(t) /\ t.kind # "attached" /\ Admit(t.conn, t.id, t.kind)
    BY <1>3, ResumeDoes DEF Steps
  <2>2. CASE UNCHANGED admitted /\ Steps(t)
    BY <2>0, <2>2, SelectedRest DEF Shape
  <2>3. CASE Leaves(t) /\ t.kind # "attached" /\ Admit(t.conn, t.id, t.kind)
    BY <1>0, <2>0, <2>3, SelectedByTask
  <2> QED
    BY <2>1, <2>2, <2>3
<1>4. CASE ImageDone
  <2>1. PICK t \in tasks :
              /\ Leaves(t) /\ t.kind = "image"
              /\ Admit(t.conn, t.id, t.kind) \/ UNCHANGED admitted
    BY <1>4, ImageDoes
  <2>2. UNCHANGED <<selection, confirmed>>
    BY <1>4, ImageDoes
  <2>3. CASE Admit(t.conn, t.id, t.kind)
    BY <1>0, <2>1, <2>2, <2>3, SelectedByTask
  <2> QED
    BY <1>00, <2>1, <2>2, <2>3, SelectedRest
<1>5. CASE SteerImageDone
  <2>1. PICK t \in tasks :
              /\ Leaves(t) /\ t.kind = "steerImage"
              /\ Admit(t.conn, t.id, t.kind) \/ UNCHANGED admitted
    BY <1>5, SteerImageDoes
  <2>2. UNCHANGED <<selection, confirmed>>
    BY <1>5, SteerImageDoes
  <2>3. CASE Admit(t.conn, t.id, t.kind)
    BY <1>0, <2>1, <2>2, <2>3, SelectedByTask
  <2> QED
    BY <1>00, <2>1, <2>2, <2>3, SelectedRest
<1>6. CASE SelectDone
  <2>0. UNCHANGED admitted
    BY <1>6, SelectDoes
  <2>1. PICK t \in tasks :
              /\ t.kind = "set" /\ t.step = "host" /\ Unblocked(t)
              /\ \/ /\ t.conn = conn /\ Moves(t, "catalog")
                    /\ selection' = [selection EXCEPT ![conn] = t.id]
                    /\ confirmed' = Append(confirmed, [id |-> t.id, conn |-> conn])
                 \/ Leaves(t) /\ UNCHANGED <<selection, confirmed>>
    BY <1>6, SelectDoes
  <2>2. CASE Leaves(t) /\ UNCHANGED <<selection, confirmed>>
    BY <1>00, <2>0, <2>2, SelectedRest
  <2> QED
    BY <2>0, <2>1, <2>2, SelectedSet
<1>7. CASE CatalogDone
  BY <1>00, <1>7, CatalogDoes, SelectedRest
<1>8. CASE CommandDone
  BY <1>00, <1>8, CommandDoes, SelectedRest
<1>9. CASE SessionDone
  <2>0. UNCHANGED <<selection, confirmed>>
    BY <1>9, SessionDoes
  <2>1. PICK t \in tasks :
              \/ UNCHANGED admitted /\ (Leaves(t) \/ Replaces(t))
              \/ /\ Replaces(t) /\ conn + 1 \in Conns /\ t.kind = "newInput"
                 /\ Admit(conn + 1, t.id, t.kind)
    BY <1>9, SessionDoes
  <2>2. CASE /\ Replaces(t) /\ conn + 1 \in Conns /\ t.kind = "newInput"
             /\ Admit(conn + 1, t.id, t.kind)
    BY <2>0, <2>2, SelectedByTask
  <2> QED
    BY <1>00, <2>0, <2>1, <2>2, SelectedRest
<1>10. CASE Claim
  BY <1>10, ClaimDoes, SelectedRest DEF Shape, Rests
<1>11. CASE Client
  BY <1>11, ClientDoes, SelectedRest DEF Shape, Rests
<1>12. CASE UNCHANGED vars
  BY <1>12, StutterDoes, SelectedRest DEF Shape, Rests
<1> QED
  BY <1>1, <1>2, <1>3, <1>4, <1>5, <1>6, <1>7, <1>8, <1>9, <1>10, <1>11, <1>12, NextIs

-----------------------------------------------------------------------------
(* The channel leads the client to its session, and shows the queue last. *)

\* What sending and reading does to the channel, and to the queue it shows.
LEMMA ConnIs == ASSUME NEW s \in Seq(FrameSet), NEW i \in DOMAIN s PROVE s[i] \in FrameSet /\ s[i].conn \in Nat /\ s[i].conn \in Conns
BY FrameFields DEF Conns

LEMMA WaySent ==
  ASSUME NEW s \in Seq(FrameSet), NEW from \in Nat, NEW to \in Nat, Way(s, from, to),
         NEW e \in FrameSet, e.kind # "welcome", e.conn = to
  PROVE  Way(Append(s, e), from, to)
<1> DEFINE u == Append(s, e)
           n == Len(s)
<1>1. /\ n \in Nat /\ DOMAIN s = 1..n /\ DOMAIN u = 1..(n + 1)
      /\ \A i \in 1..n : u[i] = s[i]
      /\ u[n + 1] = e
  BY AppendOf
<1>2. \A i \in 1..n : s[i].conn \in Nat
  BY <1>1, ConnIs
<1> HIDE DEF u, n
<1>3. from = to \/ \E j \in DOMAIN u : u[j].kind = "welcome" /\ u[j].conn = to /\ j # n + 1
  BY <1>1 DEF Way
<1>4. ASSUME NEW i \in DOMAIN u
      PROVE  /\ from <= u[i].conn /\ u[i].conn <= to
             /\ IF u[i].kind = "welcome" THEN from < u[i].conn
                ELSE u[i].conn = from \/ \E j \in DOMAIN u : j < i /\ u[j].kind = "welcome" /\ u[j].conn = u[i].conn
  <2>1. CASE i = n + 1
    <3>1. \A j \in DOMAIN u : j # n + 1 => j < i
      BY <1>1, <2>1
    <3> QED
      BY <1>1, <1>3, <2>1, <3>1 DEF Way
  <2>2. CASE i \in 1..n
    <3>1. u[i] = s[i] /\ i \in DOMAIN s
      BY <1>1, <2>2
    <3>2. s[i].kind # "welcome" => s[i].conn = from \/ \E j \in 1..n : j < i /\ u[j].kind = "welcome" /\ u[j].conn = s[i].conn
      BY <1>1, <3>1 DEF Way
    <3> QED
      BY <1>1, <3>1, <3>2 DEF Way
  <2> QED
    BY <1>1, <2>1, <2>2
<1>5. ASSUME NEW i \in DOMAIN u, NEW j \in DOMAIN u, i < j
      PROVE  u[i].conn <= u[j].conn /\ (u[j].kind = "welcome" => u[i].conn < u[j].conn)
  <2>1. i \in 1..n /\ u[i] = s[i]
    BY <1>1, <1>5
  <2>2. CASE j = n + 1
    BY <1>1, <2>1, <2>2 DEF Way
  <2>3. CASE j \in 1..n
    BY <1>1, <1>5, <2>1, <2>3 DEF Way
  <2> QED
    BY <1>1, <2>2, <2>3
<1>6. from <= to
  BY DEF Way
<1> QED
  BY <1>3, <1>4, <1>5, <1>6 DEF Way, u

LEMMA WayWelcomed ==
  ASSUME NEW s \in Seq(FrameSet), NEW from \in Nat, NEW to \in Nat, Way(s, from, to),
         NEW e \in FrameSet, e.kind = "welcome", to < e.conn
  PROVE  Way(Append(s, e), from, e.conn)
<1> DEFINE u == Append(s, e)
           n == Len(s)
<1>1. /\ n \in Nat /\ DOMAIN s = 1..n /\ DOMAIN u = 1..(n + 1)
      /\ \A i \in 1..n : u[i] = s[i]
      /\ u[n + 1] = e
  BY AppendOf
<1>2. (\A i \in 1..n : s[i].conn \in Nat) /\ e.conn \in Nat
  BY <1>1, ConnIs, FrameFields DEF Conns
<1> HIDE DEF u, n
<1>3. \E j \in DOMAIN u : u[j].kind = "welcome" /\ u[j].conn = e.conn
  BY <1>1
<1>4. ASSUME NEW i \in DOMAIN u
      PROVE  /\ from <= u[i].conn /\ u[i].conn <= e.conn
             /\ IF u[i].kind = "welcome" THEN from < u[i].conn
                ELSE u[i].conn = from \/ \E j \in DOMAIN u : j < i /\ u[j].kind = "welcome" /\ u[j].conn = u[i].conn
  <2>1. CASE i = n + 1
    BY <1>1, <1>2, <2>1 DEF Way
  <2>2. CASE i \in 1..n
    <3>1. u[i] = s[i] /\ i \in DOMAIN s /\ s[i].conn \in Nat
      BY <1>1, <1>2, <2>2
    <3>2. s[i].kind # "welcome" => s[i].conn = from \/ \E j \in 1..n : j < i /\ u[j].kind = "welcome" /\ u[j].conn = s[i].conn
      BY <1>1, <3>1 DEF Way
    <3>3. from <= s[i].conn /\ s[i].conn <= to /\ (s[i].kind = "welcome" => from < s[i].conn)
      BY <3>1 DEF Way
    <3> QED
      BY <1>1, <1>2, <3>1, <3>2, <3>3
  <2> QED
    BY <1>1, <2>1, <2>2
<1>5. ASSUME NEW i \in DOMAIN u, NEW j \in DOMAIN u, i < j
      PROVE  u[i].conn <= u[j].conn /\ (u[j].kind = "welcome" => u[i].conn < u[j].conn)
  <2>1. i \in 1..n /\ u[i] = s[i]
    BY <1>1, <1>5
  <2>2. CASE j = n + 1
    <3>1. s[i].conn <= to
      BY <1>1, <2>1 DEF Way
    <3> QED
      BY <1>1, <1>2, <2>1, <2>2, <3>1
  <2>3. CASE j \in 1..n
    BY <1>1, <1>5, <2>1, <2>3 DEF Way
  <2> QED
    BY <1>1, <2>2, <2>3
<1>6. from <= e.conn
  BY <1>2 DEF Way
<1> QED
  BY <1>3, <1>4, <1>5, <1>6 DEF Way, u

LEMMA WayRead ==
  ASSUME NEW s \in Seq(FrameSet), s # <<>>, NEW from \in Nat, NEW to \in Nat, Way(s, from, to)
  PROVE  /\ Head(s).kind = "welcome" => from < Head(s).conn /\ Head(s).conn <= to /\ Way(Tail(s), Head(s).conn, to)
         /\ Head(s).kind # "welcome" => Head(s).conn = from /\ Way(Tail(s), from, to)
<1> DEFINE u == Tail(s)
           n == Len(s)
           h == Head(s)
<1>1. /\ n \in Nat \ {0} /\ DOMAIN s = 1..n /\ DOMAIN u = 1..(n - 1) /\ h = s[1] /\ h \in FrameSet
      /\ \A i \in 1..(n - 1) : u[i] = s[i + 1] /\ i + 1 \in 1..n
      /\ \A j \in 1..n : j = 1 \/ (j - 1 \in 1..(n - 1) /\ u[j - 1] = s[j])
  BY TailOf
<1>2. (\A i \in 1..n : s[i].conn \in Nat) /\ h.conn \in Nat
  BY <1>1, ConnIs, FrameFields DEF Conns
<1> HIDE DEF u, n, h
<1>3. /\ from <= to
      /\ from = to \/ \E j \in 1..n : s[j].kind = "welcome" /\ s[j].conn = to
      /\ \A i \in 1..n :
           /\ from <= s[i].conn /\ s[i].conn <= to
           /\ IF s[i].kind = "welcome" THEN from < s[i].conn
              ELSE s[i].conn = from \/ \E j \in 1..n : j < i /\ s[j].kind = "welcome" /\ s[j].conn = s[i].conn
      /\ \A i, j \in 1..n :
           i < j => s[i].conn <= s[j].conn /\ (s[j].kind = "welcome" => s[i].conn < s[j].conn)
  BY <1>1 DEF Way
<1>4. \A i, j \in DOMAIN u :
        i < j => u[i].conn <= u[j].conn /\ (u[j].kind = "welcome" => u[i].conn < u[j].conn)
  <2> SUFFICES ASSUME NEW i \in 1..(n - 1), NEW j \in 1..(n - 1), i < j
               PROVE  u[i].conn <= u[j].conn /\ (u[j].kind = "welcome" => u[i].conn < u[j].conn)
    BY <1>1
  <2>1. i + 1 \in 1..n /\ j + 1 \in 1..n /\ i + 1 < j + 1 /\ u[i] = s[i + 1] /\ u[j] = s[j + 1]
    BY <1>1
  <2> QED
    BY <1>3, <2>1
<1>5. CASE h.kind = "welcome"
  <2>1. from < h.conn /\ h.conn <= to
    BY <1>1, <1>3, <1>5
  <2>2. h.conn = to \/ \E j \in DOMAIN u : u[j].kind = "welcome" /\ u[j].conn = to
    <3>1. PICK j \in 1..n : s[j].kind = "welcome" /\ s[j].conn = to
      BY <1>2, <1>3, <2>1
    <3>2. j = 1 \/ (j - 1 \in 1..(n - 1) /\ u[j - 1] = s[j])
      BY <1>1
    <3> QED
      BY <1>1, <3>1, <3>2
  <2>3. ASSUME NEW i \in DOMAIN u
        PROVE  /\ h.conn <= u[i].conn /\ u[i].conn <= to
               /\ IF u[i].kind = "welcome" THEN h.conn < u[i].conn
                  ELSE u[i].conn = h.conn \/ \E j \in DOMAIN u : j < i /\ u[j].kind = "welcome" /\ u[j].conn = u[i].conn
    <3>1. i \in 1..(n - 1) /\ i + 1 \in 1..n /\ u[i] = s[i + 1] /\ 1 \in 1..n /\ 1 < i + 1
      BY <1>1
    <3>2. h.conn <= u[i].conn /\ u[i].conn <= to /\ (u[i].kind = "welcome" => h.conn < u[i].conn)
      BY <1>1, <1>3, <3>1
    <3>3. ASSUME u[i].kind # "welcome", u[i].conn # h.conn
          PROVE  \E j \in DOMAIN u : j < i /\ u[j].kind = "welcome" /\ u[j].conn = u[i].conn
      <4>1. u[i].conn # from
        BY <1>2, <2>1, <3>1, <3>2
      <4>2. PICK j \in 1..n : j < i + 1 /\ s[j].kind = "welcome" /\ s[j].conn = u[i].conn
        BY <1>3, <3>1, <3>3, <4>1
      <4>3. j # 1
        BY <1>1, <3>3, <4>2
      <4>4. j - 1 \in 1..(n - 1) /\ u[j - 1] = s[j] /\ j - 1 < i
        BY <1>1, <3>1, <4>2, <4>3
      <4> QED
        BY <1>1, <4>2, <4>4
    <3> QED
      BY <3>2, <3>3
  <2> QED
    BY <1>4, <1>5, <2>1, <2>2, <2>3 DEF Way, u, h
<1>6. CASE h.kind # "welcome"
  <2>1. h.conn = from
    <3>1. ~\E j \in 1..n : j < 1
      OBVIOUS
    <3>2. 1 \in 1..n /\ s[1] = h
      BY <1>1
    <3> QED
      BY <1>3, <1>6, <3>1, <3>2
  <2>2. from = to \/ \E j \in DOMAIN u : u[j].kind = "welcome" /\ u[j].conn = to
    <3>1. ASSUME NEW j \in 1..n, s[j].kind = "welcome" PROVE j - 1 \in DOMAIN u /\ u[j - 1] = s[j]
      BY <1>1, <1>6, <3>1
    <3> QED
      BY <1>3, <3>1
  <2>3. ASSUME NEW i \in DOMAIN u
        PROVE  /\ from <= u[i].conn /\ u[i].conn <= to
               /\ IF u[i].kind = "welcome" THEN from < u[i].conn
                  ELSE u[i].conn = from \/ \E j \in DOMAIN u : j < i /\ u[j].kind = "welcome" /\ u[j].conn = u[i].conn
    <3>1. i \in 1..(n - 1) /\ i + 1 \in 1..n /\ u[i] = s[i + 1]
      BY <1>1
    <3>2. from <= u[i].conn /\ u[i].conn <= to /\ (u[i].kind = "welcome" => from < u[i].conn)
      BY <1>3, <3>1
    <3>3. ASSUME u[i].kind # "welcome", u[i].conn # from
          PROVE  \E j \in DOMAIN u : j < i /\ u[j].kind = "welcome" /\ u[j].conn = u[i].conn
      <4>1. PICK j \in 1..n : j < i + 1 /\ s[j].kind = "welcome" /\ s[j].conn = u[i].conn
        BY <1>3, <3>1, <3>3
      <4>2. j # 1
        BY <1>1, <1>6, <4>1
      <4>3. j - 1 \in 1..(n - 1) /\ u[j - 1] = s[j] /\ j - 1 < i
        BY <1>1, <3>1, <4>1, <4>2
      <4> QED
        BY <1>1, <4>1, <4>3
    <3> QED
      BY <3>2, <3>3
  <2> QED
    BY <1>3, <1>4, <1>6, <2>1, <2>2, <2>3 DEF Way, u, h
<1> QED
  BY <1>5, <1>6 DEF h

\* What is on its way stays within its session.
LEMMA WayLeaksNothing ==
  ASSUME NEW s \in Seq(FrameSet), NEW from \in Nat, NEW to \in Nat, Way(s, from, to),
         NEW i \in DOMAIN s, s[i].kind # "welcome"
  PROVE  LET welcomes == {j \in 1..i : s[j].kind = "welcome"} IN
           s[i].conn = IF welcomes = {} THEN from
                       ELSE s[CHOOSE j \in welcomes : \A k \in welcomes : k <= j].conn
<1> DEFINE welcomes == {j \in 1..i : s[j].kind = "welcome"}
<1>1. DOMAIN s = 1..Len(s) /\ Len(s) \in Nat /\ i \in Nat
  OBVIOUS
<1>2. \A j \in 1..i : j \in DOMAIN s /\ s[j].conn \in Nat
  BY <1>1, ConnIs
<1>3. \A j \in welcomes : j \in DOMAIN s /\ j < i /\ s[j].kind = "welcome"
  BY <1>1, <1>2
<1>4. CASE welcomes = {}
  <2>1. \A j \in DOMAIN s : j < i => s[j].kind # "welcome"
    BY <1>1, <1>4
  <2> QED
    BY <1>4, <2>1 DEF Way
<1>5. CASE welcomes # {}
  <2> DEFINE k0 == CHOOSE j \in welcomes : \A k \in welcomes : k <= j
  <2>1. s[i].conn # from
    <3>1. PICK j \in welcomes : TRUE
      BY <1>5
    <3>2. from < s[j].conn /\ s[j].conn <= s[i].conn
      BY <1>3, <3>1 DEF Way
    <3> QED
      BY <1>2, <3>1, <3>2
  <2>2. PICK j \in DOMAIN s : j < i /\ s[j].kind = "welcome" /\ s[j].conn = s[i].conn
    BY <2>1 DEF Way
  <2>3. j \in welcomes
    BY <1>1, <2>2
  <2>4. ASSUME NEW k \in welcomes PROVE k <= j
    <3>1. SUFFICES ASSUME j < k PROVE FALSE
      BY <1>1, <2>2, <1>3
    <3>2. s[j].conn < s[k].conn /\ s[k].conn <= s[i].conn
      BY <1>3, <2>2, <3>1 DEF Way
    <3> QED
      BY <1>2, <2>2, <2>3, <3>2
  <2>5. k0 \in welcomes /\ \A k \in welcomes : k <= k0
    BY <2>3, <2>4
  <2>6. k0 = j
    BY <1>1, <2>3, <2>4, <2>5
  <2> QED
    BY <1>5, <2>2, <2>6
<1> QED
  BY <1>4, <1>5

-----------------------------------------------------------------------------
LEMMA ShowsSent ==
  ASSUME NEW s \in Seq(FrameSet), NEW at, NEW seen, NEW c, NEW queue, Shows(s, at, seen, c, queue),
         NEW e \in FrameSet, e.kind # "asap"
  PROVE  Shows(Append(s, e), at, seen, c, queue)
<1> DEFINE u == Append(s, e)
           n == Len(s)
<1>1. /\ n \in Nat /\ DOMAIN s = 1..n /\ DOMAIN u = 1..(n + 1)
      /\ \A i \in 1..n : u[i] = s[i]
      /\ u[n + 1] = e
  BY AppendOf
<1> HIDE DEF u, n
<1>2. \A i \in DOMAIN u : QueueOf(u[i], c) => i \in DOMAIN s /\ u[i] = s[i]
  <2>1. ~QueueOf(u[n + 1], c)
    BY <1>1 DEF QueueOf
  <2> QED
    BY <1>1, <2>1
<1>3. \A i \in DOMAIN s : i \in DOMAIN u /\ u[i] = s[i]
  BY <1>1
<1> QED
  BY <1>2, <1>3 DEF Shows, u

LEMMA ShowsQueue ==
  ASSUME NEW s \in Seq(FrameSet), NEW at, NEW seen, NEW c, NEW e \in FrameSet, QueueOf(e, c)
  PROVE  Shows(Append(s, e), at, seen, c, e.payload)
<1> DEFINE u == Append(s, e)
           n == Len(s)
<1>1. n \in Nat /\ DOMAIN u = 1..(n + 1) /\ u[n + 1] = e
  BY AppendOf
<1> HIDE DEF u, n
<1>2. n + 1 \in DOMAIN u /\ \A k \in DOMAIN u : ~(n + 1 < k)
  BY <1>1
<1> QED
  BY <1>1, <1>2 DEF Shows, u

LEMMA ShowsRead ==
  ASSUME NEW s \in Seq(FrameSet), s # <<>>, NEW at \in Nat, NEW seen, NEW c \in Nat, NEW queue,
         Way(s, at, c), Shows(s, at, seen, c, queue)
  PROVE  /\ Head(s).kind = "asap" =>
              Shows(Tail(s), at, IF Head(s).conn = at THEN Head(s).payload ELSE seen, c, queue)
         /\ Head(s).kind = "welcome" => Shows(Tail(s), Head(s).conn, <<>>, c, queue)
         /\ Head(s).kind \notin {"asap", "welcome"} => Shows(Tail(s), at, seen, c, queue)
<1> DEFINE u == Tail(s)
           n == Len(s)
           h == Head(s)
<1>1. /\ n \in Nat \ {0} /\ DOMAIN s = 1..n /\ DOMAIN u = 1..(n - 1) /\ h = s[1]
      /\ \A i \in 1..(n - 1) : u[i] = s[i + 1] /\ i + 1 \in 1..n
      /\ \A j \in 1..n : j = 1 \/ (j - 1 \in 1..(n - 1) /\ u[j - 1] = s[j])
  BY TailOf
<1>2. (h.kind = "welcome" => at < h.conn /\ h.conn <= c /\ h.conn \in Nat) /\ (h.kind # "welcome" => h.conn = at)
  <2>1. s[1].conn \in Nat
    BY <1>1, ConnIs
  <2> QED
    BY <1>1, <2>1, WayRead
<1> HIDE DEF u, n, h
<1>3. ASSUME NEW i \in DOMAIN s, QueueOf(s[i], c), s[i].payload = queue, \A k \in DOMAIN s : i < k => ~QueueOf(s[k], c),
             i # 1
      PROVE  \E j \in DOMAIN u : QueueOf(u[j], c) /\ u[j].payload = queue /\ \A k \in DOMAIN u : j < k => ~QueueOf(u[k], c)
  <2>1. i - 1 \in DOMAIN u /\ u[i - 1] = s[i]
    BY <1>1, <1>3
  <2>2. ASSUME NEW k \in DOMAIN u, i - 1 < k PROVE ~QueueOf(u[k], c)
    <3>1. k + 1 \in DOMAIN s /\ i < k + 1 /\ u[k] = s[k + 1]
      BY <1>1, <2>2
    <3> QED
      BY <1>3, <3>1
  <2> QED
    BY <1>3, <2>1, <2>2
<1>4. ASSUME \A i \in DOMAIN s : i = 1 \/ ~QueueOf(s[i], c) PROVE \A k \in DOMAIN u : ~QueueOf(u[k], c)
  <2> SUFFICES ASSUME NEW k \in DOMAIN u PROVE ~QueueOf(u[k], c)
    OBVIOUS
  <2>1. k + 1 \in DOMAIN s /\ k + 1 # 1 /\ u[k] = s[k + 1]
    BY <1>1
  <2> QED
    BY <1>4, <2>1
<1>5. CASE \E i \in DOMAIN s : QueueOf(s[i], c) /\ s[i].payload = queue /\ \A k \in DOMAIN s : i < k => ~QueueOf(s[k], c)
  <2>1. PICK i \in DOMAIN s : QueueOf(s[i], c) /\ s[i].payload = queue /\ \A k \in DOMAIN s : i < k => ~QueueOf(s[k], c)
    BY <1>5
  <2>2. CASE i # 1
    <3>1. \E j \in DOMAIN u : QueueOf(u[j], c) /\ u[j].payload = queue /\ \A k \in DOMAIN u : j < k => ~QueueOf(u[k], c)
      BY <1>3, <2>1, <2>2
    <3> QED
      BY <3>1 DEF Shows, u
  <2>3. CASE i = 1
    <3>1. h.kind = "asap" /\ h.conn = c /\ h.payload = queue /\ h.conn = at
      BY <1>1, <1>2, <2>1, <2>3 DEF QueueOf
    <3>2. \A k \in DOMAIN s : k = 1 \/ ~QueueOf(s[k], c)
      BY <1>1, <2>1, <2>3
    <3>3. \A k \in DOMAIN u : ~QueueOf(u[k], c)
      BY <1>4, <3>2
    <3> QED
      BY <3>1, <3>3 DEF Shows, u, h
  <2> QED
    BY <2>2, <2>3
<1>6. CASE at = c /\ seen = queue /\ \A i \in DOMAIN s : ~QueueOf(s[i], c)
  <2>1. \A k \in DOMAIN u : ~QueueOf(u[k], c)
    BY <1>4, <1>6
  <2>2. h.kind # "welcome"
    BY <1>2, <1>6
  <2>3. h.kind # "asap"
    BY <1>1, <1>2, <1>6, <2>2 DEF QueueOf
  <2> QED
    BY <1>6, <2>1, <2>2, <2>3 DEF Shows, u, h
<1> QED
  BY <1>5, <1>6 DEF Shows

-----------------------------------------------------------------------------
(* The client is informed after every step. *)

\* The queue is on its way, or will be sent.
QueueDue == Busy(conn) \/ Shows(toClient, session, shown, conn, nextStep[conn])

LEMMA InformedIs ==
  /\ Informed <=> Way(toClient, session, conn) /\ QueueDue
  /\ Informed' <=> Way(toClient, session, conn)' /\ QueueDue'
BY DEF Informed, QueueDue

LEMMA ChannelIs ==
  ASSUME Base
  PROVE  /\ toClient \in Seq(FrameSet) /\ session \in Nat /\ conn \in Nat /\ conn \in Conns /\ session \in Conns
         /\ nextStep \in [Conns -> Seq(Nat)] /\ selection \in [Conns -> Nat]
BY DEF Base, TaskTypes, DataTypes, Conns

\* A prompt under way stays so.
LEMMA BusyKept ==
  ASSUME Base, Busy(conn)
  PROVE  /\ Rests => Busy(conn)'
         /\ \A t \in tasks : Leaves(t) /\ (t.kind \notin Prompts \/ t.conn # conn) => Busy(conn)'
         /\ \A t \in tasks, s \in {"host", "catalog"} : Moves(t, s) => Busy(conn)'
         /\ \A kind : Adds(kind) => Busy(conn)'
<1>1. PICK u \in tasks : u.kind \in Prompts /\ u.conn = conn
  BY DEF Busy
<1>2. Rests => Busy(conn)'
  BY <1>1 DEF Rests, Busy
<1>3. \A t \in tasks : Leaves(t) /\ (t.kind \notin Prompts \/ t.conn # conn) => Busy(conn)'
  BY <1>1 DEF Leaves, Busy
<1>4. ASSUME NEW t \in tasks, NEW s \in {"host", "catalog"}, Moves(t, s) PROVE Busy(conn)'
  <2>1. \E a \in tasks' : Alike(a, u)
    BY <1>4, MovesShape DEF Base
  <2>2. conn' = conn
    BY <1>4 DEF Moves
  <2> QED
    BY <1>1, <2>1, <2>2 DEF Busy, Alike
<1>5. \A kind : Adds(kind) => Busy(conn)'
  BY <1>1 DEF Adds, Busy
<1> QED
  BY <1>2, <1>3, <1>4, <1>5

\* A step that neither sends nor reads.
LEMMA InformedRest ==
  ASSUME Base, Informed, UNCHANGED <<conn, toClient, session, shown>>, nextStep'[conn] = nextStep[conn],
         Busy(conn) => Busy(conn)'
  PROVE  Informed'
<1>1. Way(toClient, session, conn)'
  BY DEF Informed, Way
<1>2. Shows(toClient, session, shown, conn, nextStep[conn]) => Shows(toClient', session', shown', conn', nextStep'[conn'])
  OBVIOUS
<1> QED
  BY <1>1, <1>2, InformedIs DEF QueueDue

\* One that sends frames of the connection that are no queue.
LEMMA InformedSend ==
  ASSUME Base, Informed, UNCHANGED <<conn, session, shown>>, nextStep'[conn] = nextStep[conn],
         Busy(conn) => Busy(conn)',
         NEW f \in FrameSet, f.kind \notin {"asap", "welcome"}, f.conn = conn,
         NEW g \in FrameSet, g.kind \notin {"asap", "welcome"}, g.conn = conn,
         \/ toClient' = Append(toClient, f)
         \/ toClient' = Append(Append(toClient, f), g)
         \/ toClient' = Append(Append(Append(toClient, f), f), g)
  PROVE  Informed'
<1>1. Way(toClient, session, conn) /\ QueueDue
  BY InformedIs
<1>2. ASSUME NEW s \in Seq(FrameSet), Way(s, session, conn), NEW e \in {f, g}
      PROVE  Way(Append(s, e), session, conn) /\ Append(s, e) \in Seq(FrameSet)
  <2>1. e \in FrameSet /\ e.kind # "welcome" /\ e.conn = conn
    BY <1>2
  <2>2. Way(Append(s, e), session, conn)
    BY <1>2, <2>1, WaySent, ChannelIs
  <2> QED
    BY <1>2, <2>1, <2>2
<1>3. Way(toClient', session, conn)
  <2>1. toClient \in Seq(FrameSet)
    BY ChannelIs
  <2>2. Way(Append(toClient, f), session, conn) /\ Append(toClient, f) \in Seq(FrameSet)
    BY <1>1, <1>2, <2>1
  <2>3. Way(Append(Append(toClient, f), f), session, conn) /\ Append(Append(toClient, f), f) \in Seq(FrameSet)
    BY <1>2, <2>2
  <2> QED
    BY <1>2, <2>2, <2>3
<1>4. ASSUME NEW s \in Seq(FrameSet), Shows(s, session, shown, conn, nextStep[conn]), NEW e \in {f, g}
      PROVE  Shows(Append(s, e), session, shown, conn, nextStep[conn]) /\ Append(s, e) \in Seq(FrameSet)
  <2>1. e \in FrameSet /\ e.kind # "asap"
    BY <1>4
  <2>2. Shows(Append(s, e), session, shown, conn, nextStep[conn])
    BY <1>4, <2>1, ShowsSent
  <2> QED
    BY <1>4, <2>1, <2>2
<1>5. ASSUME Shows(toClient, session, shown, conn, nextStep[conn])
      PROVE  Shows(toClient', session, shown, conn, nextStep[conn])
  <2>1. toClient \in Seq(FrameSet)
    BY ChannelIs
  <2>2. Shows(Append(toClient, f), session, shown, conn, nextStep[conn]) /\ Append(toClient, f) \in Seq(FrameSet)
    BY <1>4, <1>5, <2>1
  <2>3. /\ Shows(Append(Append(toClient, f), f), session, shown, conn, nextStep[conn])
        /\ Append(Append(toClient, f), f) \in Seq(FrameSet)
    BY <1>4, <2>2
  <2> QED
    BY <1>4, <2>2, <2>3
<1>6. Way(toClient', session', conn')
  BY <1>3
<1>7. Busy(conn)' \/ Shows(toClient', session', shown', conn', nextStep'[conn'])
  BY <1>1, <1>5 DEF QueueDue
<1> QED
  BY <1>6, <1>7 DEF Informed

\* One that sends the queue that results.
LEMMA InformedShown ==
  ASSUME Base, Informed, UNCHANGED <<conn, session>>, nextStep' \in [Conns -> Seq(Nat)], Shown(conn)
  PROVE  Informed'
<1>1. Way(toClient, session, conn)
  BY DEF Informed
<1>2. PICK f \in FrameSet : f = Queue(conn)
  BY ChannelIs, ShownTyped
<1>3. f.kind = "asap" /\ f.conn = conn /\ f.payload = nextStep'[conn]
  BY <1>2 DEF Queue, Frame
<1>4. toClient' = Append(toClient, f)
  BY <1>2 DEF Shown
<1>5. Way(Append(toClient, f), session, conn)
  BY <1>1, <1>3, WaySent, ChannelIs
<1>6. Shows(Append(toClient, f), session, shown', conn, f.payload)
  <2>1. QueueOf(f, conn)
    BY <1>3 DEF QueueOf
  <2>2. \A seen : Shows(Append(toClient, f), session, seen, conn, f.payload)
    BY <2>1, ShowsQueue, ChannelIs
  <2> QED
    BY <2>2
<1>7. Way(toClient', session', conn') /\ Shows(toClient', session', shown', conn', nextStep'[conn'])
  BY <1>3, <1>4, <1>5, <1>6
<1> QED
  BY <1>7 DEF Informed

LEMMA InformedWrites ==
  ASSUME Base, Informed, UNCHANGED <<conn, session, shown>>, nextStep'[conn] = nextStep[conn],
         Busy(conn) => Busy(conn)', NEW t \in tasks,
         NEW f \in FrameSet, f.kind \notin {"asap", "welcome"}, f.conn = t.conn, Writes(t, f)
  PROVE  Informed'
<1>1. CASE Current(t)
  BY <1>1, InformedSend DEF Writes, Current
<1>2. CASE ~Current(t)
  BY <1>2, InformedRest DEF Writes
<1> QED
  BY <1>1, <1>2

LEMMA InformedReplaced ==
  ASSUME Base, Informed, UNCHANGED <<session, shown, nextStep>>, conn + 1 \in Conns, conn' = conn + 1,
         toClient' = Append(Append(toClient, Welcomed(conn + 1)), Queue(conn + 1))
  PROVE  Informed'
<1>1. Way(toClient, session, conn) /\ toClient \in Seq(FrameSet) /\ session \in Nat /\ conn \in Nat /\ conn + 1 \in Nat
  BY ChannelIs DEF Informed
<1>2. PICK w \in FrameSet : w = Welcomed(conn + 1)
  BY DEF Welcomed, Frame, FrameSet, Plain
<1>3. w.kind = "welcome" /\ w.conn = conn + 1
  BY <1>2 DEF Welcomed, Frame
<1>4. PICK f \in FrameSet : f = Queue(conn + 1)
  <2>1. nextStep' \in [Conns -> Seq(Nat)]
    BY ChannelIs
  <2> QED
    BY <2>1 DEF Queue, Frame, FrameSet, Queues
<1>5. f.kind = "asap" /\ f.conn = conn + 1 /\ f.payload = nextStep'[conn + 1]
  BY <1>4 DEF Queue, Frame
<1>6. Way(Append(toClient, w), session, conn + 1) /\ Append(toClient, w) \in Seq(FrameSet)
  <2>1. conn < w.conn
    BY <1>1, <1>3
  <2>2. Way(Append(toClient, w), session, w.conn)
    BY <1>1, <1>3, <2>1, WayWelcomed
  <2> QED
    BY <1>1, <1>3, <2>2
<1>7. Way(Append(Append(toClient, w), f), session, conn + 1)
  BY <1>1, <1>5, <1>6, WaySent
<1>8. Shows(Append(Append(toClient, w), f), session, shown, conn + 1, f.payload)
  BY <1>5, <1>6, ShowsQueue DEF QueueOf
<1>9. Way(toClient', session', conn') /\ Shows(toClient', session', shown', conn', nextStep'[conn'])
  BY <1>2, <1>4, <1>5, <1>7, <1>8
<1> QED
  BY <1>9 DEF Informed

LEMMA InformedRead ==
  ASSUME Base, Informed, Client
  PROVE  Informed'
<1> DEFINE h == Head(toClient)
<1>1. /\ UNCHANGED <<sent, conn, modelUpdates, tasks, nextStep>>
      /\ toClient # <<>> /\ toClient' = Tail(toClient)
      /\ \/ h.kind = "welcome" /\ session' = h.conn /\ shown' = <<>>
         \/ h.kind = "asap" /\ UNCHANGED session /\ shown' = IF h.conn = session THEN h.payload ELSE shown
         \/ h.kind \notin {"asap", "welcome"} /\ UNCHANGED <<session, shown>>
  BY ClientDoes
<1>2. Way(toClient, session, conn) /\ QueueDue
  BY InformedIs
<1>3. Way(toClient', session', conn')
  BY <1>1, <1>2, ChannelIs, WayRead
<1>4. Busy(conn) => Busy(conn)'
  BY <1>1 DEF Busy
<1>5. Shows(toClient, session, shown, conn, nextStep[conn]) => Shows(toClient', session', shown', conn', nextStep'[conn'])
  <2> SUFFICES ASSUME Shows(toClient, session, shown, conn, nextStep[conn])
               PROVE  Shows(toClient', session', shown', conn', nextStep'[conn'])
    OBVIOUS
  <2>1. /\ h.kind = "asap" =>
              Shows(Tail(toClient), session, IF h.conn = session THEN h.payload ELSE shown, conn, nextStep[conn])
        /\ h.kind = "welcome" => Shows(Tail(toClient), h.conn, <<>>, conn, nextStep[conn])
        /\ h.kind \notin {"asap", "welcome"} => Shows(Tail(toClient), session, shown, conn, nextStep[conn])
    BY <1>1, <1>2, ChannelIs, ShowsRead
  <2> HIDE DEF h
  <2> QED
    BY <1>1, <2>1
<1>6. Busy(conn)' \/ Shows(toClient', session', shown', conn', nextStep'[conn'])
  BY <1>2, <1>4, <1>5 DEF QueueDue
<1> QED
  BY <1>3, <1>6 DEF Informed

LEMMA InformedStep ==
  ASSUME "attach" \notin Failures, "new" \notin Failures, Base, Informed, [Next]_vars
  PROVE  Informed'
<1>0. Rests => conn' = conn
  BY DEF Rests
<1>00. \A t : Leaves(t) => conn' = conn
  BY DEF Leaves
<1>1. CASE InputText
  BY <1>1, InputDoes, InformedRest, BusyKept DEF Rests
<1>2. CASE \E kind \in Kinds : Message(kind)
  <2>1. PICK kind \in Kinds : Message(kind)
    BY <1>2
  <2>2. Adds(kind) /\ UNCHANGED <<toClient, session, shown, nextStep>>
    BY <2>1, MessageDoes
  <2>3. UNCHANGED conn
    BY <2>2 DEF Adds
  <2> QED
    BY <2>2, <2>3, InformedRest, BusyKept
<1>3. CASE Resume
  <2>0. UNCHANGED <<session, shown>>
    BY <1>3, ResumeDoes
  <2>1. PICK t \in tasks :
              \/ Leaves(t) /\ t.conn # conn /\ UNCHANGED <<nextStep, toClient>>
              \/ Leaves(t) /\ t.conn = conn /\ t.kind = "text" /\ UNCHANGED <<nextStep, toClient>>
              \/ /\ Leaves(t) /\ t.kind = "steer"
                 /\ nextStep' = [nextStep EXCEPT ![conn] = Append(@, t.id)] /\ Shown(conn)
              \/ /\ Leaves(t) /\ t.kind = "clear"
                 /\ nextStep' = [nextStep EXCEPT ![conn] = <<>>] /\ Shown(conn)
              \/ /\ \E s \in {"host", "catalog"} : Moves(t, s)
                 /\ UNCHANGED <<nextStep, toClient>>
    BY <1>3, ResumeDoes
  <2>2. CASE Leaves(t) /\ t.conn # conn /\ UNCHANGED <<nextStep, toClient>>
    BY <1>00, <2>0, <2>2, InformedRest, BusyKept
  <2>3. CASE Leaves(t) /\ t.conn = conn /\ t.kind = "text" /\ UNCHANGED <<nextStep, toClient>>
    BY <1>00, <2>0, <2>3, InformedRest, BusyKept DEF Prompts, Steered
  <2>4. CASE /\ Leaves(t) /\ t.kind = "steer"
             /\ nextStep' = [nextStep EXCEPT ![conn] = Append(@, t.id)] /\ Shown(conn)
    <3>1. t.id \in Nat
      BY <2>4 DEF Base, Named
    <3>2. nextStep' \in [Conns -> Seq(Nat)]
      BY <2>4, <3>1, QueuedTyped, ChannelIs
    <3> QED
      BY <1>00, <2>0, <2>4, <3>2, InformedShown
  <2>5. CASE /\ Leaves(t) /\ t.kind = "clear"
             /\ nextStep' = [nextStep EXCEPT ![conn] = <<>>] /\ Shown(conn)
    <3>1. nextStep' \in [Conns -> Seq(Nat)]
      BY <2>5, QueuedTyped, ChannelIs
    <3> QED
      BY <1>00, <2>0, <2>5, <3>1, InformedShown
  <2>6. CASE (\E s \in {"host", "catalog"} : Moves(t, s)) /\ UNCHANGED <<nextStep, toClient>>
    <3>1. conn' = conn
      BY <2>6 DEF Moves
    <3> QED
      BY <2>0, <2>6, <3>1, InformedRest, BusyKept
  <2> QED
    BY <2>1, <2>2, <2>3, <2>4, <2>5, <2>6
<1>4. CASE ImageDone
  <2>0. UNCHANGED <<nextStep, session, shown>>
    BY <1>4, ImageDoes
  <2>1. PICK t \in tasks :
          Leaves(t) /\ t.kind = "image" /\ (UNCHANGED toClient \/ Writes(t, Answer(t)))
    BY <1>4, ImageDoes
  <2>2. Busy(conn) => Busy(conn)'
    BY <2>1, BusyKept DEF Prompts, Steered
  <2>3. CASE UNCHANGED toClient
    BY <1>00, <2>0, <2>1, <2>2, <2>3, InformedRest
  <2>4. CASE Writes(t, Answer(t))
    BY <1>00, <2>0, <2>1, <2>2, <2>4, InformedWrites, AnswerIs
  <2> QED
    BY <2>1, <2>3, <2>4
<1>5. CASE SteerImageDone
  <2>0. UNCHANGED <<session, shown>>
    BY <1>5, SteerImageDoes
  <2>1. PICK t \in tasks :
              /\ Leaves(t) /\ t.kind = "steerImage"
              /\ \/ nextStep' = [nextStep EXCEPT ![t.conn] = Append(@, t.id)]
                 \/ UNCHANGED nextStep
              /\ IF t.conn = conn THEN Shown(conn) ELSE UNCHANGED toClient
    BY <1>5, SteerImageDoes
  <2>2. t.id \in Nat /\ t.conn \in Conns
    BY <2>1, TaskFields DEF Base, Named
  <2>3. nextStep' \in [Conns -> Seq(Nat)]
    BY <2>1, <2>2, QueuedTyped, ChannelIs
  <2>4. CASE t.conn = conn
    BY <1>00, <2>0, <2>1, <2>3, <2>4, InformedShown
  <2>5. CASE t.conn # conn
    <3>1. nextStep'[conn] = nextStep[conn]
      BY <2>1, <2>2, <2>5, ChannelIs
    <3>2. Busy(conn) => Busy(conn)'
      BY <2>1, <2>5, BusyKept
    <3> QED
      BY <1>00, <2>0, <2>1, <2>5, <3>1, <3>2, InformedRest
  <2> QED
    BY <2>4, <2>5
<1>6. CASE SelectDone
  <2>0. UNCHANGED <<nextStep, session, shown>>
    BY <1>6, SelectDoes
  <2>1. PICK t \in tasks :
              /\ t.kind = "set"
              /\ \/ Moves(t, "catalog") /\ UNCHANGED toClient
                 \/ Leaves(t) /\ (UNCHANGED toClient \/ Writes(t, ModelFailed(t.conn)))
    BY <1>6, SelectDoes
  <2>2. Busy(conn) => Busy(conn)'
    BY <2>1, BusyKept DEF Prompts, Steered
  <2>3. conn' = conn
    BY <2>1 DEF Leaves, Moves
  <2>4. CASE UNCHANGED toClient
    BY <2>0, <2>2, <2>3, <2>4, InformedRest
  <2>5. CASE Writes(t, ModelFailed(t.conn))
    BY <2>0, <2>2, <2>3, <2>5, InformedWrites, AnswerIs
  <2> QED
    BY <2>1, <2>4, <2>5
<1>7. CASE CatalogDone
  <2>0. UNCHANGED <<nextStep, session, shown>>
    BY <1>7, CatalogDoes
  <2>1. PICK t \in tasks, f \in FrameSet :
              Leaves(t) /\ t.kind \in Updates \cup {"attached"} /\ CatalogShown(t, f)
    BY <1>7, CatalogDoes DEF CatalogShown
  <2>2. Busy(conn) => Busy(conn)'
    BY <2>1, BusyKept DEF Prompts, Steered, Updates
  <2>3. conn' = conn
    BY <2>1 DEF Leaves
  <2>4. f \in FrameSet /\ f.conn = t.conn /\ f.kind \notin {"asap", "welcome"}
    BY <2>1 DEF CatalogShown
  <2>5. CASE t.conn # conn
    BY <2>0, <2>1, <2>2, <2>3, <2>5, InformedRest DEF CatalogShown
  <2>6. CASE t.conn = conn
    <3>1. PICK g \in FrameSet : g = Pong(t)
      BY AnswerIs
    <3>2. g.kind \notin {"asap", "welcome"} /\ g.conn = conn
      BY <2>6, <3>1 DEF Pong, Frame
    <3>3. \/ toClient' = Append(toClient, f)
          \/ toClient' = Append(Append(toClient, f), g)
          \/ toClient' = Append(Append(Append(toClient, f), f), g)
      BY <2>1, <2>6, <3>1 DEF CatalogShown
    <3> QED
      BY <2>0, <2>2, <2>3, <2>4, <2>6, <3>2, <3>3, InformedSend
  <2> QED
    BY <2>5, <2>6
<1>8. CASE CommandDone
  <2>0. UNCHANGED <<nextStep, session, shown>>
    BY <1>8, CommandDoes
  <2>1. PICK t \in tasks : Leaves(t) /\ t.kind = "command" /\ Writes(t, Answer(t))
    BY <1>8, CommandDoes
  <2>2. Busy(conn) => Busy(conn)'
    BY <2>1, BusyKept DEF Prompts, Steered
  <2> QED
    BY <1>00, <2>0, <2>1, <2>2, InformedWrites, AnswerIs
<1>9. CASE SessionDone
  <2>0. UNCHANGED <<nextStep, session, shown>>
    BY <1>9, SessionDoes
  <2>1. PICK t \in tasks :
              /\ t.kind \in Changes
              /\ \/ /\ Replaces(t) /\ conn + 1 \in Conns
                    /\ toClient' = Append(Append(toClient, Welcomed(conn + 1)), Queue(conn + 1))
                 \/ Leaves(t) /\ (UNCHANGED toClient \/ Writes(t, Answer(t)))
    <3>1. \A t \in tasks : t.kind \in Changes /\ Fails(t.kind) => t.kind = "newInput"
      BY DEF Changes, Fails
    <3> QED
      BY <1>9, <3>1, SessionDoes
  <2>2. CASE /\ Replaces(t) /\ conn + 1 \in Conns
             /\ toClient' = Append(Append(toClient, Welcomed(conn + 1)), Queue(conn + 1))
    <3>1. conn' = conn + 1
      BY <2>2 DEF Replaces
    <3> QED
      BY <2>0, <2>2, <3>1, InformedReplaced
  <2>3. CASE Leaves(t) /\ (UNCHANGED toClient \/ Writes(t, Answer(t)))
    <3>1. Busy(conn) => Busy(conn)'
      BY <2>1, <2>3, BusyKept DEF Prompts, Steered, Changes
    <3>2. CASE UNCHANGED toClient
      BY <1>00, <2>0, <2>3, <3>1, <3>2, InformedRest
    <3>3. CASE Writes(t, Answer(t))
      BY <1>00, <2>0, <2>3, <3>1, <3>3, InformedWrites, AnswerIs
    <3> QED
      BY <2>3, <3>2, <3>3
  <2> QED
    BY <2>1, <2>2, <2>3
<1>10. CASE Claim
  <2>1. UNCHANGED <<sent, conn, modelUpdates, tasks, session, shown>>
        /\ nextStep' = [nextStep EXCEPT ![conn] = <<>>]
        /\ IF Busy(conn) THEN UNCHANGED toClient ELSE Shown(conn)
    BY <1>10, ClaimDoes
  <2>2. CASE Busy(conn)
    <3>1. Busy(conn)'
      BY <2>1, <2>2 DEF Busy
    <3>2. Way(toClient', session', conn')
      BY <2>1, <2>2 DEF Informed
    <3> QED
      BY <3>1, <3>2 DEF Informed
  <2>3. CASE ~Busy(conn)
    <3>1. nextStep' \in [Conns -> Seq(Nat)]
      BY <2>1, QueuedTyped, ChannelIs
    <3> QED
      BY <2>1, <2>3, <3>1, InformedShown
  <2> QED
    BY <2>2, <2>3
<1>11. CASE Client
  BY <1>11, InformedRead
<1>12. CASE UNCHANGED vars
  <2>1. UNCHANGED <<sent, conn, modelUpdates, tasks, nextStep, toClient, session, shown>>
    BY <1>12, StutterDoes
  <2> QED
    BY <2>1, InformedRest DEF Busy
<1> QED
  BY <1>1, <1>2, <1>3, <1>4, <1>5, <1>6, <1>7, <1>8, <1>9, <1>10, <1>11, <1>12, NextIs

-----------------------------------------------------------------------------
(* The fences and their answers. *)

\* What sending and reading does to the answers on their way.
LEMMA AnswersSent ==
  ASSUME NEW s \in Seq(FrameSet), NEW p, NEW made, NEW c, Answers(s, p, made, c), NEW e \in FrameSet, ~IsPong(e)
  PROVE  Answers(Append(s, e), p, made, c)
<1> DEFINE u == Append(s, e)
           n == Len(s)
<1>1. /\ n \in Nat /\ DOMAIN s = 1..n /\ DOMAIN u = 1..(n + 1)
      /\ \A i \in 1..n : u[i] = s[i]
      /\ u[n + 1] = e
  BY AppendOf
<1> HIDE DEF u, n
<1>2. \A i \in DOMAIN u : IsPong(u[i]) => i \in DOMAIN s /\ u[i] = s[i] /\ (i > 1 => i - 1 \in DOMAIN s /\ u[i - 1] = s[i - 1])
  <2>1. ~IsPong(u[n + 1])
    BY <1>1
  <2> QED
    BY <1>1, <2>1
<1>3. \A i \in DOMAIN s : i \in DOMAIN u /\ u[i] = s[i]
  BY <1>1
<1>4. \A i, j \in DOMAIN u : IsPong(u[i]) /\ IsPong(u[j]) /\ i < j => u[i].id < u[j].id
  BY <1>2 DEF Answers
<1>5. \A i \in DOMAIN u : IsPong(u[i]) =>
       \E k \in DOMAIN p : p[k].id = u[i].id /\ \A l \in DOMAIN p : l < k =>
          \E j \in DOMAIN u : j < i /\ IsPong(u[j]) /\ u[j].id = p[l].id
  <2> SUFFICES ASSUME NEW i \in DOMAIN u, IsPong(u[i])
               PROVE  \E k \in DOMAIN p : p[k].id = u[i].id /\ \A l \in DOMAIN p : l < k =>
                         \E j \in DOMAIN u : j < i /\ IsPong(u[j]) /\ u[j].id = p[l].id
    OBVIOUS
  <2>1. i \in DOMAIN s /\ u[i] = s[i]
    BY <1>2
  <2>2. PICK k \in DOMAIN p : p[k].id = s[i].id /\ \A l \in DOMAIN p : l < k =>
          \E j \in DOMAIN s : j < i /\ IsPong(s[j]) /\ s[j].id = p[l].id
    BY <2>1 DEF Answers
  <2>3. \A l \in DOMAIN p : l < k => \E j \in DOMAIN u : j < i /\ IsPong(u[j]) /\ u[j].id = p[l].id
    BY <1>3, <2>2
  <2> QED
    BY <2>1, <2>2, <2>3
<1>6. \A i \in DOMAIN u : IsPong(u[i]) /\ i > 1 => Tells(u[i - 1], u[i].id, made, c)
  BY <1>2 DEF Answers
<1>7. \A i \in DOMAIN u : IsPong(u[i]) /\ i = 1 => p[1].failed \/ Good(p[1].model, p[1].id, made, c)
  BY <1>2 DEF Answers
<1> QED
  BY <1>4, <1>5, <1>6, <1>7 DEF Answers, u

LEMMA AnswersPong ==
  ASSUME NEW s \in Seq(FrameSet), s # <<>>, NEW p, NEW made, NEW c, Answers(s, p, made, c),
         NEW e \in FrameSet, IsPong(e), \A i \in DOMAIN s : IsPong(s[i]) => s[i].id < e.id,
         Tells(s[Len(s)], e.id, made, c),
         NEW k \in DOMAIN p, p[k].id = e.id,
         \A l \in DOMAIN p : l < k => \E j \in DOMAIN s : IsPong(s[j]) /\ s[j].id = p[l].id
  PROVE  Answers(Append(s, e), p, made, c)
<1> DEFINE u == Append(s, e)
           n == Len(s)
<1>1. /\ n \in Nat \ {0} /\ DOMAIN s = 1..n /\ DOMAIN u = 1..(n + 1)
      /\ \A i \in 1..n : u[i] = s[i]
      /\ u[n + 1] = e /\ Tells(s[n], e.id, made, c)
  BY AppendOf, TailOf
<1> HIDE DEF u, n
<1>2. \A i \in DOMAIN u : i = n + 1 \/ (i \in DOMAIN s /\ u[i] = s[i] /\ (i > 1 => i - 1 \in DOMAIN s /\ u[i - 1] = s[i - 1]))
  BY <1>1
<1>3. \A i \in DOMAIN s : i \in DOMAIN u /\ u[i] = s[i] /\ i < n + 1 /\ i # n + 1
  BY <1>1
<1>4. ASSUME NEW i \in DOMAIN u, NEW j \in DOMAIN u, IsPong(u[i]), IsPong(u[j]), i < j PROVE u[i].id < u[j].id
  <2>1. i \in DOMAIN s /\ u[i] = s[i]
    BY <1>1, <1>4
  <2>2. CASE j = n + 1
    BY <1>1, <1>4, <2>1, <2>2
  <2>3. CASE j \in DOMAIN s /\ u[j] = s[j]
    BY <1>4, <2>1, <2>3 DEF Answers
  <2> QED
    BY <1>2, <2>2, <2>3
<1>5. \A i \in DOMAIN u : IsPong(u[i]) =>
       \E m \in DOMAIN p : p[m].id = u[i].id /\ \A l \in DOMAIN p : l < m =>
          \E j \in DOMAIN u : j < i /\ IsPong(u[j]) /\ u[j].id = p[l].id
  <2> SUFFICES ASSUME NEW i \in DOMAIN u, IsPong(u[i])
               PROVE  \E m \in DOMAIN p : p[m].id = u[i].id /\ \A l \in DOMAIN p : l < m =>
                         \E j \in DOMAIN u : j < i /\ IsPong(u[j]) /\ u[j].id = p[l].id
    OBVIOUS
  <2>1. CASE i \in DOMAIN s /\ u[i] = s[i]
    <3>1. PICK m \in DOMAIN p : p[m].id = s[i].id /\ \A l \in DOMAIN p : l < m =>
            \E j \in DOMAIN s : j < i /\ IsPong(s[j]) /\ s[j].id = p[l].id
      BY <2>1 DEF Answers
    <3>2. \A l \in DOMAIN p : l < m => \E j \in DOMAIN u : j < i /\ IsPong(u[j]) /\ u[j].id = p[l].id
      BY <1>3, <3>1
    <3> QED
      BY <2>1, <3>1, <3>2
  <2>2. CASE i = n + 1
    <3>1. \A l \in DOMAIN p : l < k => \E j \in DOMAIN u : j < i /\ IsPong(u[j]) /\ u[j].id = p[l].id
      BY <1>3, <2>2
    <3> QED
      BY <1>1, <2>2, <3>1
  <2> QED
    BY <1>2, <2>1, <2>2
<1>6. ASSUME NEW i \in DOMAIN u, IsPong(u[i]), i > 1 PROVE Tells(u[i - 1], u[i].id, made, c)
  <2>1. CASE i = n + 1
    <3>1. i - 1 = n /\ u[n] = s[n]
      BY <1>1, <2>1
    <3> QED
      BY <1>1, <2>1, <3>1
  <2>2. CASE i # n + 1
    BY <1>2, <1>6, <2>2 DEF Answers
  <2> QED
    BY <2>1, <2>2
<1>7. \A i \in DOMAIN u : IsPong(u[i]) /\ i = 1 => p[1].failed \/ Good(p[1].model, p[1].id, made, c)
  <2>1. n + 1 # 1
    BY <1>1
  <2> QED
    BY <1>2, <2>1 DEF Answers
<1> QED
  BY <1>4, <1>5, <1>6, <1>7 DEF Answers, u

\* The oldest pong answers the oldest fence.
LEMMA AnswersFirst ==
  ASSUME NEW s \in Seq(FrameSet), NEW p \in Seq(FenceSet), NEW made, NEW c, Answers(s, p, made, c),
         NEW i \in DOMAIN s, IsPong(s[i]), \A j \in DOMAIN s : j < i => ~IsPong(s[j])
  PROVE  p # <<>> /\ 1 \in DOMAIN p /\ p[1].id = s[i].id
<1>1. PICK k \in DOMAIN p : p[k].id = s[i].id /\ \A l \in DOMAIN p : l < k =>
        \E j \in DOMAIN s : j < i /\ IsPong(s[j]) /\ s[j].id = p[l].id
  BY DEF Answers
<1>2. \A l \in DOMAIN p : ~(l < k)
  BY <1>1
<1>3. DOMAIN p = 1..Len(p) /\ Len(p) \in Nat
  OBVIOUS
<1>4. 1 \in DOMAIN p
  BY <1>1, <1>3
<1>5. k = 1
  BY <1>2, <1>3, <1>4
<1> QED
  BY <1>1, <1>4, <1>5

LEMMA AnswersRead ==
  ASSUME NEW s \in Seq(FrameSet), s # <<>>, NEW p \in Seq(FenceSet), NEW made, NEW c, Answers(s, p, made, c),
         ~IsPong(Head(s)), NEW q \in Seq(FenceSet), DOMAIN q = DOMAIN p, \A k \in DOMAIN p : q[k].id = p[k].id,
         p # <<>> /\ Head(s).kind = "failed" => q[1].failed,
         p # <<>> /\ Head(s).kind = "model" => q[1].model = Head(s).payload
  PROVE  Answers(Tail(s), q, made, c)
<1> DEFINE u == Tail(s)
           n == Len(s)
           h == Head(s)
<1>1. /\ n \in Nat \ {0} /\ DOMAIN s = 1..n /\ DOMAIN u = 1..(n - 1) /\ h = s[1]
      /\ \A i \in 1..(n - 1) : u[i] = s[i + 1] /\ i + 1 \in 1..n
      /\ \A j \in 1..n : j = 1 \/ (j - 1 \in 1..(n - 1) /\ u[j - 1] = s[j])
  BY TailOf
<1> HIDE DEF u, n, h
<1>2. ASSUME NEW i \in DOMAIN u, NEW j \in DOMAIN u, IsPong(u[i]), IsPong(u[j]), i < j PROVE u[i].id < u[j].id
  <2>1. i + 1 \in DOMAIN s /\ j + 1 \in DOMAIN s /\ i + 1 < j + 1 /\ u[i] = s[i + 1] /\ u[j] = s[j + 1]
    BY <1>1, <1>2
  <2> QED
    BY <1>2, <2>1 DEF Answers
<1>3. ASSUME NEW i \in DOMAIN u, IsPong(u[i])
      PROVE  \E k \in DOMAIN q : q[k].id = u[i].id /\ \A l \in DOMAIN q : l < k =>
                \E j \in DOMAIN u : j < i /\ IsPong(u[j]) /\ u[j].id = q[l].id
  <2>1. i + 1 \in DOMAIN s /\ u[i] = s[i + 1] /\ i \in Nat
    BY <1>1
  <2>2. PICK k \in DOMAIN p : p[k].id = s[i + 1].id /\ \A l \in DOMAIN p : l < k =>
          \E j \in DOMAIN s : j < i + 1 /\ IsPong(s[j]) /\ s[j].id = p[l].id
    BY <1>3, <2>1 DEF Answers
  <2>3. ASSUME NEW l \in DOMAIN q, l < k PROVE \E j \in DOMAIN u : j < i /\ IsPong(u[j]) /\ u[j].id = q[l].id
    <3>1. PICK j \in DOMAIN s : j < i + 1 /\ IsPong(s[j]) /\ s[j].id = p[l].id
      BY <2>2, <2>3
    <3>2. j # 1
      BY <1>1, <3>1 DEF h
    <3>3. j - 1 \in DOMAIN u /\ u[j - 1] = s[j] /\ j - 1 < i
      BY <1>1, <2>1, <3>1, <3>2
    <3> QED
      BY <2>3, <3>1, <3>3
  <2> QED
    BY <2>1, <2>2, <2>3
<1>4. ASSUME NEW i \in DOMAIN u, IsPong(u[i]), i > 1 PROVE Tells(u[i - 1], u[i].id, made, c)
  <2>a. n \in Nat /\ i \in 1..(n - 1)
    BY <1>1
  <2>0. i - 1 \in 1..(n - 1) /\ (i - 1) + 1 = i /\ (i + 1) - 1 = i /\ i + 1 > 1
    BY <1>4, <2>a
  <2>1. i + 1 \in DOMAIN s /\ u[i] = s[i + 1] /\ (i + 1) - 1 = i /\ i + 1 > 1
    BY <1>1, <2>a, <2>0
  <2>2. u[i - 1] = s[i]
    BY <1>1, <2>0
  <2>3. Tells(s[(i + 1) - 1], s[i + 1].id, made, c)
    BY <1>4, <2>1 DEF Answers
  <2> QED
    BY <2>1, <2>2, <2>3
<1>5. ASSUME 1 \in DOMAIN u, IsPong(u[1]) PROVE q[1].failed \/ Good(q[1].model, q[1].id, made, c)
  <2>1. 2 \in DOMAIN s /\ u[1] = s[2] /\ 2 - 1 = 1 /\ 2 > 1
    BY <1>1, <1>5
  <2>2. Tells(s[2 - 1], s[2].id, made, c)
    BY <1>5, <2>1 DEF Answers
  <2>3. Tells(h, s[2].id, made, c)
    BY <1>1, <2>1, <2>2
  <2>4. p # <<>> /\ 1 \in DOMAIN p /\ p[1].id = s[2].id
    <3>1. \A j \in DOMAIN s : j < 2 => ~IsPong(s[j])
      BY <1>1 DEF h
    <3> QED
      BY <1>5, <2>1, <3>1, AnswersFirst
  <2>5. q[1].id = s[2].id
    BY <2>4
  <2> QED
    BY <2>3, <2>4, <2>5 DEF Tells, h
<1> QED
  BY <1>2, <1>3, <1>4, <1>5 DEF Answers, u

LEMMA AnswersTaken ==
  ASSUME NEW s \in Seq(FrameSet), s # <<>>, NEW p \in Seq(FenceSet), NEW made, NEW c, Answers(s, p, made, c),
         IsPong(Head(s)), \A k, l \in DOMAIN p : k < l => p[k].id < p[l].id
  PROVE  /\ p # <<>> /\ Head(p).id = Head(s).id
         /\ Head(p).failed \/ Good(Head(p).model, Head(p).id, made, c)
         /\ Answers(Tail(s), Tail(p), made, c)
<1> DEFINE u == Tail(s)
           n == Len(s)
           h == Head(s)
           q == Tail(p)
           m == Len(p)
<1>1. /\ n \in Nat \ {0} /\ DOMAIN s = 1..n /\ DOMAIN u = 1..(n - 1) /\ h = s[1] /\ h \in FrameSet
      /\ \A i \in 1..(n - 1) : u[i] = s[i + 1] /\ i + 1 \in 1..n
      /\ \A j \in 1..n : j = 1 \/ (j - 1 \in 1..(n - 1) /\ u[j - 1] = s[j])
  BY TailOf
<1>2. p # <<>> /\ 1 \in DOMAIN p /\ p[1].id = s[1].id
  <2>1. 1 \in DOMAIN s /\ IsPong(s[1]) /\ \A j \in DOMAIN s : j < 1 => ~IsPong(s[j])
    BY <1>1
  <2> QED
    BY <2>1, AnswersFirst
<1>3. /\ m \in Nat \ {0} /\ DOMAIN p = 1..m /\ DOMAIN q = 1..(m - 1) /\ Head(p) = p[1]
      /\ \A i \in 1..(m - 1) : q[i] = p[i + 1] /\ i + 1 \in 1..m
      /\ \A j \in 1..m : j = 1 \/ (j - 1 \in 1..(m - 1) /\ q[j - 1] = p[j])
  BY <1>2, TailOf
<1>4. \A k \in DOMAIN p : p[k].id \in Nat
  <2>1. \A k \in DOMAIN p : p[k] \in FenceSet
    OBVIOUS
  <2> QED
    BY <2>1 DEF FenceSet
<1>5. \A i \in DOMAIN s : s[i].id \in Int
  <2>1. \A i \in DOMAIN s : s[i] \in FrameSet
    OBVIOUS
  <2> QED
    BY <2>1, FrameFields
<1>6. p[1].failed \/ Good(p[1].model, p[1].id, made, c)
  BY <1>1 DEF Answers
<1> HIDE DEF u, n, h, q, m
<1>7. ASSUME NEW i \in DOMAIN u, NEW j \in DOMAIN u, IsPong(u[i]), IsPong(u[j]), i < j PROVE u[i].id < u[j].id
  <2>1. i + 1 \in DOMAIN s /\ j + 1 \in DOMAIN s /\ i + 1 < j + 1 /\ u[i] = s[i + 1] /\ u[j] = s[j + 1]
    BY <1>1, <1>7
  <2> QED
    BY <1>7, <2>1 DEF Answers
<1>8. ASSUME NEW i \in DOMAIN u, IsPong(u[i])
      PROVE  \E k \in DOMAIN q : q[k].id = u[i].id /\ \A l \in DOMAIN q : l < k =>
                \E j \in DOMAIN u : j < i /\ IsPong(u[j]) /\ u[j].id = q[l].id
  <2>1. i + 1 \in DOMAIN s /\ u[i] = s[i + 1] /\ i \in Nat /\ 1 < i + 1 /\ 1 \in DOMAIN s
    BY <1>1
  <2>2. PICK k \in DOMAIN p : p[k].id = s[i + 1].id /\ \A l \in DOMAIN p : l < k =>
          \E j \in DOMAIN s : j < i + 1 /\ IsPong(s[j]) /\ s[j].id = p[l].id
    BY <1>8, <2>1 DEF Answers
  <2>3. s[1].id < s[i + 1].id
    BY <1>1, <1>8, <2>1 DEF Answers, h
  <2>4. k # 1
    BY <1>2, <1>5, <2>1, <2>2, <2>3
  <2>5. k - 1 \in DOMAIN q /\ q[k - 1] = p[k] /\ k \in Nat
    BY <1>3, <2>4
  <2>6. ASSUME NEW l \in DOMAIN q, l < k - 1 PROVE \E j \in DOMAIN u : j < i /\ IsPong(u[j]) /\ u[j].id = q[l].id
    <3>1. l + 1 \in DOMAIN p /\ q[l] = p[l + 1] /\ l + 1 < k /\ 1 < l + 1
      BY <1>3, <2>5, <2>6
    <3>2. PICK j \in DOMAIN s : j < i + 1 /\ IsPong(s[j]) /\ s[j].id = p[l + 1].id
      BY <2>2, <3>1
    <3>3. p[1].id < p[l + 1].id
      BY <1>2, <3>1
    <3>4. j # 1
      BY <1>2, <1>4, <3>1, <3>2, <3>3
    <3>5. j - 1 \in DOMAIN u /\ u[j - 1] = s[j] /\ j - 1 < i
      BY <1>1, <2>1, <3>2, <3>4
    <3> QED
      BY <3>1, <3>2, <3>5
  <2> QED
    BY <2>1, <2>2, <2>5, <2>6
<1>9. ASSUME NEW i \in DOMAIN u, IsPong(u[i]), i > 1 PROVE Tells(u[i - 1], u[i].id, made, c)
  <2>a. n \in Nat /\ i \in 1..(n - 1)
    BY <1>1
  <2>0. i - 1 \in 1..(n - 1) /\ (i - 1) + 1 = i /\ (i + 1) - 1 = i /\ i + 1 > 1
    BY <1>9, <2>a
  <2>1. i + 1 \in DOMAIN s /\ u[i] = s[i + 1] /\ (i + 1) - 1 = i /\ i + 1 > 1
    BY <1>1, <2>a, <2>0
  <2>2. u[i - 1] = s[i]
    BY <1>1, <2>0
  <2>3. Tells(s[(i + 1) - 1], s[i + 1].id, made, c)
    BY <1>9, <2>1 DEF Answers
  <2> QED
    BY <2>1, <2>2, <2>3
<1>10. ASSUME 1 \in DOMAIN u, IsPong(u[1]) PROVE FALSE
  <2>1. 2 \in DOMAIN s /\ u[1] = s[2] /\ 2 - 1 = 1 /\ 2 > 1
    BY <1>1, <1>10
  <2>2. Tells(s[2 - 1], s[2].id, made, c)
    BY <1>10, <2>1 DEF Answers
  <2>3. Tells(h, s[2].id, made, c)
    BY <1>1, <2>1, <2>2
  <2> QED
    BY <2>3 DEF Tells, IsPong, h
<1>11. Answers(u, q, made, c)
  BY <1>7, <1>8, <1>9, <1>10 DEF Answers
<1> QED
  BY <1>1, <1>2, <1>3, <1>6, <1>11 DEF u, q, h

LEMMA AnswersMade ==
  ASSUME NEW s \in Seq(FrameSet), NEW p \in Seq(FenceSet), NEW made, NEW c, Answers(s, p, made, c),
         NEW m, \A i \in DOMAIN s : IsPong(s[i]) => ~(m.id < s[i].id)
  PROVE  Answers(s, p, made \cup {m}, c)
<1>1. ASSUME NEW i \in DOMAIN s, IsPong(s[i]), NEW v, Good(v, s[i].id, made, c) PROVE Good(v, s[i].id, made \cup {m}, c)
  BY <1>1 DEF Good
<1>2. \A i \in DOMAIN s : IsPong(s[i]) /\ i > 1 => Tells(s[i - 1], s[i].id, made \cup {m}, c)
  BY <1>1 DEF Answers, Tells
<1>3. ASSUME NEW i \in DOMAIN s, IsPong(s[i]), i = 1 PROVE p[1].failed \/ Good(p[1].model, p[1].id, made \cup {m}, c)
  <2>1. p[1].id = s[i].id
    <3>1. \A j \in DOMAIN s : j < i => ~IsPong(s[j])
      BY <1>3
    <3> QED
      BY <1>3, <3>1, AnswersFirst
  <2> QED
    BY <1>1, <1>3, <2>1 DEF Answers
<1> QED
  BY <1>2, <1>3 DEF Answers

LEMMA AnswersAsked ==
  ASSUME NEW s \in Seq(FrameSet), NEW p \in Seq(FenceSet), NEW made, NEW c, Answers(s, p, made, c), NEW f \in FenceSet
  PROVE  Answers(s, Append(p, f), made, c)
<1> DEFINE q == Append(p, f)
           m == Len(p)
<1>1. /\ m \in Nat /\ DOMAIN p = 1..m /\ DOMAIN q = 1..(m + 1)
      /\ \A i \in 1..m : q[i] = p[i]
  BY AppendOf
<1> HIDE DEF q, m
<1>2. ASSUME NEW i \in DOMAIN s, IsPong(s[i])
      PROVE  \E k \in DOMAIN q : q[k].id = s[i].id /\ \A l \in DOMAIN q : l < k =>
                \E j \in DOMAIN s : j < i /\ IsPong(s[j]) /\ s[j].id = q[l].id
  <2>1. PICK k \in DOMAIN p : p[k].id = s[i].id /\ \A l \in DOMAIN p : l < k =>
          \E j \in DOMAIN s : j < i /\ IsPong(s[j]) /\ s[j].id = p[l].id
    BY <1>2 DEF Answers
  <2>2. k \in DOMAIN q /\ q[k] = p[k] /\ \A l \in DOMAIN q : l < k => l \in DOMAIN p /\ q[l] = p[l]
    BY <1>1
  <2> QED
    BY <2>1, <2>2
<1>3. ASSUME NEW i \in DOMAIN s, IsPong(s[i]), i = 1 PROVE q[1].failed \/ Good(q[1].model, q[1].id, made, c)
  <2>1. 1 \in DOMAIN p
    <3>1. \A j \in DOMAIN s : j < i => ~IsPong(s[j])
      BY <1>3
    <3> QED
      BY <1>3, <3>1, AnswersFirst
  <2> QED
    BY <1>1, <1>3, <2>1 DEF Answers
<1> QED
  BY <1>2, <1>3 DEF Answers, q

LEMMA AnswersNone ==
  ASSUME NEW s, NEW p, NEW made, NEW c, \A i \in DOMAIN s : ~IsPong(s[i])
  PROVE  Answers(s, p, made, c)
BY DEF Answers

-----------------------------------------------------------------------------
LEMMA WelcomesSent ==
  ASSUME NEW s \in Seq(FrameSet), NEW at \in Nat, NEW last \in Nat, Welcomes(s, at, last), NEW e \in FrameSet,
         e.kind # "welcome", IsPong(e) => at = last
  PROVE  Welcomes(Append(s, e), at, last)
<1> DEFINE u == Append(s, e)
           n == Len(s)
<1>1. /\ n \in Nat /\ DOMAIN s = 1..n /\ DOMAIN u = 1..(n + 1)
      /\ \A i \in 1..n : u[i] = s[i]
      /\ u[n + 1] = e
  BY AppendOf
<1>2. \A i \in 1..n : s[i].conn \in Nat
  BY <1>1, ConnIs
<1> HIDE DEF u, n
<1>3. \A i \in DOMAIN u : u[i].kind = "welcome" => i \in DOMAIN s /\ at < u[i].conn /\ u[i].conn <= last
  BY <1>1 DEF Welcomes
<1>4. ASSUME NEW i \in DOMAIN u, NEW j \in DOMAIN u, i < j, u[i].kind = "welcome"
      PROVE  ~IsPong(u[j]) /\ (u[j].kind = "welcome" => u[i].conn < u[j].conn)
  <2>1. i \in DOMAIN s /\ u[i] = s[i] /\ at < s[i].conn /\ s[i].conn <= last /\ s[i].conn \in Nat
    BY <1>1, <1>2, <1>3, <1>4
  <2>2. CASE j = n + 1
    BY <1>1, <2>1, <2>2
  <2>3. CASE j \in 1..n
    BY <1>1, <1>4, <2>1, <2>3 DEF Welcomes
  <2> QED
    BY <1>1, <2>2, <2>3
<1>5. at <= last
  BY DEF Welcomes
<1> QED
  BY <1>3, <1>4, <1>5 DEF Welcomes, u

LEMMA WelcomesMore ==
  ASSUME NEW s \in Seq(FrameSet), NEW at \in Nat, NEW last \in Nat, Welcomes(s, at, last), NEW e \in FrameSet,
         e.kind = "welcome", last < e.conn
  PROVE  Welcomes(Append(s, e), at, e.conn)
<1> DEFINE u == Append(s, e)
           n == Len(s)
<1>1. /\ n \in Nat /\ DOMAIN s = 1..n /\ DOMAIN u = 1..(n + 1)
      /\ \A i \in 1..n : u[i] = s[i]
      /\ u[n + 1] = e
  BY AppendOf
<1>2. (\A i \in 1..n : s[i].conn \in Nat) /\ e.conn \in Nat /\ at <= last
  BY <1>1, ConnIs, FrameFields DEF Conns, Welcomes
<1> HIDE DEF u, n
<1>3. ASSUME NEW i \in DOMAIN u, u[i].kind = "welcome" PROVE at < u[i].conn /\ u[i].conn <= e.conn
  <2>1. CASE i = n + 1
    BY <1>1, <1>2, <2>1
  <2>2. CASE i \in 1..n
    <3>1. at < s[i].conn /\ s[i].conn <= last
      BY <1>1, <1>3, <2>2 DEF Welcomes
    <3> QED
      BY <1>1, <1>2, <2>2, <3>1
  <2> QED
    BY <1>1, <2>1, <2>2
<1>4. ASSUME NEW i \in DOMAIN u, NEW j \in DOMAIN u, i < j, u[i].kind = "welcome"
      PROVE  ~IsPong(u[j]) /\ (u[j].kind = "welcome" => u[i].conn < u[j].conn)
  <2>1. i \in DOMAIN s /\ u[i] = s[i]
    BY <1>1, <1>4
  <2>2. s[i].conn <= last /\ s[i].conn \in Nat
    BY <1>1, <1>2, <1>4, <2>1 DEF Welcomes
  <2>3. CASE j = n + 1
    BY <1>1, <1>2, <2>1, <2>2, <2>3 DEF IsPong
  <2>4. CASE j \in 1..n
    BY <1>1, <1>4, <2>1, <2>4 DEF Welcomes
  <2> QED
    BY <1>1, <2>3, <2>4
<1> QED
  BY <1>2, <1>3, <1>4 DEF Welcomes, u

LEMMA WelcomesRead ==
  ASSUME NEW s \in Seq(FrameSet), s # <<>>, NEW at \in Nat, NEW last \in Nat, Welcomes(s, at, last)
  PROVE  /\ Head(s).kind # "welcome" => Welcomes(Tail(s), at, last)
         /\ Head(s).kind = "welcome" =>
              /\ at < Head(s).conn /\ Head(s).conn <= last
              /\ Welcomes(Tail(s), Head(s).conn, last) /\ \A i \in DOMAIN Tail(s) : ~IsPong(Tail(s)[i])
<1> DEFINE u == Tail(s)
           n == Len(s)
           h == Head(s)
<1>1. /\ n \in Nat \ {0} /\ DOMAIN s = 1..n /\ DOMAIN u = 1..(n - 1) /\ h = s[1]
      /\ \A i \in 1..(n - 1) : u[i] = s[i + 1] /\ i + 1 \in 1..n /\ 1 < i + 1
  BY TailOf
<1> HIDE DEF u, n, h
<1>2. ASSUME NEW i \in DOMAIN u, u[i].kind = "welcome" PROVE at < u[i].conn /\ u[i].conn <= last
  BY <1>1, <1>2 DEF Welcomes
<1>3. ASSUME NEW i \in DOMAIN u, NEW j \in DOMAIN u, i < j, u[i].kind = "welcome"
      PROVE  ~IsPong(u[j]) /\ (u[j].kind = "welcome" => u[i].conn < u[j].conn)
  <2>1. i + 1 \in DOMAIN s /\ j + 1 \in DOMAIN s /\ i + 1 < j + 1 /\ u[i] = s[i + 1] /\ u[j] = s[j + 1]
    BY <1>1, <1>3
  <2> QED
    BY <1>3, <2>1 DEF Welcomes
<1>4. CASE h.kind # "welcome"
  BY <1>2, <1>3, <1>4 DEF Welcomes, u, h
<1>5. CASE h.kind = "welcome"
  <2>1. at < h.conn /\ h.conn <= last
    BY <1>1, <1>5 DEF Welcomes
  <2>2. ASSUME NEW i \in DOMAIN u PROVE ~IsPong(u[i]) /\ (u[i].kind = "welcome" => h.conn < u[i].conn)
    <3>1. 1 \in DOMAIN s /\ i + 1 \in DOMAIN s /\ 1 < i + 1 /\ u[i] = s[i + 1]
      BY <1>1
    <3> QED
      BY <1>1, <1>5, <3>1 DEF Welcomes
  <2>3. Welcomes(u, h.conn, last)
    BY <1>2, <1>3, <2>1, <2>2 DEF Welcomes
  <2> QED
    BY <1>5, <2>1, <2>2, <2>3 DEF u, h
<1> QED
  BY <1>4, <1>5 DEF h

-----------------------------------------------------------------------------
(* Fences after the steps of the dispatcher. *)

LEMMA ItemsRead ==
  ASSUME NEW S, NEW s \in Seq(S), s # <<>>
  PROVE  Head(s) \in Items(s) /\ Items(s) = Items(Tail(s)) \cup {Head(s)}
<1> DEFINE t == Tail(s)
<1>1. /\ Head(s) = s[1] /\ 1 \in DOMAIN s
      /\ \A i \in DOMAIN t : i + 1 \in DOMAIN s /\ t[i] = s[i + 1]
      /\ \A i \in DOMAIN s : i = 1 \/ (i - 1 \in DOMAIN t /\ t[i - 1] = s[i])
  BY TailOf
<1> HIDE DEF t
<1>2. Items(s) \subseteq Items(t) \cup {s[1]}
  BY <1>1 DEF Items
<1>3. Items(t) \cup {s[1]} \subseteq Items(s)
  BY <1>1 DEF Items
<1> QED
  BY <1>1, <1>2, <1>3 DEF t

\* What the fences, and the frames, are made of.
LEMMA FenceFields ==
  ASSUME Base
  PROVE  /\ \A p \in Items(pings) : p \in FenceSet /\ p.id \in Nat
         /\ \A k \in DOMAIN pings : pings[k] \in Items(pings)
         /\ pings \in Seq(FenceSet) /\ confirmed \in Seq(ChoiceSet) /\ session \in Nat /\ conn \in Nat /\ sent \in Nat
         /\ toClient \in Seq(FrameSet)
         /\ \A f \in Items(toClient) : f \in FrameSet /\ f.id \in Int
         /\ \A k \in DOMAIN toClient : toClient[k] \in Items(toClient)
         /\ \A f \in captured : f \in FenceSet /\ f.id \in Nat
<1>1. pings \in Seq(FenceSet) /\ confirmed \in Seq(ChoiceSet) /\ session \in Nat /\ conn \in Nat /\ sent \in Nat
      /\ toClient \in Seq(FrameSet) /\ captured \subseteq FenceSet
  BY DEF Base, TaskTypes, DataTypes, Conns
<1>2. Items(pings) \subseteq FenceSet /\ Items(toClient) \subseteq FrameSet
  BY <1>1, ItemsAre
<1>3. (\A k \in DOMAIN pings : pings[k] \in Items(pings)) /\ (\A k \in DOMAIN toClient : toClient[k] \in Items(toClient))
  BY DEF Items
<1>4. \A f \in FenceSet : f.id \in Nat
  BY DEF FenceSet
<1>5. \A f \in FrameSet : f.id \in Int
  BY FrameFields
<1> QED
  BY <1>1, <1>2, <1>3, <1>4, <1>5

\* A fence passed stays before the updates to come.
LEMMA EarlierKept ==
  ASSUME Base, Follows, NEW id \in Nat, Earlier(id)
  PROVE  Earlier(id)'
<1>1. id \in 1..sent'
  BY DEF Follows, Earlier, Base, TaskTypes
<1>2. ASSUME NEW a \in tasks', a.kind \in Updates PROVE id < a.id
  <2>1. a.kind # "attached"
    BY <1>2 DEF Updates
  <2>2. CASE a.id = sent + 1
    BY <2>2 DEF Earlier, Base, TaskTypes
  <2>3. CASE \E b \in tasks : Alike(a, b)
    BY <1>2, <2>3 DEF Earlier, Alike
  <2> QED
    BY <2>1, <2>2, <2>3 DEF Follows
<1> QED
  BY <1>1, <1>2 DEF Earlier

\* What leaves the fences alone: no ping begins or ends, the pongs are those there were,
\* and so are the fences, but for what was read of the model.
PingTasks ==
  /\ \A a \in tasks' : a.kind = "ping" => \E b \in tasks : Alike(a, b)
  /\ \A b \in tasks : b.kind = "ping" /\ b.conn = conn => \E a \in tasks' : Alike(a, b)
SamePongs == \A f : IsPong(f) => (f \in Items(toClient') <=> f \in Items(toClient))
SamePings ==
  /\ DOMAIN pings' = DOMAIN pings
  /\ \A k \in DOMAIN pings : pings'[k].id = pings[k].id /\ pings'[k].session = pings[k].session

LEMMA PingTasksKept ==
  ASSUME Base
  PROVE  /\ Rests => PingTasks
         /\ \A t \in tasks : Leaves(t) /\ (t.kind # "ping" \/ t.conn # conn) => PingTasks
         /\ \A t \in tasks, s \in {"host", "catalog"} : Moves(t, s) => PingTasks
         /\ \A kind \in Kinds : kind # "ping" /\ Adds(kind) => PingTasks
<1>0. \A b \in tasks : Alike(b, b)
  BY DEF Alike
<1>1. Rests => PingTasks
  BY <1>0 DEF Rests, PingTasks
<1>2. \A t \in tasks : Leaves(t) /\ (t.kind # "ping" \/ t.conn # conn) => PingTasks
  BY <1>0 DEF Leaves, PingTasks
<1>3. \A t \in tasks, s \in {"host", "catalog"} : Moves(t, s) => PingTasks
  BY MovesShape DEF Base, PingTasks
<1>4. ASSUME NEW kind \in Kinds, kind # "ping", Adds(kind) PROVE PingTasks
  <2>1. PICK n \in TaskSet : tasks' = tasks \cup {n} /\ n.kind = kind
    BY <1>4, AddsShape
  <2> QED
    BY <1>0, <1>4, <2>1 DEF PingTasks
<1> QED
  BY <1>1, <1>2, <1>3, <1>4

LEMMA FencesRest ==
  ASSUME Base, Fences, Follows, UNCHANGED <<session, conn, captured>>, PingTasks, SamePongs, SamePings,
         Welcomes(toClient', session, conn), Answers(toClient', pings', Items(confirmed'), session),
         \A f \in captured : Exact(f, Items(confirmed'))
  PROVE  Fences'
<1>1. Fenced /\ Asked /\ Awaited /\ Passed
  BY DEF Fences
<1>2. \A p \in Items(pings') : \E q \in Items(pings) : p.id = q.id /\ p.session = q.session
  BY DEF SamePings, Items
<1>3. \A q \in Items(pings) : \E p \in Items(pings') : p.id = q.id
  BY DEF SamePings, Items
<1>4. sent' \in Nat /\ sent <= sent' /\ sent \in Nat
  BY DEF Follows, Base, TaskTypes
<1>5. Fenced'
  <2>1. \A p \in Items(pings') : p.session = session' /\ p.id \in 1..sent'
    <3> SUFFICES ASSUME NEW p \in Items(pings') PROVE p.session = session' /\ p.id \in 1..sent'
      OBVIOUS
    <3>1. PICK q \in Items(pings) : p.id = q.id /\ p.session = q.session
      BY <1>2
    <3>2. q.session = session /\ q.id \in 1..sent
      BY <1>1 DEF Fenced
    <3> QED
      BY <1>4, <3>1, <3>2
  <2>2. \A k, l \in DOMAIN pings' : k < l => pings'[k].id < pings'[l].id
    BY <1>1 DEF Fenced, SamePings
  <2> QED
    BY <2>1, <2>2 DEF Fenced
<1>6. Asked'
  <2> SUFFICES ASSUME NEW a \in tasks', a.kind = "ping"
               PROVE  a.conn <= session /\ (a.conn = conn => \E p \in Items(pings') : p.id = a.id)
    BY DEF Asked
  <2>1. PICK b \in tasks : Alike(a, b)
    BY DEF PingTasks
  <2>2. b.conn <= session /\ (b.conn = conn => \E p \in Items(pings) : p.id = b.id)
    BY <1>1, <2>1 DEF Asked, Alike
  <2> QED
    BY <1>3, <2>1, <2>2 DEF Alike
<1>7. Awaited'
  <2> SUFFICES ASSUME session = conn, NEW p \in Items(pings')
               PROVE  \/ \E t \in tasks' : t.kind = "ping" /\ t.conn = conn /\ t.id = p.id
                      \/ \E f \in Items(toClient') : IsPong(f) /\ f.id = p.id
    BY DEF Awaited
  <2>1. PICK q \in Items(pings) : p.id = q.id
    BY <1>2
  <2>2. CASE \E t \in tasks : t.kind = "ping" /\ t.conn = conn /\ t.id = q.id
    BY <2>1, <2>2 DEF PingTasks, Alike
  <2>3. CASE \E f \in Items(toClient) : IsPong(f) /\ f.id = q.id
    BY <2>1, <2>3 DEF SamePongs
  <2> QED
    BY <1>1, <2>2, <2>3 DEF Awaited
<1>8. Passed'
  <2>1. ASSUME NEW f \in Items(toClient'), IsPong(f) PROVE Earlier(f.id)'
    <3>1. f \in Items(toClient)
      BY <2>1 DEF SamePongs
    <3>2. Earlier(f.id)
      BY <1>1, <2>1, <3>1 DEF Passed
    <3>3. f.id \in Nat
      BY <3>2 DEF Earlier
    <3> QED
      BY <3>2, <3>3, EarlierKept
  <2>2. ASSUME NEW f \in captured PROVE Earlier(f.id)'
    BY <1>1, FenceFields, EarlierKept DEF Passed
  <2> QED
    BY <2>1, <2>2 DEF Passed, Exact
<1>9. Welcomes(toClient', session', conn') /\ Answers(toClient', pings', Items(confirmed'), session')
  OBVIOUS
<1> QED
  BY <1>5, <1>6, <1>7, <1>8, <1>9 DEF Fences

\* A step that sends one plain frame, or none.
LEMMA FencesSend ==
  ASSUME Base, Fences, Follows, UNCHANGED <<session, conn, pings, confirmed, captured>>, PingTasks,
         \/ toClient' = toClient
         \/ \E f \in FrameSet : f.kind \notin {"pong", "welcome"} /\ toClient' = Append(toClient, f)
  PROVE  Fences'
<1>1. Welcomes(toClient, session, conn) /\ Answers(toClient, pings, Items(confirmed), session)
      /\ \A f \in captured : Exact(f, Items(confirmed))
  BY DEF Fences, Passed
<1>2. Items(confirmed') = Items(confirmed)
  OBVIOUS
<1>3. SamePings
  BY DEF SamePings
<1>4. \A f \in captured : Exact(f, Items(confirmed'))
  BY <1>1, <1>2
<1>5. CASE toClient' = toClient
  <2>1. SamePongs
    BY <1>5 DEF SamePongs
  <2>2. Welcomes(toClient', session, conn) /\ Answers(toClient', pings', Items(confirmed'), session)
    BY <1>1, <1>2, <1>5
  <2> QED
    BY <1>3, <1>4, <2>1, <2>2, FencesRest
<1>6. ASSUME NEW f \in FrameSet, f.kind \notin {"pong", "welcome"}, toClient' = Append(toClient, f) PROVE Fences'
  <2>0. ~IsPong(f)
    BY <1>6 DEF IsPong
  <2>1. Items(toClient') = Items(toClient) \cup {f}
    BY <1>6, ItemsWritten, FenceFields
  <2>2. SamePongs
    BY <2>0, <2>1 DEF SamePongs
  <2>3. Welcomes(Append(toClient, f), session, conn)
    BY <1>1, <1>6, <2>0, WelcomesSent, FenceFields
  <2>4. Answers(Append(toClient, f), pings, Items(confirmed), session)
    BY <1>1, <2>0, AnswersSent, FenceFields
  <2>5. Welcomes(toClient', session, conn) /\ Answers(toClient', pings', Items(confirmed'), session)
    BY <1>2, <1>6, <2>3, <2>4
  <2> QED
    BY <1>3, <1>4, <2>2, <2>5, FencesRest
<1> QED
  BY <1>5, <1>6

LEMMA FencesWrites ==
  ASSUME Base, Fences, UNCHANGED <<session, pings, confirmed, captured>>, NEW t \in tasks, Leaves(t),
         t.kind # "ping" \/ t.conn # conn, NEW f \in FrameSet, f.kind \notin {"pong", "welcome"},
         \/ UNCHANGED toClient \/ Writes(t, f) \/ toClient' = Append(toClient, f)
  PROVE  Fences'
<1>1. Follows /\ PingTasks /\ conn' = conn
  BY LeavesFollows, PingTasksKept DEF Leaves
<1>2. toClient' = toClient \/ toClient' = Append(toClient, f)
  BY DEF Writes
<1> QED
  BY <1>1, <1>2, FencesSend

\* A fence is asked for.
LEMMA FencesAsked ==
  ASSUME Base, Fences, "ping" \in Kinds, Adds("ping"), session = conn,
         pings' = Append(pings, [id |-> sent + 1, session |-> session, model |-> -1, failed |-> FALSE]),
         UNCHANGED <<toClient, session, confirmed, captured>>
  PROVE  Fences'
<1>1. Fenced /\ Asked /\ Awaited /\ Passed
  BY DEF Fences
<1>2. PICK f \in FenceSet : f = [id |-> sent + 1, session |-> session, model |-> -1, failed |-> FALSE]
  <2>1. sent + 1 \in Nat /\ session \in Conns /\ -1 \in Int /\ FALSE \in BOOLEAN
    BY DEF Base, TaskTypes, DataTypes
  <2> QED
    BY <2>1 DEF FenceSet
<1>3. f.id = sent + 1 /\ f.session = session
  BY <1>2
<1>4. pings' = Append(pings, f)
  BY <1>2
<1>5. Items(pings') = Items(pings) \cup {f}
  BY <1>4, ItemsWritten, FenceFields
<1>6. PICK n \in TaskSet : tasks' = tasks \cup {n} /\ n.id = sent + 1 /\ n.kind = "ping" /\ n.conn = conn
  BY AddsShape
<1>7. Follows /\ conn' = conn /\ sent' = sent + 1
  BY AddsFollows DEF Adds
<1>8. Fenced'
  <2>1. \A p \in Items(pings') : p.session = session' /\ p.id \in 1..sent'
    <3>1. \A p \in Items(pings) : p.session = session' /\ p.id \in 1..sent'
      BY <1>1, <1>7, FenceFields DEF Fenced
    <3>2. f.session = session' /\ f.id \in 1..sent'
      BY <1>3, <1>7, FenceFields
    <3> QED
      BY <1>5, <3>1, <3>2
  <2>2. ASSUME NEW k \in DOMAIN pings', NEW l \in DOMAIN pings', k < l PROVE pings'[k].id < pings'[l].id
    <3>1. /\ Len(pings) \in Nat /\ DOMAIN pings = 1..Len(pings) /\ DOMAIN pings' = 1..(Len(pings) + 1)
          /\ \A i \in 1..Len(pings) : pings'[i] = pings[i]
          /\ pings'[Len(pings) + 1] = f
      BY <1>4, AppendOf, FenceFields
    <3>2. k \in DOMAIN pings /\ pings'[k] = pings[k]
      BY <2>2, <3>1
    <3>3. pings[k].id \in 1..sent
      BY <1>1, <3>2, FenceFields DEF Fenced
    <3>4. CASE l = Len(pings) + 1
      BY <1>3, <3>1, <3>2, <3>3, <3>4, FenceFields
    <3>5. CASE l \in DOMAIN pings
      BY <1>1, <2>2, <3>1, <3>2, <3>5 DEF Fenced
    <3> QED
      BY <3>1, <3>4, <3>5
  <2> QED
    BY <2>1, <2>2 DEF Fenced
<1>9. Asked'
  <2> SUFFICES ASSUME NEW a \in tasks', a.kind = "ping"
               PROVE  a.conn <= session /\ (a.conn = conn => \E p \in Items(pings') : p.id = a.id)
    BY <1>7 DEF Asked
  <2>1. CASE a \in tasks
    BY <1>1, <1>5, <2>1 DEF Asked
  <2>2. CASE a = n
    <3>1. a.conn = session /\ session \in Nat /\ a.id = f.id
      BY <1>3, <1>6, <2>2, FenceFields
    <3>2. a.conn <= session
      BY <3>1
    <3>3. f \in Items(pings') /\ f.id = a.id
      BY <1>5, <3>1
    <3> QED
      BY <3>2, <3>3
  <2> QED
    BY <1>6, <2>1, <2>2
<1>10. Awaited'
  <2> SUFFICES ASSUME NEW p \in Items(pings')
               PROVE  \/ \E t \in tasks' : t.kind = "ping" /\ t.conn = conn /\ t.id = p.id
                      \/ \E g \in Items(toClient) : IsPong(g) /\ g.id = p.id
    BY <1>7 DEF Awaited
  <2>1. CASE p \in Items(pings)
    BY <1>1, <1>6, <2>1 DEF Awaited
  <2>2. CASE p = f
    BY <1>3, <1>6, <2>2
  <2> QED
    BY <1>5, <2>1, <2>2
<1>11. Passed'
  <2>1. \A g \in Items(toClient') : IsPong(g) => Earlier(g.id)'
    <3>1. \A id \in Nat : Earlier(id) => Earlier(id)'
      BY <1>7, EarlierKept
    <3>2. \A id : Earlier(id) => id \in Nat
      BY DEF Earlier
    <3> QED
      BY <1>1, <3>1, <3>2 DEF Passed
  <2>2. ASSUME NEW g \in captured PROVE Earlier(g.id)'
    BY <1>1, <1>7, FenceFields, EarlierKept DEF Passed
  <2> QED
    BY <1>1, <2>1, <2>2 DEF Passed, Exact
<1>12. Answers(toClient, Append(pings, f), Items(confirmed), session)
  BY AnswersAsked, FenceFields DEF Fences
<1>13. Answers(toClient', pings', Items(confirmed'), session') /\ Welcomes(toClient', session', conn')
  BY <1>4, <1>7, <1>12 DEF Fences
<1> QED
  BY <1>8, <1>9, <1>10, <1>11, <1>13 DEF Fences

\* A fence is answered: the update is the first, and every fence before it was answered.
LEMMA FencesAnswered ==
  ASSUME Base, Selected, Fences, NEW t \in tasks, Leaves(t), Unblocked(t), t.kind = "ping", t.conn = conn,
         NEW f \in FrameSet, f.kind = "failed" \/ (f.kind = "model" /\ f.payload = selection[conn]),
         NEW g \in FrameSet, IsPong(g), g.id = t.id,
         NEW s \in Seq(FrameSet), s = Append(toClient, f) \/ s = Append(Append(toClient, f), f),
         toClient' = Append(s, g), UNCHANGED <<session, pings, confirmed, captured>>
  PROVE  Fences'
<1>1. Fenced /\ Asked /\ Awaited /\ Passed
  BY DEF Fences
<1>2. session = conn
  <2>1. conn <= session /\ session <= conn
    BY <1>1 DEF Asked, Fences, Welcomes
  <2> QED
    BY <2>1, FenceFields
<1>3. Follows /\ conn' = conn /\ sent' = sent /\ tasks' = tasks \ {t} /\ \A a \in tasks' : a \in tasks /\ a # t /\ a.id # t.id
  BY LeavesFollows DEF Leaves
<1>4. ~IsPong(f) /\ f.kind # "welcome"
  BY DEF IsPong
<1>5. Append(toClient, f) \in Seq(FrameSet) /\ Items(Append(toClient, f)) = Items(toClient) \cup {f}
      /\ Items(Append(Append(toClient, f), f)) = Items(Append(toClient, f)) \cup {f}
  <2>1. Append(toClient, f) \in Seq(FrameSet) /\ Items(Append(toClient, f)) = Items(toClient) \cup {f}
    BY FenceFields, AppendOf, ItemsWritten
  <2>2. \A u \in Seq(FrameSet) : Items(Append(u, f)) = Items(u) \cup {f}
    BY ItemsWritten
  <2> QED
    BY <2>1, <2>2
<1>6. Items(s) = Items(toClient) \cup {f}
  BY <1>5
<1>7. Welcomes(s, session, conn) /\ Answers(s, pings, Items(confirmed), session)
  <2>1. Welcomes(toClient, session, conn) /\ Answers(toClient, pings, Items(confirmed), session)
    BY DEF Fences
  <2>2. Welcomes(Append(toClient, f), session, conn)
    BY <1>4, <2>1, WelcomesSent, FenceFields
  <2>3. Answers(Append(toClient, f), pings, Items(confirmed), session)
    BY <1>4, <2>1, AnswersSent, FenceFields
  <2>4. Welcomes(Append(Append(toClient, f), f), session, conn)
    BY <1>4, <1>5, <2>2, WelcomesSent, FenceFields
  <2>5. Answers(Append(Append(toClient, f), f), pings, Items(confirmed), session)
    BY <1>4, <1>5, <2>3, AnswersSent, FenceFields
  <2> QED
    BY <2>2, <2>3, <2>4, <2>5
<1>8. s # <<>> /\ s[Len(s)] = f
  <2>1. \A u \in Seq(FrameSet) : Append(u, f) # <<>> /\ Append(u, f)[Len(Append(u, f))] = f
    BY AppendOf
  <2> QED
    BY <1>5, <2>1, FenceFields
<1>9. Tells(s[Len(s)], g.id, Items(confirmed), session)
  <2>1. Later /\ Made
    BY SelectedIs
  <2>2. selection[conn] < t.id
    BY <2>1 DEF Later, Unset, Updates
  <2>3. \A m \in Items(confirmed) : m.conn = conn => m.id <= selection[conn]
    BY <2>1 DEF Made
  <2>4. Good(selection[conn], t.id, Items(confirmed), session)
    BY <1>2, <2>2, <2>3 DEF Good
  <2> QED
    BY <1>8, <2>4 DEF Tells
<1>10. \A i \in DOMAIN s : IsPong(s[i]) => s[i].id < g.id
  <2>1. \A e \in Items(toClient) : IsPong(e) => e.id < t.id
    BY <1>1 DEF Passed, Earlier, Updates
  <2>2. \A i \in DOMAIN s : s[i] \in Items(toClient) \/ s[i] = f
    BY <1>6 DEF Items
  <2> QED
    BY <1>4, <2>1, <2>2
<1>11. PICK k \in DOMAIN pings : pings[k].id = t.id
  BY <1>1 DEF Asked, Items
<1>12. ASSUME NEW l \in DOMAIN pings, l < k PROVE \E j \in DOMAIN s : IsPong(s[j]) /\ s[j].id = pings[l].id
  <2>1. pings[l].id < t.id
    BY <1>1, <1>11, <1>12 DEF Fenced
  <2>2. ~\E u \in tasks : u.kind = "ping" /\ u.conn = conn /\ u.id = pings[l].id
    <3> SUFFICES ASSUME NEW u \in tasks, u.kind = "ping", u.id = pings[l].id PROVE FALSE
      OBVIOUS
    <3>1. t.id <= u.id
      BY DEF Unblocked, Updates
    <3> QED
      BY <2>1, <3>1, TaskFields DEF Base
  <2>3. PICK e \in Items(toClient) : IsPong(e) /\ e.id = pings[l].id
    BY <1>1, <1>2, <2>2, FenceFields DEF Awaited
  <2>4. e \in Items(s)
    BY <1>6, <2>3
  <2> QED
    BY <2>3, <2>4 DEF Items
<1>13. Answers(Append(s, g), pings, Items(confirmed), session)
  BY <1>7, <1>8, <1>9, <1>10, <1>11, <1>12, AnswersPong, FenceFields
<1>14. Welcomes(Append(s, g), session, conn)
  <2>1. g.kind # "welcome"
    BY DEF IsPong
  <2> QED
    BY <1>2, <1>7, <2>1, WelcomesSent, FenceFields
<1>15. Items(toClient') = Items(toClient) \cup {f, g}
  <2>1. Items(Append(s, g)) = Items(s) \cup {g}
    BY ItemsWritten
  <2> QED
    BY <1>6, <2>1
<1>16. Fenced'
  BY <1>1, <1>3 DEF Fenced
<1>17. Asked'
  BY <1>1, <1>3 DEF Asked
<1>18. Awaited'
  <2> SUFFICES ASSUME NEW p \in Items(pings)
               PROVE  \/ \E u \in tasks' : u.kind = "ping" /\ u.conn = conn /\ u.id = p.id
                      \/ \E e \in Items(toClient') : IsPong(e) /\ e.id = p.id
    BY <1>3 DEF Awaited
  <2>1. CASE \E u \in tasks : u.kind = "ping" /\ u.conn = conn /\ u.id = p.id
    BY <1>3, <1>15, <2>1
  <2>2. CASE \E e \in Items(toClient) : IsPong(e) /\ e.id = p.id
    BY <1>15, <2>2
  <2> QED
    BY <1>1, <1>2, <2>1, <2>2 DEF Awaited
<1>19. Passed'
  <2>1. Earlier(t.id)'
    <3>1. t.id \in 1..sent'
      BY <1>3 DEF Base, Named
    <3>2. ASSUME NEW u \in tasks', u.kind \in Updates PROVE t.id < u.id
      <4>1. u \in tasks /\ u.id # t.id /\ t.id <= u.id
        BY <1>3, <3>2 DEF Unblocked
      <4> QED
        BY <4>1, TaskFields DEF Base
    <3> QED
      BY <3>1, <3>2 DEF Earlier
  <2>2. \A id \in Nat : Earlier(id) => Earlier(id)'
    BY <1>3, EarlierKept
  <2>3. \A id : Earlier(id) => id \in Nat
    BY DEF Earlier
  <2>4. \A e \in Items(toClient') : IsPong(e) => Earlier(e.id)'
    BY <1>1, <1>4, <1>15, <2>1, <2>2, <2>3 DEF Passed
  <2>5. \A e \in captured : Earlier(e.id)'
    BY <1>1, <2>2, <2>3 DEF Passed
  <2> QED
    BY <1>1, <2>4, <2>5 DEF Passed, Exact
<1>20. Answers(toClient', pings', Items(confirmed'), session') /\ Welcomes(toClient', session', conn')
  BY <1>3, <1>13, <1>14
<1> QED
  BY <1>16, <1>17, <1>18, <1>19, <1>20 DEF Fences

\* A model is selected: the fences passed were asked before it.
LEMMA FencesSelected ==
  ASSUME Base, Fences, NEW t \in tasks, t.kind = "set", Moves(t, "catalog"), Unblocked(t),
         confirmed' = Append(confirmed, [id |-> t.id, conn |-> conn]),
         UNCHANGED <<toClient, session, pings, captured>>
  PROVE  Fences'
<1>1. Passed /\ Welcomes(toClient, session, conn) /\ Answers(toClient, pings, Items(confirmed), session)
  BY DEF Fences
<1>2. PICK m \in ChoiceSet : m = [id |-> t.id, conn |-> conn]
  <2>1. t.id \in Nat /\ conn \in Conns
    BY DEF Base, Named, TaskTypes
  <2> QED
    BY <2>1 DEF ChoiceSet
<1>3. m.id = t.id
  BY <1>2
<1>4. Items(confirmed') = Items(confirmed) \cup {m}
  BY <1>2, ItemsWritten, FenceFields
<1>5. Follows /\ PingTasks /\ conn' = conn
  BY MovesFollows, PingTasksKept DEF Moves
<1>6. \A id : Earlier(id) => id < t.id
  BY DEF Earlier, Updates
<1>7. \A id : Earlier(id) => id \in Nat
  BY DEF Earlier
<1>8. t.id \in Nat
  BY DEF Base, Named
<1>9. \A i \in DOMAIN toClient : IsPong(toClient[i]) => ~(m.id < toClient[i].id)
  <2> SUFFICES ASSUME NEW i \in DOMAIN toClient, IsPong(toClient[i]) PROVE ~(m.id < toClient[i].id)
    OBVIOUS
  <2>1. Earlier(toClient[i].id)
    BY <1>1, FenceFields DEF Passed
  <2> QED
    BY <1>3, <1>6, <1>7, <1>8, <2>1
<1>10. Answers(toClient, pings, Items(confirmed) \cup {m}, session)
  BY <1>1, <1>9, AnswersMade, FenceFields
<1>11. ASSUME NEW f \in captured PROVE Exact(f, Items(confirmed) \cup {m})
  <2>1. Earlier(f.id) /\ Exact(f, Items(confirmed))
    BY <1>1 DEF Passed
  <2>2. ~(m.id < f.id)
    BY <1>3, <1>6, <1>7, <1>8, <2>1
  <2> QED
    BY <2>1, <2>2 DEF Exact
<1>12. SamePings /\ SamePongs
  BY DEF SamePings, SamePongs
<1>13. /\ Welcomes(toClient', session, conn) /\ Answers(toClient', pings', Items(confirmed'), session)
       /\ \A f \in captured : Exact(f, Items(confirmed'))
  BY <1>1, <1>4, <1>10, <1>11
<1> QED
  BY <1>5, <1>12, <1>13, FencesRest

\* The connection is replaced: no fence of the old one is answered after the welcome.
LEMMA FencesReplaced ==
  ASSUME Base, Fences, NEW t \in tasks, Replaces(t), conn + 1 \in Conns,
         toClient' = Append(Append(toClient, Welcomed(conn + 1)), Queue(conn + 1)),
         UNCHANGED <<nextStep, session, pings, confirmed, captured>>
  PROVE  Fences'
<1>1. Fenced /\ Asked /\ Awaited /\ Passed
  BY DEF Fences
<1>2. Welcomes(toClient, session, conn) /\ Answers(toClient, pings, Items(confirmed), session) /\ session <= conn
  BY DEF Fences, Welcomes
<1>3. PICK w \in FrameSet : w = Welcomed(conn + 1)
  BY DEF Welcomed, Frame, FrameSet, Plain
<1>4. w.kind = "welcome" /\ w.conn = conn + 1 /\ ~IsPong(w)
  BY <1>3 DEF Welcomed, Frame, IsPong
<1>5. PICK f \in FrameSet : f = Queue(conn + 1)
  <2>1. nextStep' \in [Conns -> Seq(Nat)]
    BY ChannelIs
  <2> QED
    BY <2>1 DEF Queue, Frame, FrameSet, Queues
<1>6. f.kind = "asap" /\ ~IsPong(f)
  BY <1>5 DEF Queue, Frame, IsPong
<1>7. conn' = conn + 1 /\ Follows
      /\ \A a \in tasks' : a.kind = "attached" \/ (a \in tasks /\ a # t /\ a.id # t.id)
  BY ReplacesFollows DEF Replaces
<1>8. Append(toClient, w) \in Seq(FrameSet) /\ Items(Append(Append(toClient, w), f)) = Items(toClient) \cup {w, f}
  <2>1. Append(toClient, w) \in Seq(FrameSet) /\ Items(Append(toClient, w)) = Items(toClient) \cup {w}
    BY AppendOf, ItemsWritten, FenceFields
  <2>2. \A u \in Seq(FrameSet) : Items(Append(u, f)) = Items(u) \cup {f}
    BY ItemsWritten
  <2> QED
    BY <2>1, <2>2
<1>9. conn + 1 \in Nat /\ conn \in Nat /\ session \in Nat /\ conn < conn + 1
  BY FenceFields
<1>10. Welcomes(Append(Append(toClient, w), f), session, conn + 1)
  <2>1. Welcomes(Append(toClient, w), session, w.conn)
    BY <1>2, <1>4, <1>9, WelcomesMore, FenceFields
  <2>2. Welcomes(Append(toClient, w), session, conn + 1)
    BY <1>4, <2>1
  <2> QED
    BY <1>6, <1>8, <1>9, <2>2, WelcomesSent
<1>11. Answers(Append(Append(toClient, w), f), pings, Items(confirmed), session)
  <2>1. Answers(Append(toClient, w), pings, Items(confirmed), session)
    BY <1>2, <1>4, AnswersSent, FenceFields
  <2> QED
    BY <1>6, <1>8, <2>1, AnswersSent
<1>12. Fenced'
  <2>1. sent' = sent
    BY DEF Replaces
  <2> QED
    BY <1>1, <2>1 DEF Fenced
<1>13. Asked'
  <2> SUFFICES ASSUME NEW a \in tasks', a.kind = "ping" PROVE a.conn <= session /\ a.conn # conn + 1
    BY <1>7 DEF Asked
  <2>1. a \in tasks /\ a.conn <= session
    BY <1>1, <1>7 DEF Asked
  <2> QED
    BY <1>2, <1>9, <2>1, TaskFields DEF Base
<1>14. Awaited'
  BY <1>2, <1>7, <1>9 DEF Awaited
<1>15. Passed'
  <2>2. \A id \in Nat : Earlier(id) => Earlier(id)'
    BY <1>7, EarlierKept
  <2>3. \A id : Earlier(id) => id \in Nat
    BY DEF Earlier
  <2>4. \A e \in Items(toClient') : IsPong(e) => Earlier(e.id)'
    BY <1>1, <1>3, <1>4, <1>5, <1>6, <1>8, <2>2, <2>3 DEF Passed
  <2>5. \A e \in captured : Earlier(e.id)'
    BY <1>1, <2>2, <2>3 DEF Passed
  <2> QED
    BY <1>1, <2>4, <2>5 DEF Passed, Exact
<1>16. Answers(toClient', pings', Items(confirmed'), session') /\ Welcomes(toClient', session', conn')
  BY <1>3, <1>5, <1>7, <1>10, <1>11
<1> QED
  BY <1>12, <1>13, <1>14, <1>15, <1>16 DEF Fences

-----------------------------------------------------------------------------
(* Fences after every step. *)

\* What reading a model does to the oldest fence.
LEMMA FrontIs ==
  ASSUME Base, pings # <<>>, NEW v \in Nat
  PROVE  LET q == SetFront([Head(pings) EXCEPT !.model = v])
             r == SetFront([Head(pings) EXCEPT !.failed = TRUE]) IN
         /\ DOMAIN q = DOMAIN pings /\ \A k \in DOMAIN pings : q[k].id = pings[k].id /\ q[k].session = pings[k].session
         /\ q[1].model = v
         /\ DOMAIN r = DOMAIN pings /\ \A k \in DOMAIN pings : r[k].id = pings[k].id /\ r[k].session = pings[k].session
         /\ r[1].failed
<1>1. /\ 1 \in DOMAIN pings /\ Head(pings) = pings[1] /\ pings[1] \in FenceSet
      /\ \A f : DOMAIN [pings EXCEPT ![1] = f] = DOMAIN pings
      /\ \A f : [pings EXCEPT ![1] = f][1] = f
      /\ \A f : \A k \in DOMAIN pings : k # 1 => [pings EXCEPT ![1] = f][k] = pings[k]
  BY TailOf, FenceFields
<1>2. \A g \in FenceSet : /\ [g EXCEPT !.model = v].id = g.id /\ [g EXCEPT !.model = v].session = g.session
                          /\ [g EXCEPT !.model = v].model = v
                          /\ [g EXCEPT !.failed = TRUE].id = g.id /\ [g EXCEPT !.failed = TRUE].session = g.session
                          /\ [g EXCEPT !.failed = TRUE].failed
  BY DEF FenceSet
<1>3. ASSUME NEW f, f.id = pings[1].id, f.session = pings[1].session
      PROVE  /\ DOMAIN SetFront(f) = DOMAIN pings /\ SetFront(f)[1] = f
             /\ \A k \in DOMAIN pings : SetFront(f)[k].id = pings[k].id /\ SetFront(f)[k].session = pings[k].session
  BY <1>1, <1>3 DEF SetFront
<1>4. /\ [Head(pings) EXCEPT !.model = v].id = pings[1].id /\ [Head(pings) EXCEPT !.model = v].session = pings[1].session
      /\ [Head(pings) EXCEPT !.model = v].model = v
      /\ [Head(pings) EXCEPT !.failed = TRUE].id = pings[1].id
      /\ [Head(pings) EXCEPT !.failed = TRUE].session = pings[1].session
      /\ [Head(pings) EXCEPT !.failed = TRUE].failed
  BY <1>1, <1>2
<1> QED
  BY <1>3, <1>4

LEMMA ClientRests ==
  ASSUME Base, Client
  PROVE  /\ Follows /\ PingTasks /\ UNCHANGED <<tasks, sent, conn, confirmed>> /\ pings' \in Seq(FenceSet)
         /\ \A id : Earlier(id) => Earlier(id)'
<1>1. UNCHANGED <<sent, conn, modelUpdates, tasks, confirmed>>
  BY ClientDoes
<1>2. Rests
  BY <1>1 DEF Rests
<1>3. Follows /\ PingTasks
  BY <1>2, RestsFollows, PingTasksKept
<1>4. pings' \in Seq(FenceSet)
  BY DataStep DEF Next, DataTypes
<1>5. \A id : Earlier(id) => Earlier(id)'
  BY <1>1 DEF Earlier
<1> QED
  BY <1>1, <1>3, <1>4, <1>5

\* A frame that is no welcome and no pong is read.
LEMMA FencesReadOther ==
  ASSUME Base, Fences, Client, Head(toClient).kind \notin {"welcome", "pong"}
  PROVE  Fences'
<1> DEFINE h == Head(toClient)
<1>1. /\ toClient # <<>> /\ toClient' = Tail(toClient) /\ UNCHANGED <<session, captured>>
      /\ \/ h.kind = "model" /\ pings' = SetFront([Head(pings) EXCEPT !.model = h.payload])
         \/ h.kind = "failed" /\ pings' = SetFront([Head(pings) EXCEPT !.failed = TRUE])
         \/ h.kind \in {"asap", "answer"} /\ UNCHANGED pings
  BY ClientDoes
<1>2. Follows /\ PingTasks /\ UNCHANGED <<tasks, sent, conn, confirmed>> /\ pings' \in Seq(FenceSet)
  BY ClientRests
<1>3. h \in FrameSet /\ ~IsPong(h) /\ h.kind # "welcome" /\ (h.kind = "model" => h.payload \in Nat)
  <2>1. h \in FrameSet
    BY <1>1, TailOf, FenceFields
  <2> QED
    BY <2>1, FrameFields DEF IsPong
<1> HIDE DEF h
<1>4. /\ SamePings
      /\ pings # <<>> /\ h.kind = "failed" => pings'[1].failed
      /\ pings # <<>> /\ h.kind = "model" => pings'[1].model = h.payload
  <2>1. CASE pings' = pings /\ (h.kind \in {"asap", "answer"} \/ pings = <<>>)
    BY <2>1 DEF SamePings
  <2>2. CASE pings # <<>> /\ h.kind = "model" /\ pings' = SetFront([Head(pings) EXCEPT !.model = h.payload])
    BY <1>3, <2>2, FrontIs DEF SamePings
  <2>3. CASE pings # <<>> /\ h.kind = "failed" /\ pings' = SetFront([Head(pings) EXCEPT !.failed = TRUE])
    BY <2>3, FrontIs DEF SamePings
  <2>4. pings = <<>> => pings' = pings
    BY <1>1 DEF SetFront
  <2> QED
    BY <1>1, <2>1, <2>2, <2>3, <2>4
<1>5. SamePongs
  <2>1. Items(toClient) = Items(toClient') \cup {h}
    BY <1>1, ItemsRead, FenceFields DEF h
  <2> QED
    BY <1>3, <2>1 DEF SamePongs
<1>6. Welcomes(toClient', session, conn)
  BY <1>1, <1>3, WelcomesRead, FenceFields DEF Fences, h
<1>7. Answers(Tail(toClient), pings', Items(confirmed), session)
  <2>1. DOMAIN pings' = DOMAIN pings /\ \A k \in DOMAIN pings : pings'[k].id = pings[k].id
    BY <1>4 DEF SamePings
  <2>2. Answers(toClient, pings, Items(confirmed), session)
    BY DEF Fences
  <2> QED
    BY <1>1, <1>2, <1>3, <1>4, <2>1, <2>2, AnswersRead, FenceFields DEF h
<1>8. /\ Answers(toClient', pings', Items(confirmed'), session)
      /\ \A f \in captured : Exact(f, Items(confirmed'))
  BY <1>1, <1>2, <1>7 DEF Fences, Passed
<1> QED
  BY <1>1, <1>2, <1>4, <1>5, <1>6, <1>8, FencesRest

\* A pong is read: it answers the oldest fence, with the model in force where it stands.
LEMMA FencesReadPong ==
  ASSUME Base, Fences, Client, Head(toClient).kind = "pong"
  PROVE  Fences'
<1> DEFINE h == Head(toClient)
           o == Head(pings)
<1>1. /\ toClient # <<>> /\ toClient' = Tail(toClient) /\ UNCHANGED session
      /\ \/ pings = <<>> /\ UNCHANGED <<pings, captured>>
         \/ pings # <<>> /\ pings' = Tail(pings) /\ captured' = captured \cup {o}
  BY ClientDoes
<1>2. Follows /\ PingTasks /\ UNCHANGED <<tasks, sent, conn, confirmed>> /\ \A id : Earlier(id) => Earlier(id)'
  BY ClientRests
<1>3. Fenced /\ Asked /\ Awaited /\ Passed
  BY DEF Fences
<1>4. IsPong(h)
  BY DEF IsPong
<1>5. /\ pings # <<>> /\ o.id = h.id
      /\ o.failed \/ Good(o.model, o.id, Items(confirmed), session)
      /\ Answers(Tail(toClient), Tail(pings), Items(confirmed), session)
  BY <1>1, <1>4, AnswersTaken, FenceFields DEF Fences, Fenced
<1>6. Welcomes(Tail(toClient), session, conn)
  BY <1>1, WelcomesRead, FenceFields DEF Fences
<1>7. Items(toClient) = Items(toClient') \cup {h} /\ h \in Items(toClient)
  BY <1>1, ItemsRead, FenceFields
<1>8. pings' = Tail(pings) /\ captured' = captured \cup {o} /\ Items(pings) = Items(pings') \cup {o} /\ o \in Items(pings)
  BY <1>1, <1>5, ItemsRead, FenceFields
<1>9. Earlier(o.id)
  BY <1>3, <1>4, <1>5, <1>7 DEF Passed
<1>10. /\ \A k \in DOMAIN pings' : k + 1 \in DOMAIN pings /\ pings'[k] = pings[k + 1] /\ 1 < k + 1 /\ k \in Nat
       /\ o = pings[1] /\ 1 \in DOMAIN pings
  BY <1>5, <1>8, TailOf, FenceFields
<1> HIDE DEF h, o
<1>11. Fenced'
  <2>1. \A p \in Items(pings') : p.session = session' /\ p.id \in 1..sent'
    BY <1>1, <1>2, <1>3, <1>8 DEF Fenced
  <2>2. ASSUME NEW k \in DOMAIN pings', NEW l \in DOMAIN pings', k < l PROVE pings'[k].id < pings'[l].id
    <3>1. k + 1 \in DOMAIN pings /\ l + 1 \in DOMAIN pings /\ k + 1 < l + 1
      BY <1>10, <2>2
    <3> QED
      BY <1>3, <1>10, <3>1 DEF Fenced
  <2> QED
    BY <2>1, <2>2 DEF Fenced
<1>12. Asked'
  <2> SUFFICES ASSUME NEW t \in tasks, t.kind = "ping"
               PROVE  t.conn <= session /\ (t.conn = conn => \E p \in Items(pings') : p.id = t.id)
    BY <1>1, <1>2 DEF Asked
  <2>1. t.conn <= session /\ (t.conn = conn => \E p \in Items(pings) : p.id = t.id)
    BY <1>3 DEF Asked
  <2>2. o.id < t.id /\ o.id \in Nat
    BY <1>9 DEF Earlier, Updates
  <2>3. t.id # o.id
    BY <2>2
  <2> QED
    BY <1>8, <2>1, <2>3
<1>13. \A p \in Items(pings') : o.id < p.id /\ p.id # o.id
  <2> SUFFICES ASSUME NEW k \in DOMAIN pings' PROVE o.id < pings'[k].id /\ pings'[k].id # o.id
    BY DEF Items
  <2>1. pings[1].id < pings[k + 1].id
    BY <1>3, <1>10 DEF Fenced
  <2>2. o.id \in Nat
    BY <1>8, FenceFields
  <2> QED
    BY <1>10, <2>1, <2>2
<1>14. Awaited'
  <2> SUFFICES ASSUME session = conn, NEW p \in Items(pings')
               PROVE  \/ \E t \in tasks : t.kind = "ping" /\ t.conn = conn /\ t.id = p.id
                      \/ \E f \in Items(toClient') : IsPong(f) /\ f.id = p.id
    BY <1>1, <1>2 DEF Awaited
  <2>1. p \in Items(pings) /\ p.id # h.id
    BY <1>5, <1>8, <1>13
  <2>2. CASE \E f \in Items(toClient) : IsPong(f) /\ f.id = p.id
    BY <1>7, <2>1, <2>2
  <2> QED
    BY <1>3, <2>1, <2>2 DEF Awaited
<1>15. Passed'
  <2>1. \A f \in Items(toClient') : IsPong(f) => Earlier(f.id)'
    BY <1>2, <1>3, <1>7 DEF Passed
  <2>2. Exact(o, Items(confirmed))
    <3>1. o.session = session
      BY <1>3, <1>8 DEF Fenced
    <3> QED
      BY <1>5, <3>1 DEF Exact, Good
  <2>3. \A f \in captured' : Earlier(f.id) /\ Exact(f, Items(confirmed))
    BY <1>3, <1>8, <1>9, <2>2 DEF Passed
  <2>4. \A f \in captured' : Earlier(f.id)' /\ Exact(f, Items(confirmed'))
    BY <1>2, <2>3
  <2> QED
    BY <2>1, <2>4 DEF Passed, Exact
<1>16. Answers(toClient', pings', Items(confirmed'), session') /\ Welcomes(toClient', session', conn')
  BY <1>1, <1>2, <1>5, <1>6, <1>8
<1> QED
  BY <1>11, <1>12, <1>14, <1>15, <1>16 DEF Fences

\* A welcome is read: the fences of the old session are dropped, and none was to be answered.
LEMMA FencesReadWelcome ==
  ASSUME Base, Fences, Client, Head(toClient).kind = "welcome"
  PROVE  Fences'
<1> DEFINE h == Head(toClient)
<1>1. toClient # <<>> /\ toClient' = Tail(toClient) /\ session' = h.conn /\ pings' = <<>> /\ UNCHANGED captured
  BY ClientDoes
<1>2. UNCHANGED <<tasks, sent, conn, confirmed>> /\ \A id : Earlier(id) => Earlier(id)'
  BY ClientRests
<1>3. Fenced /\ Asked /\ Awaited /\ Passed
  BY DEF Fences
<1>4. /\ session < h.conn /\ h.conn <= conn
      /\ Welcomes(Tail(toClient), h.conn, conn) /\ \A i \in DOMAIN Tail(toClient) : ~IsPong(Tail(toClient)[i])
  BY <1>1, WelcomesRead, FenceFields DEF Fences
<1>5. h \in FrameSet /\ h.conn \in Nat
  <2>1. h \in FrameSet
    BY <1>1, TailOf, FenceFields
  <2> QED
    BY <2>1, FrameFields DEF Conns
<1>6. Items(pings') = {}
  BY <1>1 DEF Items
<1>7. DOMAIN pings' = {}
  BY <1>1
<1> HIDE DEF h
<1>8. Fenced' /\ Awaited'
  BY <1>6, <1>7 DEF Fenced, Awaited
<1>9. Asked'
  <2> SUFFICES ASSUME NEW t \in tasks, t.kind = "ping" PROVE t.conn <= h.conn /\ t.conn # conn
    BY <1>1, <1>2 DEF Asked
  <2>1. t.conn <= session /\ t.conn \in Nat
    BY <1>3, TaskFields DEF Asked, Base
  <2> QED
    BY <1>4, <1>5, <2>1, FenceFields
<1>10. Passed'
  <2>1. \A f \in Items(toClient') : ~IsPong(f)
    BY <1>1, <1>4 DEF Items
  <2> QED
    BY <1>1, <1>2, <1>3, <2>1 DEF Passed, Exact
<1>11. Answers(Tail(toClient), <<>>, Items(confirmed), h.conn)
  BY <1>4, AnswersNone
<1>12. Answers(toClient', pings', Items(confirmed'), session') /\ Welcomes(toClient', session', conn')
  BY <1>1, <1>2, <1>4, <1>11
<1> QED
  BY <1>8, <1>9, <1>10, <1>12 DEF Fences

LEMMA FencesStep ==
  ASSUME ~Across, Base, Selected, Fences, [Next]_vars
  PROVE  Fences'
<1>1. CASE InputText
  <2>1. UNCHANGED <<tasks, modelUpdates, conn, toClient, session, pings, confirmed, captured>> /\ sent' = sent + 1
    BY <1>1, InputDoes
  <2>2. Rests
    BY <2>1 DEF Rests
  <2> QED
    BY <2>1, <2>2, RestsFollows, PingTasksKept, FencesSend
<1>2. CASE \E kind \in Kinds : Message(kind)
  <2>1. PICK kind \in Kinds : Message(kind)
    BY <1>2
  <2>2. /\ Adds(kind) /\ UNCHANGED <<toClient, session, confirmed, captured>>
        /\ kind = "ping" => Across \/ ~Changing
        /\ pings' = IF kind = "ping"
                    THEN Append(pings, [id |-> sent + 1, session |-> session, model |-> -1, failed |-> FALSE])
                    ELSE pings
    BY <2>1, MessageDoes
  <2>3. CASE kind = "ping"
    <3>1. session = conn
      BY <2>2, <2>3 DEF Changing
    <3> QED
      BY <2>2, <2>3, <3>1, FencesAsked
  <2>4. CASE kind # "ping"
    <3>1. conn' = conn /\ Follows /\ PingTasks
      BY <2>2, <2>4, AddsFollows, PingTasksKept DEF Adds
    <3> QED
      BY <2>2, <2>4, <3>1, FencesSend
  <2> QED
    BY <2>3, <2>4
<1>3. CASE Resume
  <2>0. UNCHANGED <<session, pings, confirmed, captured>>
    BY <1>3, ResumeDoes
  <2>1. PICK t \in tasks :
          \/ Leaves(t) /\ t.conn # conn /\ UNCHANGED toClient
          \/ Leaves(t) /\ t.kind = "text" /\ UNCHANGED toClient
          \/ /\ Leaves(t) /\ t.kind = "steer" /\ Shown(conn)
             /\ nextStep' = [nextStep EXCEPT ![conn] = Append(@, t.id)]
          \/ /\ Leaves(t) /\ t.kind = "clear" /\ Shown(conn)
             /\ nextStep' = [nextStep EXCEPT ![conn] = <<>>]
          \/ (\E s \in {"host", "catalog"} : Moves(t, s)) /\ UNCHANGED toClient
    BY <1>3, ResumeDoes
  <2>2. CASE Leaves(t) /\ (t.conn # conn \/ t.kind = "text") /\ UNCHANGED toClient
    <3>1. conn' = conn /\ Follows /\ PingTasks
      BY <2>2, LeavesFollows, PingTasksKept DEF Leaves
    <3> QED
      BY <2>0, <2>2, <3>1, FencesSend
  <2>3. CASE (\E s \in {"host", "catalog"} : Moves(t, s)) /\ UNCHANGED toClient
    <3>1. conn' = conn /\ Follows /\ PingTasks
      BY <2>3, MovesFollows, PingTasksKept DEF Moves
    <3> QED
      BY <2>0, <2>3, <3>1, FencesSend
  <2>4. CASE /\ Leaves(t) /\ t.kind \in {"steer", "clear"} /\ Shown(conn)
             /\ nextStep' = [nextStep EXCEPT ![conn] = Append(@, t.id)] \/ nextStep' = [nextStep EXCEPT ![conn] = <<>>]
             /\ t.kind = "steer" => nextStep' = [nextStep EXCEPT ![conn] = Append(@, t.id)]
    <3>1. t.id \in Nat
      BY <2>4 DEF Base, Named
    <3>2. nextStep' \in [Conns -> Seq(Nat)]
      BY <2>4, <3>1, QueuedTyped, ChannelIs
    <3>3. PICK f \in FrameSet : f = Queue(conn) /\ f.kind \notin {"pong", "welcome"}
      BY <2>4, <3>2, ShownTyped, ChannelIs DEF Queue, Frame
    <3>4. toClient' = Append(toClient, f)
      BY <2>4, <3>3 DEF Shown
    <3> QED
      BY <2>0, <2>4, <3>3, <3>4, FencesWrites
  <2> QED
    BY <2>1, <2>2, <2>3, <2>4
<1>4. CASE ImageDone
  <2>0. UNCHANGED <<session, pings, confirmed, captured>>
    BY <1>4, ImageDoes
  <2>1. PICK t \in tasks : Leaves(t) /\ t.kind = "image" /\ (UNCHANGED toClient \/ Writes(t, Answer(t)))
    BY <1>4, ImageDoes
  <2> QED
    BY <2>0, <2>1, AnswerIs, FencesWrites
<1>5. CASE SteerImageDone
  <2>0. UNCHANGED <<session, pings, confirmed, captured>>
    BY <1>5, SteerImageDoes
  <2>1. PICK t \in tasks :
              /\ Leaves(t) /\ t.kind = "steerImage"
              /\ \/ nextStep' = [nextStep EXCEPT ![t.conn] = Append(@, t.id)]
                 \/ UNCHANGED nextStep
              /\ IF t.conn = conn THEN Shown(conn) ELSE UNCHANGED toClient
    BY <1>5, SteerImageDoes
  <2>2. t.id \in Nat /\ t.conn \in Conns
    BY <2>1, TaskFields DEF Base, Named
  <2>3. nextStep' \in [Conns -> Seq(Nat)]
    BY <2>1, <2>2, QueuedTyped, ChannelIs
  <2>4. CASE t.conn = conn
    <3>1. PICK f \in FrameSet : f = Queue(conn) /\ f.kind \notin {"pong", "welcome"}
      BY <2>1, <2>3, <2>4, ShownTyped, ChannelIs DEF Queue, Frame
    <3>2. toClient' = Append(toClient, f)
      BY <2>1, <2>4, <3>1 DEF Shown
    <3> QED
      BY <2>0, <2>1, <3>1, <3>2, FencesWrites
  <2>5. CASE t.conn # conn
    <3>1. UNCHANGED toClient
      BY <2>1, <2>5
    <3> QED
      BY <2>0, <2>1, <3>1, AnswerIs, FencesWrites
  <2> QED
    BY <2>4, <2>5
<1>6. CASE SelectDone
  <2>0. UNCHANGED <<session, pings, captured>>
    BY <1>6, SelectDoes
  <2>1. PICK t \in tasks :
              /\ t.kind = "set" /\ Unblocked(t)
              /\ \/ /\ Moves(t, "catalog") /\ UNCHANGED toClient
                    /\ confirmed' = Append(confirmed, [id |-> t.id, conn |-> conn])
                 \/ /\ Leaves(t) /\ UNCHANGED confirmed
                    /\ UNCHANGED toClient \/ Writes(t, ModelFailed(t.conn))
    BY <1>6, SelectDoes
  <2>2. CASE /\ Moves(t, "catalog") /\ UNCHANGED toClient
             /\ confirmed' = Append(confirmed, [id |-> t.id, conn |-> conn])
    BY <2>0, <2>1, <2>2, FencesSelected
  <2>3. CASE /\ Leaves(t) /\ UNCHANGED confirmed
             /\ UNCHANGED toClient \/ Writes(t, ModelFailed(t.conn))
    BY <2>0, <2>1, <2>3, AnswerIs, FencesWrites
  <2> QED
    BY <2>1, <2>2, <2>3
<1>7. CASE CatalogDone
  <2>0. UNCHANGED <<session, pings, confirmed, captured>>
    BY <1>7, CatalogDoes
  <2>1. PICK t \in tasks, f \in FrameSet :
              Leaves(t) /\ (t.kind \in Updates => Unblocked(t)) /\ CatalogShown(t, f)
    BY <1>7, CatalogDoes DEF CatalogShown
  <2>2. f.kind = "failed" \/ (f.kind = "model" /\ f.payload = selection[t.conn])
    BY <2>1 DEF CatalogShown
  <2>3. CASE t.kind = "ping" /\ t.conn = conn
    <3>1. PICK g \in FrameSet : g = Pong(t) /\ IsPong(g) /\ g.id = t.id
      BY AnswerIs
    <3>2. Append(toClient, f) \in Seq(FrameSet) /\ Append(Append(toClient, f), f) \in Seq(FrameSet)
      <4>1. \A s \in Seq(FrameSet) : Append(s, f) \in Seq(FrameSet)
        BY AppendOf
      <4> QED
        BY <4>1, FenceFields
    <3>3. PICK s \in Seq(FrameSet) :
            (s = Append(toClient, f) \/ s = Append(Append(toClient, f), f)) /\ toClient' = Append(s, g)
      BY <2>1, <2>3, <3>1, <3>2 DEF CatalogShown
    <3>4. Unblocked(t)
      BY <2>1, <2>3 DEF Updates
    <3> QED
      BY <2>0, <2>1, <2>2, <2>3, <3>1, <3>3, <3>4, FencesAnswered
  <2>4. CASE t.kind # "ping" \/ t.conn # conn
    <3>1. UNCHANGED toClient \/ toClient' = Append(toClient, f)
      BY <2>1, <2>4 DEF CatalogShown
    <3> QED
      BY <2>0, <2>1, <2>2, <2>4, <3>1, FencesWrites
  <2> QED
    BY <2>3, <2>4
<1>8. CASE CommandDone
  <2>0. UNCHANGED <<session, pings, confirmed, captured>>
    BY <1>8, CommandDoes
  <2>1. PICK t \in tasks : Leaves(t) /\ t.kind = "command" /\ Writes(t, Answer(t))
    BY <1>8, CommandDoes
  <2> QED
    BY <2>0, <2>1, AnswerIs, FencesWrites
<1>9. CASE SessionDone
  <2>0. UNCHANGED <<nextStep, session, pings, confirmed, captured>>
    BY <1>9, SessionDoes
  <2>1. PICK t \in tasks :
              /\ t.kind \in Changes
              /\ \/ /\ Replaces(t) /\ conn + 1 \in Conns
                    /\ toClient' = Append(Append(toClient, Welcomed(conn + 1)), Queue(conn + 1))
                 \/ /\ Leaves(t)
                    /\ UNCHANGED toClient \/ Writes(t, Answer(t)) \/ toClient' = Append(toClient, Answer(t))
    BY <1>9, SessionDoes
  <2>2. CASE /\ Replaces(t) /\ conn + 1 \in Conns
             /\ toClient' = Append(Append(toClient, Welcomed(conn + 1)), Queue(conn + 1))
    BY <2>0, <2>2, FencesReplaced
  <2>3. CASE /\ Leaves(t)
             /\ UNCHANGED toClient \/ Writes(t, Answer(t)) \/ toClient' = Append(toClient, Answer(t))
    BY <2>0, <2>1, <2>3, AnswerIs, FencesWrites DEF Changes
  <2> QED
    BY <2>1, <2>2, <2>3
<1>10. CASE Claim
  <2>1. UNCHANGED <<sent, conn, modelUpdates, tasks, session, pings, confirmed, captured>>
        /\ nextStep' = [nextStep EXCEPT ![conn] = <<>>]
        /\ IF Busy(conn) THEN UNCHANGED toClient ELSE Shown(conn)
    BY <1>10, ClaimDoes
  <2>2. Follows /\ PingTasks
    BY <2>1, RestsFollows, PingTasksKept DEF Rests
  <2>3. CASE Busy(conn)
    BY <2>1, <2>2, <2>3, FencesSend
  <2>4. CASE ~Busy(conn)
    <3>1. nextStep' \in [Conns -> Seq(Nat)]
      BY <2>1, QueuedTyped, ChannelIs
    <3>2. PICK f \in FrameSet : f = Queue(conn) /\ f.kind \notin {"pong", "welcome"}
      BY <2>1, <2>4, <3>1, ShownTyped, ChannelIs DEF Queue, Frame
    <3>3. toClient' = Append(toClient, f)
      BY <2>1, <2>4, <3>2 DEF Shown
    <3> QED
      BY <2>1, <2>2, <3>2, <3>3, FencesSend
  <2> QED
    BY <2>3, <2>4
<1>11. CASE Client
  BY <1>11, FencesReadOther, FencesReadPong, FencesReadWelcome
<1>12. CASE UNCHANGED vars
  <2>1. UNCHANGED <<sent, conn, modelUpdates, tasks, toClient, session, pings, confirmed, captured>>
    BY <1>12, StutterDoes
  <2>2. Follows /\ PingTasks
    BY <2>1, RestsFollows, PingTasksKept DEF Rests
  <2> QED
    BY <2>1, <2>2, FencesSend
<1> QED
  BY <1>1, <1>2, <1>3, <1>4, <1>5, <1>6, <1>7, <1>8, <1>9, <1>10, <1>11, <1>12, NextIs

-----------------------------------------------------------------------------
(* The theorems. *)

LEMMA InitBase == Init => Base
<1> SUFFICES ASSUME Init PROVE Base
  OBVIOUS
<1>1. 1 \in Conns
  BY BoundsAssumption DEF Conns
<1>2. TaskTypes /\ Named /\ Chain
  BY <1>1 DEF Init, TaskTypes, Named, Chain
<1>3. DataTypes
  <2>1. /\ [c \in Conns |-> 0] \in [Conns -> Nat] /\ [c \in Conns |-> <<>>] \in [Conns -> Seq(Nat)]
        /\ <<>> \in Seq(FrameSet) /\ <<>> \in Seq(FenceSet) /\ <<>> \in Seq(Nat) /\ <<>> \in Seq(EntrySet)
        /\ <<>> \in Seq(ChoiceSet)
    OBVIOUS
  <2> QED
    BY <1>1, <2>1 DEF Init, DataTypes
<1> QED
  BY <1>2, <1>3 DEF Base

LEMMA BaseStep == Base /\ [Next]_vars => Base'
BY StructureStep, DataStep DEF Base

LEMMA InitOrder == Init => Order /\ Selected
<1> SUFFICES ASSUME Init PROVE Order /\ Selected
  OBVIOUS
<1>1. admitted = <<>> /\ confirmed = <<>> /\ tasks = {} /\ sent = 0 /\ \A c \in Conns : selection[c] = 0
  BY DEF Init
<1>2. Items(admitted) = {} /\ Items(confirmed) = {}
  BY <1>1 DEF Items
<1>3. PromptsInOrder /\ ModelsBefore
  BY <1>1 DEF PromptsInOrder, ModelsBefore
<1> QED
  BY <1>1, <1>2, <1>3 DEF Order, Selected

LEMMA InitInformed == Init => Informed
<1> SUFFICES ASSUME Init PROVE Informed
  OBVIOUS
<1>1. /\ toClient = <<>> /\ session = 1 /\ conn = 1 /\ shown = <<>> /\ nextStep = [c \in Conns |-> <<>>] /\ 1 \in Conns
  BY BoundsAssumption DEF Init, Conns
<1>2. Way(toClient, session, conn) /\ Shows(toClient, session, shown, conn, nextStep[conn])
  BY <1>1 DEF Way, Shows
<1> QED
  BY <1>2 DEF Informed

LEMMA InitFences == Init => Fences
<1> SUFFICES ASSUME Init PROVE Fences
  OBVIOUS
<1>1. toClient = <<>> /\ session = 1 /\ conn = 1 /\ pings = <<>> /\ tasks = {} /\ captured = {}
  BY DEF Init
<1>2. Items(toClient) = {} /\ Items(pings) = {}
  BY <1>1 DEF Items
<1>3. Welcomes(toClient, session, conn) /\ Answers(toClient, pings, Items(confirmed), session)
  BY <1>1 DEF Welcomes, Answers
<1>4. Fenced /\ Asked /\ Awaited /\ Passed
  BY <1>1, <1>2 DEF Fenced, Asked, Awaited, Passed
<1> QED
  BY <1>3, <1>4 DEF Fences

\* The invariant of the prompts and the models.
Prepared == Base /\ Order /\ Selected
LEMMA PreparedHolds == Spec => []Prepared
<1>1. Init => Prepared
  BY InitBase, InitOrder DEF Prepared
<1>2. Prepared /\ [Next]_vars => Prepared'
  BY BaseStep, OrderStep, SelectedStep DEF Prepared
<1> QED
  BY <1>1, <1>2, PTL DEF Spec

\* Text prompts, and prompts for the next step, reach their session in the order they were
\* sent, each under the models selected before it, and a text under none selected after
\* it: the chain of modelUpdates and the queue of pending-prompts.js keep the order
\* whatever the handlers await, which of them fail, and how often the connection changes.
THEOREM PromptsPreparedHolds == Spec => []PromptsPrepared
<1>1. Prepared => PromptsPrepared
  BY DEF Prepared, Order, Selected, PromptsPrepared
<1> QED
  BY <1>1, PreparedHolds, PTL

LEMMA InformedTells == Base /\ Informed => ClientInformed
<1> SUFFICES ASSUME Base, Informed PROVE ClientInformed
  OBVIOUS
<1>1. Way(toClient, session, conn) /\ QueueDue
  BY InformedIs
<1>2. NoLeak
  BY <1>1, WayLeaksNothing, ChannelIs DEF NoLeak
<1>3. QueueShown
  <2> SUFFICES ASSUME toClient = <<>>, ~Busy(conn) PROVE shown = nextStep[conn]
    BY DEF QueueShown
  <2> QED
    BY <1>1 DEF QueueDue, Shows
<1> QED
  BY <1>2, <1>3 DEF ClientInformed

\* Every frame the client reads after a welcome is of the session welcomed, and at rest
\* the client shows the queue of its session: isCurrent drops what a replaced connection
\* would have sent, and every change of the queue is followed by its frame.  An error of
\* /new or of an attach is sent whatever the connection is by then, and would be read
\* under the session that replaced it: the theorem is of hosts on which these succeed.
THEOREM ClientInformedHolds ==
  ASSUME "attach" \notin Failures, "new" \notin Failures
  PROVE  Spec => []ClientInformed
<1> DEFINE Inv == Base /\ Informed
<1>1. Init => Inv
  BY InitBase, InitInformed
<1>2. Inv /\ [Next]_vars => Inv'
  BY BaseStep, InformedStep
<1>3. Inv => ClientInformed
  BY InformedTells
<1> HIDE DEF Inv
<1> QED
  BY <1>1, <1>2, <1>3, PTL DEF Spec

LEMMA FencesTell == Fences => FenceExact
<1> SUFFICES ASSUME Fences, NEW f \in captured, ~f.failed
             PROVE  /\ f.model # -1 => f.model < f.id
                    /\ \A i \in DOMAIN confirmed :
                         confirmed[i].conn = f.session /\ confirmed[i].id < f.id => confirmed[i].id <= f.model
  BY DEF FenceExact
<1>1. Exact(f, Items(confirmed))
  BY DEF Fences, Passed
<1>2. \A i \in DOMAIN confirmed : confirmed[i] \in Items(confirmed)
  BY DEF Items
<1> QED
  BY <1>1, <1>2 DEF Exact

\* A fence whose updates did not fail is answered with a model selected before it, and
\* with the last of them: PromptStateTransport takes the model of the frame before the
\* pong for the oldest of its fences, and that is the fence the pong answers.  A fence
\* begun while a session change is under way is put to another connection than the one
\* the client has; the theorem is of clients that begin none then.
THEOREM FenceExactHolds ==
  ASSUME ~Across
  PROVE  Spec => []FenceExact
<1> DEFINE Inv == Prepared /\ Fences
<1>1. Init => Inv
  BY InitBase, InitOrder, InitFences DEF Prepared
<1>2. Inv /\ [Next]_vars => Inv'
  BY BaseStep, OrderStep, SelectedStep, FencesStep DEF Prepared
<1>3. Inv => FenceExact
  BY FencesTell
<1> HIDE DEF Inv
<1> QED
  BY <1>1, <1>2, <1>3, PTL DEF Spec
=============================================================================
