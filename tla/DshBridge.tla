----------------------------- MODULE DshBridge -----------------------------
(***************************************************************************)
(* One client of the DSH bridge: the dispatcher of its socket              *)
(* (bridge/src/dispatcher.js), the queue of prompts for the next step      *)
(* (pending-prompts.js), session creation (session.js), and the client's   *)
(* correlation of state fences (e-dsh/src/bridge/prompt_state.rs).         *)
(*                                                                         *)
(* The dispatcher is one JavaScript thread.  A handler runs up to an       *)
(* await; what awaited a promise that settled runs next, in the order it   *)
(* was registered, before another message or host answer is looked at.     *)
(* A task below is a handler that awaits something.                        *)
(*                                                                         *)
(* Messages are named by their place in the client's order.  A message is  *)
(* received as it is sent; frames back are delayed.  A connection is       *)
(* attached to a session of its own, and a model is named by the message   *)
(* that selected it.                                                       *)
(***************************************************************************)
EXTENDS Integers, Sequences, FiniteSets

CONSTANTS
  Kinds,        \* the messages the client sends
  Failures,     \* host operations that may fail
  Across,       \* whether a fence is sent while a session change is under way
  MaxMessages,  \* bound: messages sent
  MaxConns      \* bound: connections made

ASSUME BoundsAssumption == MaxMessages \in Nat /\ MaxConns \in Nat \ {0}
ASSUME KindsAssumption ==
  Kinds \subseteq {"text", "image", "steer", "steerImage", "clear", "set", "get", "ping", "command",
                   "attach", "new", "newInput"}

VARIABLES
  sent,         \* messages sent
  \* the dispatcher
  conn,         \* its connection, the one registered
  modelUpdates, \* the last model update, 0 when it settled
  tasks,        \* handlers that await
  \* the host
  selection,    \* per session, the model selected
  nextStep,     \* per session, prompts for the next step
  \* frames on their way, and the client
  toClient, session, pings, shown,
  \* history: prompts admitted and models confirmed, in order; fences answered
  admitted, confirmed, captured

host   == <<selection, nextStep>>
client == <<session, pings, shown>>
past   == <<admitted, confirmed, captured>>
vars   == <<sent, conn, modelUpdates, tasks, host, toClient, client, past>>

-----------------------------------------------------------------------------
Conns    == 1..MaxConns
Updates  == {"set", "get", "ping"}
Steered  == {"steer", "steerImage"}
Prompts  == Steered \cup {"clear"}
Changes  == {"attach", "new", "newInput"}

Task(id, kind, c, waits, step) == [id |-> id, kind |-> kind, conn |-> c, waits |-> waits, step |-> step]
Frame(kind, c, id, payload)    == [kind |-> kind, conn |-> c, id |-> id, payload |-> payload]
Model(c)      == Frame("model", c, 0, selection'[c])
ModelFailed(c) == Frame("failed", c, 0, 0)
Answer(t)     == Frame("answer", t.conn, t.id, 0)
\* The id of a pong is history: the client does not read it.
Pong(t)       == Frame("pong", t.conn, t.id, 0)
QueueBefore(c) == Frame("asap", c, 0, nextStep[c])
Queue(c) == Frame("asap", c, 0, nextStep'[c])
Send(frames)  == toClient' = toClient \o frames

Current(t)  == t.conn = conn
Unguarded(t, frames) == frames
Guarded(t, frames) == IF Current(t) THEN frames ELSE <<>>
Fails(what) == what \in Failures

\* What a task awaits: the update before it, and the prompts queued before it.
Settled(id) == \A t \in tasks : t.id # id
FirstAny(t) == TRUE
First(t) == t.kind \in Prompts =>
                 ~\E u \in tasks : u.kind \in Prompts /\ u.conn = t.conn /\ u.id < t.id
Ready(t)    == t.step = "wait" /\ Settled(t.waits) /\ First(t)
Drained     == ~\E t \in tasks : Ready(t)
Next1(t)    == t \in tasks /\ Ready(t) /\ \A u \in tasks : Ready(u) => t.id <= u.id

Step(t, step) == tasks' = (tasks \ {t}) \cup {[t EXCEPT !.step = step]} /\ UNCHANGED modelUpdates
ClearAlways(t) == 0
\* update.finally: only the last update clears the chain
ClearUpdate(t) == IF modelUpdates = t.id THEN 0 ELSE modelUpdates
Done(t) == tasks' = tasks \ {t} /\ modelUpdates' = ClearUpdate(t)

Admit(c, id, kind) ==
  admitted' = Append(admitted, [id |-> id, conn |-> c, kind |-> kind, model |-> selection[c]])

-----------------------------------------------------------------------------
(* Messages *)

\* The message is taken by a handler that awaits the pending model updates.
WaitUpdates(kind) == IF kind \in Updates THEN modelUpdates ELSE 0
WaitFor(kind) == IF kind \in {"attach", "new", "clear"} THEN 0 ELSE modelUpdates

Receive(kind) == sent < MaxMessages /\ kind \in Kinds /\ Drained /\ sent' = sent + 1

\* input of text with nothing to wait for
InputText ==
  /\ Receive("text") /\ WaitFor("text") = 0
  /\ Admit(conn, sent', "text")
  /\ UNCHANGED <<conn, modelUpdates, tasks, host, toClient, client, confirmed, captured>>

Changing == session # conn \/ \E t \in tasks : t.kind \in Changes

\* PromptStateTransport::send_ping, for a fence
PushFence(kind) ==
  pings' = IF kind = "ping"
             THEN Append(pings, [id |-> sent', session |-> session, model |-> -1, failed |-> FALSE])
             ELSE pings

\* Every other message: its handler awaits, and an update extends the chain.
Message(kind) ==
  /\ Receive(kind)
  /\ ~(kind = "text" /\ WaitFor(kind) = 0)
  /\ kind = "ping" => Across \/ ~Changing
  /\ kind \in Changes => conn < MaxConns
  /\ tasks' = tasks \cup {Task(sent', kind, conn, WaitFor(kind),
                               IF kind \in {"attach", "new"} THEN "host" ELSE "wait")}
  /\ modelUpdates' = IF kind \in Updates THEN sent' ELSE modelUpdates
  /\ PushFence(kind)
  /\ UNCHANGED <<conn, host, toClient, session, shown, past>>

-----------------------------------------------------------------------------
(* What awaited goes on *)

\* the connection was replaced while the handler awaited
Stale(t) == ~Current(t)

\* ... in vain, when the connection was replaced,
Abandon(t) ==
  /\ Stale(t)
  /\ Done(t)
  /\ UNCHANGED <<host, toClient, admitted>>

\* ... to admit a text prompt,
AdmitText(t) ==
  /\ ~Stale(t) /\ t.kind = "text"
  /\ Admit(t.conn, t.id, t.kind) /\ Done(t)
  /\ UNCHANGED <<host, toClient>>

\* ... to steer, or clear, and show the queue that results,
Steer(t) ==
  /\ ~Stale(t) /\ t.kind \in {"steer", "clear"}
  /\ nextStep' = [nextStep EXCEPT ![t.conn] = IF t.kind = "steer" THEN Append(@, t.id) ELSE <<>>]
  /\ IF t.kind = "steer" THEN Admit(t.conn, t.id, t.kind) ELSE UNCHANGED admitted
  /\ Done(t)
  /\ Send(Guarded(t, <<Queue(t.conn)>>))
  /\ UNCHANGED selection

\* ... or to ask the host.
AskHost(t) ==
  /\ ~Stale(t) /\ t.kind \notin {"text", "steer", "clear"}
  /\ Step(t, IF t.kind \in {"get", "ping"} THEN "catalog" ELSE "host")
  /\ UNCHANGED <<host, toClient, admitted>>

Resume ==
  \E t \in tasks :
    /\ Next1(t)
    /\ Abandon(t) \/ AdmitText(t) \/ Steer(t) \/ AskHost(t)
    /\ UNCHANGED <<sent, conn, client, confirmed, captured>>

-----------------------------------------------------------------------------
(* Answers of the host *)

HostAnswers(t, kinds, step) == Drained /\ t \in tasks /\ t.kind \in kinds /\ t.step = step

\* An image prompt is admitted by the host, or rejected.
ImageDone ==
  \E t \in tasks :
    /\ HostAnswers(t, {"image"}, "host")
    /\ Done(t)
    /\ \/ Admit(t.conn, t.id, t.kind) /\ UNCHANGED toClient
       \/ Fails("image") /\ Send(Guarded(t, <<Answer(t)>>)) /\ UNCHANGED admitted
    /\ UNCHANGED <<sent, conn, host, client, confirmed, captured>>

\* One to be steered is queued by the host; the queue is shown either way.
SteerImageDone ==
  \E t \in tasks :
    /\ HostAnswers(t, {"steerImage"}, "host")
    /\ Done(t)
    /\ \/ nextStep' = [nextStep EXCEPT ![t.conn] = Append(@, t.id)] /\ Admit(t.conn, t.id, t.kind)
       \/ Fails("image") /\ UNCHANGED <<nextStep, admitted>>
    /\ Send(Guarded(t, <<Queue(t.conn)>>))
    /\ UNCHANGED <<sent, conn, selection, client, confirmed, captured>>

\* setModel: the selection changes when the host has confirmed it.
SelectDone ==
  \E t \in tasks :
    /\ HostAnswers(t, {"set"}, "host")
    /\ \/ /\ ~Stale(t)
          /\ selection' = [selection EXCEPT ![t.conn] = t.id]
          /\ confirmed' = Append(confirmed, [id |-> t.id, conn |-> t.conn])
          /\ Step(t, "catalog")
          /\ UNCHANGED toClient
       \/ Stale(t) /\ Done(t) /\ UNCHANGED <<selection, confirmed, toClient>>
       \/ /\ Fails("select")
          /\ Done(t) /\ Send(Guarded(t, <<ModelFailed(t.conn)>>))
          /\ UNCHANGED <<selection, confirmed>>
    /\ UNCHANGED <<sent, conn, nextStep, client, admitted, captured>>

FencePongLost(t, failed) == IF t.kind = "ping" /\ ~failed THEN <<Pong(t)>> ELSE <<>>
\* A fence that failed is answered as well.
FencePong(t, failed) ==
  IF t.kind # "ping" THEN <<>>
  ELSE IF failed THEN <<ModelFailed(t.conn), Pong(t)>>
  ELSE <<Pong(t)>>

\* sendModel: the catalog with the current selection; a ping is answered after it.
CatalogDone ==
  \E t \in tasks :
    /\ HostAnswers(t, Updates \cup {"attached"}, "catalog")
    /\ Done(t)
    /\ UNCHANGED host
    /\ \/ Send(Guarded(t, <<Model(t.conn)>> \o FencePong(t, FALSE)))
       \/ Fails("catalog") /\ Send(Guarded(t, <<ModelFailed(t.conn)>> \o FencePong(t, TRUE)))
    /\ UNCHANGED <<sent, conn, client, past>>

\* A direct command, whose outcome is for the session that ran it.
CommandDone ==
  \E t \in tasks :
    /\ HostAnswers(t, {"command"}, "host")
    /\ Done(t)
    /\ Send(Guarded(t, <<Answer(t)>>))
    /\ UNCHANGED <<sent, conn, host, client, past>>

\* attachSession, createNewSession and newInput: the connection is replaced,
\* unless another one was first.
Replace(t) ==
  LET next == conn + 1 IN
    /\ Current(t)
    /\ conn' = next
    /\ tasks' = (tasks \ {t}) \cup {Task(-next, "attached", next, 0, "catalog")}
    /\ Send(<<Frame("welcome", next, 0, 0), Queue(next)>>)
    /\ IF t.kind = "newInput" THEN Admit(next, t.id, t.kind) ELSE UNCHANGED admitted
\* Errors of /new and attach are sent whatever the connection is by then.
Reported(t) == IF t.kind = "newInput" THEN Guarded(t, <<Answer(t)>>) ELSE <<Answer(t)>>
SessionDone ==
  \E t \in tasks :
    /\ HostAnswers(t, Changes, "host")
    /\ UNCHANGED <<modelUpdates, host>>
    /\ \/ Replace(t)
       \/ ~Current(t) /\ tasks' = tasks \ {t} /\ UNCHANGED <<conn, toClient, admitted>>
       \/ /\ Fails(t.kind)
          /\ tasks' = tasks \ {t} /\ Send(Reported(t))
          /\ UNCHANGED <<conn, admitted>>
    /\ UNCHANGED <<sent, client, confirmed, captured>>

\* The agent takes the prompts of its next step; the queue is shown unless an
\* admission is about to show it.
Busy(c) == \E t \in tasks : t.kind \in Prompts /\ t.conn = c
Claim ==
  /\ Drained
  /\ nextStep[conn] # <<>>
  /\ nextStep' = [nextStep EXCEPT ![conn] = <<>>]
  /\ IF Busy(conn) THEN UNCHANGED toClient ELSE Send(<<Queue(conn)>>)
  /\ UNCHANGED <<sent, conn, modelUpdates, tasks, selection, client, past>>

-----------------------------------------------------------------------------
(* The client: PromptStateTransport::normalize *)

Read(kind) == toClient # <<>> /\ Head(toClient).kind = kind /\ toClient' = Tail(toClient)
SetFront(fence) == IF pings = <<>> THEN pings ELSE [pings EXCEPT ![1] = fence]

ReadWelcome ==
  /\ Read("welcome")
  /\ session' = Head(toClient).conn
  /\ pings' = <<>> /\ shown' = <<>>
  /\ UNCHANGED <<sent, conn, modelUpdates, tasks, host, past>>

ReadModel ==
  /\ Read("model")
  /\ pings' = SetFront([Head(pings) EXCEPT !.model = Head(toClient).payload])
  /\ UNCHANGED <<sent, conn, modelUpdates, tasks, host, session, shown, past>>

ReadFailed ==
  /\ Read("failed")
  /\ pings' = SetFront([Head(pings) EXCEPT !.failed = TRUE])
  /\ UNCHANGED <<sent, conn, modelUpdates, tasks, host, session, shown, past>>

\* The oldest fence is answered with the model shown since it was the oldest.
ReadPong ==
  /\ Read("pong")
  /\ IF pings = <<>>
       THEN UNCHANGED <<pings, captured>>
       ELSE /\ pings' = Tail(pings)
            /\ captured' = captured \cup {Head(pings)}
  /\ UNCHANGED <<sent, conn, modelUpdates, tasks, host, session, shown, admitted, confirmed>>

ReadQueue ==
  /\ Read("asap")
  /\ shown' = IF Head(toClient).conn = session THEN Head(toClient).payload ELSE shown
  /\ UNCHANGED <<sent, conn, modelUpdates, tasks, host, session, pings, past>>

ReadAnswer ==
  /\ Read("answer")
  /\ UNCHANGED <<sent, conn, modelUpdates, tasks, host, client, past>>

-----------------------------------------------------------------------------
\* The client is attached to the session of its hello, and has its model.
Init ==
  /\ sent = 0 /\ conn = 1 /\ modelUpdates = 0
  /\ tasks = {}
  /\ selection = [c \in Conns |-> 0] /\ nextStep = [c \in Conns |-> <<>>]
  /\ toClient = <<>>
  /\ session = 1 /\ pings = <<>> /\ shown = <<>>
  /\ admitted = <<>> /\ confirmed = <<>> /\ captured = {}

Messages == InputText \/ \E kind \in Kinds : Message(kind)
Host     == ImageDone \/ SteerImageDone \/ SelectDone \/ CatalogDone \/ CommandDone \/ SessionDone
Client   == ReadWelcome \/ ReadModel \/ ReadFailed \/ ReadPong \/ ReadQueue \/ ReadAnswer

Next == Messages \/ Resume \/ Host \/ Claim \/ Client
Spec == Init /\ [][Next]_vars
FairSpec == Spec /\ WF_vars(Resume) /\ WF_vars(Host) /\ WF_vars(Client)

-----------------------------------------------------------------------------
(* Properties *)

\* Text prompts, and prompts for the next step, reach their session in the
\* order they were sent.
PromptsInOrder ==
  \A i, j \in DOMAIN admitted :
    /\ i < j /\ admitted[i].conn = admitted[j].conn
    /\ \E kinds \in {{"text"}, Steered} : {admitted[i].kind, admitted[j].kind} \subseteq kinds
    => admitted[i].id < admitted[j].id

\* A prompt is admitted after the models selected before it was sent; a text,
\* before those selected after it.
ModelsBefore ==
  \A e \in {admitted[i] : i \in DOMAIN admitted}, m \in {confirmed[i] : i \in DOMAIN confirmed} :
    m.conn = e.conn =>
      /\ m.id < e.id => m.id <= e.model
      /\ e.kind = "text" => e.model < e.id

\* Prompts meet the session in order, under the models selected before them.
PromptsPrepared == PromptsInOrder /\ ModelsBefore

\* A fence is answered with the model in force where it stands in the order of
\* the messages of its session.
FenceExact ==
  \A f \in captured :
    ~f.failed =>
      /\ f.model # -1 => f.model < f.id
      /\ \A i \in DOMAIN confirmed :
           confirmed[i].conn = f.session /\ confirmed[i].id < f.id => confirmed[i].id <= f.model

\* What the client reads after a welcome is about the session welcomed.
NoLeak ==
  \A i \in DOMAIN toClient :
    toClient[i].kind # "welcome" =>
      LET welcomes == {j \in 1..i : toClient[j].kind = "welcome"} IN
        toClient[i].conn = IF welcomes = {} THEN session
                           ELSE toClient[CHOOSE j \in welcomes : \A k \in welcomes : k <= j].conn

\* At rest the client shows the prompts the agent has queued.
QueueShown ==
  toClient = <<>> /\ ~Busy(conn) => shown = nextStep[conn]

\* What the client reads is about its session and, at rest, up to date.
ClientInformed == NoLeak /\ QueueShown

\* Every fence is answered, unless the session is replaced.
FenceAnswered ==
  \A id \in 1..MaxMessages :
    (\E i \in DOMAIN pings : pings[i].id = id) ~> ~(\E i \in DOMAIN pings : pings[i].id = id)
=============================================================================
