-------------------------- MODULE PiAdapterProofs --------------------------
(***************************************************************************)
(* Theorems about the request gate of PiAdapter and about what is reported *)
(* of each request, for any number of requests, routes and sessions and    *)
(* any capacities.                                                         *)
(***************************************************************************)
EXTENDS PiAdapter, SequenceTheorems, FiniteSetTheorems, TLAPS

-----------------------------------------------------------------------------
(* What the operators the actions are built from do to the typed state *)

LEMMA AskedType ==
  ASSUME NEW kind \in RequestKinds
  PROVE  Asked(kind) \in Seq(Outcomes)
<1>1. CASE kind \in {"command", "capture", "steer", "clear", "fork", "reload"}
  <2>1. kind \in Outcomes
    BY <1>1 DEF Outcomes
  <2> QED BY <1>1, <2>1 DEF Asked
<1>2. CASE kind \notin {"command", "capture", "steer", "clear", "fork", "reload"}
  BY <1>2 DEF Asked
<1> QED BY <1>1, <1>2

LEMMA OfferedType ==
  ASSUME NEW kinds, TypeOK, NEW r \in Offered(kinds), submitted < MaxRequests \/ r \in Range(deferred)
  PROVE  /\ r \in Request
         /\ r.kind \in kinds
<1>1. CASE r \in Range(deferred)
  BY <1>1, ElementOfSeq DEF TypeOK, Offered, Range
<1>2. CASE r \notin Range(deferred)
  <2>1. PICK k \in kinds \cap Kinds : r \in [n : {submitted + 1}, kind : {k}, to : Targets(k)]
    BY <1>2 DEF Offered
  <2>2. k \in RequestKinds
    BY ConstantsAssumption
  <2>3. submitted + 1 \in 0..MaxRequests
    BY <1>2, ConstantsAssumption DEF TypeOK
  <2> QED BY <2>1, <2>2, <2>3 DEF Request, Targets
<1> QED BY <1>1, <1>2

LEMMA TakenType ==
  ASSUME NEW kinds, TypeOK, NEW r \in Offered(kinds), Taken(r)
  PROVE  /\ r \in Request
         /\ r.kind \in kinds
         /\ deferred' \in Seq(Request)
         /\ submitted' \in 0..MaxRequests
         /\ told' \in [1..MaxRequests -> Seq(Outcomes)]
<1>1. CASE ~draining
  <2>1. submitted < MaxRequests /\ submitted' = submitted + 1 /\ deferred' = deferred
        /\ told' = [told EXCEPT ![r.n] = Asked(r.kind)]
    BY <1>1 DEF Taken
  <2>2. r \in Request /\ r.kind \in kinds
    BY <2>1, OfferedType
  <2>3. Asked(r.kind) \in Seq(Outcomes)
    BY <2>2, AskedType DEF Request
  <2>4. told' \in [1..MaxRequests -> Seq(Outcomes)]
    BY <2>1, <2>3 DEF TypeOK
  <2>5. submitted' \in 0..MaxRequests
    BY <2>1, ConstantsAssumption DEF TypeOK
  <2> QED BY <2>1, <2>2, <2>4, <2>5 DEF TypeOK
<1>2. CASE draining
  <2>1. PICK i \in Drainable : r = deferred[i] /\ deferred' = RemoveAt(deferred, i)
    BY <1>2 DEF Taken
  <2>2. i \in 1..Len(deferred)
    BY <2>1 DEF Drainable, ReadyControls, TypeOK
  <2>3. r \in Range(deferred)
    BY <2>1, <2>2 DEF Range, TypeOK
  <2>4. r \in Request /\ r.kind \in kinds
    BY <2>3, OfferedType
  <2>5. deferred' \in Seq(Request)
    BY <2>1, <2>2 DEF RemoveAt, TypeOK
  <2> QED BY <1>2, <2>4, <2>5 DEF TypeOK, Taken
<1> QED BY <1>1, <1>2 DEF TypeOK

LEMMA TellType ==
  ASSUME TypeOK, NEW n, NEW what \in Outcomes, Tell(n, what)
  PROVE  told' \in [1..MaxRequests -> Seq(Outcomes)]
<1>1. told \in [1..MaxRequests -> Seq(Outcomes)]
  BY DEF TypeOK
<1>2. CASE n \in 1..MaxRequests
  <2>1. told[n] \in Seq(Outcomes)
    BY <1>1, <1>2
  <2>2. Append(told[n], what) \in Seq(Outcomes)
    BY <2>1
  <2> QED BY <1>1, <2>2 DEF Tell
<1>3. CASE n \notin 1..MaxRequests
  BY <1>1, <1>3 DEF Tell
<1> QED BY <1>2, <1>3

LEMMA AnsweredType ==
  ASSUME NEW kinds, TypeOK, NEW r \in Offered(kinds), NEW what \in Outcomes, Answered(r, what)
  PROVE  /\ deferred' \in Seq(Request)
         /\ submitted' \in 0..MaxRequests
         /\ told' \in [1..MaxRequests -> Seq(Outcomes)]
<1>1. CASE ~draining
  <2>1. submitted < MaxRequests /\ submitted' = submitted + 1 /\ deferred' = deferred
        /\ told' = [told EXCEPT ![r.n] = Append(Asked(r.kind), what)]
    BY <1>1 DEF Answered
  <2>2. r \in Request
    BY <2>1, OfferedType
  <2>3. Asked(r.kind) \in Seq(Outcomes)
    BY <2>2, AskedType DEF Request
  <2>4. Append(Asked(r.kind), what) \in Seq(Outcomes)
    BY <2>3
  <2>5. submitted' \in 0..MaxRequests
    BY <2>1, ConstantsAssumption DEF TypeOK
  <2> QED BY <2>1, <2>4, <2>5 DEF TypeOK
<1>2. CASE draining
  <2>1. PICK i \in Drainable : r = deferred[i] /\ deferred' = RemoveAt(deferred, i)
    BY <1>2 DEF Answered
  <2>2. i \in 1..Len(deferred)
    BY <2>1 DEF Drainable, ReadyControls, TypeOK
  <2>3. deferred' \in Seq(Request)
    BY <2>1, <2>2 DEF RemoveAt, TypeOK
  <2>4. Tell(r.n, what) /\ submitted' = submitted
    BY <1>2 DEF Answered
  <2> QED BY <2>3, <2>4, TellType DEF TypeOK
<1> QED BY <1>1, <1>2 DEF TypeOK

LEMMA CommandTyped ==
  ASSUME TypeOK, NEW kind \in CommandKinds, NEW r \in Request, NEW to,
         to \in IF kind = "resume-switch" THEN Sessions ELSE Routes
  PROVE  Command(nextId, kind, r, to) \in CommandType
<1>1. nextId \in Nat \ {0} /\ to \in Routes \cup Sessions
  BY DEF TypeOK
<1> QED BY <1>1 DEF Command, CommandType

LEMMA SendType ==
  ASSUME TypeOK, NEW kind \in CommandKinds, NEW r \in Request, NEW to, Send(kind, r, to),
         to \in IF kind = "resume-switch" THEN Sessions ELSE Routes
  PROVE  inflight' \subseteq CommandType /\ nextId' \in Nat \ {0}
BY CommandTyped DEF TypeOK, Send

LEMMA ConsumeType ==
  ASSUME TypeOK, NEW c \in inflight, Consume(c)
  PROVE  inflight' \subseteq CommandType /\ nextId' \in Nat \ {0}
BY DEF TypeOK, Consume

LEMMA FollowType ==
  ASSUME TypeOK, NEW c \in inflight, NEW kind \in CommandKinds, NEW to, Follow(c, kind, to),
         to \in IF kind = "resume-switch" THEN Sessions ELSE Routes
  PROVE  inflight' \subseteq CommandType /\ nextId' \in Nat \ {0}
<1>1. c.req \in Request
  BY DEF TypeOK, CommandType
<1>2. Command(nextId, kind, c.req, to) \in CommandType
  BY <1>1, CommandTyped
<1> QED BY <1>2 DEF TypeOK, Follow

LEMMA DrainType ==
  ASSUME TypeOK, StartDrain \/ Routed \/ UNCHANGED draining
  PROVE  draining' \in BOOLEAN
BY DEF TypeOK, StartDrain, Routed

LEMMA TellAllType ==
  ASSUME TypeOK, NEW outcomes, \A o \in outcomes : o.what \in Outcomes, TellAll(outcomes)
  PROVE  told' \in [1..MaxRequests -> Seq(Outcomes)]
<1> DEFINE After(n) == IF \E o \in outcomes : o.n = n
                         THEN Append(told[n], (CHOOSE o \in outcomes : o.n = n).what)
                         ELSE told[n]
<1>1. ASSUME NEW n \in 1..MaxRequests
      PROVE  After(n) \in Seq(Outcomes)
  <2>1. told[n] \in Seq(Outcomes)
    BY DEF TypeOK
  <2>2. CASE \E o \in outcomes : o.n = n
    <3>1. (CHOOSE o \in outcomes : o.n = n) \in outcomes
      BY <2>2
    <3>2. (CHOOSE o \in outcomes : o.n = n).what \in Outcomes
      BY <3>1
    <3> QED BY <2>1, <2>2, <3>2
  <2> QED BY <2>1, <2>2
<1>2. told' = [n \in 1..MaxRequests |-> After(n)]
  BY DEF TypeOK, TellAll
<1> HIDE DEF After
<1> QED BY <1>1, <1>2

LEMMA SettlementType ==
  ASSUME NEW e \in StateType, NEW confirmed \in BOOLEAN
  PROVE  Settlement(e, confirmed).what \in Outcomes
<1>1. e.counted \in BOOLEAN
  BY DEF StateType
<1> QED BY <1>1 DEF Settlement, Outcomes

LEMMA SettleStatesType ==
  ASSUME TypeOK, NEW c, SettleStates(c)
  PROVE  /\ commandStates' \subseteq StateType
         /\ told' \in [1..MaxRequests -> Seq(Outcomes)]
<1>1. commandStates' \subseteq StateType
  BY DEF TypeOK, SettleStates
<1>2. \A o \in {Settlement(e, TRUE) : e \in Confirmed(c)} : o.what \in Outcomes
  BY SettlementType DEF TypeOK, Confirmed, Own
<1> QED BY <1>1, <1>2, TellAllType DEF SettleStates

LEMMA TakeStateType ==
  ASSUME TypeOK, TakeState
  PROVE  session' \in SessionIds /\ attached' \in SessionIds /\ model' \in Routes
BY DEF TypeOK, TakeState

LEMMA TakeTablesType ==
  ASSUME TypeOK, TakeTables
  PROVE  /\ queueOp' \in [id : Nat, n : 0..MaxRequests, session : SessionIds]
         /\ skillPrompt' \in Nat
         /\ commandPrompt' \in Nat
         /\ admissions' \subseteq AdmissionType
BY ConstantsAssumption DEF TypeOK, TakeTables, NoQueueOp, SessionIds

LEMMA ContinueType ==
  ASSUME TypeOK, NEW c \in inflight, NEW p \in CompactionType,
         p.stage \in {"snapshot", "select", "compact", "restore-model", "restore-effort", "verify"},
         Continue(c, p)
  PROVE  /\ compaction' \in CompactionType
         /\ inflight' \subseteq CommandType /\ nextId' \in Nat \ {0}
<1>1. compaction' \in CompactionType
  BY DEF TypeOK, Continue, CompactionType
<1> DEFINE to == CASE p.stage = "select" -> p.target
                   [] p.stage = "restore-model" -> p.route
                   [] OTHER -> None
<1>2. to \in Routes /\ p.stage # "resume-switch"
  BY DEF CompactionType, Routes
<1>3. p.stage \in CommandKinds
  BY DEF CommandKinds, Reads, StateReads
<1>4. Follow(c, p.stage, to)
  BY DEF Continue
<1> QED BY <1>1, <1>2, <1>3, <1>4, FollowType

LEMMA RestoreOrWaitType ==
  ASSUME TypeOK, NEW c \in inflight, NEW p \in CompactionType, RestoreOrWait(c, p)
  PROVE  /\ compaction' \in CompactionType
         /\ inflight' \subseteq CommandType /\ nextId' \in Nat \ {0}
<1>1. CASE p.session # session
  <2>1. [p EXCEPT !.stage = "failed", !.open = FALSE] \in CompactionType
    BY DEF CompactionType, Stages
  <2> QED BY <1>1, <2>1, ConsumeType DEF RestoreOrWait
<1>2. CASE p.session = session /\ p.selection.id # 0
  <2>1. [p EXCEPT !.open = FALSE] \in CompactionType
    BY DEF CompactionType
  <2> QED BY <1>2, <2>1, ConsumeType DEF RestoreOrWait
<1>3. CASE p.session = session /\ p.selection.id = 0
  <2> DEFINE q == [p EXCEPT !.stage = "restore-model", !.open = FALSE]
  <2>1. q \in CompactionType /\ q.stage = "restore-model"
    BY DEF CompactionType, Stages
  <2>2. Continue(c, q)
    BY <1>3 DEF RestoreOrWait
  <2> QED BY <2>1, <2>2, ContinueType
<1> QED BY <1>1, <1>2, <1>3

LEMMA EndSelectionType ==
  ASSUME TypeOK, NEW c \in inflight, NEW route \in Routes, EndSelection(c, route)
  PROVE  /\ compaction' \in CompactionType
         /\ inflight' \subseteq CommandType /\ nextId' \in Nat \ {0}
<1> DEFINE p == [compaction EXCEPT !.selection = NoSelection, !.route = route]
<1>1. p \in CompactionType
  BY DEF TypeOK, CompactionType, NoSelection, Routes
<1> QED BY <1>1, RestoreOrWaitType, ConsumeType DEF EndSelection

-----------------------------------------------------------------------------
(* TypeOK is inductive *)

LEMMA NoCompactionType == NoCompaction \in CompactionType
BY DEF NoCompaction, NoSelection, CompactionType, Stages, Routes, SessionIds

LEMMA NoBranchType == NoBranch \in BranchType
BY ConstantsAssumption DEF NoBranch, BranchType, BranchStages, SessionIds

LEMMA TypeInit == Init => TypeOK
<1> SUFFICES ASSUME Init PROVE TypeOK
  OBVIOUS
<1>1. StartupRequest \in Request
  BY ConstantsAssumption DEF StartupRequest, Request, RequestKinds, Gated, Targets, ModelControls
<1>2. Command(1, "state", StartupRequest, None) \in CommandType
  BY <1>1 DEF Command, CommandType, CommandKinds, Reads, StateReads, Routes
<1>3. NoCompaction \in CompactionType
  BY NoCompactionType
<1>4. NoInterrupt \in [id : Nat, session : SessionIds, generation : Nat]
  BY DEF NoInterrupt, SessionIds
<1>5. /\ NoQueueOp \in [id : Nat, n : 0..MaxRequests, session : SessionIds]
      /\ NoPromptState \in [id : Nat, n : 0..MaxRequests, session : SessionIds]
  BY ConstantsAssumption DEF NoQueueOp, NoPromptState, SessionIds
<1>6. told \in [1..MaxRequests -> Seq(Outcomes)]
  BY DEF Init
<1>7. inflight \subseteq CommandType
  BY <1>2 DEF Init
<1>8. deferred \in Seq(Request)
  BY DEF Init
<1>9. /\ session \in SessionIds /\ attached \in SessionIds /\ model \in Routes
      /\ piSession \in SessionIds /\ piModel \in Routes
  BY DEF Init, SessionIds, Routes
<1>10. /\ generation \in Nat /\ nextId \in Nat \ {0} /\ draining \in BOOLEAN
       /\ submitted \in 0..MaxRequests
       /\ configuration \in Nat /\ resume \in Nat /\ skillPrompt \in Nat /\ commandPrompt \in Nat
       /\ admissions \subseteq AdmissionType /\ commandStates \subseteq StateType
  <2>1. admissions \subseteq AdmissionType /\ commandStates \subseteq StateType
    BY DEF Init
  <2>2. draining \in BOOLEAN
    BY DEF Init
  <2>3. submitted \in 0..MaxRequests
    BY ConstantsAssumption DEF Init
  <2> QED BY <2>1, <2>2, <2>3 DEF Init
<1>11. /\ interrupt \in [id : Nat, session : SessionIds, generation : Nat]
       /\ queueOp \in [id : Nat, n : 0..MaxRequests, session : SessionIds]
       /\ promptState \in [id : Nat, n : 0..MaxRequests, session : SessionIds]
       /\ compaction \in CompactionType
       /\ branch \in BranchType /\ reload \in Nat
  BY <1>3, <1>4, <1>5, NoBranchType DEF Init
<1> QED
  BY <1>6, <1>7, <1>8, <1>9, <1>10, <1>11 DEF TypeOK

LEMMA KindFacts == CommandKinds =
  {"state", "configuration-state", "new-state", "command-state",
   "handled-state", "resume-state", "interrupt-state", "prompt-state", "snapshot", "verify",
   "new", "new-model", "new-thinking", "model", "thinking", "resume-switch", "resume-history",
   "prompt", "command", "asap", "abort", "interrupt-abort", "select", "compact", "restore-model",
   "restore-effort", "plain-compact",
   "branch-messages", "branch-replace", "branch-state", "branch-history", "branch-models",
   "branch-commands", "branch-prompt", "branch-abort",
   "reload", "reload-state", "reload-models", "reload-commands"}
BY DEF CommandKinds, StateReads, Reads, Chain, Bodies, ReloadKinds, BranchKinds

\* What is left to show of an action once its requests and commands are typed.
LEMMA RouteTyped ==
  ASSUME TypeOK, Route
  PROVE  TypeOK'
<1> USE ConstantsAssumption, KindFacts
<1>1. CASE RouteInput
  <2>1. PICK r \in Offered({"input"}) : RouteInput!(r)
    BY <1>1 DEF RouteInput
  <2>2. /\ r \in Request /\ deferred' \in Seq(Request) /\ submitted' \in 0..MaxRequests
        /\ told' \in [1..MaxRequests -> Seq(Outcomes)]
    BY <2>1, TakenType
  <2>3. Admission(nextId, r, FALSE) \in AdmissionType
    BY <2>2 DEF TypeOK, Admission, AdmissionType, Request
  <2>4. /\ inflight' \subseteq CommandType /\ nextId' \in Nat \ {0}
        /\ admissions' \subseteq AdmissionType
    <3>1. CASE AdmissionsFull
      BY <2>1, <3>1 DEF TypeOK
    <3>2. CASE ~AdmissionsFull
      BY <2>1, <2>2, <2>3, <3>2, SendType DEF TypeOK, Routes
    <3> QED BY <3>1, <3>2
  <2>5. draining' \in BOOLEAN
    BY <2>1, DrainType
  <2> QED BY <2>1, <2>2, <2>4, <2>5 DEF TypeOK, tables, mirror, pi
<1>2. CASE RouteCommand
  <2>1. PICK r \in Offered({"command", "skill"}) : RouteCommand!(r)
    BY <1>2 DEF RouteCommand
  <2>2. /\ r \in Request /\ deferred' \in Seq(Request) /\ submitted' \in 0..MaxRequests
        /\ told' \in [1..MaxRequests -> Seq(Outcomes)]
    BY <2>1, TakenType
  <2>3. Admission(nextId, r, r.kind = "command") \in AdmissionType
    BY <2>2 DEF TypeOK, Admission, AdmissionType, Request
  <2>4. /\ inflight' \subseteq CommandType /\ nextId' \in Nat \ {0}
        /\ admissions' \subseteq AdmissionType /\ commandPrompt' \in Nat /\ skillPrompt' \in Nat
    <3>1. CASE AdmissionsFull
      BY <2>1, <3>1 DEF TypeOK
    <3>2. CASE ~AdmissionsFull
      <4>1. inflight' \subseteq CommandType /\ nextId' \in Nat \ {0}
        BY <2>1, <2>2, <3>2, SendType DEF Routes
      <4> QED BY <2>1, <2>3, <3>2, <4>1 DEF TypeOK
    <3> QED BY <3>1, <3>2
  <2>5. draining' \in BOOLEAN
    BY <2>1, DrainType
  <2> QED BY <2>1, <2>2, <2>4, <2>5 DEF TypeOK, tables, mirror, pi
<1>3. CASE RouteQueueOp
  <2>1. PICK r \in Offered({"steer", "clear"}) : RouteQueueOp!(r)
    BY <1>3 DEF RouteQueueOp
  <2>2. /\ r \in Request /\ deferred' \in Seq(Request) /\ submitted' \in 0..MaxRequests
        /\ told' \in [1..MaxRequests -> Seq(Outcomes)]
    BY <2>1, TakenType
  <2>3. inflight' \subseteq CommandType /\ nextId' \in Nat \ {0}
    BY <2>1, <2>2, SendType DEF Routes
  <2>4. queueOp' \in [id : Nat, n : 0..MaxRequests, session : SessionIds]
    BY <2>1, <2>2 DEF TypeOK, SessionKey, Request
  <2>5. draining' \in BOOLEAN
    BY <2>1, DrainType
  <2> QED BY <2>1, <2>2, <2>3, <2>4, <2>5 DEF TypeOK, tables, mirror, pi
<1>4. CASE RouteNew
  <2>1. PICK r \in Offered({"new"}) : RouteNew!(r)
    BY <1>4 DEF RouteNew
  <2>2. /\ r \in Request /\ deferred' \in Seq(Request) /\ submitted' \in 0..MaxRequests
        /\ told' \in [1..MaxRequests -> Seq(Outcomes)]
    BY <2>1, TakenType
  <2>3. inflight' \subseteq CommandType /\ nextId' \in Nat \ {0}
    BY <2>1, <2>2, SendType DEF TypeOK
  <2>4. draining' \in BOOLEAN /\ configuration' \in Nat
    BY <2>1, DrainType DEF TypeOK
  <2> QED BY <2>1, <2>2, <2>3, <2>4 DEF TypeOK, tables, mirror, pi
<1>5. CASE RouteAttach
  <2>1. PICK r \in Offered({"attach"}) : RouteAttach!(r)
    BY <1>5 DEF RouteAttach
  <2>2. /\ r \in Request /\ r.kind = "attach"
        /\ deferred' \in Seq(Request) /\ submitted' \in 0..MaxRequests
        /\ told' \in [1..MaxRequests -> Seq(Outcomes)]
    BY <2>1, TakenType
  <2>3. r.to \in Sessions
    BY <2>2 DEF Request, Targets
  <2>4. inflight' \subseteq CommandType /\ nextId' \in Nat \ {0}
    BY <2>1, <2>2, <2>3, SendType
  <2>5. draining' \in BOOLEAN /\ resume' \in Nat /\ attached' \in SessionIds
    BY <2>1, DrainType DEF TypeOK, SessionIds
  <2> QED BY <2>1, <2>2, <2>4, <2>5 DEF TypeOK, tables, pi
<1>6. CASE RouteModel
  <2>1. PICK r \in Offered({"model", "modelEffort"}) : RouteModel!(r)
    BY <1>6 DEF RouteModel
  <2>2. /\ r \in Request /\ r.kind \in {"model", "modelEffort"}
        /\ deferred' \in Seq(Request) /\ submitted' \in 0..MaxRequests
        /\ told' \in [1..MaxRequests -> Seq(Outcomes)]
    BY <2>1, TakenType
  <2>3. r.to \in Routes
    BY <2>2 DEF Request, Targets, Routes
  <2>4. inflight' \subseteq CommandType /\ nextId' \in Nat \ {0}
    BY <2>1, <2>2, <2>3, SendType
  <2>5. compaction' \in CompactionType
    BY <2>1, <2>3 DEF TypeOK, CompactionType
  <2>6. draining' \in BOOLEAN /\ configuration' \in Nat
    BY <2>1, DrainType DEF TypeOK
  <2> QED BY <2>1, <2>2, <2>4, <2>5, <2>6 DEF TypeOK, tables, mirror, pi
<1>7. CASE RouteRead
  <2>1. PICK r \in Offered({"modelGet", "ping"}) : RouteRead!(r)
    BY <1>7 DEF RouteRead
  <2>2. /\ r \in Request /\ deferred' \in Seq(Request) /\ submitted' \in 0..MaxRequests
        /\ told' \in [1..MaxRequests -> Seq(Outcomes)]
    BY <2>1, TakenType
  <2>3. inflight' \subseteq CommandType /\ nextId' \in Nat \ {0}
    <3>1. CASE r.kind = "modelGet" /\ ControlsOpen
      BY <2>1, <3>1 DEF TypeOK
    <3>2. CASE ~(r.kind = "modelGet" /\ ControlsOpen)
      BY <2>1, <2>2, <3>2, SendType DEF Routes
    <3> QED BY <3>1, <3>2
  <2>4. draining' \in BOOLEAN
    BY <2>1, DrainType
  <2> QED BY <2>1, <2>2, <2>3, <2>4 DEF TypeOK, tables, mirror, pi
<1>8. CASE RouteCapture
  <2>1. PICK r \in Offered({"capture"}) : RouteCapture!(r)
    BY <1>8 DEF RouteCapture
  <2>2. /\ r \in Request /\ deferred' \in Seq(Request) /\ submitted' \in 0..MaxRequests
        /\ told' \in [1..MaxRequests -> Seq(Outcomes)]
    BY <2>1, TakenType
  <2>3. inflight' \subseteq CommandType /\ nextId' \in Nat \ {0}
    BY <2>1, <2>2, SendType DEF Routes
  <2>4. promptState' \in [id : Nat, n : 0..MaxRequests, session : SessionIds]
    BY <2>1, <2>2 DEF TypeOK, Request, CaptureFence
  <2>5. draining' \in BOOLEAN /\ configuration' \in Nat
    BY <2>1, DrainType DEF TypeOK
  <2> QED BY <2>1, <2>2, <2>3, <2>4, <2>5 DEF TypeOK, tables, mirror, pi
<1>9. CASE RouteCompact
  <2>1. PICK r \in Offered({"compact"}), target \in Models \cup {None} : RouteCompact!(r)!(target)
    BY <1>9 DEF RouteCompact
  <2>2. /\ r \in Request /\ deferred' \in Seq(Request) /\ submitted' \in 0..MaxRequests
        /\ told' \in [1..MaxRequests -> Seq(Outcomes)]
    BY <2>1, TakenType
  <2>3. /\ inflight' \subseteq CommandType /\ nextId' \in Nat \ {0}
        /\ compaction' \in CompactionType
    <3>1. CASE target = None
      BY <2>1, <2>2, <3>1, SendType DEF TypeOK, Routes
    <3>2. CASE target # None
      <4>1. inflight' \subseteq CommandType /\ nextId' \in Nat \ {0}
        BY <2>1, <2>2, <3>2, SendType DEF Routes
      <4>2. compaction' \in CompactionType
        <5>1. NoCompaction \in CompactionType /\ nextId \in Nat /\ session \in SessionIds
          BY NoCompactionType DEF TypeOK
        <5>2. compaction' = [NoCompaction EXCEPT !.stage = "abort", !.id = nextId,
                                     !.target = target, !.session = session]
          BY <2>1, <3>2
        <5>3. target \in Routes /\ "abort" \in Stages
          BY DEF Routes, Stages
        <5> QED BY <5>1, <5>2, <5>3 DEF CompactionType
      <4> QED BY <4>1, <4>2
    <3> QED BY <3>1, <3>2
  <2>4. draining' \in BOOLEAN
    BY <2>1, DrainType
  <2> QED BY <2>1, <2>2, <2>3, <2>4 DEF TypeOK, tables, mirror, pi
<1>10. CASE RouteBusy
  <2>1. PICK r \in Offered({"fork", "reload"}) : Answered(r, "error")
    BY <1>10 DEF RouteBusy
  <2>2. /\ deferred' \in Seq(Request) /\ submitted' \in 0..MaxRequests
        /\ told' \in [1..MaxRequests -> Seq(Outcomes)]
    BY <2>1, AnsweredType DEF Outcomes
  <2>3. draining' \in BOOLEAN
    BY <2>1, DrainType DEF Answered
  <2> QED BY <2>1, <2>2, <2>3 DEF TypeOK, Answered, tables, mirror, pi
<1>11. CASE RouteFork
  <2>1. PICK r \in Offered({"fork"}), stage \in {"messages", "replace"}, message \in BOOLEAN :
          RouteFork!(r)!(stage, message)
    BY <1>11 DEF RouteFork
  <2>2. /\ r \in Request /\ deferred' \in Seq(Request) /\ submitted' \in 0..MaxRequests
        /\ told' \in [1..MaxRequests -> Seq(Outcomes)]
    BY <2>1, TakenType
  <2>3. inflight' \subseteq CommandType /\ nextId' \in Nat \ {0}
    BY <2>1, <2>2, SendType DEF Routes
  <2>4. branch' \in BranchType
    BY <2>1, <2>2 DEF TypeOK, NoBranch, BranchType, BranchStages, SessionIds, Request
  <2>5. draining' \in BOOLEAN
    BY <2>1, DrainType
  <2> QED BY <2>1, <2>2, <2>3, <2>4, <2>5 DEF TypeOK, tables, mirror, pi
<1>12. CASE RouteReload
  <2>1. PICK r \in Offered({"reload"}) : RouteReload!(r)
    BY <1>12 DEF RouteReload
  <2>2. /\ r \in Request /\ deferred' \in Seq(Request) /\ submitted' \in 0..MaxRequests
        /\ told' \in [1..MaxRequests -> Seq(Outcomes)]
    BY <2>1, TakenType
  <2>3. inflight' \subseteq CommandType /\ nextId' \in Nat \ {0}
    BY <2>1, <2>2, SendType DEF Routes
  <2>4. draining' \in BOOLEAN /\ configuration' \in Nat /\ reload' \in Nat
    BY <2>1, DrainType DEF TypeOK
  <2> QED BY <2>1, <2>2, <2>3, <2>4 DEF TypeOK, tables, mirror, pi
<1> QED
  BY <1>1, <1>2, <1>3, <1>4, <1>5, <1>6, <1>7, <1>8, <1>9, <1>10, <1>11, <1>12 DEF Route

LEMMA InterruptTyped ==
  ASSUME TypeOK, InterruptAborted \/ InterruptReleased \/ InterruptReplaced \/ PromptReplyStale
                   \/ StateReplyStale \/ PlainCompacted
  PROVE  TypeOK'
<1> USE ConstantsAssumption, KindFacts
<1>1. CASE InterruptAborted
  <2>1. PICK c \in inflight : InterruptAborted!(c)
    BY <1>1 DEF InterruptAborted
  <2>2. inflight' \subseteq CommandType /\ nextId' \in Nat \ {0}
    BY <2>1, FollowType DEF Routes
  <2>3. interrupt' \in [id : Nat, session : SessionIds, generation : Nat]
    BY <2>1 DEF TypeOK
  <2> QED BY <2>1, <2>2, <2>3 DEF TypeOK, tables, mirror, pi
<1>2. CASE InterruptReleased
  <2>1. PICK c \in inflight : InterruptReleased!(c)
    BY <1>2 DEF InterruptReleased
  <2>2. inflight' \subseteq CommandType /\ nextId' \in Nat \ {0} /\ draining' \in BOOLEAN
    BY <2>1, ConsumeType, DrainType
  <2>3. interrupt' \in [id : Nat, session : SessionIds, generation : Nat]
    BY <2>1 DEF NoInterrupt, SessionIds
  <2> QED BY <2>1, <2>2, <2>3 DEF TypeOK, tables, mirror, pi
<1>3. CASE InterruptReplaced
  <2>1. PICK c \in inflight : InterruptReplaced!(c)
    BY <1>3 DEF InterruptReplaced
  <2>2. inflight' \subseteq CommandType /\ nextId' \in Nat \ {0}
    BY <2>1, ConsumeType
  <2> QED BY <2>1, <2>2 DEF TypeOK, tables, mirror, pi
<1>4. CASE PromptReplyStale
  <2>1. PICK c \in inflight : PromptReplyStale!(c)
    BY <1>4 DEF PromptReplyStale
  <2>2. inflight' \subseteq CommandType /\ nextId' \in Nat \ {0}
    BY <2>1, ConsumeType
  <2> QED BY <2>1, <2>2 DEF TypeOK, tables, mirror, pi
<1>5. CASE StateReplyStale
  <2>1. PICK c \in inflight : StateReplyStale!(c)
    BY <1>5 DEF StateReplyStale
  <2>2. inflight' \subseteq CommandType /\ nextId' \in Nat \ {0}
    BY <2>1, ConsumeType
  <2> QED BY <2>1, <2>2 DEF TypeOK, tables, mirror, pi
<1>6. CASE PlainCompacted
  <2>1. PICK c \in inflight : PlainCompacted!(c)
    BY <1>6 DEF PlainCompacted
  <2>2. inflight' \subseteq CommandType /\ nextId' \in Nat \ {0} /\ draining' \in BOOLEAN
    BY <2>1, ConsumeType, DrainType
  <2> QED BY <2>1, <2>2 DEF TypeOK, tables, mirror, pi
<1> QED BY <1>1, <1>2, <1>3, <1>4, <1>5, <1>6

LEMMA PromptTyped ==
  ASSUME TypeOK, PromptStateReply \/ QueueReply \/ PromptAdmitted \/ PromptRefused
  PROVE  TypeOK'
<1> USE ConstantsAssumption, KindFacts
<1>1. CASE PromptStateReply
  <2>1. PICK c \in inflight : PromptStateReply!(c)
    BY <1>1 DEF PromptStateReply
  <2>2. inflight' \subseteq CommandType /\ nextId' \in Nat \ {0} /\ draining' \in BOOLEAN
    BY <2>1, ConsumeType, DrainType
  <2>3. CASE promptState.id # c.id
    BY <2>1, <2>2, <2>3 DEF TypeOK, tables, mirror, pi
  <2>4. CASE promptState.id = c.id
    <3>1. /\ promptState' \in [id : Nat, n : 0..MaxRequests, session : SessionIds]
          /\ configuration' \in Nat
      BY <2>1, <2>4 DEF TypeOK, NoPromptState, SessionIds, Cleared
    <3>2. CASE promptState' = NoPromptState /\ Tell(promptState.n, "captured") /\ TakeState /\ TakeTables
                 /\ commandStates' = IF Switched THEN {} ELSE commandStates
      <4>1. told' \in [1..MaxRequests -> Seq(Outcomes)]
        BY <3>2, TellType DEF Outcomes
      <4>2. commandStates' \subseteq StateType
        BY <3>2 DEF TypeOK
      <4> QED BY <2>1, <2>2, <3>1, <3>2, <4>1, <4>2, TakeStateType, TakeTablesType
              DEF TypeOK, pi
    <3>3. CASE Tell(promptState.n, "capture-failed") /\ UNCHANGED <<mirror, tables, queueOp, skillPrompt>>
      <4>1. told' \in [1..MaxRequests -> Seq(Outcomes)]
        BY <3>3, TellType DEF Outcomes
      <4> QED BY <2>1, <2>2, <3>1, <3>3, <4>1 DEF TypeOK, tables, mirror, pi
    <3> QED BY <2>1, <2>4, <3>2, <3>3
  <2> QED BY <2>3, <2>4
<1>2. CASE QueueReply
  <2>1. PICK c \in inflight, what \in {"queue-ok", "queue-failed"} : QueueReply!(c)!(what)
    BY <1>2 DEF QueueReply
  <2>2. inflight' \subseteq CommandType /\ nextId' \in Nat \ {0} /\ draining' \in BOOLEAN
    BY <2>1, ConsumeType, DrainType
  <2>3. queueOp' \in [id : Nat, n : 0..MaxRequests, session : SessionIds]
    BY <2>1 DEF TypeOK, NoQueueOp, SessionIds
  <2>4. told' \in [1..MaxRequests -> Seq(Outcomes)]
    BY <2>1, TellType DEF TypeOK, Outcomes
  <2> QED BY <2>1, <2>2, <2>3, <2>4 DEF TypeOK, tables, mirror, pi
<1>3. CASE PromptAdmitted
  <2>1. PICK c \in inflight, a \in admissions, d \in Dispositions : PromptAdmitted!(c)!(a)!(d)
    BY <1>3 DEF PromptAdmitted
  <2>2. /\ admissions' \subseteq AdmissionType /\ commandPrompt' \in Nat /\ skillPrompt' \in Nat
        /\ draining' \in BOOLEAN
    BY <2>1, DrainType DEF TypeOK, SkillCleared
  <2>3. /\ inflight' \subseteq CommandType /\ nextId' \in Nat \ {0}
        /\ commandStates' \subseteq StateType /\ configuration' \in Nat
    <3>1. CASE c.kind = "command" \/ d = "handled"
      <4> DEFINE required == a.counted \/ d = "handled"
                 e == [id |-> nextId, n |-> a.n, session |-> session, counted |-> a.counted,
                       required |-> required, failed |-> FALSE]
                 kind == IF commandPrompt = c.id THEN "command-state" ELSE "handled-state"
      <4>1. /\ commandStates' = commandStates \cup {e}
            /\ configuration' = IF required THEN nextId ELSE configuration
            /\ Follow(c, kind, None)
        BY <2>1, <3>1
      <4>2. a \in AdmissionType /\ required \in BOOLEAN
        BY DEF TypeOK, AdmissionType
      <4>3. e \in StateType
        BY <4>2 DEF TypeOK, StateType, AdmissionType
      <4>4. kind \in CommandKinds /\ kind # "resume-switch" /\ None \in Routes
        BY DEF Routes
      <4>5. inflight' \subseteq CommandType /\ nextId' \in Nat \ {0}
        BY <4>1, <4>4, FollowType
      <4> QED BY <4>1, <4>3, <4>5 DEF TypeOK
    <3>2. CASE ~(c.kind = "command" \/ d = "handled")
      BY <2>1, <3>2, ConsumeType DEF TypeOK
    <3> QED BY <3>1, <3>2
  <2> QED BY <2>1, <2>2, <2>3 DEF TypeOK, mirror, pi
<1>4. CASE PromptRefused
  <2>1. PICK c \in inflight, a \in admissions : PromptRefused!(c)!(a)
    BY <1>4 DEF PromptRefused
  <2>2. inflight' \subseteq CommandType /\ nextId' \in Nat \ {0} /\ draining' \in BOOLEAN
    BY <2>1, ConsumeType, DrainType
  <2>3. /\ admissions' \subseteq AdmissionType /\ commandPrompt' \in Nat /\ skillPrompt' \in Nat
    BY <2>1 DEF TypeOK, SkillCleared
  <2>4. told' \in [1..MaxRequests -> Seq(Outcomes)]
    BY <2>1, TellType DEF TypeOK, Outcomes
  <2> QED BY <2>1, <2>2, <2>3, <2>4 DEF TypeOK, mirror, pi
<1> QED BY <1>1, <1>2, <1>3, <1>4

LEMMA RefusalsType ==
  ASSUME NEW requests
  PROVE  \A o \in RefusalsOf(requests) : o.what \in Outcomes
<1> SUFFICES ASSUME NEW r \in requests, Refusal(r.kind) # <<>>
             PROVE  Refusal(r.kind)[1] \in Outcomes
  BY DEF RefusalsOf
<1>1. CASE r.kind = "capture"
  BY <1>1 DEF Refusal, Outcomes
<1>2. CASE r.kind \in {"steer", "clear"}
  BY <1>2 DEF Refusal, Outcomes
<1>3. CASE r.kind \in {"fork", "reload"}
  BY <1>3 DEF Refusal, Outcomes
<1> QED BY <1>1, <1>2, <1>3 DEF Refusal

LEMMA StateTyped ==
  ASSUME TypeOK, StateReply \/ ResumeReply \/ NewCancelled \/ ChainStep \/ NewStateReply
                   \/ RequestFailed
  PROVE  TypeOK'
<1> USE ConstantsAssumption, KindFacts
<1>1. CASE StateReply
  <2>1. PICK c \in inflight : StateReply!(c)
    BY <1>1 DEF StateReply
  <2>2. /\ configuration' \in Nat /\ draining' \in BOOLEAN
        /\ interrupt' \in [id : Nat, session : SessionIds, generation : Nat]
    BY <2>1, DrainType DEF TypeOK, Cleared, NoInterrupt, SessionIds
  <2>3. inflight' \subseteq CommandType /\ nextId' \in Nat \ {0} /\ resume' \in Nat
    <3>1. CASE resume = c.id
      BY <2>1, <3>1, FollowType DEF TypeOK, Routes
    <3>2. CASE resume # c.id
      BY <2>1, <3>2, ConsumeType DEF TypeOK
    <3> QED BY <3>1, <3>2
  <2>4. /\ commandStates' \subseteq StateType
        /\ told' \in [1..MaxRequests -> Seq(Outcomes)]
    BY <2>1, SettleStatesType
  <2> QED BY <2>1, <2>2, <2>3, <2>4, TakeStateType, TakeTablesType DEF TypeOK, pi
<1>2. CASE ResumeReply
  <2>1. PICK c \in inflight : ResumeReply!(c)
    BY <1>2 DEF ResumeReply
  <2>2. inflight' \subseteq CommandType /\ nextId' \in Nat \ {0} /\ resume' \in Nat
    <3>1. CASE c.kind = "resume-switch" /\ resume = c.id
      BY <2>1, <3>1, FollowType DEF TypeOK, Routes
    <3>2. CASE ~(c.kind = "resume-switch" /\ resume = c.id)
      <4>1. Consume(c) /\ resume' \in {0, resume}
        BY <2>1, <3>2
      <4>2. resume \in Nat
        BY DEF TypeOK
      <4> QED BY <4>1, <4>2, ConsumeType
    <3> QED BY <3>1, <3>2
  <2>3. draining' \in BOOLEAN
    BY <2>1, DrainType
  <2> QED BY <2>1, <2>2, <2>3 DEF TypeOK, tables, mirror, pi
<1>3. CASE NewCancelled
  <2>1. PICK c \in inflight : NewCancelled!(c)
    BY <1>3 DEF NewCancelled
  <2>2. inflight' \subseteq CommandType /\ nextId' \in Nat \ {0} /\ draining' \in BOOLEAN
    BY <2>1, ConsumeType, DrainType
  <2>3. configuration' \in Nat
    BY <2>1 DEF TypeOK, Cleared
  <2> QED BY <2>1, <2>2, <2>3 DEF TypeOK, tables, mirror, pi
<1>4. CASE ChainStep
  <2>1. PICK c \in inflight : ChainStep!(c)
    BY <1>4 DEF ChainStep
  <2>2. PICK next \in NextSteps(c) : Follow(c, next, c.to)
    BY <2>1
  <2>2a. c.to \in Routes /\ next \in CommandKinds /\ next # "resume-switch"
    BY <2>1, <2>2 DEF TypeOK, CommandType, NextSteps, CommandKinds, Chain
  <2>3. inflight' \subseteq CommandType /\ nextId' \in Nat \ {0}
    BY <2>1, <2>2, <2>2a, FollowType
  <2>4. compaction' \in CompactionType
    BY <2>1 DEF TypeOK, CompactionType
  <2>5. draining' \in BOOLEAN /\ configuration' \in Nat /\ model' \in Routes
    BY <2>1, <2>2a, DrainType DEF TypeOK
  <2> QED BY <2>1, <2>3, <2>4, <2>5 DEF TypeOK, tables, pi
<1>5. CASE NewStateReply
  <2>1. PICK c \in inflight, skill \in {FALSE, "skill" \in Kinds} : NewStateReply!(c)!(skill)
    BY <1>5 DEF NewStateReply
  <2> DEFINE kept == IF Switched THEN {} ELSE admissions
             full == Cardinality(kept) + Cardinality(IF Switched THEN {} ELSE commandStates)
                       >= MaxAdmissions
             e == [id |-> nextId, n |-> c.req.n, session |-> piSession, counted |-> FALSE]
  <2>2. /\ IF full THEN Consume(c) ELSE Follow(c, "prompt", None)
        /\ admissions' = IF full THEN kept ELSE kept \cup {e}
        /\ skillPrompt' = CASE skill /\ ~full -> nextId
                            [] (~skill \/ full) /\ Switched -> 0
                            [] OTHER -> skillPrompt
        /\ commandPrompt' = IF Switched \/ full THEN 0 ELSE commandPrompt
    BY <2>1
  <2>3. e \in AdmissionType /\ kept \subseteq AdmissionType
    BY DEF TypeOK, AdmissionType, CommandType, Request
  <2> HIDE DEF full, kept, e
  <2>4. inflight' \subseteq CommandType /\ nextId' \in Nat \ {0}
    BY <2>2, FollowType, ConsumeType DEF Routes
  <2>5. admissions' \subseteq AdmissionType
    BY <2>2, <2>3
  <2>6. skillPrompt' \in Nat /\ commandPrompt' \in Nat
    BY <2>2 DEF TypeOK
  <2>7. /\ commandStates' \subseteq StateType
        /\ told' \in [1..MaxRequests -> Seq(Outcomes)]
    BY <2>1, SettleStatesType
  <2>8. /\ queueOp' \in [id : Nat, n : 0..MaxRequests, session : SessionIds]
        /\ configuration' \in Nat /\ draining' \in BOOLEAN
    <3>1. queueOp' \in {queueOp, NoQueueOp} /\ configuration' \in {0, configuration}
      BY <2>1 DEF Cleared
    <3>2. NoQueueOp \in [id : Nat, n : 0..MaxRequests, session : SessionIds]
      BY DEF NoQueueOp, SessionIds
    <3>3. draining' \in BOOLEAN
      BY <2>1, DrainType
    <3> QED BY <3>1, <3>2, <3>3 DEF TypeOK
  <2> QED BY <2>1, <2>4, <2>5, <2>6, <2>7, <2>8, TakeStateType DEF TypeOK, pi
<1>6. CASE RequestFailed
  <2>1. PICK c \in inflight : RequestFailed!(c)
    BY <1>6 DEF RequestFailed
  <2>2. /\ resume' \in Nat /\ configuration' \in Nat /\ reload' \in Nat /\ draining' \in BOOLEAN
        /\ interrupt' \in [id : Nat, session : SessionIds, generation : Nat]
    BY <2>1, DrainType DEF TypeOK, Cleared, NoInterrupt, SessionIds
  <2>3. deferred' \in Seq(Request)
    BY <2>1 DEF TypeOK
  <2> DEFINE here == {e \in Own(c) : e.session = session}
             settled == {Settlement(e, FALSE) : e \in here}
             reported == IF reload = c.id THEN {[n |-> c.req.n, what |-> "error"]} ELSE {}
  <2>4. /\ commandStates' = (commandStates \ Own(c))
                               \cup {[e EXCEPT !.failed = TRUE] : e \in {x \in here : x.required}}
        /\ TellAll(settled \cup RefusalsOf(Cancelled(c)) \cup reported)
    BY <2>1
  <2>5. here \subseteq StateType
    BY DEF TypeOK, Own
  <2>6. commandStates' \subseteq StateType
    <3>1. \A e \in StateType : [e EXCEPT !.failed = TRUE] \in StateType
      BY DEF StateType
    <3> HIDE DEF here
    <3> QED BY <2>4, <2>5, <3>1 DEF TypeOK
  <2>7. \A o \in settled \cup RefusalsOf(Cancelled(c)) \cup reported : o.what \in Outcomes
    <3>1. \A o \in settled : o.what \in Outcomes
      BY <2>5, SettlementType
    <3>2. \A o \in reported : o.what \in Outcomes
      BY DEF Outcomes
    <3> HIDE DEF settled, reported
    <3> QED BY <3>1, <3>2, RefusalsType
  <2>8. told' \in [1..MaxRequests -> Seq(Outcomes)]
    BY <2>4, <2>7, TellAllType
  <2>9. /\ compaction' \in CompactionType
        /\ inflight' \subseteq CommandType /\ nextId' \in Nat \ {0}
    <3>1. CASE Selecting(c)
      <4>1. compaction.route \in Routes
        BY DEF TypeOK, CompactionType
      <4> QED BY <2>1, <3>1, <4>1, EndSelectionType
    <3>2. CASE ~Selecting(c)
      BY <2>1, <3>2, ConsumeType DEF TypeOK
    <3> QED BY <3>1, <3>2
  <2> QED BY <2>1, <2>2, <2>3, <2>6, <2>8, <2>9 DEF TypeOK, mirror, pi
<1> QED BY <1>1, <1>2, <1>3, <1>4, <1>5, <1>6

LEMMA CompactionTyped ==
  ASSUME TypeOK, CompactionDropped \/ CompactionStep \/ CompactionFailed \/ CompactionVerified
                   \/ SelectionConfirm
  PROVE  TypeOK'
<1> USE ConstantsAssumption, KindFacts
<1>1. CASE CompactionDropped
  <2>1. PICK c \in inflight : CompactionDropped!(c)
    BY <1>1 DEF CompactionDropped
  <2>2. inflight' \subseteq CommandType /\ nextId' \in Nat \ {0} /\ draining' \in BOOLEAN
    BY <2>1, ConsumeType, DrainType
  <2>3. compaction' \in CompactionType /\ model' \in Routes
    BY <2>1, NoCompactionType DEF TypeOK
  <2> QED BY <2>1, <2>2, <2>3 DEF TypeOK, tables, pi
<1>2. CASE CompactionStep
  <2>1. PICK c \in inflight : CompactionStep!(c)
    BY <1>2 DEF CompactionStep
  <2>2. piModel \in Routes /\ compaction \in CompactionType /\ draining' \in BOOLEAN
    BY <2>1, DrainType DEF TypeOK
  <2> DEFINE Typed == /\ compaction' \in CompactionType /\ model' \in Routes
                      /\ inflight' \subseteq CommandType /\ nextId' \in Nat \ {0}
             At(stage) == [compaction EXCEPT !.stage = stage]
  <2>3. \A stage \in {"snapshot", "compact", "restore-model", "restore-effort", "verify"} :
           At(stage) \in CompactionType /\ At(stage).stage = stage
    BY <2>2 DEF CompactionType, Stages
  <2>4. ASSUME NEW stage \in {"snapshot", "compact", "restore-model", "restore-effort", "verify"},
               Continue(c, At(stage)), UNCHANGED model
        PROVE  Typed
    <3>1. At(stage) \in CompactionType /\ At(stage).stage = stage
      BY <2>3
    <3> HIDE DEF At
    <3> QED BY <2>4, <3>1, ContinueType DEF TypeOK
  <2>5. ASSUME Continue(c, [compaction EXCEPT !.stage = "select", !.route = piModel]),
               model' = piModel
        PROVE  Typed
    <3> DEFINE q == [compaction EXCEPT !.stage = "select", !.route = piModel]
    <3>1. q \in CompactionType /\ q.stage = "select"
      BY <2>2 DEF CompactionType, Stages
    <3>2. Continue(c, q)
      BY <2>5
    <3> HIDE DEF q
    <3> QED BY <2>2, <2>5, <3>1, <3>2, ContinueType
  <2>6. ASSUME RestoreOrWait(c, [compaction EXCEPT !.finished = TRUE]), UNCHANGED model
        PROVE  Typed
    <3>1. [compaction EXCEPT !.finished = TRUE] \in CompactionType
      BY <2>2 DEF CompactionType
    <3> QED BY <2>6, <3>1, RestoreOrWaitType DEF TypeOK
  <2>7. Typed
    <3>1. CASE compaction.stage = "select"
      <4>1. Continue(c, At("restore-model")) \/ Continue(c, At("compact"))
        BY <2>1, <3>1
      <4> HIDE DEF Typed, At
      <4> QED BY <2>1, <2>4, <3>1, <4>1
    <3>2. CASE compaction.stage # "select"
      <4> HIDE DEF Typed
      <4> QED BY <2>1, <2>4, <2>5, <2>6, <3>2
    <3> QED BY <3>1, <3>2
  <2> QED BY <2>1, <2>2, <2>7 DEF TypeOK, tables, pi
<1>3. CASE CompactionFailed
  <2>1. PICK c \in inflight : CompactionFailed!(c)
    BY <1>3 DEF CompactionFailed
  <2>2. inflight' \subseteq CommandType /\ nextId' \in Nat \ {0} /\ draining' \in BOOLEAN
    BY <2>1, ConsumeType, DrainType
  <2>3. compaction' \in CompactionType
    BY <2>1 DEF TypeOK, CompactionType, Stages
  <2> QED BY <2>1, <2>2, <2>3 DEF TypeOK, tables, mirror, pi
<1>4. CASE CompactionVerified
  <2>1. PICK c \in inflight : CompactionVerified!(c)
    BY <1>4 DEF CompactionVerified
  <2>2. inflight' \subseteq CommandType /\ nextId' \in Nat \ {0} /\ draining' \in BOOLEAN
    BY <2>1, ConsumeType, DrainType
  <2>3. compaction' \in CompactionType /\ commandStates' \subseteq StateType
    BY <2>1, NoCompactionType DEF TypeOK
  <2> QED BY <2>1, <2>2, <2>3, TakeStateType, TakeTablesType DEF TypeOK, pi
<1>5. CASE SelectionConfirm
  <2>1. PICK c \in inflight : SelectionConfirm!(c)
    BY <1>5 DEF SelectionConfirm
  <2>2. piModel \in Routes
    BY DEF TypeOK
  <2>3. /\ compaction' \in CompactionType
        /\ inflight' \subseteq CommandType /\ nextId' \in Nat \ {0}
    BY <2>1, <2>2, EndSelectionType
  <2>4. configuration' \in Nat /\ draining' \in BOOLEAN
    BY <2>1, DrainType DEF TypeOK, Cleared
  <2>5. /\ commandStates' \subseteq StateType
        /\ told' \in [1..MaxRequests -> Seq(Outcomes)]
    BY <2>1, SettleStatesType
  <2> QED BY <2>1, <2>3, <2>4, <2>5, TakeStateType, TakeTablesType DEF TypeOK, pi
<1> QED BY <1>1, <1>2, <1>3, <1>4, <1>5

LEMMA DoneType ==
  ASSUME NEW c \in CommandType
  PROVE  [c EXCEPT !.done = TRUE] \in CommandType
BY DEF CommandType

LEMMA FinishType ==
  ASSUME TypeOK, NEW outcome \in Outcomes, Finish(outcome)
  PROVE  branch' \in BranchType /\ told' \in [1..MaxRequests -> Seq(Outcomes)]
BY NoBranchType, TellType DEF Finish

LEMMA BranchNextType ==
  ASSUME TypeOK, NEW c \in inflight, NEW stage \in BranchStages, NEW kind \in CommandKinds,
         kind # "resume-switch", BranchNext(c, stage, kind)
  PROVE  /\ branch' \in BranchType /\ told' \in [1..MaxRequests -> Seq(Outcomes)]
         /\ inflight' \subseteq CommandType /\ nextId' \in Nat \ {0}
<1>1. branch' \in BranchType
  BY DEF TypeOK, BranchNext, BranchType
<1>2. None \in Routes
  BY DEF Routes
<1>3. inflight' \subseteq CommandType /\ nextId' \in Nat \ {0}
  BY <1>2, FollowType DEF BranchNext
<1> QED BY <1>1, <1>3 DEF TypeOK, BranchNext

LEMMA BranchEndType ==
  ASSUME TypeOK, NEW c \in inflight, NEW outcome \in Outcomes, BranchEnd(c, outcome)
  PROVE  /\ branch' \in BranchType /\ told' \in [1..MaxRequests -> Seq(Outcomes)]
         /\ inflight' \subseteq CommandType /\ nextId' \in Nat \ {0}
BY FinishType, ConsumeType DEF BranchEnd

LEMMA BranchTyped ==
  ASSUME TypeOK, BranchMessages \/ BranchReplaced \/ BranchCancelled \/ BranchState \/ BranchStep
                   \/ BranchFailed \/ BranchStale \/ BranchAborted
  PROVE  TypeOK'
<1> USE ConstantsAssumption, KindFacts
<1>0. {"success", "error", "cancelled"} \subseteq Outcomes
  BY DEF Outcomes
<1>1. CASE BranchMessages
  <2>1. PICK c \in inflight : BranchMessages!(c)
    BY <1>1 DEF BranchMessages
  <2>2. /\ branch' \in BranchType /\ told' \in [1..MaxRequests -> Seq(Outcomes)]
        /\ inflight' \subseteq CommandType /\ nextId' \in Nat \ {0}
    <3>1. CASE BranchEnd(c, "error")
      BY <1>0, <3>1, BranchEndType
    <3>2. CASE /\ branch' = [branch EXCEPT !.stage = "choice", !.id = nextId]
               /\ nextId' = nextId + 1 /\ inflight' = inflight \ {c} /\ UNCHANGED told
      <4>1. branch' \in BranchType
        BY <3>2 DEF TypeOK, BranchType, BranchStages
      <4>2. inflight' \subseteq CommandType /\ nextId' \in Nat \ {0}
        <5>1. inflight \subseteq CommandType /\ nextId \in Nat \ {0}
          BY DEF TypeOK
        <5>2. inflight' = inflight \ {c} /\ nextId' = nextId + 1
          BY <3>2
        <5> QED BY <5>1, <5>2
      <4>3. told' \in [1..MaxRequests -> Seq(Outcomes)]
        BY <3>2 DEF TypeOK
      <4> QED BY <4>1, <4>2, <4>3
    <3> QED BY <2>1, <3>1, <3>2
  <2>3. draining' \in BOOLEAN
    BY <2>1, DrainType
  <2> QED BY <2>1, <2>2, <2>3 DEF TypeOK, tables, mirror, pi
<1>2. CASE BranchReplaced
  <2>1. PICK c \in inflight : BranchReplaced!(c)
    BY <1>2 DEF BranchReplaced
  <2>2. /\ branch' \in BranchType /\ told' \in [1..MaxRequests -> Seq(Outcomes)]
        /\ inflight' \subseteq CommandType /\ nextId' \in Nat \ {0}
    BY <2>1, BranchNextType DEF BranchStages
  <2>3. draining' \in BOOLEAN
    BY <2>1, DrainType
  <2> QED BY <2>1, <2>2, <2>3 DEF TypeOK, mirror, pi
<1>3. CASE BranchCancelled
  <2>1. PICK c \in inflight : BranchCancelled!(c)
    BY <1>3 DEF BranchCancelled
  <2>2. /\ branch' \in BranchType /\ told' \in [1..MaxRequests -> Seq(Outcomes)]
        /\ inflight' \subseteq CommandType /\ nextId' \in Nat \ {0}
    BY <1>0, <2>1, BranchEndType
  <2>3. draining' \in BOOLEAN
    BY <2>1, DrainType
  <2> QED BY <2>1, <2>2, <2>3 DEF TypeOK, tables, mirror, pi
<1>4. CASE BranchState
  <2>1. PICK c \in inflight : BranchState!(c)
    BY <1>4 DEF BranchState
  <2>2. draining' \in BOOLEAN
    BY <2>1, DrainType
  <2>3. CASE piSession = branch.source
    <3>1. /\ branch' \in BranchType /\ told' \in [1..MaxRequests -> Seq(Outcomes)]
          /\ inflight' \subseteq CommandType /\ nextId' \in Nat \ {0}
      BY <1>0, <2>1, <2>3, BranchEndType
    <3> QED BY <2>1, <2>2, <2>3, <3>1 DEF TypeOK, tables, mirror, pi
  <2>4. CASE piSession # branch.source
    <3>1. branch' \in BranchType /\ commandStates' \subseteq StateType
          /\ told' \in [1..MaxRequests -> Seq(Outcomes)]
      BY <2>1, <2>4 DEF TypeOK, BranchType, BranchStages
    <3>2. inflight' \subseteq CommandType /\ nextId' \in Nat \ {0}
      BY <2>1, <2>4, FollowType DEF Routes
    <3>3. TakeState /\ TakeTables
      BY <2>1, <2>4
    <3> QED BY <2>1, <2>2, <3>1, <3>2, <3>3, TakeStateType, TakeTablesType DEF TypeOK, pi
  <2> QED BY <2>3, <2>4
<1>5. CASE BranchStep
  <2>1. PICK c \in inflight : BranchStep!(c)
    BY <1>5 DEF BranchStep
  <2>2. /\ branch' \in BranchType /\ told' \in [1..MaxRequests -> Seq(Outcomes)]
        /\ inflight' \subseteq CommandType /\ nextId' \in Nat \ {0}
    <3>1. CASE \/ BranchNext(c, "models", "branch-models")
               \/ BranchNext(c, "commands", "branch-commands")
               \/ BranchNext(c, "prompt", "branch-prompt")
      BY <3>1, BranchNextType DEF BranchStages
    <3>2. CASE \E outcome \in {"success", "error", "cancelled"} : BranchEnd(c, outcome)
      BY <1>0, <3>2, BranchEndType
    <3> QED BY <2>1, <3>1, <3>2
  <2>3. draining' \in BOOLEAN
    BY <2>1, DrainType
  <2> QED BY <2>1, <2>2, <2>3 DEF TypeOK, tables, mirror, pi
<1>6. CASE BranchFailed
  <2>1. PICK c \in inflight : BranchFailed!(c)
    BY <1>6 DEF BranchFailed
  <2>2. /\ branch' \in BranchType /\ told' \in [1..MaxRequests -> Seq(Outcomes)]
        /\ inflight' \subseteq CommandType /\ nextId' \in Nat \ {0}
    BY <1>0, <2>1, BranchEndType
  <2>3. draining' \in BOOLEAN
    BY <2>1, DrainType
  <2> QED BY <2>1, <2>2, <2>3 DEF TypeOK, tables, mirror, pi
<1>7. CASE BranchStale
  <2>1. PICK c \in inflight : BranchStale!(c)
    BY <1>7 DEF BranchStale
  <2>2. inflight' \subseteq CommandType /\ nextId' \in Nat \ {0} /\ draining' \in BOOLEAN
    BY <2>1, ConsumeType, DrainType
  <2> QED BY <2>1, <2>2 DEF TypeOK, tables, mirror, pi
<1>8. CASE BranchAborted
  <2>1. PICK c \in inflight : BranchAborted!(c)
    BY <1>8 DEF BranchAborted
  <2>2. inflight' \subseteq CommandType /\ nextId' \in Nat \ {0} /\ configuration' \in Nat
    <3>1. CASE configuration' = nextId /\ Follow(c, "state", None)
      BY <3>1, FollowType DEF TypeOK, Routes
    <3>2. CASE Consume(c) /\ UNCHANGED configuration
      BY <3>2, ConsumeType DEF TypeOK
    <3> QED BY <2>1, <3>1, <3>2
  <2>3. draining' \in BOOLEAN
    BY <2>1, DrainType
  <2> QED BY <2>1, <2>2, <2>3 DEF TypeOK, tables, mirror, pi
<1> QED BY <1>1, <1>2, <1>3, <1>4, <1>5, <1>6, <1>7, <1>8

LEMMA ReloadTyped ==
  ASSUME TypeOK, ReloadStep \/ ReloadReply
  PROVE  TypeOK'
<1> USE ConstantsAssumption, KindFacts
<1>1. CASE ReloadStep
  <2>1. PICK c \in inflight : ReloadStep!(c)
    BY <1>1 DEF ReloadStep
  <2>2. inflight' \subseteq CommandType /\ nextId' \in Nat \ {0}
    <3>1. ReloadNext(c) \in CommandKinds /\ ReloadNext(c) # "resume-switch" /\ None \in Routes
      BY DEF ReloadNext, Routes
    <3> QED BY <2>1, <3>1, FollowType
  <2>3. configuration' \in Nat /\ reload' \in Nat
    BY <2>1 DEF TypeOK
  <2>4. CASE c.kind = "reload-state"
    <3>1. TakeState /\ TakeTables /\ commandStates' = IF Switched THEN {} ELSE commandStates
      BY <2>1, <2>4
    <3>2. commandStates' \subseteq StateType
      BY <3>1 DEF TypeOK
    <3> QED BY <2>1, <2>2, <2>3, <3>1, <3>2, TakeStateType, TakeTablesType DEF TypeOK, pi
  <2>5. CASE c.kind # "reload-state"
    BY <2>1, <2>2, <2>3, <2>5 DEF TypeOK, tables, mirror, pi
  <2> QED BY <2>4, <2>5
<1>2. CASE ReloadReply
  <2>1. PICK c \in inflight : ReloadReply!(c)
    BY <1>2 DEF ReloadReply
  <2>2. inflight' \subseteq CommandType /\ nextId' \in Nat \ {0} /\ draining' \in BOOLEAN
    BY <2>1, ConsumeType, DrainType
  <2>3. configuration' \in Nat /\ reload' \in Nat
    BY <2>1 DEF TypeOK, Cleared
  <2>4. told' \in [1..MaxRequests -> Seq(Outcomes)]
    BY <2>1, TellType DEF TypeOK, Outcomes
  <2> QED BY <2>1, <2>2, <2>3, <2>4 DEF TypeOK, tables, mirror, pi
<1> QED BY <1>1, <1>2

LEMMA RefusedType ==
  ASSUME NEW kind \in RequestKinds
  PROVE  /\ Asked(kind) \in Seq(Outcomes)
         /\ Asked(kind) \o Refusal(kind) \in Seq(Outcomes)
<1>1. Asked(kind) \in Seq(Outcomes)
  BY AskedType
<1>2. Refusal(kind) \in Seq(Outcomes)
  <2>1. CASE kind = "capture"
    BY <2>1 DEF Refusal, Outcomes
  <2>2. CASE kind \in {"steer", "clear"}
    BY <2>2 DEF Refusal, Outcomes
  <2>3. CASE kind \in {"fork", "reload"}
    <3>1. Refusal(kind) = <<"error">>
      BY <2>3 DEF Refusal
    <3>2. "error" \in Outcomes
      BY DEF Outcomes
    <3> QED BY <3>1, <3>2
  <2>4. CASE kind \notin {"capture", "steer", "clear", "fork", "reload"}
    BY <2>4 DEF Refusal
  <2> QED BY <2>1, <2>2, <2>3, <2>4
<1> QED BY <1>1, <1>2

LEMMA OtherTyped ==
  ASSUME TypeOK, Defer \/ Refuse \/ Interrupt \/ InterruptBranch \/ Choose \/ PiApply \/ PiAgentStart \/ PiCompactionStart
  PROVE  TypeOK'
<1> USE ConstantsAssumption, KindFacts
<1>1. CASE Defer
  <2>1. PICK r \in Offered(Gated) : Defer!(r)
    BY <1>1 DEF Defer
  <2>2. r \in Request
    BY <2>1, OfferedType
  <2>3. /\ Asked(r.kind) \in Seq(Outcomes)
        /\ Asked(r.kind) \o Refusal(r.kind) \in Seq(Outcomes)
    BY <2>2, RefusedType DEF Request
  <2>5. told' \in [1..MaxRequests -> Seq(Outcomes)] /\ deferred' \in Seq(Request)
    <3>1. CASE Len(deferred) < MaxDeferred
      <4>1. deferred' \in Seq(Request)
        <5>1. deferred' = Append(deferred, r)
          BY <2>1, <3>1 DEF Enqueued
        <5>2. deferred \in Seq(Request)
          BY DEF TypeOK
        <5> QED BY <2>2, <5>1, <5>2
      <4>2. told' = [told EXCEPT ![r.n] = Asked(r.kind)]
        BY <2>1, <3>1
      <4>3. told' \in [1..MaxRequests -> Seq(Outcomes)]
        BY <2>3, <4>2 DEF TypeOK
      <4> QED BY <4>1, <4>3
    <3>2. CASE ~(Len(deferred) < MaxDeferred)
      BY <2>1, <2>3, <3>2 DEF TypeOK
    <3> QED BY <3>1, <3>2
  <2>6. submitted' \in 0..MaxRequests /\ draining' \in BOOLEAN
    BY <2>1, DrainType DEF TypeOK
  <2> QED BY <2>1, <2>5, <2>6 DEF TypeOK, tables, mirror, pi
<1>2. CASE Interrupt
  <2>1. PICK r \in Offered({"interrupt"}) : Interrupt!(r)
    BY <1>2 DEF Interrupt
  <2>2. r \in Request
    BY <2>1, OfferedType
  <2>3. submitted' \in 0..MaxRequests
    BY <2>1, <2>2 DEF Request
  <2>4. inflight' \subseteq CommandType /\ nextId' \in Nat \ {0}
    BY <2>1, <2>2, SendType DEF Routes
  <2>5. compaction' \in CompactionType
    BY <2>1 DEF TypeOK, CompactionType
  <2>6. /\ interrupt' \in [id : Nat, session : SessionIds, generation : Nat]
        /\ skillPrompt' \in Nat
    BY <2>1 DEF TypeOK
  <2> QED BY <2>1, <2>3, <2>4, <2>5, <2>6 DEF TypeOK, tables, mirror, pi
<1>3. CASE PiApply
  <2>1. PICK c \in inflight : PiApply!(c)
    BY <1>3 DEF PiApply
  <2>2. c \in CommandType /\ [c EXCEPT !.done = TRUE] \in CommandType
    BY DoneType DEF TypeOK
  <2>3. inflight' \subseteq CommandType
    BY <2>1, <2>2 DEF TypeOK
  <2>4. piSession' \in SessionIds /\ piModel' \in Routes
    <3>1. /\ c.id \in Nat
          /\ c.kind = "resume-switch" => c.to \in Sessions
          /\ c.kind # "resume-switch" => c.to \in Routes
      BY <2>2 DEF CommandType
    <3>2. piSession \in SessionIds /\ piModel \in Routes
      BY DEF TypeOK
    <3> QED BY <2>1, <3>1, <3>2 DEF SessionIds, pi
  <2> QED BY <2>1, <2>3, <2>4 DEF TypeOK, tables, mirror
<1>4. CASE PiAgentStart
  BY <1>4 DEF TypeOK, PiAgentStart, tables, mirror, pi
<1>5. CASE PiCompactionStart
  <2>1. PICK c \in inflight : PiCompactionStart!(c)
    BY <1>5 DEF PiCompactionStart
  <2>2. c \in CommandType /\ [c EXCEPT !.done = TRUE] \in CommandType
    BY DoneType DEF TypeOK
  <2>3. inflight' \subseteq CommandType
    BY <2>1, <2>2 DEF TypeOK
  <2>4. compaction' \in CompactionType /\ draining' \in BOOLEAN
    BY <2>1, DrainType DEF TypeOK, CompactionType
  <2> QED BY <2>1, <2>3, <2>4 DEF TypeOK, tables, mirror, pi
<1>6. CASE Refuse
  <2>1. PICK r \in Offered(Gated) : Refuse!(r)
    BY <1>6 DEF Refuse
  <2>2. r \in Request
    BY <2>1, OfferedType
  <2>3. Asked(r.kind) \o Refusal(r.kind) \in Seq(Outcomes)
    BY <2>2, RefusedType DEF Request
  <2>4. told' \in [1..MaxRequests -> Seq(Outcomes)]
    BY <2>1, <2>3 DEF TypeOK
  <2>5. submitted' \in 0..MaxRequests
    BY <2>1, <2>2 DEF Request
  <2> QED BY <2>1, <2>4, <2>5 DEF TypeOK, tables, mirror, pi
<1>7. CASE InterruptBranch
  <2>1. PICK r \in Offered({"interrupt"}) : InterruptBranch!(r)
    BY <1>7 DEF InterruptBranch
  <2>2. r \in Request
    BY <2>1, OfferedType
  <2>3. submitted' \in 0..MaxRequests
    BY <2>1, <2>2 DEF Request
  <2>4. /\ inflight' \subseteq CommandType /\ nextId' \in Nat \ {0}
        /\ branch' \in BranchType /\ told' \in [1..MaxRequests -> Seq(Outcomes)]
    <3>1. CASE branch.stage \in {"messages", "choice"}
      BY <2>1, <3>1, FinishType DEF TypeOK, Outcomes
    <3>2. CASE branch.stage \notin {"messages", "choice"}
      BY <2>1, <2>2, <3>2, SendType DEF TypeOK, BranchType, Routes
    <3> QED BY <3>1, <3>2
  <2> QED BY <2>1, <2>3, <2>4 DEF TypeOK, tables, mirror, pi
<1>8. CASE Choose
  <2>1. /\ inflight' \subseteq CommandType /\ nextId' \in Nat \ {0}
        /\ branch' \in BranchType /\ told' \in [1..MaxRequests -> Seq(Outcomes)]
    <3>1. CASE Finish("error") /\ UNCHANGED <<nextId, inflight>>
      BY <3>1, FinishType DEF TypeOK, Outcomes
    <3>2. CASE /\ branch' = [branch EXCEPT !.stage = "replace", !.id = nextId]
               /\ Send("branch-replace", [n |-> branch.n, kind |-> "fork", to |-> None], None)
               /\ UNCHANGED told
      <4>1. [n |-> branch.n, kind |-> "fork", to |-> None] \in Request
        BY DEF TypeOK, BranchType, Request, RequestKinds, Gated, LineKinds, Targets
      <4>2. branch' \in BranchType
        BY <3>2 DEF TypeOK, BranchType, BranchStages
      <4>3. inflight' \subseteq CommandType /\ nextId' \in Nat \ {0}
        BY <3>2, <4>1, SendType DEF Routes
      <4> QED BY <3>2, <4>2, <4>3 DEF TypeOK
    <3> QED BY <1>8, <3>1, <3>2 DEF Choose
  <2> QED BY <1>8, <2>1 DEF Choose, TypeOK, tables, mirror, pi
<1> QED BY <1>1, <1>2, <1>3, <1>4, <1>5, <1>6, <1>7, <1>8

LEMMA TypeStep ==
  ASSUME TypeOK, [Next]_vars
  PROVE  TypeOK'
<1>1. CASE Next
  BY <1>1, RouteTyped, InterruptTyped, PromptTyped, StateTyped, CompactionTyped, BranchTyped, ReloadTyped,
     OtherTyped
  DEF Next, Pi, Respond
<1>2. CASE UNCHANGED vars
  BY <1>2 DEF TypeOK, vars, tables, mirror, pi
<1> QED BY <1>1, <1>2

\* Every field of the adapter keeps to its type, whatever the frontend asks for
\* and however Pi answers.
THEOREM TypeCorrect == Spec => []TypeOK
BY TypeInit, TypeStep, PTL DEF Spec

-----------------------------------------------------------------------------
(* The gate and the queue behind it *)

\* A request being routed finds no fork under way.
LEMMA TakenAlone ==
  ASSUME NothingBehindFork, NEW r, Taken(r) \/ \E what : Answered(r, what)
  PROVE  ~Branching
BY DEF NothingBehindFork, Taken, Answered

\* A fork opens only over an empty queue ...
LEMMA RouteAlone ==
  ASSUME TypeOK, NothingBehindFork, Route
  PROVE  NothingBehindFork'
<1>1. CASE RouteFork
  <2>1. deferred' = <<>>
    BY <1>1 DEF RouteFork, Unsettled
  <2>2. Drainable' = {}
    BY <2>1 DEF Drainable, ReadyControls
  <2>3. Routed
    BY <1>1 DEF RouteFork
  <2>4. ~draining'
    BY <2>2, <2>3 DEF Routed
  <2> QED BY <2>1, <2>4 DEF NothingBehindFork
<1>2. CASE Route /\ ~RouteFork
  <2>1. \E r : Taken(r) \/ \E what : Answered(r, what)
    BY <1>2
    DEF Route, RouteInput, RouteCommand, RouteQueueOp, RouteNew, RouteAttach, RouteModel,
        RouteRead, RouteCapture, RouteCompact, RouteReload, RouteBusy
  <2>2. UNCHANGED branch
    BY <1>2
    DEF Route, RouteInput, RouteCommand, RouteQueueOp, RouteNew, RouteAttach, RouteModel,
        RouteRead, RouteCapture, RouteCompact, RouteReload, RouteBusy, Answered
  <2> QED BY <2>1, <2>2, TakenAlone DEF NothingBehindFork, Branching
<1> QED BY <1>1, <1>2

\* ... and while it is open nothing is added to the queue.
LEMMA HandlerAlone ==
  ASSUME NothingBehindFork, ~draining,
         Branching' => Branching,
         Branching => deferred' \in {deferred, <<>>},
         StartDrain \/ UNCHANGED draining
  PROVE  NothingBehindFork'
<1> SUFFICES ASSUME Branching' PROVE deferred' = <<>> /\ ~draining'
  BY DEF NothingBehindFork
<1>1. Drainable' = {}
  BY DEF Branching, Drainable, Held
<1>2. deferred = <<>>
  BY DEF NothingBehindFork
<1>3. ~draining'
  BY <1>1 DEF StartDrain
<1>4. deferred' = <<>>
  BY <1>2
<1> QED BY <1>3, <1>4

\* A response is handled between two handlers, ...
LEMMA RespondBetween ==
  ASSUME Respond
  PROVE  ~draining
<1>1. CASE BranchMessages \/ BranchReplaced \/ BranchCancelled \/ BranchState \/ BranchStep \/ BranchFailed \/
      BranchStale \/ BranchAborted
  BY <1>1
  DEF BranchMessages, BranchReplaced, BranchCancelled, BranchState, BranchStep, BranchFailed,
      BranchStale, BranchAborted,
      Succeeds, Fails, Answers
<1>2. CASE Respond /\ ~(BranchMessages \/ BranchReplaced \/ BranchCancelled \/ BranchState \/ BranchStep \/ BranchFailed \/
      BranchStale \/ BranchAborted)
  BY <1>2
  DEF Respond, InterruptAborted, InterruptReleased, InterruptReplaced, PromptStateReply, QueueReply,
      PromptReplyStale, PromptAdmitted, PromptRefused, StateReplyStale, StateReply, ResumeReply,
      NewCancelled, ChainStep, NewStateReply, CompactionDropped, CompactionStep,
      CompactionFailed, CompactionVerified, SelectionConfirm, RequestFailed, PlainCompacted,
      ReloadStep, ReloadReply,
      Owned, Succeeds, Fails, Answers
<1> QED BY <1>1, <1>2

\* ... opens no fork, and leaves the queue or empties it.
LEMMA RespondKeepsQueue ==
  ASSUME Respond
  PROVE  /\ Branching' => Branching
         /\ deferred' \in {deferred, <<>>}
         /\ StartDrain \/ UNCHANGED draining
<1>1. CASE BranchMessages \/ BranchReplaced \/ BranchCancelled \/ BranchState \/ BranchStep \/ BranchFailed \/
      BranchStale \/ BranchAborted
  BY <1>1
  DEF BranchMessages, BranchReplaced, BranchCancelled, BranchState, BranchStep, BranchFailed,
      BranchStale, BranchAborted,
      BranchOpen, Branching
<1>2. CASE Respond /\ ~(BranchMessages \/ BranchReplaced \/ BranchCancelled \/ BranchState \/ BranchStep \/ BranchFailed \/
      BranchStale \/ BranchAborted)
  BY <1>2
  DEF Respond, Branching, InterruptAborted, InterruptReleased, InterruptReplaced, PromptStateReply, QueueReply,
      PromptReplyStale, PromptAdmitted, PromptRefused, StateReplyStale, StateReply, ResumeReply,
      NewCancelled, ChainStep, NewStateReply, CompactionDropped, CompactionStep,
      CompactionFailed, CompactionVerified, SelectionConfirm, RequestFailed, PlainCompacted,
      ReloadStep, ReloadReply
<1> QED BY <1>1, <1>2

LEMMA AloneStep ==
  ASSUME TypeOK, NothingBehindFork, [Next]_vars
  PROVE  NothingBehindFork'
<1>1. CASE Route
  BY <1>1, RouteAlone
<1>2. CASE UNCHANGED vars
  BY <1>2 DEF vars, NothingBehindFork, Branching
<1>3. CASE Defer \/ Refuse \/ Interrupt \/ InterruptBranch \/ Choose \/ PiAgentStart
             \/ PiApply \/ PiCompactionStart
  <2>1. ~draining
    BY <1>3 DEF Defer, Refuse, Interrupt, InterruptBranch, Choose, PiAgentStart, PiApply,
                PiCompactionStart, Answers
  <2>2. Branching' => Branching
    BY <1>3 DEF Defer, Refuse, Interrupt, InterruptBranch, Choose, PiAgentStart, PiApply,
                PiCompactionStart, Branching
  <2>3. Branching => deferred' \in {deferred, <<>>}
    BY <1>3 DEF Defer, Refuse, Interrupt, InterruptBranch, Choose, PiAgentStart, PiApply,
                PiCompactionStart
  <2>4. StartDrain \/ UNCHANGED draining
    BY <1>3 DEF Defer, Refuse, Interrupt, InterruptBranch, Choose, PiAgentStart, PiApply,
                PiCompactionStart
  <2> QED BY <2>1, <2>2, <2>3, <2>4, HandlerAlone
<1>4. CASE Respond
  BY <1>4, RespondBetween, RespondKeepsQueue, HandlerAlone
<1> QED BY <1>1, <1>2, <1>3, <1>4 DEF Next, Pi

LEMMA AloneInit == Init => NothingBehindFork
BY DEF Init, NothingBehindFork, Branching, NoBranch

\* A fork is opened over an empty queue and nothing is queued behind it: a fork
\* the user ends leaves nobody waiting.
THEOREM ForkAlone == Spec => []NothingBehindFork
BY TypeInit, TypeStep, AloneInit, AloneStep, PTL DEF Spec

\* Handlers that do not end in drain_deferred leave the gate as it was, or shut it.
LEMMA GateUnchanged ==
  ASSUME UNCHANGED <<deferred, configuration, interrupt, resume, queueOp, skillPrompt,
                     compaction, branch, session>>
  PROVE  Drainable' = Drainable
BY DEF Drainable, Held, Branching, ReadyControls, ControlsOpen

\* A request routed at once found the queue empty.
LEMMA RoutedAtOnce ==
  ASSUME TypeOK, NothingStranded, ~draining, NEW r, Taken(r) \/ \E what : Answered(r, what)
  PROVE  deferred' = <<>>
<1>1. deferred' = deferred /\ ~Blocked /\ ~Branching /\ Drainable = {}
  BY DEF Taken, Answered, NothingStranded
<1>2. DOMAIN deferred \cap {1} = {}
  BY <1>1 DEF Blocked, Drainable, Held
<1> QED BY <1>1, <1>2 DEF TypeOK

LEMMA EmptyStrandsNothing ==
  ASSUME deferred' = <<>>
  PROVE  NothingStranded'
<1>1. DOMAIN deferred' = {}
  OBVIOUS
<1> QED BY <1>1 DEF NothingStranded, Drainable, ReadyControls

LEMMA RouteStrandsNothing ==
  ASSUME TypeOK, NothingStranded, NEW r, Taken(r) \/ \E what : Answered(r, what), Routed
  PROVE  NothingStranded'
<1>1. CASE draining
  BY <1>1 DEF Routed, NothingStranded
<1>2. CASE ~draining
  BY <1>2, RoutedAtOnce, EmptyStrandsNothing
<1> QED BY <1>1, <1>2

LEMMA StrandedStep ==
  ASSUME TypeOK, NothingBehindFork, NothingStranded, [Next]_vars
  PROVE  NothingStranded'
<1>1. CASE StartDrain
  BY <1>1 DEF StartDrain, NothingStranded
<1>2. CASE Route
  <2>1. \E r : (Taken(r) \/ \E what : Answered(r, what)) /\ Routed
    BY <1>2
    DEF Route, RouteInput, RouteCommand, RouteQueueOp, RouteNew, RouteAttach, RouteModel,
        RouteRead, RouteCapture, RouteCompact, RouteFork, RouteReload, RouteBusy, Answered
  <2> QED BY <2>1, RouteStrandsNothing
<1>3. CASE \/ InterruptReplaced \/ PromptReplyStale \/ StateReplyStale
           \/ Refuse \/ PiApply \/ PiAgentStart \/ UNCHANGED vars
  <2>1. /\ UNCHANGED <<deferred, configuration, interrupt, resume, queueOp, skillPrompt,
                       compaction, branch, session>>
        /\ UNCHANGED draining
    BY <1>3 DEF InterruptReplaced, PromptReplyStale, StateReplyStale, Refuse, PiApply,
                PiAgentStart, vars, mirror
  <2> QED BY <2>1, GateUnchanged DEF NothingStranded
<1>4. CASE InterruptAborted \/ Interrupt
  <2>1. interrupt'.id # 0
    BY <1>4 DEF InterruptAborted, Interrupt, TypeOK
  <2> QED BY <2>1 DEF NothingStranded, Drainable, Held
<1>5. CASE ReloadStep
  <2>1. configuration' # 0
    BY <1>5 DEF ReloadStep, TypeOK
  <2> QED BY <2>1 DEF NothingStranded, Drainable, Held
<1>6. CASE Choose \/ InterruptBranch
  <2>1. deferred' = <<>>
    BY <1>6 DEF Choose, InterruptBranch, Branching, NothingBehindFork
  <2> QED BY <2>1, EmptyStrandsNothing
<1>7. CASE BranchMessages \/ BranchReplaced \/ BranchCancelled \/ BranchState \/ BranchStep \/ BranchFailed \/
               BranchStale \/ BranchAborted
  <2>1. StartDrain
    BY <1>7
    DEF BranchMessages, BranchReplaced, BranchCancelled, BranchState, BranchStep, BranchFailed,
      BranchStale, BranchAborted
  <2> QED BY <2>1, <1>1
<1>8. CASE \/ Defer \/ PiCompactionStart
           \/ InterruptReleased \/ PromptStateReply \/ QueueReply
           \/ PromptAdmitted \/ PromptRefused \/ StateReply \/ ResumeReply
           \/ NewCancelled \/ ChainStep \/ NewStateReply
           \/ CompactionDropped \/ CompactionStep \/ CompactionFailed \/ CompactionVerified
           \/ SelectionConfirm \/ RequestFailed \/ PlainCompacted \/ ReloadReply
  <2>1. StartDrain
    BY <1>8
    DEF Defer, PiCompactionStart, InterruptReleased, PromptStateReply, QueueReply,
        PromptAdmitted, PromptRefused, StateReply, ResumeReply, NewCancelled, ChainStep,
        NewStateReply, CompactionDropped, CompactionStep, CompactionFailed, CompactionVerified,
        SelectionConfirm, RequestFailed, PlainCompacted, ReloadReply
  <2> QED BY <2>1, <1>1
<1> QED
  BY <1>2, <1>3, <1>4, <1>5, <1>6, <1>7, <1>8 DEF Next, Pi, Respond

LEMMA StrandedInit == Init => NothingStranded
BY DEF Init, NothingStranded, Drainable, ReadyControls

\* Whenever the adapter is between two handlers, no deferred request could have
\* been routed: each handler that opens the gate also drains the queue, and the
\* end of a fork, which drains nothing, finds the queue empty.
THEOREM QueueDrained == Spec => []NothingStranded
BY TypeInit, TypeStep, AloneInit, AloneStep, StrandedInit, StrandedStep, PTL DEF Spec

-----------------------------------------------------------------------------
(* The order of the requests *)

LEMMA Removed ==
  ASSUME NEW S, NEW s \in Seq(S), NEW i \in 1..Len(s)
  PROVE  /\ RemoveAt(s, i) \in Seq(S)
         /\ Len(RemoveAt(s, i)) = Len(s) - 1
         /\ \A k \in 1..(Len(s) - 1) : RemoveAt(s, i)[k] = IF k < i THEN s[k] ELSE s[k + 1]
<1> DEFINE a == SubSeq(s, 1, i - 1)
           b == SubSeq(s, i + 1, Len(s))
<1>1. /\ a \in Seq(S) /\ Len(a) = i - 1
      /\ \A k \in 1..(i - 1) : a[k] = s[k]
  OBVIOUS
<1>2. /\ b \in Seq(S) /\ Len(b) = Len(s) - i
      /\ \A k \in 1..(Len(s) - i) : b[k] = s[i + k]
  OBVIOUS
<1>3. RemoveAt(s, i) = a \o b
  BY DEF RemoveAt
<1> HIDE DEF a, b
<1>4. a \o b \in Seq(S) /\ Len(a \o b) = Len(s) - 1
  <2>1. a \o b \in Seq(S) /\ Len(a \o b) = Len(a) + Len(b)
    BY <1>1, <1>2, ConcatProperties
  <2>2. Len(s) \in Nat /\ i \in Nat /\ Len(a) = i - 1 /\ Len(b) = Len(s) - i
    BY <1>1, <1>2
  <2>3. Len(a) + Len(b) = Len(s) - 1
    BY <2>2
  <2> QED BY <2>1, <2>3
<1>5. ASSUME NEW k \in 1..(Len(s) - 1)
      PROVE  (a \o b)[k] = IF k < i THEN s[k] ELSE s[k + 1]
  <2>1. CASE k < i
    <3>1. (a \o b)[k] = a[k]
      BY <1>1, <1>2, <2>1
    <3> QED BY <1>1, <2>1, <3>1
  <2>2. CASE ~(k < i)
    <3>1. (a \o b)[k] = b[k - (i - 1)]
      BY <1>1, <1>2, <2>2
    <3>2. k - (i - 1) \in 1..(Len(s) - i) /\ i + (k - (i - 1)) = k + 1
      BY <2>2
    <3>3. b[k - (i - 1)] = s[k + 1]
      BY <1>2, <3>2
    <3> QED BY <2>2, <3>1, <3>3
  <2> QED BY <2>1, <2>2
<1> QED BY <1>3, <1>4, <1>5

\* Numbers that grow along the queue still do when one is taken out, and each that is
\* left has a place among the old ones.
Ordered(s) == \A i, j \in DOMAIN s : i < j => s[i].n < s[j].n

LEMMA RemovedOrder ==
  ASSUME NEW s \in Seq(Request), NEW i \in 1..Len(s), Ordered(s)
  PROVE  /\ Ordered(RemoveAt(s, i))
         /\ \A k \in DOMAIN RemoveAt(s, i) :
              \E m \in DOMAIN s : /\ m # i /\ RemoveAt(s, i)[k] = s[m]
                                  /\ k < i => m = k
                                  /\ k >= i => m = k + 1
<1> DEFINE t == RemoveAt(s, i)
<1>1. /\ t \in Seq(Request) /\ Len(t) = Len(s) - 1
      /\ \A k \in 1..(Len(s) - 1) : t[k] = IF k < i THEN s[k] ELSE s[k + 1]
  BY Removed
<1> HIDE DEF t
<1>2. DOMAIN t = 1..(Len(s) - 1) /\ DOMAIN s = 1..Len(s)
  BY <1>1
<1>3. ASSUME NEW k \in DOMAIN t
      PROVE  \E m \in DOMAIN s : m # i /\ t[k] = s[m] /\ (k < i => m = k) /\ (k >= i => m = k + 1)
  <2>1. CASE k < i
    <3>1. k \in DOMAIN s /\ k # i /\ t[k] = s[k] /\ ~(k >= i)
      BY <1>1, <1>2, <2>1
    <3> QED BY <2>1, <3>1
  <2>2. CASE ~(k < i)
    <3>1. k + 1 \in DOMAIN s /\ k + 1 # i /\ t[k] = s[k + 1]
      BY <1>1, <1>2, <2>2
    <3> QED BY <2>2, <3>1
  <2> QED BY <2>1, <2>2
<1>4. ASSUME NEW k \in DOMAIN t, NEW l \in DOMAIN t, k < l
      PROVE  t[k].n < t[l].n
  <2>1. PICK m \in DOMAIN s : t[k] = s[m] /\ (k < i => m = k) /\ (k >= i => m = k + 1)
    BY <1>3
  <2>2. PICK o \in DOMAIN s : t[l] = s[o] /\ (l < i => o = l) /\ (l >= i => o = l + 1)
    BY <1>3
  <2>3. m < o
    BY <1>2, <1>4, <2>1, <2>2
  <2> QED BY <2>1, <2>2, <2>3 DEF Ordered
<1> QED BY <1>3, <1>4 DEF Ordered, t

\* The number n stands before everything that waits in s.
Before(s, n) == \A k \in DOMAIN s : n < s[k].n

\* What waits was made by the frontend, in this order.
Queued ==
  /\ Ordered(deferred)
  /\ \A k \in DOMAIN deferred : deferred[k].n \in 1..submitted /\ deferred[k].kind \in Gated

\* What a step may do to the queue: leave it, empty it, take one request out ...
Shortened ==
  \/ deferred' = deferred /\ submitted' \in {submitted, submitted + 1}
  \/ deferred' = <<>> /\ submitted' = submitted
  \/ submitted' = submitted /\ \E i \in DOMAIN deferred : deferred' = RemoveAt(deferred, i)
\* ... or add the request just made.
Lengthened ==
  \E r \in Request : /\ r.n = submitted + 1 /\ r.kind \in Gated /\ submitted' = r.n
                     /\ deferred' = Append(deferred, r)

\* What came before the queue still does.
Moves ==
  /\ submitted' \in Nat /\ submitted <= submitted'
  /\ \A n \in Nat : n <= submitted /\ Before(deferred, n) => Before(deferred', n)

LEMMA ShortenedOrder ==
  ASSUME TypeOK, Queued, Shortened
  PROVE  Queued' /\ Moves
<1>1. deferred \in Seq(Request) /\ submitted \in Nat
  BY DEF TypeOK
<1>2. CASE deferred' = deferred /\ submitted' \in {submitted, submitted + 1}
  <2>1. submitted' \in Nat /\ submitted <= submitted'
    BY <1>1, <1>2
  <2>2. \A k \in DOMAIN deferred : deferred[k].n \in 1..submitted'
    <3> TAKE k \in DOMAIN deferred
    <3>1. deferred[k].n \in 1..submitted
      BY DEF Queued
    <3> QED BY <1>1, <2>1, <3>1
  <2> QED BY <1>2, <2>1, <2>2 DEF Queued, Moves
<1>3. CASE deferred' = <<>> /\ submitted' = submitted
  BY <1>1, <1>3 DEF Queued, Moves, Ordered, Before
<1>4. CASE submitted' = submitted /\ \E i \in DOMAIN deferred : deferred' = RemoveAt(deferred, i)
  <2>1. PICK i \in DOMAIN deferred : deferred' = RemoveAt(deferred, i)
    BY <1>4
  <2>2. i \in 1..Len(deferred) /\ Ordered(deferred)
    BY <1>1 DEF Queued
  <2>3. /\ Ordered(deferred')
        /\ \A k \in DOMAIN deferred' : \E m \in DOMAIN deferred : deferred'[k] = deferred[m]
    BY <1>1, <2>1, <2>2, RemovedOrder
  <2>4. Queued'
    BY <1>4, <2>3 DEF Queued
  <2>5. Moves
    BY <1>1, <1>4, <2>3 DEF Moves, Before
  <2> QED BY <2>4, <2>5
<1> QED BY <1>2, <1>3, <1>4 DEF Shortened

LEMMA LengthenedOrder ==
  ASSUME TypeOK, Queued, Lengthened
  PROVE  Queued' /\ Moves
<1>1. deferred \in Seq(Request) /\ submitted \in Nat
  BY DEF TypeOK
<1>2. PICK r \in Request : /\ r.n = submitted + 1 /\ r.kind \in Gated /\ submitted' = r.n
                           /\ deferred' = Append(deferred, r)
  BY DEF Lengthened
<1>3. submitted' \in Nat /\ submitted <= submitted' /\ submitted < r.n
  BY <1>1, <1>2
<1>4. /\ DOMAIN deferred = 1..Len(deferred) /\ DOMAIN deferred' = 1..(Len(deferred) + 1)
      /\ \A k \in 1..Len(deferred) : deferred'[k] = deferred[k]
      /\ deferred'[Len(deferred) + 1] = r
      /\ Len(deferred) \in Nat
  BY <1>1, <1>2
<1>5. ASSUME NEW k \in DOMAIN deferred', NEW l \in DOMAIN deferred', k < l
      PROVE  deferred'[k].n < deferred'[l].n
  <2>1. k \in DOMAIN deferred /\ deferred'[k] = deferred[k]
    BY <1>4, <1>5
  <2>2. CASE l \in DOMAIN deferred
    BY <1>4, <1>5, <2>1, <2>2 DEF Queued, Ordered
  <2>3. CASE l \notin DOMAIN deferred
    <3>1. deferred'[l] = r
      BY <1>4, <2>3
    <3>2. deferred[k].n \in 1..submitted
      BY <2>1 DEF Queued
    <3> QED BY <1>1, <1>3, <2>1, <3>1, <3>2, <1>2
  <2> QED BY <2>2, <2>3
<1>6. ASSUME NEW k \in DOMAIN deferred'
      PROVE  deferred'[k].n \in 1..submitted' /\ deferred'[k].kind \in Gated
  <2>1. CASE k \in DOMAIN deferred
    <3>1. deferred'[k] = deferred[k] /\ deferred[k].n \in 1..submitted /\ deferred[k].kind \in Gated
      BY <1>4, <2>1 DEF Queued
    <3> QED BY <1>1, <1>3, <3>1
  <2>2. CASE k \notin DOMAIN deferred
    <3>1. deferred'[k] = r
      BY <1>4, <2>2
    <3> QED BY <1>1, <1>2, <3>1
  <2> QED BY <2>1, <2>2
<1>7. ASSUME NEW n \in Nat, n <= submitted, Before(deferred, n), NEW k \in DOMAIN deferred'
      PROVE  n < deferred'[k].n
  <2>1. CASE k \in DOMAIN deferred
    BY <1>4, <1>7, <2>1 DEF Before
  <2>2. CASE k \notin DOMAIN deferred
    <3>1. deferred'[k] = r
      BY <1>4, <2>2
    <3> QED BY <1>1, <1>2, <1>7, <3>1
  <2> QED BY <2>1, <2>2
<1>8. Queued'
  BY <1>5, <1>6 DEF Queued, Ordered
<1>9. Moves
  BY <1>3, <1>7 DEF Moves, Before
<1> QED BY <1>8, <1>9

\* A request being routed stands before all that waits, but for a model control
\* let out of an open compaction.
LetOut(n) ==
  /\ ControlsOpen
  /\ \A k \in DOMAIN deferred' :
       deferred'[k].n < n => deferred'[k].kind \notin {"attach", "new"} \cup LineKinds

LEMMA TakenOrder ==
  ASSUME TypeOK, Queued, NothingStranded, NEW kinds, NEW r \in Offered(kinds),
         Taken(r) \/ \E what : Answered(r, what)
  PROVE  /\ Shortened /\ r \in Request /\ r.kind \in kinds /\ r.n <= submitted'
         /\ r.kind \notin ModelControls => Before(deferred', r.n)
         /\ Before(deferred', r.n) \/ LetOut(r.n)
<1>1. deferred \in Seq(Request) /\ submitted \in Nat /\ DOMAIN deferred = 1..Len(deferred)
  BY DEF TypeOK
<1>2. CASE ~draining
  <2>1. deferred' = <<>>
    BY <1>2, RoutedAtOnce
  <2>2. /\ deferred' = deferred /\ submitted' = submitted + 1 /\ r.n = submitted'
        /\ submitted < MaxRequests
    BY <1>2 DEF Taken, Answered
  <2>3. r \in Request /\ r.kind \in kinds
    BY <2>2, OfferedType
  <2>4. Before(deferred', r.n)
    BY <2>1 DEF Before
  <2>5. Shortened
    BY <2>2 DEF Shortened
  <2>6. r.n <= submitted'
    BY <1>1, <2>2
  <2> QED BY <2>3, <2>4, <2>5, <2>6
<1>3. CASE draining
  <2>1. submitted' = submitted
    BY <1>3 DEF Taken, Answered
  <2>2. PICK i \in Drainable : r = deferred[i] /\ deferred' = RemoveAt(deferred, i)
    BY <1>3 DEF Taken, Answered
  <2>3. i \in DOMAIN deferred /\ i \in 1..Len(deferred)
    BY <1>1, <2>2 DEF Drainable, ReadyControls
  <2>4. r \in Range(deferred)
    BY <2>2, <2>3 DEF Range
  <2>5. r \in Request /\ r.kind \in kinds
    BY <2>4, OfferedType
  <2>6. Shortened
    BY <2>1, <2>2, <2>3 DEF Shortened
  <2>7. r.n <= submitted'
    <3>1. r.n \in 1..submitted
      BY <2>2, <2>3 DEF Queued
    <3> QED BY <1>1, <2>1, <3>1
  <2>8. Ordered(deferred)
    BY DEF Queued
  <2>9. \A k \in DOMAIN deferred' :
           \E m \in DOMAIN deferred : /\ m # i /\ deferred'[k] = deferred[m]
    BY <1>1, <2>2, <2>3, <2>8, RemovedOrder
  <2>10. CASE compaction.stage = "none"
    <3>1. i = 1
      BY <2>2, <2>10 DEF Drainable
    <3>2. ASSUME NEW k \in DOMAIN deferred'
          PROVE  r.n < deferred'[k].n
      <4>1. PICK m \in DOMAIN deferred : m # i /\ deferred'[k] = deferred[m]
        BY <2>9
      <4>2. i < m
        BY <1>1, <3>1, <4>1
      <4> QED BY <2>2, <2>3, <2>8, <4>1, <4>2 DEF Ordered
    <3> QED BY <2>5, <2>6, <2>7, <3>2 DEF Before
  <2>11. CASE compaction.stage # "none"
    <3>1. /\ ControlsOpen /\ deferred[i].kind \in ModelControls
          /\ \A j \in 1..(i - 1) :
               deferred[j].kind \notin {"attach", "new"} \cup LineKinds
      BY <2>2, <2>11 DEF Drainable, ReadyControls
    <3>2. ASSUME NEW k \in DOMAIN deferred', deferred'[k].n < r.n
          PROVE  deferred'[k].kind \notin {"attach", "new"} \cup LineKinds
      <4>1. PICK m \in DOMAIN deferred : m # i /\ deferred'[k] = deferred[m]
        BY <2>9
      <4>2. deferred[m].n < deferred[i].n /\ deferred[m].n \in Nat /\ deferred[i].n \in Nat
        <5>1. deferred[m] \in Request /\ deferred[i] \in Request
          BY <1>1, <2>3, <4>1
        <5> QED BY <2>2, <3>2, <4>1, <5>1 DEF Request
      <4>3. ~(i < m)
        BY <2>3, <2>8, <4>1, <4>2 DEF Ordered
      <4>4. m \in 1..(i - 1)
        BY <1>1, <2>3, <4>1, <4>3
      <4> QED BY <3>1, <4>1, <4>4
    <3>3. LetOut(r.n)
      BY <3>1, <3>2 DEF LetOut
    <3>4. r.kind \in ModelControls
      BY <2>2, <3>1
    <3> QED BY <2>5, <2>6, <2>7, <3>3, <3>4
  <2> QED BY <2>10, <2>11
<1> QED BY <1>2, <1>3

-----------------------------------------------------------------------------
(* The commands sent, in the order of the requests *)

\* The commands a new session is made of: the last brings its first prompt.
Founding == {"new", "new-model", "new-thinking", "new-state"}
\* The commands NoOvertake is about.
Leading  == Bodies \cup {"new", "resume-switch", "prompt-state", "model"}

\* A command may be sent now for the request n.
Timely(kind, n) ==
  /\ kind \in Founding => n <= submitted' /\ Before(deferred', n)
  /\ kind \in Leading => Before(deferred', n) \/ (kind = "model" /\ LetOut(n))

\* Each command is one that was there, with the same request, or the new one.
Orderly ==
  /\ nextId' \in Nat /\ nextId <= nextId'
  /\ \A c \in inflight' :
       \/ \E d \in inflight : d.id = c.id /\ d.kind = c.kind /\ d.req = c.req
       \/ c.id = nextId /\ nextId' = nextId + 1 /\ Timely(c.kind, c.req.n)

\* A new session under way was asked for before all that waits.
Founded ==
  \A c \in inflight :
    /\ c.id < nextId
    /\ c.kind \in Founding => c.req.n <= submitted /\ Before(deferred, c.req.n)

OrderIInv == Queued /\ Founded

\* Every other command leaves at any time.
LEMMA AnyTime ==
  ASSUME NEW kind, NEW n, kind \notin Founding \cup Leading
  PROVE  Timely(kind, n)
BY DEF Timely

LEMMA SendOrder ==
  ASSUME TypeOK, NEW kind, NEW r, NEW to, Send(kind, r, to), Timely(kind, r.n)
  PROVE  Orderly
<1>1. nextId' = nextId + 1 /\ nextId \in Nat
  BY DEF Send, TypeOK
<1>2. ASSUME NEW c \in inflight', c \notin inflight
      PROVE  c.id = nextId /\ Timely(c.kind, c.req.n)
  <2>1. c = Command(nextId, kind, r, to)
    BY <1>2 DEF Send
  <2>2. c.id = nextId /\ c.kind = kind /\ c.req = r
    BY <2>1 DEF Command
  <2> QED BY <2>2
<1> QED BY <1>1, <1>2 DEF Orderly

LEMMA FollowOrder ==
  ASSUME TypeOK, NEW c, NEW kind, NEW to, Follow(c, kind, to), Timely(kind, c.req.n)
  PROVE  Orderly
<1>1. nextId' = nextId + 1 /\ nextId \in Nat
  BY DEF Follow, TypeOK
<1>2. ASSUME NEW e \in inflight', e \notin inflight
      PROVE  e.id = nextId /\ Timely(e.kind, e.req.n)
  <2>1. e = Command(nextId, kind, c.req, to)
    BY <1>2 DEF Follow
  <2>2. e.id = nextId /\ e.kind = kind /\ e.req = c.req
    BY <2>1 DEF Command
  <2> QED BY <2>2
<1> QED BY <1>1, <1>2 DEF Orderly

LEMMA FewerOrder ==
  ASSUME TypeOK, inflight' \subseteq inflight, nextId' \in {nextId, nextId + 1}
  PROVE  Orderly
<1>1. nextId \in Nat
  BY DEF TypeOK
<1>2. nextId' \in Nat /\ nextId <= nextId'
  BY <1>1
<1> QED BY <1>2 DEF Orderly

LEMMA DoneOrder ==
  ASSUME TypeOK, NEW c \in inflight, UNCHANGED nextId,
         inflight' = (inflight \ {c}) \cup {[c EXCEPT !.done = TRUE]}
  PROVE  Orderly
<1>1. nextId \in Nat
  BY DEF TypeOK
<1>2. c \in CommandType
  BY DEF TypeOK
<1> DEFINE d == [c EXCEPT !.done = TRUE]
<1>3. d.id = c.id /\ d.kind = c.kind /\ d.req = c.req
  BY <1>2 DEF CommandType
<1>4. \A e \in inflight' : e \in inflight \/ e = d
  OBVIOUS
<1> HIDE DEF d
<1>5. ASSUME NEW e \in inflight'
      PROVE  \E x \in inflight : x.id = e.id /\ x.kind = e.kind /\ x.req = e.req
  <2>1. CASE e \in inflight
    BY <2>1
  <2>2. CASE e = d
    BY <1>3, <2>2
  <2> QED BY <1>4, <2>1, <2>2
<1>6. nextId' \in Nat /\ nextId <= nextId'
  BY <1>1
<1> QED BY <1>5, <1>6 DEF Orderly

LEMMA FoundedKept ==
  ASSUME TypeOK, TypeOK', Founded, Moves, Orderly
  PROVE  Founded'
<1>1. nextId \in Nat /\ nextId' \in Nat /\ nextId <= nextId' /\ submitted \in Nat
      /\ submitted' \in Nat /\ submitted <= submitted'
  BY DEF TypeOK, Orderly, Moves
<1>2. ASSUME NEW c \in inflight'
      PROVE  /\ c.id < nextId'
             /\ c.kind \in Founding => c.req.n <= submitted' /\ Before(deferred', c.req.n)
  <2>1. CASE \E d \in inflight : d.id = c.id /\ d.kind = c.kind /\ d.req = c.req
    <3>1. PICK d \in inflight : d.id = c.id /\ d.kind = c.kind /\ d.req = c.req
      BY <2>1
    <3>2. c.id < nextId /\ c.id \in Nat /\ c.req.n \in Nat
      <4>1. d \in CommandType /\ d.id < nextId
        BY <3>1 DEF TypeOK, Founded
      <4>2. d.id \in Nat /\ d.req.n \in Nat
        BY <4>1 DEF CommandType, Request
      <4> QED BY <3>1, <4>1, <4>2
    <3>3. c.id < nextId'
      BY <1>1, <3>2
    <3>4. ASSUME c.kind \in Founding
          PROVE  c.req.n <= submitted' /\ Before(deferred', c.req.n)
      <4>1. c.req.n <= submitted /\ Before(deferred, c.req.n)
        BY <3>1, <3>4 DEF Founded
      <4>2. c.req.n <= submitted'
        BY <1>1, <3>2, <4>1
      <4> QED BY <3>2, <4>1, <4>2 DEF Moves
    <3> QED BY <3>3, <3>4
  <2>2. CASE c.id = nextId /\ nextId' = nextId + 1 /\ Timely(c.kind, c.req.n)
    BY <1>1, <2>2 DEF Timely
  <2> QED BY <2>1, <2>2 DEF Orderly
<1> QED BY <1>2 DEF Founded

\* What NoOvertake forbids of one step.
Overtakes ==
  \E c \in {x \in Sent : x.kind \in Leading} :
    ~Before(deferred', c.req.n) /\ ~(c.kind = "model" /\ LetOut(c.req.n))

LEMMA NothingOvertakes ==
  ASSUME TypeOK, Founded, Orderly
  PROVE  ~Overtakes
<1> SUFFICES ASSUME NEW c \in inflight', c.id >= nextId, c.kind \in Leading
             PROVE  Before(deferred', c.req.n) \/ (c.kind = "model" /\ LetOut(c.req.n))
  BY DEF Overtakes, Sent
<1>1. ASSUME NEW d \in inflight
      PROVE  d.id # c.id
  <2>1. d.id < nextId /\ d.id \in Nat /\ nextId \in Nat
    BY DEF TypeOK, Founded, CommandType
  <2> QED BY <2>1
<1>2. Timely(c.kind, c.req.n)
  BY <1>1 DEF Orderly
<1> QED BY <1>2 DEF Timely

LEMMA KindsApart ==
  /\ Leading = {"prompt", "command", "asap", "branch-prompt", "new", "resume-switch",
                "prompt-state", "model"}
  /\ ModelControls = {"model", "modelEffort", "modelGet"}
BY DEF Leading, Bodies, ModelControls

\* A routed request leaves before what waits ...
LEMMA RouteOrder ==
  ASSUME TypeOK, Queued, NothingStranded, Route
  PROVE  Shortened /\ Orderly
<1> USE KindsApart
<1>1. CASE RouteInput
  <2>1. PICK r \in Offered({"input"}) : RouteInput!(r)
    BY <1>1 DEF RouteInput
  <2>2. Shortened /\ r.kind = "input" /\ r.n <= submitted' /\ Before(deferred', r.n)
    BY <2>1, TakenOrder
  <2>3. Timely("prompt", r.n)
    BY <2>2 DEF Timely, Founding
  <2>4. Orderly
    BY <2>1, <2>3, SendOrder, FewerOrder
  <2> QED BY <2>2, <2>4
<1>2. CASE RouteCommand
  <2>1. PICK r \in Offered({"command", "skill"}) : RouteCommand!(r)
    BY <1>2 DEF RouteCommand
  <2>2. Shortened /\ r.kind \in {"command", "skill"} /\ Before(deferred', r.n)
    BY <2>1, TakenOrder
  <2>3. Timely("command", r.n)
    BY <2>2 DEF Timely, Founding
  <2>4. Orderly
    BY <2>1, <2>3, SendOrder, FewerOrder
  <2> QED BY <2>2, <2>4
<1>3. CASE RouteQueueOp
  <2>1. PICK r \in Offered({"steer", "clear"}) : RouteQueueOp!(r)
    BY <1>3 DEF RouteQueueOp
  <2>2. Shortened /\ r.kind \in {"steer", "clear"} /\ Before(deferred', r.n)
    BY <2>1, TakenOrder
  <2>3. Timely("asap", r.n)
    BY <2>2 DEF Timely, Founding
  <2> QED BY <2>1, <2>2, <2>3, SendOrder
<1>4. CASE RouteNew
  <2>1. PICK r \in Offered({"new"}) : RouteNew!(r)
    BY <1>4 DEF RouteNew
  <2>2. Shortened /\ r.kind = "new" /\ r.n <= submitted' /\ Before(deferred', r.n)
    BY <2>1, TakenOrder
  <2>3. Timely("new", r.n)
    BY <2>2 DEF Timely
  <2> QED BY <2>1, <2>2, <2>3, SendOrder
<1>5. CASE RouteAttach
  <2>1. PICK r \in Offered({"attach"}) : RouteAttach!(r)
    BY <1>5 DEF RouteAttach
  <2>2. Shortened /\ r.kind = "attach" /\ Before(deferred', r.n)
    BY <2>1, TakenOrder
  <2>3. Timely("resume-switch", r.n)
    BY <2>2 DEF Timely, Founding
  <2> QED BY <2>1, <2>2, <2>3, SendOrder
<1>6. CASE RouteModel
  <2>1. PICK r \in Offered({"model", "modelEffort"}) : RouteModel!(r)
    BY <1>6 DEF RouteModel
  <2>2. Shortened /\ (Before(deferred', r.n) \/ LetOut(r.n))
    BY <2>1, TakenOrder
  <2>3. Timely("model", r.n)
    BY <2>2 DEF Timely, Founding
  <2> QED BY <2>1, <2>2, <2>3, SendOrder
<1>7. CASE RouteRead
  <2>1. PICK r \in Offered({"modelGet", "ping"}) : RouteRead!(r)
    BY <1>7 DEF RouteRead
  <2>2. Timely("state", r.n)
    BY AnyTime DEF Founding
  <2> QED BY <2>1, <2>2, TakenOrder, SendOrder, FewerOrder
<1>8. CASE RouteCapture
  <2>1. PICK r \in Offered({"capture"}) : RouteCapture!(r)
    BY <1>8 DEF RouteCapture
  <2>2. Shortened /\ r.kind = "capture" /\ Before(deferred', r.n)
    BY <2>1, TakenOrder
  <2>3. Timely("prompt-state", r.n)
    BY <2>2 DEF Timely, Founding
  <2> QED BY <2>1, <2>2, <2>3, SendOrder
<1>9. CASE RouteCompact
  <2>1. PICK r \in Offered({"compact"}), target \in Models \cup {None} : RouteCompact!(r)!(target)
    BY <1>9 DEF RouteCompact
  <2>2. Timely("plain-compact", r.n) /\ Timely("abort", r.n)
    BY AnyTime DEF Founding
  <2> QED BY <2>1, <2>2, TakenOrder, SendOrder
<1>10. CASE RouteFork
  <2>1. PICK r \in Offered({"fork"}), stage \in {"messages", "replace"}, message \in BOOLEAN :
          RouteFork!(r)!(stage, message)
    BY <1>10 DEF RouteFork
  <2>2. Timely("branch-messages", r.n) /\ Timely("branch-replace", r.n)
    BY AnyTime DEF Founding
  <2> QED BY <2>1, <2>2, TakenOrder, SendOrder
<1>11. CASE RouteReload
  <2>1. PICK r \in Offered({"reload"}) : RouteReload!(r)
    BY <1>11 DEF RouteReload
  <2>2. Timely("reload", r.n)
    BY AnyTime DEF Founding
  <2> QED BY <2>1, <2>2, TakenOrder, SendOrder
<1>12. CASE RouteBusy
  <2>1. PICK r \in Offered({"fork", "reload"}) : Answered(r, "error")
    BY <1>12 DEF RouteBusy
  <2>2. inflight' = inflight /\ nextId' = nextId
    BY <2>1 DEF Answered
  <2> QED BY <2>1, <2>2, TakenOrder, FewerOrder
<1> QED
  BY <1>1, <1>2, <1>3, <1>4, <1>5, <1>6, <1>7, <1>8, <1>9, <1>10, <1>11, <1>12 DEF Route

\* ... an answer is followed by commands of the same request ...
LEMMA ContinueOrder ==
  ASSUME TypeOK, NEW c, NEW p, p.stage \notin Founding \cup Leading, Continue(c, p)
  PROVE  Orderly
BY AnyTime, FollowOrder DEF Continue

LEMMA RestoreOrder ==
  ASSUME TypeOK, NEW c \in inflight, NEW p \in CompactionType, RestoreOrWait(c, p)
  PROVE  Orderly
<1>1. CASE Consume(c)
  BY <1>1, FewerOrder DEF Consume
<1>2. CASE Continue(c, [p EXCEPT !.stage = "restore-model", !.open = FALSE])
  <2> DEFINE q == [p EXCEPT !.stage = "restore-model", !.open = FALSE]
  <2>1. q.stage = "restore-model"
    BY DEF CompactionType
  <2>2. Continue(c, q)
    BY <1>2
  <2> HIDE DEF q
  <2>3. q.stage \notin Founding \cup Leading
    BY <2>1, KindsApart DEF Founding
  <2> QED BY <2>2, <2>3, ContinueOrder
<1> QED BY <1>1, <1>2 DEF RestoreOrWait

LEMMA EndSelectionOrder ==
  ASSUME TypeOK, NEW c \in inflight, NEW route \in Routes, EndSelection(c, route)
  PROVE  Orderly
<1> DEFINE p == [compaction EXCEPT !.selection = NoSelection, !.route = route]
<1>1. p \in CompactionType
  BY DEF TypeOK, CompactionType, NoSelection, Routes
<1> QED BY <1>1, RestoreOrder, FewerOrder DEF EndSelection, Consume

LEMMA CompactionOrder ==
  ASSUME TypeOK, CompactionStep
  PROVE  Orderly
<1> USE KindsApart DEF Founding
<1>1. PICK c \in inflight : CompactionStep!(c)
  BY DEF CompactionStep
<1>2. compaction \in CompactionType
  BY DEF TypeOK
<1>3. ASSUME NEW p \in CompactionType, NEW s, s \notin Founding \cup Leading,
             Continue(c, [p EXCEPT !.stage = s])
      PROVE  Orderly
  <2>1. [p EXCEPT !.stage = s].stage = s
    BY DEF CompactionType
  <2> QED BY <1>3, <2>1, ContinueOrder
<1>4. ASSUME Continue(c, [compaction EXCEPT !.stage = "select", !.route = piModel])
      PROVE  Orderly
  <2> DEFINE q == [compaction EXCEPT !.stage = "select", !.route = piModel]
  <2>1. q.stage = "select"
    BY <1>2 DEF CompactionType
  <2>2. Continue(c, q)
    BY <1>4
  <2> HIDE DEF q
  <2> QED BY <2>1, <2>2, ContinueOrder
<1>5. ASSUME RestoreOrWait(c, [compaction EXCEPT !.finished = TRUE])
      PROVE  Orderly
  <2>1. [compaction EXCEPT !.finished = TRUE] \in CompactionType
    BY <1>2 DEF CompactionType
  <2> QED BY <1>5, <2>1, RestoreOrder
<1> QED BY <1>1, <1>2, <1>3, <1>4, <1>5

LEMMA ChainOrder ==
  ASSUME TypeOK, OrderIInv, ChainStep
  PROVE  Orderly
<1>1. PICK c \in inflight : ChainStep!(c)
  BY DEF ChainStep
<1>2. PICK next \in NextSteps(c) : Follow(c, next, c.to)
  BY <1>1
<1>3. deferred' = deferred /\ submitted' = submitted
  BY <1>1
<1>4. next \in Founding => c.kind \in Founding
  BY <1>1 DEF NextSteps, Founding
<1>5. next \notin Leading
  BY KindsApart DEF NextSteps
<1>6. Timely(next, c.req.n)
  BY <1>3, <1>4, <1>5 DEF Timely, OrderIInv, Founded
<1> QED BY <1>2, <1>6, FollowOrder

\* ... and the first prompt of a new session belongs to a request of long ago.
LEMMA NewStateOrder ==
  ASSUME TypeOK, OrderIInv, NewStateReply
  PROVE  Orderly
<1>1. PICK c \in inflight, skill \in {FALSE, "skill" \in Kinds} : NewStateReply!(c)!(skill)
  BY DEF NewStateReply
<1>2. deferred' = deferred /\ submitted' = submitted /\ c.kind \in Founding
  BY <1>1 DEF Founding
<1>3. Timely("prompt", c.req.n)
  BY <1>2 DEF Timely, Founding, OrderIInv, Founded
<1>4. Consume(c) \/ Follow(c, "prompt", None)
  BY <1>1
<1> QED BY <1>3, <1>4, FollowOrder, FewerOrder DEF Consume

LEMMA BranchOrder ==
  ASSUME TypeOK, NothingBehindFork, BranchStep
  PROVE  Orderly
<1>1. PICK c \in inflight : BranchStep!(c)
  BY DEF BranchStep
<1>2. deferred' = <<>>
  BY <1>1 DEF BranchOpen, NothingBehindFork
<1>3. \A kind \in {"branch-models", "branch-commands", "branch-prompt"} : Timely(kind, c.req.n)
  BY <1>2 DEF Timely, Before, Founding
<1>4. \/ Consume(c)
      \/ \E kind \in {"branch-models", "branch-commands", "branch-prompt"} : Follow(c, kind, None)
  BY <1>1 DEF BranchNext, BranchEnd
<1> QED BY <1>3, <1>4, FollowOrder, FewerOrder DEF Consume

\* A response leaves the queue or, failing, empties it, and sends what may be sent.
LEMMA RespondOrder ==
  ASSUME TypeOK, NothingBehindFork, OrderIInv, Respond
  PROVE  Shortened /\ Orderly
<1> USE KindsApart
<1>1. Shortened
  <2>1. deferred' \in {deferred, <<>>} /\ submitted' = submitted
    <3>1. CASE BranchMessages \/ BranchReplaced \/ BranchCancelled \/ BranchState \/ BranchStep
                 \/ BranchFailed \/ BranchStale \/ BranchAborted
      BY <3>1, RespondKeepsQueue
      DEF BranchMessages, BranchReplaced, BranchCancelled, BranchState, BranchStep, BranchFailed,
          BranchStale, BranchAborted
    <3>2. CASE Respond /\ ~(BranchMessages \/ BranchReplaced \/ BranchCancelled \/ BranchState
                 \/ BranchStep \/ BranchFailed \/ BranchStale \/ BranchAborted)
      BY <3>2, RespondKeepsQueue
      DEF Respond, InterruptAborted, InterruptReleased, InterruptReplaced, PromptStateReply,
          QueueReply, PromptReplyStale, PromptAdmitted, PromptRefused, StateReplyStale, StateReply,
          ResumeReply, NewCancelled, ChainStep, NewStateReply, CompactionDropped, CompactionStep,
          CompactionFailed, CompactionVerified, SelectionConfirm, RequestFailed, PlainCompacted,
          ReloadStep, ReloadReply
    <3> QED BY <3>1, <3>2
  <2> QED BY <2>1 DEF Shortened, TypeOK
<1>2. CASE InterruptReleased \/ InterruptReplaced \/ PromptStateReply \/ QueueReply
             \/ PromptReplyStale \/ PromptRefused \/ StateReplyStale \/ NewCancelled
             \/ CompactionDropped \/ CompactionFailed \/ CompactionVerified \/ PlainCompacted
             \/ BranchCancelled \/ BranchFailed \/ BranchStale \/ ReloadReply
  <2>1. \E c \in inflight : Consume(c)
    BY <1>2
    DEF InterruptReleased, InterruptReplaced, PromptStateReply, QueueReply, PromptReplyStale,
        PromptRefused, StateReplyStale, NewCancelled, CompactionDropped, CompactionFailed,
        CompactionVerified, PlainCompacted, BranchCancelled, BranchFailed, BranchEnd, BranchStale,
        ReloadReply
  <2> QED BY <1>1, <2>1, FewerOrder DEF Consume
<1>3. CASE InterruptAborted \/ PromptAdmitted \/ StateReply \/ ResumeReply \/ BranchMessages
             \/ BranchReplaced \/ BranchState \/ BranchAborted \/ ReloadStep
  <2>1. \E c \in inflight :
          \/ inflight' \subseteq inflight /\ nextId' \in {nextId, nextId + 1}
          \/ \E kind \in CommandKinds \ (Founding \cup Leading) : Follow(c, kind, None)
    <3>1. CASE InterruptAborted \/ ResumeReply \/ BranchReplaced \/ BranchState \/ BranchAborted
      BY <3>1, KindFacts
      DEF InterruptAborted, ResumeReply, BranchReplaced, BranchState, BranchAborted,
          BranchNext, BranchEnd, Consume, Founding
    <3>2. CASE PromptAdmitted
      BY <3>2, KindFacts DEF PromptAdmitted, Consume, Founding
    <3>3. CASE StateReply
      BY <3>3, KindFacts DEF StateReply, Consume, Founding
    <3>4. CASE BranchMessages
      BY <3>4 DEF BranchMessages, BranchEnd, Consume
    <3>5. CASE ReloadStep
      <4>1. PICK c \in inflight : Follow(c, ReloadNext(c), None)
        BY <3>5 DEF ReloadStep
      <4>2. ReloadNext(c) \in CommandKinds \ (Founding \cup Leading)
        BY KindFacts DEF ReloadNext, Founding
      <4> QED BY <4>1, <4>2
    <3> QED BY <1>3, <3>1, <3>2, <3>3, <3>4, <3>5
  <2> QED BY <1>1, <2>1, AnyTime, FollowOrder, FewerOrder
<1>4. CASE SelectionConfirm
  <2>1. PICK c \in inflight : EndSelection(c, piModel)
    BY <1>4 DEF SelectionConfirm
  <2> QED BY <1>1, <2>1, EndSelectionOrder DEF TypeOK
<1>5. CASE RequestFailed
  <2>1. PICK c \in inflight : EndSelection(c, compaction.route) \/ Consume(c)
    BY <1>5 DEF RequestFailed
  <2>2. compaction.route \in Routes
    BY DEF TypeOK, CompactionType
  <2> QED BY <1>1, <2>1, <2>2, EndSelectionOrder, FewerOrder DEF Consume
<1> QED
  BY <1>1, <1>2, <1>3, <1>4, <1>5, CompactionOrder, ChainOrder, NewStateOrder, BranchOrder
  DEF Respond

LEMMA OrderlyStep ==
  ASSUME TypeOK, NothingBehindFork, NothingStranded, OrderIInv, [Next]_vars
  PROVE  (Shortened \/ Lengthened) /\ Orderly
<1> USE KindsApart
<1>1. CASE Route
  BY <1>1, RouteOrder DEF OrderIInv
<1>2. CASE Respond
  BY <1>2, RespondOrder
<1>3. CASE Defer
  <2>1. PICK r \in Offered(Gated) : Defer!(r)
    BY <1>3 DEF Defer
  <2>2. r \in Request /\ r.kind \in Gated
    BY <2>1, OfferedType
  <2>3. Orderly
    BY <2>1, FewerOrder
  <2>4. CASE Len(deferred) < MaxDeferred
    BY <2>1, <2>2, <2>3, <2>4 DEF Lengthened, Enqueued
  <2>5. CASE ~(Len(deferred) < MaxDeferred)
    BY <2>1, <2>3, <2>5 DEF Shortened
  <2> QED BY <2>4, <2>5
<1>4. CASE Refuse
  BY <1>4, FewerOrder DEF Refuse, Shortened
<1>5. CASE Interrupt \/ InterruptBranch
  <2>1. PICK r \in Offered({"interrupt"}) : Interrupt!(r) \/ InterruptBranch!(r)
    BY <1>5 DEF Interrupt, InterruptBranch
  <2>2. r.n = submitted + 1
    <3>1. r \notin Range(deferred)
      <4>1. ASSUME r \in Range(deferred) PROVE FALSE
        <5>1. PICK k \in DOMAIN deferred : r = deferred[k]
          BY <4>1 DEF Range
        <5>2. r.kind \in Gated
          BY <5>1 DEF OrderIInv, Queued
        <5>3. r.kind = "interrupt"
          BY <2>1, <4>1, OfferedType
        <5> QED BY <5>2, <5>3 DEF Gated, PromptKinds, ModelControls, LineKinds
      <4> QED BY <4>1
    <3> QED BY <3>1 DEF Offered
  <2>3. Shortened
    BY <2>1, <2>2 DEF Shortened
  <2>4. Timely("interrupt-abort", r.n) /\ Timely("branch-abort", r.n)
    BY AnyTime DEF Founding
  <2> QED BY <2>1, <2>3, <2>4, SendOrder, FewerOrder
<1>6. CASE Choose
  <2>1. Shortened
    BY <1>6 DEF Choose, Shortened
  <2>2. Timely("branch-replace", branch.n)
    BY AnyTime DEF Founding
  <2>3. CASE Send("branch-replace", [n |-> branch.n, kind |-> "fork", to |-> None], None)
    BY <2>1, <2>2, <2>3, SendOrder
  <2>4. CASE UNCHANGED <<nextId, inflight>>
    BY <2>1, <2>4, FewerOrder
  <2> QED BY <1>6, <2>3, <2>4 DEF Choose
<1>7. CASE PiAgentStart
  BY <1>7, FewerOrder DEF PiAgentStart, Shortened
<1>8. CASE PiApply \/ PiCompactionStart
  <2>1. Shortened
    BY <1>8 DEF PiApply, PiCompactionStart, Shortened
  <2>2. \E c \in inflight : /\ inflight' = (inflight \ {c}) \cup {[c EXCEPT !.done = TRUE]}
                            /\ UNCHANGED nextId
    BY <1>8 DEF PiApply, PiCompactionStart
  <2> QED BY <2>1, <2>2, DoneOrder
<1>9. CASE UNCHANGED vars
  BY <1>9, FewerOrder DEF vars, Shortened
<1> QED
  BY <1>1, <1>2, <1>3, <1>4, <1>5, <1>6, <1>7, <1>8, <1>9 DEF Next, Pi

LEMMA OrderStep ==
  ASSUME TypeOK, TypeOK', NothingBehindFork, NothingStranded, OrderIInv, [Next]_vars
  PROVE  OrderIInv' /\ ~Overtakes
<1>1. (Shortened \/ Lengthened) /\ Orderly
  BY OrderlyStep
<1>2. Queued' /\ Moves
  BY <1>1, ShortenedOrder, LengthenedOrder DEF OrderIInv
<1>3. Founded' /\ ~Overtakes
  BY <1>1, <1>2, FoundedKept, NothingOvertakes DEF OrderIInv
<1> QED BY <1>2, <1>3 DEF OrderIInv

LEMMA OrderInit == Init => OrderIInv
<1> SUFFICES ASSUME Init PROVE OrderIInv
  OBVIOUS
<1>1. Queued
  BY DEF Init, Queued, Ordered
<1>2. ASSUME NEW c \in inflight
      PROVE  c.id < nextId /\ c.kind \notin Founding
  <2>1. c = Command(1, "state", StartupRequest, None) /\ nextId = 2
    BY DEF Init
  <2>2. c.id = 1 /\ c.kind = "state"
    BY <2>1 DEF Command
  <2> QED BY <2>1, <2>2 DEF Founding
<1> QED BY <1>1, <1>2 DEF OrderIInv, Founded

LEMMA OrderShown ==
  ASSUME OrderIInv
  PROVE  InOrder
BY DEF OrderIInv, Queued, Ordered, InOrder

LEMMA OvertakeShown ==
  ASSUME ~Overtakes
  PROVE  [\A c \in {x \in Sent :
                     x.kind \in Bodies \cup {"new", "resume-switch", "prompt-state", "model"}} :
            \/ \A i \in DOMAIN deferred' : c.req.n < deferred'[i].n
            \/ /\ c.kind = "model" /\ ControlsOpen
               /\ \A i \in DOMAIN deferred' : deferred'[i].n < c.req.n =>
                     deferred'[i].kind \notin {"attach", "new"} \cup LineKinds]_vars
<1>1. ASSUME NEW c \in Sent, c.kind \in Bodies \cup {"new", "resume-switch", "prompt-state", "model"}
      PROVE  Before(deferred', c.req.n) \/ (c.kind = "model" /\ LetOut(c.req.n))
  BY <1>1 DEF Overtakes, Leading
<1> QED BY <1>1 DEF Before, LetOut

\* Requests wait, and leave, in the order they were made, whatever the frontend
\* asks for, however often the gate shuts and opens, and whatever Pi answers: only
\* a model control that an open compaction lets through goes before others, and
\* never before a new session, an attach or a command.
THEOREM OrderKeptHolds == Spec => OrderKept
<1>1. TypeOK /\ NothingBehindFork /\ NothingStranded /\ OrderIInv /\ [Next]_vars
        => (TypeOK /\ NothingBehindFork /\ NothingStranded /\ OrderIInv)'
  BY TypeStep, AloneStep, StrandedStep, OrderStep
<1>2. TypeOK /\ NothingBehindFork /\ NothingStranded /\ OrderIInv /\ [Next]_vars
        => [\A c \in {x \in Sent :
                     x.kind \in Bodies \cup {"new", "resume-switch", "prompt-state", "model"}} :
              \/ \A i \in DOMAIN deferred' : c.req.n < deferred'[i].n
              \/ /\ c.kind = "model" /\ ControlsOpen
                 /\ \A i \in DOMAIN deferred' : deferred'[i].n < c.req.n =>
                       deferred'[i].kind \notin {"attach", "new"} \cup LineKinds]_vars
  BY TypeStep, OrderStep, OvertakeShown
<1>3. OrderIInv => InOrder
  BY OrderShown
<1>4. Init => TypeOK /\ NothingBehindFork /\ NothingStranded /\ OrderIInv
  BY TypeInit, AloneInit, StrandedInit, OrderInit
<1> QED BY <1>1, <1>2, <1>3, <1>4, PTL DEF Spec, OrderKept, NoOvertake

-----------------------------------------------------------------------------
(* What the frontend is told of each request *)

\* Short sequences extended, and (below) joined, element by element.
LEMMA Appended ==
  ASSUME NEW a, NEW b, NEW c
  PROVE  /\ Append(<<>>, a) = <<a>>
         /\ Append(<<a>>, b) = <<a, b>>
         /\ Append(<<a, b>>, c) = <<a, b, c>>
<1> DEFINE S == {a, b, c}
<1>1. Append(<<>>, a) = <<a>>
  OBVIOUS
<1>2. Append(<<a>>, b) = <<a, b>>
  <2>1. <<a>> \in Seq(S) /\ Len(<<a>>) = 1
    OBVIOUS
  <2>2. /\ Append(<<a>>, b) \in Seq(S) /\ Len(Append(<<a>>, b)) = 2
        /\ Append(<<a>>, b)[1] = a /\ Append(<<a>>, b)[2] = b
    BY <2>1, AppendProperties
  <2>3. /\ <<a, b>> \in Seq(S) /\ Len(<<a, b>>) = 2
        /\ <<a, b>>[1] = a /\ <<a, b>>[2] = b
    OBVIOUS
  <2>4. \A i \in 1..2 : i = 1 \/ i = 2
    OBVIOUS
  <2> QED BY <2>2, <2>3, <2>4, SeqEqual
<1>3. Append(<<a, b>>, c) = <<a, b, c>>
  <2>1. <<a, b>> \in Seq(S) /\ Len(<<a, b>>) = 2
    OBVIOUS
  <2>2. /\ Append(<<a, b>>, c) \in Seq(S) /\ Len(Append(<<a, b>>, c)) = 3
        /\ Append(<<a, b>>, c)[1] = a /\ Append(<<a, b>>, c)[2] = b /\ Append(<<a, b>>, c)[3] = c
    BY <2>1, AppendProperties
  <2>3. /\ <<a, b, c>> \in Seq(S) /\ Len(<<a, b, c>>) = 3
        /\ <<a, b, c>>[1] = a /\ <<a, b, c>>[2] = b /\ <<a, b, c>>[3] = c
    OBVIOUS
  <2>4. \A i \in 1..3 : i = 1 \/ i = 2 \/ i = 3
    OBVIOUS
  <2> QED BY <2>2, <2>3, <2>4, SeqEqual
<1> QED BY <1>1, <1>2, <1>3

LEMMA Joined ==
  ASSUME NEW a, NEW b
  PROVE  /\ <<a>> \o <<>> = <<a>>
         /\ <<a>> \o <<b>> = <<a, b>>
         /\ <<>> \o <<>> = <<>>
<1> DEFINE S == {a, b}
<1>0. <<a>> \in Seq(S) /\ <<b>> \in Seq(S) /\ <<>> \in Seq(S) /\ Len(<<a>>) = 1 /\ Len(<<b>>) = 1
  OBVIOUS
<1>1. <<a>> \o <<>> = <<a>>
  BY <1>0, ConcatEmptySeq
<1>2. <<a>> \o <<b>> = <<a, b>>
  <2>1. /\ <<a>> \o <<b>> \in Seq(S) /\ Len(<<a>> \o <<b>>) = 2
        /\ (<<a>> \o <<b>>)[1] = a /\ (<<a>> \o <<b>>)[2] = b
    BY <1>0, ConcatProperties
  <2>3. /\ <<a, b>> \in Seq(S) /\ Len(<<a, b>>) = 2
        /\ <<a, b>>[1] = a /\ <<a, b>>[2] = b
    OBVIOUS
  <2>4. \A i \in 1..2 : i = 1 \/ i = 2
    OBVIOUS
  <2> QED BY <2>1, <2>3, <2>4, SeqEqual
<1>3. <<>> \o <<>> = <<>>
  BY <1>0, ConcatEmptySeq
<1> QED BY <1>1, <1>2, <1>3

\* What may still be reported of a request, by the record that remembers it:
\* the request n, what its frontend may have been told so far, and the entry.
Duty(by, n, said, entry) == [by |-> by, n |-> n, said |-> said, entry |-> entry]

Standing(e) ==
  CASE e.counted /\ ~e.failed  -> <<"command">>
    [] e.counted /\ e.failed   -> <<"command", "unconfirmed">>
    [] ~e.counted /\ ~e.failed -> <<>>
    [] OTHER                   -> <<"unsettled">>

QueueDuties(s)     == {Duty("queue", s[i].n, {Asked(s[i].kind)}, s[i]) : i \in DOMAIN s}
AdmissionDuties(A) == {Duty("admission", a.n, {IF a.counted THEN <<"command">> ELSE <<>>}, a) : a \in A}
StateDuties(C)     == {Duty("state", e.n, {Standing(e)}, e) : e \in C}
FoundingDuties(I)  == {Duty("founding", c.req.n, {<<>>}, c.id) : c \in {x \in I : x.kind \in Founding}}
OperationDuties(o) == IF o.id = 0 THEN {} ELSE {Duty("operation", o.n, {<<"steer">>, <<"clear">>}, o.id)}
CaptureDuties(p)   == IF p.id = 0 THEN {} ELSE {Duty("capture", p.n, {<<"capture">>}, p.id)}
BranchDuties(b)    == IF b.stage = "none" THEN {} ELSE {Duty("branch", b.n, {<<"fork">>}, b.n)}
ReloadDuties(r, I) == {Duty("reload", c.req.n, {<<"reload">>}, c.id) : c \in {x \in I : x.id = r}}

Duties ==
  QueueDuties(deferred) \cup AdmissionDuties(admissions) \cup StateDuties(commandStates)
    \cup FoundingDuties(inflight) \cup OperationDuties(queueOp) \cup CaptureDuties(promptState)
    \cup BranchDuties(branch) \cup ReloadDuties(reload, inflight)

\* Every record remembers a request of the frontend, agrees with what it was
\* told of that request, and is alone in remembering it.
Accounted ==
  /\ \A h \in Duties : h.n \in 1..submitted /\ told[h.n] \in h.said
  /\ \A g, h \in Duties : g.n = h.n => g = h

\* An id names one command and one entry; the command of a settlement that
\* failed is gone.
Numbered ==
  /\ \A c, d \in inflight : c.id = d.id => c = d
  /\ \A e, f \in commandStates : e.id = f.id => e = f
  /\ \A e \in commandStates : e.id < nextId /\ (e.failed => \A c \in inflight : c.id # e.id)
  /\ reload < nextId

\* Duty is used through its fields only.
LEMMA DutyFields ==
  ASSUME NEW by, NEW n, NEW said, NEW entry
  PROVE  /\ Duty(by, n, said, entry).by = by
         /\ Duty(by, n, said, entry).n = n
         /\ Duty(by, n, said, entry).said = said
         /\ Duty(by, n, said, entry).entry = entry
BY DEF Duty

\* A step may report on the requests N, and replace records by those in Y.
Passes(N, Y) ==
  /\ submitted' \in Nat /\ submitted <= submitted'
  /\ \A n \in (1..MaxRequests) \ N : told'[n] = told[n]
  /\ \A n \in (1..MaxRequests) \cap N : told'[n] \in LegalOutcomes
  /\ \A h \in Duties' : h \in Y \/ (h \in Duties /\ h.n \notin N)
  /\ \A h \in Y : h.n \in 1..submitted' /\ told'[h.n] \in h.said
  /\ \A h \in Y : \A g \in Duties \cap Duties' : g.n = h.n => g = h
  /\ \A g, h \in Y : g.n = h.n => g = h

\* What a step must show for the records to stay accounted for.
LEMMA DutyStep ==
  ASSUME TypeOK, Accounted, OutcomesLegal, NEW N, NEW Y, Passes(N, Y)
  PROVE  Accounted' /\ OutcomesLegal'
<1> USE DEF Passes
<1>1. submitted \in Nat /\ submitted <= MaxRequests /\ MaxRequests \in Nat
  BY ConstantsAssumption DEF TypeOK
<1>2. ASSUME NEW h \in Duties'
      PROVE  h.n \in 1..submitted' /\ told'[h.n] \in h.said
  <2>1. CASE h \in Y
    BY <2>1
  <2>2. CASE h \notin Y
    <3>1. h \in Duties /\ h.n \notin N
      BY <2>2
    <3>2. h.n \in 1..submitted /\ told[h.n] \in h.said
      BY <3>1 DEF Accounted
    <3>3. h.n \in 1..submitted' /\ h.n \in 1..MaxRequests
      BY <1>1, <3>2
    <3> QED BY <3>1, <3>2, <3>3
  <2> QED BY <2>1, <2>2
<1>3. ASSUME NEW g \in Duties', NEW h \in Duties', g.n = h.n
      PROVE  g = h
  <2>1. CASE g \in Y /\ h \in Y
    BY <1>3, <2>1
  <2>2. CASE g \in Y /\ h \notin Y
    BY <1>3, <2>2
  <2>3. CASE g \notin Y /\ h \in Y
    BY <1>3, <2>3
  <2>4. CASE g \notin Y /\ h \notin Y
    BY <1>3, <2>4 DEF Accounted
  <2> QED BY <2>1, <2>2, <2>3, <2>4
<1>4. OutcomesLegal'
  <2>1. ASSUME NEW n \in 1..MaxRequests
        PROVE  told'[n] \in LegalOutcomes
    BY DEF OutcomesLegal
  <2> QED BY <2>1 DEF OutcomesLegal, LegalOutcomes
<1> QED BY <1>2, <1>3, <1>4 DEF Accounted

\* Nothing is reported: records only go.
LEMMA QuietStep ==
  ASSUME TypeOK, Accounted, OutcomesLegal, UNCHANGED told, submitted' \in {submitted, submitted + 1},
         Duties' \subseteq Duties
  PROVE  Accounted' /\ OutcomesLegal'
<1>1. submitted' \in Nat /\ submitted <= submitted'
  BY DEF TypeOK
<1>2. Passes({}, {})
  BY <1>1 DEF Passes
<1> QED BY <1>2, DutyStep

\* An outcome is reported, and the record of its request goes.
LEMMA TellStep ==
  ASSUME TypeOK, Accounted, OutcomesLegal, submitted' \in Nat, submitted <= submitted',
         NEW g \in Duties, g \notin Duties', Duties' \subseteq Duties, NEW what, Tell(g.n, what),
         \A s \in g.said : Append(s, what) \in LegalOutcomes
  PROVE  Accounted' /\ OutcomesLegal'
<1>1. g.n \in 1..submitted /\ told[g.n] \in g.said
  BY DEF Accounted
<1>2. g.n \in 1..MaxRequests
  BY <1>1, ConstantsAssumption DEF TypeOK
<1>3. told' = [told EXCEPT ![g.n] = Append(told[g.n], what)] /\ told \in [1..MaxRequests -> Seq(Outcomes)]
  BY DEF Tell, TypeOK
<1>4. \A n \in (1..MaxRequests) \ {g.n} : told'[n] = told[n]
  BY <1>2, <1>3
<1>5. told'[g.n] \in LegalOutcomes
  BY <1>1, <1>2, <1>3
<1>6. ASSUME NEW h \in Duties'
      PROVE  h \in Duties /\ h.n \notin {g.n}
  BY DEF Accounted
<1>7. Passes({g.n}, {})
  BY <1>4, <1>5, <1>6 DEF Passes
<1> QED BY <1>7, DutyStep

\* The kind of a record says where it is kept.
LEMMA Keeping ==
  /\ \A s : \A h \in QueueDuties(s) : h.by = "queue"
  /\ \A A : \A h \in AdmissionDuties(A) : h.by = "admission"
  /\ \A C : \A h \in StateDuties(C) : h.by = "state"
  /\ \A I : \A h \in FoundingDuties(I) : h.by = "founding"
  /\ \A o : \A h \in OperationDuties(o) : h.by = "operation"
  /\ \A p : \A h \in CaptureDuties(p) : h.by = "capture"
  /\ \A b : \A h \in BranchDuties(b) : h.by = "branch"
  /\ \A r, I : \A h \in ReloadDuties(r, I) : h.by = "reload"
<1>1. \A s : \A h \in QueueDuties(s) : h.by = "queue"
  <2> SUFFICES ASSUME NEW s, NEW h \in QueueDuties(s) PROVE h.by = "queue"
    OBVIOUS
  <2>1. PICK i \in DOMAIN s : h = Duty("queue", s[i].n, {Asked(s[i].kind)}, s[i])
    BY DEF QueueDuties
  <2> QED BY <2>1, DutyFields
<1>2. \A A : \A h \in AdmissionDuties(A) : h.by = "admission"
  <2> SUFFICES ASSUME NEW A, NEW h \in AdmissionDuties(A) PROVE h.by = "admission"
    OBVIOUS
  <2>1. PICK a \in A : h = Duty("admission", a.n, {IF a.counted THEN <<"command">> ELSE <<>>}, a)
    BY DEF AdmissionDuties
  <2> QED BY <2>1, DutyFields
<1>3. \A C : \A h \in StateDuties(C) : h.by = "state"
  <2> SUFFICES ASSUME NEW C, NEW h \in StateDuties(C) PROVE h.by = "state"
    OBVIOUS
  <2>1. PICK e \in C : h = Duty("state", e.n, {Standing(e)}, e)
    BY DEF StateDuties
  <2> QED BY <2>1, DutyFields
<1>4. \A I : \A h \in FoundingDuties(I) : h.by = "founding"
  BY DutyFields DEF FoundingDuties
<1>5. \A o : \A h \in OperationDuties(o) : h.by = "operation"
  BY DutyFields DEF OperationDuties
<1>6. \A p : \A h \in CaptureDuties(p) : h.by = "capture"
  BY DutyFields DEF CaptureDuties
<1>7. \A b : \A h \in BranchDuties(b) : h.by = "branch"
  BY DutyFields DEF BranchDuties
<1>8. \A r, I : \A h \in ReloadDuties(r, I) : h.by = "reload"
  BY DutyFields DEF ReloadDuties
<1> QED BY <1>1, <1>2, <1>3, <1>4, <1>5, <1>6, <1>7, <1>8

\* So a duty is found where its kind says.
LEMMA Kept ==
  ASSUME NEW h \in Duties
  PROVE  /\ h.by = "queue" => h \in QueueDuties(deferred)
         /\ h.by = "admission" => h \in AdmissionDuties(admissions)
         /\ h.by = "state" => h \in StateDuties(commandStates)
         /\ h.by = "founding" => h \in FoundingDuties(inflight)
         /\ h.by = "operation" => h \in OperationDuties(queueOp)
         /\ h.by = "capture" => h \in CaptureDuties(promptState)
         /\ h.by = "branch" => h \in BranchDuties(branch)
         /\ h.by = "reload" => h \in ReloadDuties(reload, inflight)
BY Keeping DEF Duties

\* What a handler does to the commands in flight: it sends at most one.
Fewer   == inflight' \subseteq inflight /\ nextId' \in {nextId, nextId + 1}
Adds(x) == inflight' \subseteq inflight \cup {x} /\ x.id = nextId /\ nextId' = nextId + 1
Sends   == Fewer \/ \E x : Adds(x)
Tame    == Fewer \/ \E x : Adds(x) /\ x.kind \notin Founding

\* Sending adds at most the one command, under a fresh id.
LEMMA SendAdds ==
  ASSUME NEW kind, NEW r, NEW to, Send(kind, r, to)
  PROVE  /\ Adds(Command(nextId, kind, r, to))
         /\ Command(nextId, kind, r, to).kind = kind
         /\ Command(nextId, kind, r, to).req = r
         /\ kind \notin Founding => Tame
<1> DEFINE x == Command(nextId, kind, r, to)
<1>1. x.id = nextId /\ x.kind = kind /\ x.req = r
  BY DEF Command
<1>2. inflight' \subseteq inflight \cup {x} /\ nextId' = nextId + 1
  BY DEF Send
<1> HIDE DEF x
<1>3. Adds(x)
  BY <1>1, <1>2 DEF Adds
<1>4. kind \notin Founding => Tame
  BY <1>1, <1>3 DEF Tame
<1>5. Adds(x) /\ x.kind = kind /\ x.req = r /\ (kind \notin Founding => Tame)
  BY <1>1, <1>3, <1>4
<1> QED BY <1>5 DEF x

LEMMA FollowAdds ==
  ASSUME NEW c, NEW kind, NEW to, Follow(c, kind, to)
  PROVE  /\ Adds(Command(nextId, kind, c.req, to))
         /\ Command(nextId, kind, c.req, to).kind = kind
         /\ Command(nextId, kind, c.req, to).req = c.req
         /\ kind \notin Founding => Tame
<1> DEFINE x == Command(nextId, kind, c.req, to)
<1>1. x.id = nextId /\ x.kind = kind /\ x.req = c.req
  BY DEF Command
<1>2. inflight' \subseteq inflight \cup {x} /\ nextId' = nextId + 1
  BY DEF Follow
<1> HIDE DEF x
<1>3. Adds(x)
  BY <1>1, <1>2 DEF Adds
<1>4. kind \notin Founding => Tame
  BY <1>1, <1>3 DEF Tame
<1>5. Adds(x) /\ x.kind = kind /\ x.req = c.req /\ (kind \notin Founding => Tame)
  BY <1>1, <1>3, <1>4
<1> QED BY <1>5 DEF x

LEMMA ConsumeFewer ==
  ASSUME NEW c, Consume(c)
  PROVE  Fewer /\ Tame
BY DEF Consume, Fewer, Tame

\* The answered command is gone from then on.
LEMMA AnsweredGone ==
  ASSUME TypeOK, Founded, Numbered, NEW c \in inflight,
         Consume(c) \/ \E kind, to : Follow(c, kind, to)
  PROVE  \A d \in inflight' : d.id # c.id
<1>1. c.id < nextId /\ c.id \in Nat /\ nextId \in Nat
  BY DEF TypeOK, CommandType, Founded
<1>2. CASE Consume(c)
  BY <1>2 DEF Consume, Numbered
<1>3. CASE \E kind, to : Follow(c, kind, to)
  <2>1. PICK kind, to : Follow(c, kind, to)
    BY <1>3
  <2>2. ASSUME NEW d \in inflight', d \notin inflight \ {c}
        PROVE  d.id = nextId
    <3>1. d = Command(nextId, kind, c.req, to)
      BY <2>1, <2>2 DEF Follow
    <3> QED BY <3>1 DEF Command
  <2> QED BY <1>1, <2>2 DEF Numbered
<1> QED BY <1>2, <1>3

\* Ids stay unique while commands go and those sent take fresh ones.
LEMMA Renumbered ==
  ASSUME TypeOK, Founded, Numbered, Sends,
         reload' \in {0, reload} \/ (reload' = nextId /\ nextId' = nextId + 1)
  PROVE  /\ reload' < nextId'
         /\ \A c, d \in inflight' : c.id = d.id => c = d
         /\ \A e \in commandStates : e.id < nextId' /\ (e.failed => \A c \in inflight' : c.id # e.id)
<1>1. nextId \in Nat /\ nextId > 0 /\ reload \in Nat /\ \A e \in commandStates : e.id \in Nat
  BY DEF TypeOK, StateType
<1>2. nextId' \in Nat /\ nextId <= nextId'
  BY <1>1 DEF Sends, Fewer, Adds
<1>3. reload' < nextId'
  BY <1>1, <1>2 DEF Numbered
<1>4. ASSUME NEW e \in commandStates
      PROVE  e.id < nextId'
  <2>1. e.id < nextId /\ e.id \in Nat
    BY <1>1 DEF Numbered
  <2> QED BY <1>1, <1>2, <2>1
<1>5. \A c \in inflight : c.id < nextId /\ c.id \in Nat
  BY DEF TypeOK, CommandType, Founded
<1>6. \A c, d \in inflight' : c.id = d.id => c = d
  <2>1. CASE Fewer
    BY <2>1 DEF Fewer, Numbered
  <2>2. CASE \E x : Adds(x)
    <3>1. PICK x : Adds(x)
      BY <2>2
    <3>2. \A c \in inflight' : c = x \/ c \in inflight
      BY <3>1 DEF Adds
    <3>3. x.id = nextId
      BY <3>1 DEF Adds
    <3>4. \A c \in inflight : c.id # x.id
      BY <1>1, <1>5, <3>3
    <3> QED BY <3>2, <3>4 DEF Numbered
  <2> QED BY <2>1, <2>2 DEF Sends
<1>7. ASSUME NEW e \in commandStates, e.failed, NEW c \in inflight'
      PROVE  c.id # e.id
  <2>1. CASE c \in inflight
    BY <1>7, <2>1 DEF Numbered
  <2>2. CASE c \notin inflight
    <3>1. c.id = nextId
      BY <2>2 DEF Sends, Fewer, Adds
    <3>2. e.id < nextId /\ e.id \in Nat
      BY <1>1 DEF Numbered
    <3> QED BY <1>1, <3>1, <3>2
  <2> QED BY <2>1, <2>2
<1> QED BY <1>3, <1>4, <1>6, <1>7

LEMMA NumberedKept ==
  ASSUME TypeOK, Founded, Numbered, Sends, commandStates' \subseteq commandStates,
         reload' \in {0, reload} \/ (reload' = nextId /\ nextId' = nextId + 1)
  PROVE  Numbered'
<1>1. \A e, f \in commandStates' : e.id = f.id => e = f
  BY DEF Numbered
<1> QED BY <1>1, Renumbered DEF Numbered

-----------------------------------------------------------------------------
(* The records that go *)

\* Taking an entry of a table takes its record and no other.
LEMMA FewerAdmissions ==
  ASSUME NEW B, NEW A \in SUBSET B
  PROVE  AdmissionDuties(A) \subseteq AdmissionDuties(B)
<1> SUFFICES ASSUME NEW h \in AdmissionDuties(A) PROVE h \in AdmissionDuties(B)
  OBVIOUS
<1>1. PICK a \in A : h = Duty("admission", a.n, {IF a.counted THEN <<"command">> ELSE <<>>}, a)
  BY DEF AdmissionDuties
<1>2. a \in B
  OBVIOUS
<1> QED BY <1>1, <1>2 DEF AdmissionDuties

LEMMA FewerStates ==
  ASSUME NEW D, NEW C \in SUBSET D
  PROVE  StateDuties(C) \subseteq StateDuties(D)
<1> SUFFICES ASSUME NEW h \in StateDuties(C) PROVE h \in StateDuties(D)
  OBVIOUS
<1>1. PICK e \in C : h = Duty("state", e.n, {Standing(e)}, e)
  BY DEF StateDuties
<1>2. e \in D
  OBVIOUS
<1> QED BY <1>1, <1>2 DEF StateDuties

\* Of the commands in flight, every one there was before, and the one sent.
LEMMA FoundingShed ==
  ASSUME Tame
  PROVE  FoundingDuties(inflight') \subseteq FoundingDuties(inflight)
<1> SUFFICES ASSUME NEW h \in FoundingDuties(inflight') PROVE h \in FoundingDuties(inflight)
  OBVIOUS
<1>1. PICK c \in inflight' : c.kind \in Founding /\ h = Duty("founding", c.req.n, {<<>>}, c.id)
  BY DEF FoundingDuties
<1>2. c \in inflight
  BY <1>1 DEF Tame, Fewer, Adds
<1> QED BY <1>1, <1>2 DEF FoundingDuties

LEMMA ReloadShed ==
  ASSUME TypeOK, TypeOK', Numbered, Sends, reload' \in {0, reload}
  PROVE  ReloadDuties(reload', inflight') \subseteq ReloadDuties(reload, inflight)
<1> SUFFICES ASSUME NEW h \in ReloadDuties(reload', inflight')
             PROVE  h \in ReloadDuties(reload, inflight)
  OBVIOUS
<1>1. PICK c \in inflight' : c.id = reload' /\ h = Duty("reload", c.req.n, {<<"reload">>}, c.id)
  BY DEF ReloadDuties
<1>2. reload' = reload
  <2>1. c.id # 0
    BY <1>1 DEF TypeOK, CommandType
  <2> QED BY <1>1, <2>1
<1>3. c \in inflight
  <2>1. c.id < nextId /\ c.id \in Nat /\ nextId \in Nat
    BY <1>1, <1>2 DEF Numbered, TypeOK
  <2>2. c.id # nextId
    BY <2>1
  <2> QED BY <2>2 DEF Sends, Fewer, Adds
<1> QED BY <1>1, <1>2, <1>3 DEF ReloadDuties

LEMMA EmptyQueue == QueueDuties(<<>>) = {}
BY DEF QueueDuties

\* A handler that takes on no request: its records but for those of the queue
\* and the fork stay or go.
Shedding ==
  /\ admissions' \subseteq admissions
  /\ commandStates' \subseteq commandStates
  /\ queueOp' = queueOp \/ queueOp'.id = 0
  /\ promptState' = promptState \/ promptState'.id = 0
  /\ reload' \in {0, reload}
  /\ Tame
  /\ BranchDuties(branch') \subseteq BranchDuties(branch)
  /\ QueueDuties(deferred') \subseteq QueueDuties(deferred)

\* Commands sent that found no session and reload nothing carry no record.
LEMMA TameSends ==
  ASSUME Tame
  PROVE  Sends
BY DEF Tame, Sends

\* A handler that only drops commands and sends tame ones only sheds records.
LEMMA DutiesShed ==
  ASSUME TypeOK, TypeOK', Numbered, Shedding
  PROVE  Duties' \subseteq Duties
<1>1. AdmissionDuties(admissions') \subseteq AdmissionDuties(admissions)
  BY FewerAdmissions DEF Shedding
<1>2. StateDuties(commandStates') \subseteq StateDuties(commandStates)
  BY FewerStates DEF Shedding
<1>3. FoundingDuties(inflight') \subseteq FoundingDuties(inflight)
  BY FoundingShed DEF Shedding
<1>4. ReloadDuties(reload', inflight') \subseteq ReloadDuties(reload, inflight)
  BY ReloadShed, TameSends DEF Shedding
<1>5. OperationDuties(queueOp') \subseteq OperationDuties(queueOp)
  BY DEF Shedding, OperationDuties
<1>6. CaptureDuties(promptState') \subseteq CaptureDuties(promptState)
  BY DEF Shedding, CaptureDuties
<1> QED BY <1>1, <1>2, <1>3, <1>4, <1>5, <1>6 DEF Shedding, Duties

-----------------------------------------------------------------------------
(* Handlers that report nothing *)

CommandsIInv == Accounted /\ Numbered /\ OutcomesLegal

LEMMA QuietHandled ==
  ASSUME TypeOK, TypeOK', Founded, CommandsIInv, Shedding, UNCHANGED told,
         submitted' \in {submitted, submitted + 1}
  PROVE  CommandsIInv'
<1>1. Duties' \subseteq Duties
  BY DutiesShed DEF CommandsIInv
<1>2. Accounted' /\ OutcomesLegal'
  BY <1>1, QuietStep DEF CommandsIInv
<1>3. Numbered'
  BY NumberedKept, TameSends DEF CommandsIInv, Shedding
<1> QED BY <1>2, <1>3 DEF CommandsIInv

\* The one record g goes with the outcome reported.
LEMMA ToldHandled ==
  ASSUME TypeOK, TypeOK', Founded, CommandsIInv, Shedding,
         submitted' \in {submitted, submitted + 1},
         NEW g \in Duties, g \notin Duties', NEW what, Tell(g.n, what),
         \A s \in g.said : Append(s, what) \in LegalOutcomes
  PROVE  CommandsIInv'
<1>1. Duties' \subseteq Duties
  BY DutiesShed DEF CommandsIInv
<1>2. submitted' \in Nat /\ submitted <= submitted'
  BY DEF TypeOK
<1>3. Accounted' /\ OutcomesLegal'
  BY <1>1, <1>2, TellStep DEF CommandsIInv
<1>4. Numbered'
  BY NumberedKept, TameSends DEF CommandsIInv, Shedding
<1> QED BY <1>3, <1>4 DEF CommandsIInv

\* What the handlers of a compaction or a selection send founds no session.
LEMMA NotFounding ==
  /\ \A kind \in CommandKinds \ {"new", "new-model", "new-thinking", "new-state"} : kind \notin Founding
  /\ \A stage \in {"snapshot", "select", "compact", "restore-model", "restore-effort", "verify"} :
        stage \notin Founding
BY DEF Founding

LEMMA ContinueTame ==
  ASSUME NEW c, NEW p, p.stage \notin Founding, Continue(c, p)
  PROVE  Tame
BY FollowAdds DEF Continue

LEMMA RestoreTame ==
  ASSUME NEW c, NEW p \in CompactionType, RestoreOrWait(c, p)
  PROVE  Tame
<1>1. CASE Consume(c)
  BY <1>1, ConsumeFewer
<1>2. CASE Continue(c, [p EXCEPT !.stage = "restore-model", !.open = FALSE])
  <2> DEFINE q == [p EXCEPT !.stage = "restore-model", !.open = FALSE]
  <2>1. q.stage = "restore-model"
    BY DEF CompactionType
  <2>2. Continue(c, q)
    BY <1>2
  <2> HIDE DEF q
  <2>3. q.stage \notin Founding
    BY <2>1 DEF Founding
  <2> QED BY <2>2, <2>3, ContinueTame
<1> QED BY <1>1, <1>2 DEF RestoreOrWait

LEMMA EndSelectionTame ==
  ASSUME TypeOK, NEW c, NEW route \in Routes, EndSelection(c, route)
  PROVE  Tame
<1> DEFINE p == [compaction EXCEPT !.selection = NoSelection, !.route = route]
<1>1. p \in CompactionType
  BY DEF TypeOK, CompactionType, NoSelection, Routes
<1> QED BY <1>1, RestoreTame, ConsumeFewer DEF EndSelection

LEMMA CompactionTame ==
  ASSUME TypeOK, CompactionStep
  PROVE  Tame
<1> USE DEF Founding
<1>1. PICK c \in inflight : CompactionStep!(c)
  BY DEF CompactionStep
<1>2. compaction \in CompactionType
  BY DEF TypeOK
<1>3. ASSUME NEW p \in CompactionType, NEW s, s \notin Founding,
             Continue(c, [p EXCEPT !.stage = s])
      PROVE  Tame
  <2>1. [p EXCEPT !.stage = s].stage = s
    BY DEF CompactionType
  <2> QED BY <1>3, <2>1, ContinueTame
<1>4. ASSUME Continue(c, [compaction EXCEPT !.stage = "select", !.route = piModel])
      PROVE  Tame
  <2> DEFINE q == [compaction EXCEPT !.stage = "select", !.route = piModel]
  <2>1. q.stage = "select"
    BY <1>2 DEF CompactionType
  <2>2. Continue(c, q)
    BY <1>4
  <2> HIDE DEF q
  <2> QED BY <2>1, <2>2, ContinueTame
<1>5. ASSUME RestoreOrWait(c, [compaction EXCEPT !.finished = TRUE])
      PROVE  Tame
  <2>1. [compaction EXCEPT !.finished = TRUE] \in CompactionType
    BY <1>2 DEF CompactionType
  <2> QED BY <1>5, <2>1, RestoreTame
<1> QED BY <1>1, <1>2, <1>3, <1>4, <1>5

\* A state that is taken may forget the tables, and leaves the rest.
LEMMA TablesShed ==
  ASSUME TakeTables, commandStates' \subseteq commandStates, promptState' = promptState,
         reload' \in {0, reload}, Tame, deferred' = deferred, branch' = branch
  PROVE  Shedding
BY DEF TakeTables, NoQueueOp, Shedding

LEMMA QuietKept ==
  ASSUME TypeOK, TypeOK', Founded, CommandsIInv, Tame,
         UNCHANGED <<deferred, admissions, commandStates, queueOp, promptState, branch, reload,
                     told, submitted>>
  PROVE  CommandsIInv'
BY QuietHandled DEF Shedding

\* The replies that report nothing.
LEMMA QuietReplies ==
  ASSUME TypeOK, TypeOK', Founded, CommandsIInv,
         InterruptAborted \/ InterruptReleased \/ InterruptReplaced \/ PromptReplyStale
           \/ StateReplyStale \/ ResumeReply \/ NewCancelled \/ CompactionDropped
           \/ CompactionStep \/ CompactionFailed \/ PlainCompacted \/ BranchStale \/ BranchAborted
  PROVE  CommandsIInv'
<1>1. UNCHANGED <<deferred, admissions, commandStates, queueOp, promptState, branch, reload,
                  told, submitted>>
  BY DEF InterruptAborted, InterruptReleased, InterruptReplaced, PromptReplyStale, StateReplyStale,
         ResumeReply, NewCancelled, CompactionDropped, CompactionStep, CompactionFailed,
         PlainCompacted, BranchStale, BranchAborted, tables
<1>2. CASE InterruptReleased \/ InterruptReplaced \/ PromptReplyStale \/ StateReplyStale
             \/ NewCancelled \/ CompactionDropped \/ CompactionFailed \/ PlainCompacted \/ BranchStale
  <2>1. \E c \in inflight : Consume(c)
    BY <1>2 DEF InterruptReleased, InterruptReplaced, PromptReplyStale, StateReplyStale,
         NewCancelled, CompactionDropped, CompactionFailed, PlainCompacted, BranchStale
  <2> QED BY <1>1, <2>1, ConsumeFewer, QuietKept
<1>3. CASE InterruptAborted \/ ResumeReply \/ BranchAborted
  <2>1. \E c \in inflight : \/ Consume(c)
                            \/ \E kind \in {"interrupt-state", "resume-state", "resume-history", "state"} :
                                  Follow(c, kind, None)
    BY <1>3 DEF InterruptAborted, ResumeReply, BranchAborted
  <2>2. Tame
    BY <2>1, ConsumeFewer, FollowAdds DEF Founding
  <2> QED BY <1>1, <2>2, QuietKept
<1>4. CASE CompactionStep
  BY <1>1, <1>4, CompactionTame, QuietKept
<1> QED BY <1>2, <1>3, <1>4

\* The answer of a state read that verifies a compaction reports nothing either.
LEMMA VerifiedReply ==
  ASSUME TypeOK, TypeOK', Founded, CommandsIInv, CompactionVerified
  PROVE  CommandsIInv'
<1>1. PICK c \in inflight : CompactionVerified!(c)
  BY DEF CompactionVerified
<1>2. Tame
  BY <1>1, ConsumeFewer
<1>3. Shedding
  BY <1>1, <1>2, TablesShed
<1> QED BY <1>1, <1>3, QuietHandled

\* A fork goes on: its record stays.
LEMMA BranchStays ==
  ASSUME branch.stage # "none", branch'.n = branch.n
  PROVE  BranchDuties(branch') \subseteq BranchDuties(branch)
BY DEF BranchDuties

LEMMA BranchNextKept ==
  ASSUME TypeOK, NEW c, NEW stage, NEW kind, kind \notin Founding, Branching, BranchNext(c, stage, kind)
  PROVE  /\ Tame /\ told' = told
         /\ BranchDuties(branch') \subseteq BranchDuties(branch)
<1>1. branch \in BranchType
  BY DEF TypeOK
<1>2. branch'.n = branch.n
  BY <1>1 DEF BranchNext, BranchType
<1>3. Tame /\ told' = told
  BY FollowAdds DEF BranchNext
<1> QED BY <1>2, <1>3, BranchStays DEF Branching

-----------------------------------------------------------------------------
(* Handlers that report one outcome *)

\* The outcomes that may follow what a request was told so far.
LEMMA Legal ==
  /\ \A what \in {"captured", "capture-failed"} : Append(<<"capture">>, what) \in LegalOutcomes
  /\ \A k \in {"steer", "clear"}, what \in {"queue-ok", "queue-failed"} :
        Append(<<k>>, what) \in LegalOutcomes
  /\ \A what \in {"success", "error", "cancelled"} : Append(<<"fork">>, what) \in LegalOutcomes
  /\ \A what \in {"success", "error"} : Append(<<"reload">>, what) \in LegalOutcomes
  /\ \A what \in {"success", "error", "unconfirmed"} : Append(<<"command">>, what) \in LegalOutcomes
  /\ \A what \in {"settled", "unsettled"} : Append(<<>>, what) \in LegalOutcomes
  /\ Append(<<"command", "unconfirmed">>, "success") \in LegalOutcomes
  /\ Append(<<"unsettled">>, "settled") \in LegalOutcomes
<1>1. \A k, what : Append(<<k>>, what) = <<k, what>>
  BY Appended
<1>2. \A what \in {"captured", "capture-failed"} : Append(<<"capture">>, what) \in LegalOutcomes
  BY <1>1 DEF LegalOutcomes
<1>3. \A k \in {"steer", "clear"}, what \in {"queue-ok", "queue-failed"} :
        Append(<<k>>, what) \in LegalOutcomes
  <2> SUFFICES ASSUME NEW k \in {"steer", "clear"}, NEW what \in {"queue-ok", "queue-failed"}
               PROVE  <<k, what>> \in LegalOutcomes
    BY <1>1
  <2>1. <<k, what>> \in {<<j, o>> : j \in {"steer", "clear"}, o \in {"queue-ok", "queue-failed"}}
    OBVIOUS
  <2> QED BY <2>1 DEF LegalOutcomes
<1>4. \A what \in {"success", "error", "cancelled"} : Append(<<"fork">>, what) \in LegalOutcomes
  BY <1>1 DEF LegalOutcomes
<1>5. \A what \in {"success", "error"} : Append(<<"reload">>, what) \in LegalOutcomes
  BY <1>1 DEF LegalOutcomes
<1>6. \A what \in {"success", "error", "unconfirmed"} : Append(<<"command">>, what) \in LegalOutcomes
  BY <1>1 DEF LegalOutcomes
<1>7. \A what \in {"settled", "unsettled"} : Append(<<>>, what) \in LegalOutcomes
  BY Appended DEF LegalOutcomes
<1>8. Append(<<"command", "unconfirmed">>, "success") = <<"command", "unconfirmed", "success">>
  BY Appended
<1>9. Append(<<"command", "unconfirmed">>, "success") \in LegalOutcomes
  BY <1>8 DEF LegalOutcomes
<1>10. Append(<<"unsettled">>, "settled") \in LegalOutcomes
  BY <1>1 DEF LegalOutcomes
<1> QED BY <1>2, <1>3, <1>4, <1>5, <1>6, <1>7, <1>9, <1>10

LEMMA KeptNext ==
  ASSUME NEW h \in Duties'
  PROVE  /\ h.by = "queue" => h \in QueueDuties(deferred')
         /\ h.by = "admission" => h \in AdmissionDuties(admissions')
         /\ h.by = "state" => h \in StateDuties(commandStates')
         /\ h.by = "founding" => h \in FoundingDuties(inflight')
         /\ h.by = "operation" => h \in OperationDuties(queueOp')
         /\ h.by = "capture" => h \in CaptureDuties(promptState')
         /\ h.by = "branch" => h \in BranchDuties(branch')
         /\ h.by = "reload" => h \in ReloadDuties(reload', inflight')
BY Keeping DEF Duties

\* A capture is answered ...
LEMMA CaptureReply ==
  ASSUME TypeOK, TypeOK', Founded, CommandsIInv, PromptStateReply
  PROVE  CommandsIInv'
<1>1. PICK c \in inflight : PromptStateReply!(c)
  BY DEF PromptStateReply
<1>2. Tame /\ c.id # 0
  BY <1>1, ConsumeFewer DEF TypeOK, CommandType
<1>3. CASE promptState.id # c.id
  <2>1. Shedding
    BY <1>1, <1>2, <1>3 DEF Shedding, tables
  <2> QED BY <1>1, <1>3, <2>1, QuietHandled
<1>4. CASE promptState.id = c.id
  <2> DEFINE g == Duty("capture", promptState.n, {<<"capture">>}, promptState.id)
  <2>1. g \in Duties
    BY <1>2, <1>4 DEF Duties, CaptureDuties
  <2>2. g.n = promptState.n /\ g.said = {<<"capture">>} /\ g.by = "capture"
    BY DutyFields
  <2> HIDE DEF g
  <2>3. promptState'.id = 0
    BY <1>1, <1>4 DEF NoPromptState
  <2>4. g \notin Duties'
    BY <2>2, <2>3, KeptNext DEF CaptureDuties
  <2>5. Shedding
    BY <1>1, <1>2, <1>4, <2>3 DEF Shedding, tables, TakeTables, NoQueueOp
  <2>6. PICK what \in {"captured", "capture-failed"} : Tell(g.n, what)
    BY <1>1, <1>4, <2>2
  <2>7. \A s \in g.said : Append(s, what) \in LegalOutcomes
    BY <2>2, Legal
  <2> QED BY <1>1, <2>1, <2>4, <2>5, <2>6, <2>7, ToldHandled
<1> QED BY <1>3, <1>4

\* ... and a queue operation.
LEMMA OperationReply ==
  ASSUME TypeOK, TypeOK', Founded, CommandsIInv, QueueReply
  PROVE  CommandsIInv'
<1>1. PICK c \in inflight, what \in {"queue-ok", "queue-failed"} : QueueReply!(c)!(what)
  BY DEF QueueReply
<1>2. Tame /\ c.id # 0
  BY <1>1, ConsumeFewer DEF TypeOK, CommandType
<1>3. Shedding
  BY <1>1, <1>2 DEF Shedding, tables, NoQueueOp
<1>4. CASE told' = told
  BY <1>1, <1>3, <1>4, QuietHandled
<1>5. CASE queueOp.id = c.id /\ Tell(queueOp.n, what)
  <2> DEFINE g == Duty("operation", queueOp.n, {<<"steer">>, <<"clear">>}, queueOp.id)
  <2>1. g \in Duties
    BY <1>2, <1>5 DEF Duties, OperationDuties
  <2>2. g.n = queueOp.n /\ g.said = {<<"steer">>, <<"clear">>} /\ g.by = "operation"
    BY DutyFields
  <2> HIDE DEF g
  <2>3. queueOp'.id = 0
    BY <1>1, <1>5 DEF NoQueueOp
  <2>4. g \notin Duties'
    BY <2>2, <2>3, KeptNext DEF OperationDuties
  <2>5. \A s \in g.said : Append(s, what) \in LegalOutcomes
    BY <2>2, Legal
  <2>6. Tell(g.n, what)
    BY <1>5, <2>2
  <2> QED BY <1>1, <1>3, <2>1, <2>4, <2>5, <2>6, ToldHandled
<1> QED BY <1>1, <1>4, <1>5

\* The end of a fork.
LEMMA BranchEnded ==
  ASSUME TypeOK, TypeOK', Founded, CommandsIInv, Shedding, Branching,
         submitted' \in {submitted, submitted + 1},
         NEW outcome \in {"success", "error", "cancelled"}, Finish(outcome)
  PROVE  CommandsIInv'
<1> DEFINE g == Duty("branch", branch.n, {<<"fork">>}, branch.n)
<1>1. g \in Duties
  BY DEF Duties, BranchDuties, Branching
<1>2. g.n = branch.n /\ g.said = {<<"fork">>} /\ g.by = "branch"
  BY DutyFields
<1> HIDE DEF g
<1>3. branch'.stage = "none"
  BY DEF Finish, NoBranch
<1>4. g \notin Duties'
  BY <1>2, <1>3, KeptNext DEF BranchDuties
<1>5. \A s \in g.said : Append(s, outcome) \in LegalOutcomes
  BY <1>2, Legal
<1>6. Tell(g.n, outcome)
  BY <1>2 DEF Finish
<1> QED BY <1>1, <1>4, <1>5, <1>6, ToldHandled

LEMMA FinishSheds ==
  ASSUME NEW outcome, Finish(outcome)
  PROVE  BranchDuties(branch') \subseteq BranchDuties(branch)
BY DEF Finish, NoBranch, BranchDuties

\* The replies of a fork end it, with its one outcome, or carry it on.
LEMMA BranchReplies ==
  ASSUME TypeOK, TypeOK', Founded, CommandsIInv,
         BranchMessages \/ BranchReplaced \/ BranchCancelled \/ BranchState \/ BranchStep \/ BranchFailed
  PROVE  CommandsIInv'
<1> DEFINE Still == UNCHANGED <<deferred, admissions, commandStates, queueOp, promptState, reload, submitted>>
<1>1. CASE \E c \in inflight, outcome \in {"success", "error", "cancelled"} :
             BranchEnd(c, outcome) /\ Still /\ Branching
  <2>1. PICK c \in inflight, outcome \in {"success", "error", "cancelled"} :
             BranchEnd(c, outcome) /\ Still /\ Branching
    BY <1>1
  <2>2. Tame
    BY <2>1, ConsumeFewer DEF BranchEnd
  <2>3. Shedding
    BY <2>1, <2>2, FinishSheds DEF Shedding, BranchEnd
  <2> QED BY <2>1, <2>3, BranchEnded DEF BranchEnd
<1>2. CASE \E c \in inflight, stage \in BranchStages, kind \in CommandKinds \ Founding :
             BranchNext(c, stage, kind) /\ Still /\ Branching
  <2>1. PICK c \in inflight, stage \in BranchStages, kind \in CommandKinds \ Founding :
             BranchNext(c, stage, kind) /\ Still /\ Branching
    BY <1>2
  <2>2. Shedding /\ told' = told
    BY <2>1, BranchNextKept DEF Shedding
  <2> QED BY <2>1, <2>2, QuietHandled
<1>3. branch \in BranchType
  BY DEF TypeOK
<1>4. CASE BranchMessages
  <2>1. PICK c \in inflight : BranchMessages!(c)
    BY <1>4 DEF BranchMessages
  <2>2. Branching /\ Still
    BY <2>1 DEF BranchOpen, tables
  <2>3. CASE branch' = [branch EXCEPT !.stage = "choice", !.id = nextId] /\ nextId' = nextId + 1
               /\ inflight' = inflight \ {c} /\ UNCHANGED told
    <3>1. branch'.n = branch.n
      BY <1>3, <2>3 DEF BranchType
    <3>2. Tame
      BY <2>3 DEF Tame, Fewer
    <3>3. Shedding
      BY <2>2, <3>1, <3>2, BranchStays DEF Shedding, Branching
    <3> QED BY <2>2, <2>3, <3>3, QuietHandled
  <2>4. CASE BranchEnd(c, "error")
    BY <1>1, <2>2, <2>4
  <2> QED BY <2>1, <2>3, <2>4
<1>5. CASE BranchReplaced
  <2>1. PICK c \in inflight : BranchReplaced!(c)
    BY <1>5 DEF BranchReplaced
  <2>2. "state" \in BranchStages /\ "branch-state" \in CommandKinds \ Founding
    BY KindFacts DEF BranchStages, Founding
  <2>3. Branching /\ Still
    BY <2>1 DEF BranchOpen
  <2> QED BY <1>2, <2>1, <2>2, <2>3
<1>6. CASE BranchCancelled
  <2>1. PICK c \in inflight : BranchCancelled!(c)
    BY <1>6 DEF BranchCancelled
  <2>2. Branching /\ Still
    BY <2>1 DEF BranchOpen, tables
  <2> QED BY <1>1, <2>1, <2>2
<1>7. CASE BranchState
  <2>1. PICK c \in inflight : BranchState!(c)
    BY <1>7 DEF BranchState
  <2>2. Branching
    BY <2>1 DEF BranchOpen
  <2>3. CASE piSession = branch.source
    <3>1. Still /\ BranchEnd(c, "error")
      BY <2>1, <2>3 DEF tables
    <3> QED BY <1>1, <2>2, <3>1
  <2>4. CASE piSession # branch.source
    <3>1. branch' = [branch EXCEPT !.stage = "history", !.id = nextId, !.target = piSession]
          /\ Follow(c, "branch-history", None) /\ TakeTables /\ UNCHANGED told
          /\ commandStates' = IF Switched THEN {} ELSE commandStates
      BY <2>1, <2>4
    <3>2. branch'.n = branch.n
      BY <1>3, <3>1 DEF BranchType
    <3>3. Tame
      BY <3>1, FollowAdds DEF Founding
    <3>4. Shedding
      BY <2>1, <2>2, <3>1, <3>2, <3>3, BranchStays DEF Shedding, Branching, TakeTables, NoQueueOp
    <3> QED BY <2>1, <3>1, <3>4, QuietHandled
  <2> QED BY <2>3, <2>4
<1>8. CASE BranchStep
  <2>1. PICK c \in inflight : BranchStep!(c)
    BY <1>8 DEF BranchStep
  <2>2. Branching /\ Still
    BY <2>1 DEF BranchOpen, tables
  <2>3. \A kind \in {"branch-models", "branch-commands", "branch-prompt"} : kind \in CommandKinds \ Founding
    BY KindFacts DEF Founding
  <2>4. {"models", "commands", "prompt"} \subseteq BranchStages
    BY DEF BranchStages
  <2>5. \/ \E outcome \in {"success", "error", "cancelled"} : BranchEnd(c, outcome)
        \/ \E stage \in {"models", "commands", "prompt"},
             kind \in {"branch-models", "branch-commands", "branch-prompt"} : BranchNext(c, stage, kind)
    BY <2>1
  <2> QED BY <1>1, <1>2, <2>2, <2>3, <2>4, <2>5
<1>9. CASE BranchFailed
  <2>1. PICK c \in inflight : BranchFailed!(c)
    BY <1>9 DEF BranchFailed
  <2>2. Branching /\ Still
    BY <2>1 DEF BranchOpen, tables
  <2> QED BY <1>1, <2>1, <2>2
<1> QED BY <1>4, <1>5, <1>6, <1>7, <1>8, <1>9

\* Pi refuses a prompt: only the refusal of a command is reported as such.
LEMMA RefusedReply ==
  ASSUME TypeOK, TypeOK', Founded, CommandsIInv, PromptRefused
  PROVE  CommandsIInv'
<1>1. PICK c \in inflight, a \in admissions : PromptRefused!(c)!(a)
  BY DEF PromptRefused
<1>2. Tame
  BY <1>1, ConsumeFewer
<1>3. Shedding
  BY <1>1, <1>2 DEF Shedding
<1>4. CASE ~a.counted
  BY <1>1, <1>3, <1>4, QuietHandled
<1>5. CASE a.counted
  <2> DEFINE g == Duty("admission", a.n, {IF a.counted THEN <<"command">> ELSE <<>>}, a)
  <2>1. g \in Duties
    BY DEF Duties, AdmissionDuties
  <2>2. g.n = a.n /\ g.said = {<<"command">>} /\ g.by = "admission" /\ g.entry = a
    BY <1>5, DutyFields
  <2> HIDE DEF g
  <2>3. g \notin Duties'
    <3>1. ASSUME g \in Duties' PROVE FALSE
      <4>1. g \in AdmissionDuties(admissions')
        BY <2>2, <3>1, KeptNext
      <4>2. PICK b \in admissions' :
              g = Duty("admission", b.n, {IF b.counted THEN <<"command">> ELSE <<>>}, b)
        BY <4>1 DEF AdmissionDuties
      <4>3. b = a
        BY <2>2, <4>2, DutyFields
      <4> QED BY <1>1, <4>3
    <3> QED BY <3>1
  <2>4. \A s \in g.said : Append(s, "error") \in LegalOutcomes
    BY <2>2, Legal
  <2>5. Tell(g.n, "error")
    BY <1>1, <1>5, <2>2
  <2> QED BY <1>1, <1>3, <2>1, <2>3, <2>4, <2>5, ToldHandled
<1> QED BY <1>4, <1>5

\* The last catalog of a reload is read.
LEMMA ReloadEnds ==
  ASSUME TypeOK, TypeOK', Founded, CommandsIInv, ReloadReply
  PROVE  CommandsIInv'
<1>1. PICK c \in inflight : ReloadReply!(c)
  BY DEF ReloadReply
<1>2. Tame
  BY <1>1, ConsumeFewer
<1>3. Shedding
  BY <1>1, <1>2 DEF Shedding, tables
<1>4. CASE reload # c.id
  BY <1>1, <1>3, <1>4, QuietHandled
<1>5. CASE reload = c.id
  <2> DEFINE g == Duty("reload", c.req.n, {<<"reload">>}, c.id)
  <2>1. g \in Duties
    BY <1>5 DEF Duties, ReloadDuties
  <2>2. g.n = c.req.n /\ g.said = {<<"reload">>} /\ g.by = "reload"
    BY DutyFields
  <2> HIDE DEF g
  <2>3. reload' = 0
    BY <1>1, <1>5
  <2>4. ReloadDuties(reload', inflight') = {}
    BY <2>3 DEF ReloadDuties, TypeOK, CommandType
  <2>5. g \notin Duties'
    BY <2>2, <2>4, KeptNext
  <2>6. \A s \in g.said : Append(s, "success") \in LegalOutcomes
    BY <2>2, Legal
  <2>7. Tell(g.n, "success")
    BY <1>1, <1>5, <2>2
  <2> QED BY <1>1, <1>3, <2>1, <2>5, <2>6, <2>7, ToldHandled
<1> QED BY <1>4, <1>5

-----------------------------------------------------------------------------
(* Handlers that pass a request on *)

\* As DutiesShed, when a step leaves the records Y besides.
LEMMA DutiesPassed ==
  ASSUME NEW Y,
         QueueDuties(deferred') \subseteq QueueDuties(deferred) \cup Y,
         AdmissionDuties(admissions') \subseteq AdmissionDuties(admissions) \cup Y,
         StateDuties(commandStates') \subseteq StateDuties(commandStates) \cup Y,
         FoundingDuties(inflight') \subseteq FoundingDuties(inflight) \cup Y,
         OperationDuties(queueOp') \subseteq OperationDuties(queueOp) \cup Y,
         CaptureDuties(promptState') \subseteq CaptureDuties(promptState) \cup Y,
         BranchDuties(branch') \subseteq BranchDuties(branch) \cup Y,
         ReloadDuties(reload', inflight') \subseteq ReloadDuties(reload, inflight) \cup Y
  PROVE  Duties' \subseteq Duties \cup Y
BY DEF Duties

\* The record g gives way to y, which remembers the same of the same request.
LEMMA PassStep ==
  ASSUME TypeOK, CommandsIInv, UNCHANGED <<told, submitted>>,
         NEW g \in Duties, g \notin Duties', NEW y, y.n = g.n, g.said \subseteq y.said,
         Duties' \subseteq Duties \cup {y}
  PROVE  Accounted' /\ OutcomesLegal'
<1>1. g.n \in 1..submitted /\ told[g.n] \in g.said
  BY DEF CommandsIInv, Accounted
<1>2. submitted' \in Nat /\ submitted <= submitted'
  BY DEF TypeOK
<1>3. \A h \in Duties \cap Duties' : h.n # y.n
  BY DEF CommandsIInv, Accounted
<1>4. Passes({}, {y})
  BY <1>1, <1>2, <1>3 DEF Passes
<1> QED BY <1>4, DutyStep DEF CommandsIInv

\* A reload goes on from one catalog to the next.
LEMMA ReloadStepped ==
  ASSUME TypeOK, TypeOK', Founded, CommandsIInv, ReloadStep
  PROVE  CommandsIInv'
<1>1. PICK c \in inflight : ReloadStep!(c)
  BY DEF ReloadStep
<1>2. c.id < nextId /\ c.id \in Nat /\ nextId \in Nat
  BY DEF TypeOK, CommandType, Founded
<1> DEFINE x == Command(nextId, ReloadNext(c), c.req, None)
           g == Duty("reload", c.req.n, {<<"reload">>}, c.id)
           y == Duty("reload", c.req.n, {<<"reload">>}, nextId)
<1>3. Adds(x) /\ x.kind = ReloadNext(c) /\ x.req = c.req
  BY <1>1, FollowAdds
<1>4. ReloadNext(c) \notin Founding
  BY DEF ReloadNext, Founding
<1>5. Tame
  BY <1>3, <1>4 DEF Tame
<1>6. g \in Duties
  BY <1>1 DEF Duties, ReloadDuties
<1>7. ReloadDuties(reload', inflight') \subseteq {y}
  <2> SUFFICES ASSUME NEW h \in ReloadDuties(reload', inflight') PROVE h = y
    OBVIOUS
  <2>1. PICK d \in inflight' : d.id = nextId /\ h = Duty("reload", d.req.n, {<<"reload">>}, d.id)
    BY <1>1 DEF ReloadDuties
  <2>2. d \notin inflight
    <3>1. ASSUME d \in inflight PROVE FALSE
      <4>1. d.id < nextId
        BY <3>1 DEF Founded
      <4> QED BY <1>2, <2>1, <4>1
    <3> QED BY <3>1
  <2>3. d = x
    BY <1>3, <2>2 DEF Adds
  <2> QED BY <1>3, <2>1, <2>3
<1>8. /\ g.n = c.req.n /\ g.said = {<<"reload">>} /\ g.by = "reload" /\ g.entry = c.id
      /\ y.n = c.req.n /\ y.said = {<<"reload">>} /\ y.entry = nextId
  BY DutyFields
<1> HIDE DEF x, g, y
<1>9. g \notin Duties'
  <2>1. c.id # nextId
    BY <1>2
  <2> QED BY <1>7, <1>8, <2>1, KeptNext
<1>10. admissions' \subseteq admissions /\ commandStates' \subseteq commandStates
  BY <1>1 DEF tables, TakeTables
<1>11. queueOp' = queueOp \/ queueOp'.id = 0
  BY <1>1 DEF TakeTables, NoQueueOp
<1>12. Duties' \subseteq Duties \cup {y}
  <2>1. AdmissionDuties(admissions') \subseteq AdmissionDuties(admissions)
    BY <1>10, FewerAdmissions
  <2>2. StateDuties(commandStates') \subseteq StateDuties(commandStates)
    BY <1>10, FewerStates
  <2>3. FoundingDuties(inflight') \subseteq FoundingDuties(inflight)
    BY <1>5, FoundingShed
  <2>4. OperationDuties(queueOp') \subseteq OperationDuties(queueOp)
    BY <1>11 DEF OperationDuties
  <2>5. deferred' = deferred /\ promptState' = promptState /\ branch' = branch
    BY <1>1
  <2> QED BY <1>7, <2>1, <2>2, <2>3, <2>4, <2>5, DutiesPassed
<1>13. Accounted' /\ OutcomesLegal'
  BY <1>1, <1>6, <1>8, <1>9, <1>12, PassStep
<1>14. Numbered'
  BY <1>1, <1>3, <1>5, <1>10, TameSends, NumberedKept DEF CommandsIInv, Adds
<1> QED BY <1>13, <1>14 DEF CommandsIInv

\* A new session's commands follow one another for the same request.
LEMMA ChainStepped ==
  ASSUME TypeOK, TypeOK', Founded, CommandsIInv, ChainStep
  PROVE  CommandsIInv'
<1>1. PICK c \in inflight : ChainStep!(c)
  BY DEF ChainStep
<1>2. PICK next \in NextSteps(c) : Follow(c, next, c.to)
  BY <1>1
<1>3. UNCHANGED <<deferred, admissions, commandStates, queueOp, promptState, branch, reload,
                  told, submitted>>
  BY <1>1 DEF tables
<1>4. CASE next \notin Founding
  BY <1>2, <1>3, <1>4, FollowAdds, QuietKept
<1>5. CASE next \in Founding
  <2> DEFINE x == Command(nextId, next, c.req, c.to)
             g == Duty("founding", c.req.n, {<<>>}, c.id)
             y == Duty("founding", c.req.n, {<<>>}, nextId)
  <2>1. Adds(x) /\ x.req = c.req
    BY <1>2, FollowAdds
  <2>2. c.kind \in Founding
    BY <1>1, <1>5 DEF NextSteps, Founding
  <2>3. g \in Duties
    BY <2>2 DEF Duties, FoundingDuties
  <2>4. FoundingDuties(inflight') \subseteq FoundingDuties(inflight) \cup {y}
    <3> SUFFICES ASSUME NEW h \in FoundingDuties(inflight'), h \notin FoundingDuties(inflight)
                 PROVE  h = y
      OBVIOUS
    <3>1. PICK d \in inflight' : d.kind \in Founding /\ h = Duty("founding", d.req.n, {<<>>}, d.id)
      BY DEF FoundingDuties
    <3>2. d = x
      BY <2>1, <3>1 DEF Adds, FoundingDuties
    <3> QED BY <2>1, <3>1, <3>2 DEF Adds
  <2>5. /\ g.n = c.req.n /\ g.said = {<<>>} /\ g.by = "founding" /\ g.entry = c.id
        /\ y.n = c.req.n /\ y.said = {<<>>}
    BY DutyFields
  <2> HIDE DEF x, g, y
  <2>6. g \notin Duties'
    <3>1. ASSUME g \in Duties' PROVE FALSE
      <4>1. PICK d \in inflight' : g = Duty("founding", d.req.n, {<<>>}, d.id)
        BY <2>5, <3>1, KeptNext DEF FoundingDuties
      <4>2. d.id = c.id
        BY <2>5, <4>1, DutyFields
      <4> QED BY <1>2, <4>2, AnsweredGone DEF CommandsIInv
    <3> QED BY <3>1
  <2>7. Sends
    BY <2>1 DEF Sends
  <2>8. ReloadDuties(reload', inflight') \subseteq ReloadDuties(reload, inflight)
    BY <1>3, <2>7, ReloadShed DEF CommandsIInv
  <2>9. Duties' \subseteq Duties \cup {y}
    BY <1>3, <2>4, <2>8, DutiesPassed
  <2>10. Accounted' /\ OutcomesLegal'
    BY <1>3, <2>3, <2>5, <2>6, <2>9, PassStep
  <2>11. Numbered'
    BY <1>3, <2>7, NumberedKept DEF CommandsIInv
  <2> QED BY <2>10, <2>11 DEF CommandsIInv
<1> QED BY <1>4, <1>5

\* One entry more is one record more.
LEMMA MoreStates ==
  ASSUME NEW C, NEW e
  PROVE  StateDuties(C \cup {e}) \subseteq StateDuties(C) \cup {Duty("state", e.n, {Standing(e)}, e)}
BY DEF StateDuties

LEMMA MoreAdmissions ==
  ASSUME NEW A, NEW a
  PROVE  AdmissionDuties(A \cup {a}) \subseteq
           AdmissionDuties(A) \cup {Duty("admission", a.n, {IF a.counted THEN <<"command">> ELSE <<>>}, a)}
<1> SUFFICES ASSUME NEW h \in AdmissionDuties(A \cup {a}), h \notin AdmissionDuties(A)
             PROVE  h = Duty("admission", a.n, {IF a.counted THEN <<"command">> ELSE <<>>}, a)
  OBVIOUS
<1>1. PICK b \in A \cup {a} : h = Duty("admission", b.n, {IF b.counted THEN <<"command">> ELSE <<>>}, b)
  BY DEF AdmissionDuties
<1>2. b \notin A
  BY <1>1 DEF AdmissionDuties
<1> QED BY <1>1, <1>2

\* Pi admits a prompt: the state read that settles it takes the admission's place.
LEMMA AdmittedReply ==
  ASSUME TypeOK, TypeOK', Founded, CommandsIInv, PromptAdmitted
  PROVE  CommandsIInv'
<1>1. PICK c \in inflight, a \in admissions, d \in Dispositions : PromptAdmitted!(c)!(a)!(d)
  BY DEF PromptAdmitted
<1>2. CASE Consume(c) /\ UNCHANGED commandStates
  <2>1. Shedding
    BY <1>1, <1>2, ConsumeFewer DEF Shedding
  <2> QED BY <1>1, <2>1, QuietHandled
<1>3. ASSUME NEW required \in BOOLEAN, NEW kind \in {"command-state", "handled-state"},
             commandStates' = commandStates \cup
                      {[id |-> nextId, n |-> a.n, session |-> session, counted |-> a.counted,
                        required |-> required, failed |-> FALSE]},
             Follow(c, kind, None)
      PROVE  CommandsIInv'
  <2> DEFINE e == [id |-> nextId, n |-> a.n, session |-> session, counted |-> a.counted,
                   required |-> required, failed |-> FALSE]
             g == Duty("admission", a.n, {IF a.counted THEN <<"command">> ELSE <<>>}, a)
             y == Duty("state", e.n, {Standing(e)}, e)
  <2>1. Tame /\ Sends /\ nextId' = nextId + 1
    BY <1>3, FollowAdds, TameSends DEF Founding, Adds
  <2>2. g \in Duties
    BY DEF Duties, AdmissionDuties
  <2>3. Standing(e) = IF a.counted THEN <<"command">> ELSE <<>>
    BY DEF Standing
  <2>4. e.id = nextId /\ e.n = a.n /\ e.failed = FALSE /\ commandStates' = commandStates \cup {e}
    BY <1>3
  <2> HIDE DEF e
  <2>5. StateDuties(commandStates') \subseteq StateDuties(commandStates) \cup {y}
    BY <2>4, MoreStates
  <2>6. g.n = a.n /\ g.said = {IF a.counted THEN <<"command">> ELSE <<>>} /\ g.by = "admission"
        /\ g.entry = a /\ y.n = a.n /\ y.said = {Standing(e)}
    BY <2>4, DutyFields
  <2> HIDE DEF g, y
  <2>7. g \notin Duties'
    <3>1. ASSUME g \in Duties' PROVE FALSE
      <4>1. g \in AdmissionDuties(admissions')
        BY <2>6, <3>1, KeptNext
      <4>2. PICK b \in admissions' :
              g = Duty("admission", b.n, {IF b.counted THEN <<"command">> ELSE <<>>}, b)
        BY <4>1 DEF AdmissionDuties
      <4>3. b = a
        BY <2>6, <4>2, DutyFields
      <4> QED BY <1>1, <4>3
    <3> QED BY <3>1
  <2>8. Duties' \subseteq Duties \cup {y}
    <3>1. AdmissionDuties(admissions') \subseteq AdmissionDuties(admissions)
      BY <1>1, FewerAdmissions
    <3>2. FoundingDuties(inflight') \subseteq FoundingDuties(inflight)
      BY <2>1, FoundingShed
    <3>3. ReloadDuties(reload', inflight') \subseteq ReloadDuties(reload, inflight)
      BY <1>1, <2>1, ReloadShed DEF CommandsIInv
    <3>4. deferred' = deferred /\ promptState' = promptState /\ branch' = branch /\ queueOp' = queueOp
      BY <1>1
    <3> QED BY <2>5, <3>1, <3>2, <3>3, <3>4, DutiesPassed
  <2>9. Accounted' /\ OutcomesLegal'
    BY <1>1, <2>2, <2>3, <2>6, <2>7, <2>8, PassStep
  <2>10. Numbered'
    <3>1. nextId \in Nat /\ (\A f \in commandStates : f.id < nextId /\ f.id \in Nat)
      BY DEF TypeOK, StateType, CommandsIInv, Numbered
    <3>2. \A f \in commandStates : f.id # e.id
      BY <2>4, <3>1
    <3>3. /\ reload' < nextId'
          /\ \A i, j \in inflight' : i.id = j.id => i = j
          /\ \A f \in commandStates : f.id < nextId' /\ (f.failed => \A i \in inflight' : i.id # f.id)
      BY <1>1, <2>1, Renumbered DEF CommandsIInv
    <3>4. e.id < nextId' /\ ~e.failed
      BY <2>1, <2>4, <3>1
    <3>5. \A f, h \in commandStates : f.id = h.id => f = h
      BY DEF CommandsIInv, Numbered
    <3>6. \A f, h \in commandStates' : f.id = h.id => f = h
      BY <2>4, <3>2, <3>5
    <3>7. \A f \in commandStates' : f.id < nextId' /\ (f.failed => \A i \in inflight' : i.id # f.id)
      BY <2>4, <3>3, <3>4
    <3> QED BY <3>3, <3>6, <3>7 DEF Numbered
  <2> QED BY <2>9, <2>10 DEF CommandsIInv
<1>4. CASE c.kind = "command" \/ d = "handled"
  <2> DEFINE required == a.counted \/ d = "handled"
             kind == IF commandPrompt = c.id THEN "command-state" ELSE "handled-state"
  <2>1. required \in BOOLEAN
    BY DEF TypeOK, AdmissionType
  <2>2. kind \in {"command-state", "handled-state"}
    OBVIOUS
  <2>3. commandStates' = commandStates \cup
                      {[id |-> nextId, n |-> a.n, session |-> session, counted |-> a.counted,
                        required |-> required, failed |-> FALSE]}
        /\ Follow(c, kind, None)
    BY <1>1, <1>4
  <2> HIDE DEF required, kind
  <2> QED BY <1>3, <2>1, <2>2, <2>3
<1>5. CASE ~(c.kind = "command" \/ d = "handled")
  BY <1>1, <1>2, <1>5
<1> QED BY <1>4, <1>5

-----------------------------------------------------------------------------
(* Handlers that settle the requests a state read was for *)

\* Of several outcomes at once a request is told at most one.
LEMMA TellsAll ==
  ASSUME TypeOK, NEW O, TellAll(O), NEW n \in 1..MaxRequests
  PROVE  \/ (\A o \in O : o.n # n) /\ told'[n] = told[n]
         \/ \E o \in O : o.n = n /\ told'[n] = Append(told[n], o.what)
<1>1. DOMAIN told = 1..MaxRequests
  BY DEF TypeOK
<1>2. told'[n] = IF \E o \in O : o.n = n
                   THEN Append(told[n], (CHOOSE o \in O : o.n = n).what)
                   ELSE told[n]
  BY <1>1 DEF TellAll
<1>3. CASE \E o \in O : o.n = n
  <2> DEFINE o == CHOOSE x \in O : x.n = n
  <2>1. o \in O /\ o.n = n
    BY <1>3
  <2>2. told'[n] = Append(told[n], o.what)
    BY <1>2, <1>3
  <2> HIDE DEF o
  <2> QED BY <2>1, <2>2
<1>4. CASE ~\E o \in O : o.n = n
  BY <1>2, <1>4
<1> QED BY <1>3, <1>4

\* A settlement may follow what was told before it.
LEMMA SettlementLegal ==
  ASSUME NEW e \in StateType, NEW confirmed \in BOOLEAN, ~confirmed => ~e.failed
  PROVE  /\ Settlement(e, confirmed).n = e.n
         /\ Append(Standing(e), Settlement(e, confirmed).what) \in LegalOutcomes
<1>1. e.counted \in BOOLEAN /\ e.failed \in BOOLEAN
  BY DEF StateType
<1>2. Settlement(e, confirmed).n = e.n
  BY DEF Settlement
<1> DEFINE what == Settlement(e, confirmed).what
<1>3. CASE e.counted /\ e.failed
  <2>1. confirmed /\ Standing(e) = <<"command", "unconfirmed">> /\ what = "success"
    BY <1>3 DEF Standing, Settlement
  <2> QED BY <1>2, <2>1, Legal
<1>4. CASE e.counted /\ ~e.failed
  <2>1. Standing(e) = <<"command">> /\ what \in {"success", "unconfirmed"}
    BY <1>4 DEF Standing, Settlement
  <2> QED BY <1>2, <2>1, Legal
<1>5. CASE ~e.counted /\ e.failed
  <2>1. confirmed /\ Standing(e) = <<"unsettled">> /\ what = "settled"
    BY <1>5 DEF Standing, Settlement
  <2> QED BY <1>2, <2>1, Legal
<1>6. CASE ~e.counted /\ ~e.failed
  <2>1. Standing(e) = <<>> /\ what \in {"settled", "unsettled"}
    BY <1>6 DEF Standing, Settlement
  <2> QED BY <1>2, <2>1, Legal
<1> QED BY <1>1, <1>3, <1>4, <1>5, <1>6

\* Every command state has its record.
LEMMA StateDuty ==
  ASSUME Accounted, NEW e \in commandStates
  PROVE  /\ Duty("state", e.n, {Standing(e)}, e) \in Duties
         /\ e.n \in 1..submitted /\ told[e.n] = Standing(e)
<1> DEFINE g == Duty("state", e.n, {Standing(e)}, e)
<1>1. g \in Duties
  BY DEF Duties, StateDuties
<1>2. g.n = e.n /\ g.said = {Standing(e)}
  BY DutyFields
<1> HIDE DEF g
<1>3. e.n \in 1..submitted /\ told[e.n] = Standing(e)
  BY <1>1, <1>2 DEF Accounted
<1> QED BY <1>1, <1>3 DEF g

\* The requests a successful state read settles.
Settles(c) == {e.n : e \in Confirmed(c)}

\* Each is told a legal outcome, and no other is told anything; its record goes.
LEMMA Settled ==
  ASSUME TypeOK, Accounted, NEW c, SettleStates(c)
  PROVE  /\ \A n \in (1..MaxRequests) \ Settles(c) : told'[n] = told[n]
         /\ \A n \in (1..MaxRequests) \cap Settles(c) : told'[n] \in LegalOutcomes
         /\ \A h \in Duties \cap Duties' : h.n \notin Settles(c)
         /\ \A h \in Duties : h.n \in Settles(c) => h.by = "state"
<1> DEFINE O == {Settlement(e, TRUE) : e \in Confirmed(c)}
<1>1. TellAll(O) /\ Confirmed(c) \subseteq commandStates
  BY DEF SettleStates, Confirmed, Own
<1>2. ASSUME NEW e \in Confirmed(c)
      PROVE  /\ Settlement(e, TRUE).n = e.n /\ e \in commandStates /\ e \notin commandStates'
             /\ Append(told[e.n], Settlement(e, TRUE).what) \in LegalOutcomes
             /\ Duty("state", e.n, {Standing(e)}, e) \in Duties
  <2>1. e \in commandStates /\ e \in StateType
    BY <1>1 DEF TypeOK
  <2>2. /\ Settlement(e, TRUE).n = e.n
        /\ Append(Standing(e), Settlement(e, TRUE).what) \in LegalOutcomes
    BY <2>1, SettlementLegal
  <2>3. told[e.n] = Standing(e) /\ Duty("state", e.n, {Standing(e)}, e) \in Duties
    BY <2>1, StateDuty
  <2>4. e \notin commandStates'
    BY DEF SettleStates
  <2> QED BY <2>1, <2>2, <2>3, <2>4
<1>3. ASSUME NEW n \in 1..MaxRequests
      PROVE  /\ n \notin Settles(c) => told'[n] = told[n]
             /\ n \in Settles(c) => told'[n] \in LegalOutcomes
  <2>1. CASE (\A o \in O : o.n # n) /\ told'[n] = told[n]
    <3>1. n \notin Settles(c)
      BY <1>2, <2>1 DEF Settles
    <3> QED BY <2>1, <3>1
  <2>2. CASE \E o \in O : o.n = n /\ told'[n] = Append(told[n], o.what)
    <3>1. PICK e \in Confirmed(c) :
            Settlement(e, TRUE).n = n /\ told'[n] = Append(told[n], Settlement(e, TRUE).what)
      BY <2>2
    <3>2. e.n = n /\ told'[n] \in LegalOutcomes
      BY <1>2, <3>1
    <3>3. n \in Settles(c)
      BY <3>2 DEF Settles
    <3> QED BY <3>2, <3>3
  <2> HIDE DEF O
  <2> QED BY <1>1, <2>1, <2>2, TellsAll
<1>4. ASSUME NEW h \in Duties, h.n \in Settles(c)
      PROVE  h.by = "state" /\ h \notin Duties'
  <2>1. PICK e \in Confirmed(c) : h.n = e.n
    BY <1>4 DEF Settles
  <2> DEFINE g == Duty("state", e.n, {Standing(e)}, e)
  <2>2. g \in Duties /\ e \notin commandStates'
    BY <1>2
  <2>3. g.n = e.n /\ g.by = "state" /\ g.entry = e
    BY DutyFields
  <2> HIDE DEF g
  <2>4. h = g
    BY <2>1, <2>2, <2>3 DEF Accounted
  <2>5. ASSUME g \in Duties' PROVE FALSE
    <3>1. PICK f \in commandStates' : g = Duty("state", f.n, {Standing(f)}, f)
      BY <2>3, <2>5, KeptNext DEF StateDuties
    <3>2. f = e
      BY <2>3, <3>1, DutyFields
    <3> QED BY <2>2, <3>2
  <2> QED BY <2>3, <2>4, <2>5
<1> QED BY <1>3, <1>4

\* A state read that only settles.
LEMMA SettledHandled ==
  ASSUME TypeOK, TypeOK', Founded, CommandsIInv, Shedding, UNCHANGED submitted, NEW c, SettleStates(c)
  PROVE  CommandsIInv'
<1>1. Duties' \subseteq Duties
  BY DutiesShed DEF CommandsIInv
<1>2. submitted' \in Nat /\ submitted <= submitted'
  BY DEF TypeOK
<1>3. Passes(Settles(c), {})
  BY <1>1, <1>2, Settled DEF Passes, CommandsIInv
<1>4. Accounted' /\ OutcomesLegal'
  BY <1>3, DutyStep DEF CommandsIInv
<1>5. Numbered'
  BY NumberedKept, TameSends DEF CommandsIInv, Shedding
<1> QED BY <1>4, <1>5 DEF CommandsIInv

\* The state reads that settle commands.
LEMMA SettledReplies ==
  ASSUME TypeOK, TypeOK', Founded, CommandsIInv, StateReply \/ SelectionConfirm
  PROVE  CommandsIInv'
<1>1. ASSUME NEW c, SettleStates(c), TakeTables, Tame,
             UNCHANGED <<deferred, promptState, branch, reload, submitted>>
      PROVE  CommandsIInv'
  <2>1. commandStates' \subseteq commandStates
    BY <1>1 DEF SettleStates
  <2>2. Shedding
    BY <1>1, <2>1, TablesShed
  <2> QED BY <1>1, <2>2, SettledHandled
<1>2. CASE StateReply
  <2>1. PICK c \in inflight : StateReply!(c)
    BY <1>2 DEF StateReply
  <2>2. Consume(c) \/ Follow(c, "resume-history", None)
    BY <2>1
  <2>3. Tame
    BY <2>2, ConsumeFewer, FollowAdds DEF Founding
  <2> QED BY <1>1, <2>1, <2>3
<1>3. CASE SelectionConfirm
  <2>1. PICK c \in inflight : SelectionConfirm!(c)
    BY <1>3 DEF SelectionConfirm
  <2>2. Tame
    BY <2>1, EndSelectionTame DEF TypeOK
  <2> QED BY <1>1, <2>1, <2>2
<1> QED BY <1>2, <1>3

\* The first prompt of a new session takes the place of the commands that made it.
LEMMA NewStateSettled ==
  ASSUME TypeOK, TypeOK', Founded, CommandsIInv, NewStateReply
  PROVE  CommandsIInv'
<1>1. PICK c \in inflight, skill \in {FALSE, "skill" \in Kinds} : NewStateReply!(c)!(skill)
  BY DEF NewStateReply
<1> DEFINE kept == IF Switched THEN {} ELSE admissions
<1>2. /\ SettleStates(c) /\ c.kind \in Founding
      /\ UNCHANGED <<deferred, promptState, branch, reload, submitted>>
      /\ queueOp' = queueOp \/ queueOp'.id = 0
      /\ commandStates' \subseteq commandStates /\ kept \subseteq admissions
  BY <1>1 DEF Founding, NoQueueOp, SettleStates
<1>3. CASE Consume(c) /\ admissions' = kept
  <2>1. Shedding
    BY <1>2, <1>3, ConsumeFewer DEF Shedding
  <2> QED BY <1>2, <2>1, SettledHandled
<1>4. ASSUME Follow(c, "prompt", None), NEW a, a.n = c.req.n, a.counted = FALSE, admissions' = kept \cup {a}
      PROVE  CommandsIInv'
  <2> DEFINE g == Duty("founding", c.req.n, {<<>>}, c.id)
             y == Duty("admission", a.n, {IF a.counted THEN <<"command">> ELSE <<>>}, a)
  <2>1. Tame /\ Sends
    BY <1>4, FollowAdds, TameSends DEF Founding
  <2>2. g \in Duties
    BY <1>2 DEF Duties, FoundingDuties
  <2>3. g.n = c.req.n /\ g.said = {<<>>} /\ g.by = "founding" /\ g.entry = c.id
        /\ y.n = c.req.n /\ y.said = {<<>>}
    BY <1>4, DutyFields
  <2>4. AdmissionDuties(admissions') \subseteq AdmissionDuties(admissions) \cup {y}
    BY <1>2, <1>4, MoreAdmissions, FewerAdmissions
  <2> HIDE DEF g, y, kept
  <2>5. g \notin Duties'
    <3>1. ASSUME g \in Duties' PROVE FALSE
      <4>1. PICK d \in inflight' : g = Duty("founding", d.req.n, {<<>>}, d.id)
        BY <2>3, <3>1, KeptNext DEF FoundingDuties
      <4>2. d.id = c.id
        BY <2>3, <4>1, DutyFields
      <4> QED BY <1>4, <4>2, AnsweredGone DEF CommandsIInv
    <3> QED BY <3>1
  <2>6. Duties' \subseteq Duties \cup {y}
    <3>1. StateDuties(commandStates') \subseteq StateDuties(commandStates)
      BY <1>2, FewerStates
    <3>2. FoundingDuties(inflight') \subseteq FoundingDuties(inflight)
      BY <2>1, FoundingShed
    <3>3. ReloadDuties(reload', inflight') \subseteq ReloadDuties(reload, inflight)
      BY <1>2, <2>1, ReloadShed DEF CommandsIInv
    <3>4. OperationDuties(queueOp') \subseteq OperationDuties(queueOp)
      BY <1>2 DEF OperationDuties
    <3> QED BY <1>2, <2>4, <3>1, <3>2, <3>3, <3>4, DutiesPassed
  <2>7. g.n \in 1..submitted /\ told[g.n] = <<>> /\ g.n \notin Settles(c) /\ g.n \in 1..MaxRequests
    <3>1. g.n \in 1..submitted /\ told[g.n] = <<>>
      BY <2>2, <2>3 DEF CommandsIInv, Accounted
    <3>2. g.n \notin Settles(c)
      BY <1>2, <2>2, <2>3, Settled DEF CommandsIInv
    <3>3. g.n \in 1..MaxRequests
      <4>1. submitted \in Nat /\ MaxRequests \in Nat /\ submitted <= MaxRequests
        BY ConstantsAssumption DEF TypeOK
      <4> QED BY <3>1, <4>1
    <3> QED BY <3>1, <3>2, <3>3
  <2>8. told'[y.n] \in y.said /\ y.n \in 1..submitted'
    BY <1>2, <2>3, <2>7, Settled DEF CommandsIInv
  <2>9. \A h \in Duties \cap Duties' : h.n # y.n
    BY <2>2, <2>3, <2>5 DEF CommandsIInv, Accounted
  <2>10. submitted' \in Nat /\ submitted <= submitted'
    BY <1>2 DEF TypeOK
  <2>11. \A h \in Duties' : h \in {y} \/ (h \in Duties /\ h.n \notin Settles(c))
    BY <1>2, <2>6, Settled DEF CommandsIInv
  <2>12. Passes(Settles(c), {y})
    BY <1>2, <2>8, <2>9, <2>10, <2>11, Settled DEF Passes, CommandsIInv
  <2>13. Accounted' /\ OutcomesLegal'
    BY <2>12, DutyStep DEF CommandsIInv
  <2>14. Numbered'
    BY <1>2, <2>1, NumberedKept DEF CommandsIInv
  <2> QED BY <2>13, <2>14 DEF CommandsIInv
<1>5. \/ Consume(c) /\ admissions' = kept
      \/ /\ Follow(c, "prompt", None)
         /\ admissions' = kept \cup {[id |-> nextId, n |-> c.req.n, session |-> piSession, counted |-> FALSE]}
  BY <1>1
<1> HIDE DEF kept
<1>6. CASE Consume(c) /\ admissions' = kept
  BY <1>3, <1>6
<1>7. CASE /\ Follow(c, "prompt", None)
           /\ admissions' = kept \cup {[id |-> nextId, n |-> c.req.n, session |-> piSession, counted |-> FALSE]}
  <2> DEFINE a == [id |-> nextId, n |-> c.req.n, session |-> piSession, counted |-> FALSE]
  <2>1. a.n = c.req.n /\ a.counted = FALSE /\ admissions' = kept \cup {a}
    BY <1>7
  <2> HIDE DEF a
  <2> QED BY <1>4, <1>7, <2>1
<1> QED BY <1>5, <1>6, <1>7

-----------------------------------------------------------------------------
(* A failure *)

Failed(e) == [e EXCEPT !.failed = TRUE]

\* The entries whose failure is reported, and what else is.
Here(c) == {e \in Own(c) : e.session = session}
Failing(c) ==
  {Settlement(e, FALSE) : e \in Here(c)} \cup RefusalsOf(Cancelled(c))
    \cup (IF reload = c.id THEN {[n |-> c.req.n, what |-> "error"]} ELSE {})

\* Of RequestFailed, what the proof below is about.
FailsRequest(c) ==
  /\ commandStates' = (commandStates \ Own(c)) \cup {Failed(e) : e \in {x \in Here(c) : x.required}}
  /\ TellAll(Failing(c))
  /\ deferred' = IF configuration = c.id THEN <<>> ELSE deferred
  /\ reload' = IF reload = c.id THEN 0 ELSE reload
  /\ UNCHANGED <<queueOp, admissions, promptState, branch, submitted>>

\* A settlement of a command that fails leaves the entry of a required one, marked.
LEMMA FailedEntry ==
  ASSUME NEW e \in StateType
  PROVE  /\ Failed(e) \in StateType /\ Failed(e).failed = TRUE /\ Failed(e).n = e.n /\ Failed(e).id = e.id
         /\ ~e.failed => Append(Standing(e), Settlement(e, FALSE).what) = Standing(Failed(e))
<1>1. /\ Failed(e) \in StateType /\ Failed(e).failed = TRUE /\ Failed(e).n = e.n /\ Failed(e).id = e.id
      /\ Failed(e).counted = e.counted /\ e.counted \in BOOLEAN /\ e.failed \in BOOLEAN
  BY DEF Failed, StateType
<1>2. CASE e.counted /\ ~e.failed
  <2>1. Standing(e) = <<"command">> /\ Settlement(e, FALSE).what = "unconfirmed"
        /\ Standing(Failed(e)) = <<"command", "unconfirmed">>
    BY <1>1, <1>2 DEF Standing, Settlement
  <2> QED BY <1>1, <1>2, <2>1, Appended
<1>3. CASE ~e.counted /\ ~e.failed
  <2>1. Standing(e) = <<>> /\ Settlement(e, FALSE).what = "unsettled"
        /\ Standing(Failed(e)) = <<"unsettled">>
    BY <1>1, <1>3 DEF Standing, Settlement
  <2> QED BY <1>1, <1>3, <2>1, Appended
<1> QED BY <1>1, <1>2, <1>3

\* The outcome of a failed command may follow what was told when it was sent.
LEMMA RefusalLegal ==
  ASSUME NEW kind, Refusal(kind) # <<>>
  PROVE  Append(Asked(kind), Refusal(kind)[1]) \in LegalOutcomes
<1>1. CASE kind = "capture"
  <2>1. Asked(kind) = <<"capture">> /\ Refusal(kind)[1] = "capture-failed"
    BY <1>1 DEF Asked, Refusal
  <2> QED BY <2>1, Legal
<1>2. CASE kind \in {"fork", "reload"}
  <2>1. Asked(kind) = <<kind>> /\ Refusal(kind)[1] = "error"
    BY <1>2 DEF Asked, Refusal
  <2> QED BY <1>2, <2>1, Legal
<1>3. CASE kind \in {"steer", "clear"}
  <2>1. Asked(kind) = <<kind>> /\ Refusal(kind)[1] = "queue-failed"
    BY <1>3 DEF Asked, Refusal
  <2> QED BY <1>3, <2>1, Legal
<1> QED BY <1>1, <1>2, <1>3 DEF Refusal

\* Each outcome a failure brings ends a record.
Ends(c, o, g) ==
  /\ g \in Duties /\ g \notin Duties' /\ g.n = o.n
  /\ \A s \in g.said : Append(s, o.what) \in LegalOutcomes
  /\ g.by = "state" => \E e \in Here(c) : /\ o = Settlement(e, FALSE)
                                          /\ g = Duty("state", e.n, {Standing(e)}, e)

LEMMA FailureEnds ==
  ASSUME TypeOK, TypeOK', CommandsIInv, NEW c \in inflight, FailsRequest(c), NEW o \in Failing(c)
  PROVE  \E g : Ends(c, o, g)
<1>1. ASSUME NEW e \in Here(c), o = Settlement(e, FALSE)
      PROVE  \E g : Ends(c, o, g)
  <2> DEFINE g == Duty("state", e.n, {Standing(e)}, e)
  <2>1. e \in commandStates /\ e.id = c.id /\ e \in StateType
    BY DEF Here, Own, TypeOK
  <2>2. ~e.failed
    BY <2>1 DEF CommandsIInv, Numbered
  <2>3. g \in Duties
    BY <2>1, StateDuty DEF CommandsIInv
  <2>4. g.n = e.n /\ g.by = "state" /\ g.entry = e /\ g.said = {Standing(e)}
    BY DutyFields
  <2>5. o.n = e.n /\ Append(Standing(e), o.what) \in LegalOutcomes
    BY <1>1, <2>1, <2>2, SettlementLegal
  <2>6. e \notin commandStates'
    <3>1. e \in Own(c)
      BY DEF Here
    <3>2. \A x \in Here(c) : Failed(x).failed = TRUE
      BY FailedEntry DEF Here, Own, TypeOK
    <3> QED BY <2>2, <3>1, <3>2 DEF FailsRequest
  <2> HIDE DEF g
  <2>7. g \notin Duties'
    <3>1. ASSUME g \in Duties' PROVE FALSE
      <4>1. PICK f \in commandStates' : g = Duty("state", f.n, {Standing(f)}, f)
        BY <2>4, <3>1, KeptNext DEF StateDuties
      <4>2. f = e
        BY <2>4, <4>1, DutyFields
      <4> QED BY <2>6, <4>2
    <3> QED BY <3>1
  <2>8. \A s \in g.said : Append(s, o.what) \in LegalOutcomes
    BY <2>4, <2>5
  <2>9. \E x \in Here(c) : o = Settlement(x, FALSE) /\ g = Duty("state", x.n, {Standing(x)}, x)
    BY <1>1 DEF g
  <2> QED BY <2>3, <2>4, <2>5, <2>7, <2>8, <2>9 DEF Ends
<1>2. ASSUME o \in RefusalsOf(Cancelled(c))
      PROVE  \E g : Ends(c, o, g)
  <2>1. PICK r \in Cancelled(c) : Refusal(r.kind) # <<>> /\ o = [n |-> r.n, what |-> Refusal(r.kind)[1]]
    BY <1>2 DEF RefusalsOf
  <2>2. configuration = c.id /\ r \in Range(deferred)
    BY <2>1 DEF Cancelled
  <2>3. PICK i \in DOMAIN deferred : r = deferred[i]
    BY <2>2 DEF Range
  <2> DEFINE g == Duty("queue", r.n, {Asked(r.kind)}, r)
  <2>4. g \in Duties
    BY <2>3 DEF Duties, QueueDuties
  <2>5. g.n = r.n /\ g.by = "queue" /\ g.said = {Asked(r.kind)}
    BY DutyFields
  <2>6. o.n = r.n /\ Append(Asked(r.kind), o.what) \in LegalOutcomes
    BY <2>1, RefusalLegal
  <2> HIDE DEF g
  <2>7. QueueDuties(deferred') = {}
    BY <2>2, EmptyQueue DEF FailsRequest
  <2>8. g \notin Duties'
    BY <2>5, <2>7, KeptNext
  <2>9. g.by # "state" /\ \A s \in g.said : Append(s, o.what) \in LegalOutcomes
    BY <2>5, <2>6
  <2> QED BY <2>4, <2>5, <2>6, <2>8, <2>9 DEF Ends
<1>3. ASSUME reload = c.id, o = [n |-> c.req.n, what |-> "error"]
      PROVE  \E g : Ends(c, o, g)
  <2> DEFINE g == Duty("reload", c.req.n, {<<"reload">>}, c.id)
  <2>1. g \in Duties
    BY <1>3 DEF Duties, ReloadDuties
  <2>2. g.n = c.req.n /\ g.said = {<<"reload">>} /\ g.by = "reload"
    BY DutyFields
  <2> HIDE DEF g
  <2>3. reload' = 0
    BY <1>3 DEF FailsRequest
  <2>4. ReloadDuties(reload', inflight') = {}
    BY <2>3 DEF ReloadDuties, TypeOK, CommandType
  <2>5. g \notin Duties'
    BY <2>2, <2>4, KeptNext
  <2>6. o.n = c.req.n /\ o.what = "error"
    BY <1>3
  <2>7. g.by # "state" /\ \A s \in g.said : Append(s, o.what) \in LegalOutcomes
    BY <2>2, <2>6, Legal
  <2> QED BY <2>1, <2>2, <2>5, <2>6, <2>7 DEF Ends
<1> QED BY <1>1, <1>2, <1>3 DEF Failing

\* So each request hears of a failure once, and the others do not.
LEMMA FailureTold ==
  ASSUME TypeOK, TypeOK', CommandsIInv, NEW c \in inflight, FailsRequest(c), NEW n \in 1..MaxRequests
  PROVE  \/ /\ told'[n] = told[n]
            /\ \A o \in Failing(c) : o.n # n
         \/ /\ told'[n] \in LegalOutcomes
            /\ \E o \in Failing(c) : \E g : Ends(c, o, g) /\ g.n = n /\ told'[n] = Append(told[n], o.what)
<1>1. CASE (\A o \in Failing(c) : o.n # n) /\ told'[n] = told[n]
  BY <1>1
<1>2. CASE \E o \in Failing(c) : o.n = n /\ told'[n] = Append(told[n], o.what)
  <2>1. PICK o \in Failing(c) : o.n = n /\ told'[n] = Append(told[n], o.what)
    BY <1>2
  <2>2. PICK g : Ends(c, o, g)
    BY FailureEnds
  <2>3. g.n = n /\ told[n] \in g.said
    BY <2>1, <2>2 DEF Ends, CommandsIInv, Accounted
  <2>4. told'[n] \in LegalOutcomes
    BY <2>1, <2>2, <2>3 DEF Ends
  <2> QED BY <2>1, <2>2, <2>3, <2>4
<1> QED BY <1>1, <1>2, TellsAll DEF FailsRequest

\* The failure of a command, by what the adapter did with it.
LEMMA FailureAccounted ==
  ASSUME TypeOK, TypeOK', Founded, CommandsIInv, NEW c \in inflight, FailsRequest(c), Tame
  PROVE  Accounted' /\ OutcomesLegal'
<1> DEFINE N == {o.n : o \in Failing(c)}
           Y == {Duty("state", Failed(e).n, {Standing(Failed(e))}, Failed(e)) :
                   e \in {x \in Here(c) : x.required}}
<1>1. ASSUME NEW n \in 1..MaxRequests
      PROVE  /\ n \notin N => told'[n] = told[n]
             /\ n \in N => told'[n] \in LegalOutcomes
  <2>1. CASE told'[n] = told[n] /\ \A o \in Failing(c) : o.n # n
    BY <2>1
  <2>2. CASE told'[n] \in LegalOutcomes /\ \E o \in Failing(c) : \E g : Ends(c, o, g) /\ g.n = n
    <3>1. n \in N
      BY <2>2 DEF Ends
    <3> QED BY <2>2, <3>1
  <2> HIDE DEF N
  <2> QED BY <2>1, <2>2, FailureTold
<1>2. \A h \in Duties \cap Duties' : h.n \notin N
  <2> SUFFICES ASSUME NEW h \in Duties, h \in Duties', NEW o \in Failing(c), h.n = o.n
               PROVE  FALSE
    OBVIOUS
  <2>1. PICK g : Ends(c, o, g)
    BY FailureEnds
  <2>2. g = h
    BY <2>1 DEF Ends, CommandsIInv, Accounted
  <2> QED BY <2>1, <2>2 DEF Ends
<1>3. ASSUME NEW e \in Here(c), e.required
      PROVE  /\ Failed(e).n \in 1..submitted /\ Failed(e).n = e.n /\ e.n \in N
             /\ told'[Failed(e).n] = Standing(Failed(e))
  <2>1. e \in commandStates /\ e \in StateType /\ e.id = c.id
    BY DEF Here, Own, TypeOK
  <2>2. ~e.failed
    BY <2>1 DEF CommandsIInv, Numbered
  <2>3. Failed(e).n = e.n /\ Append(Standing(e), Settlement(e, FALSE).what) = Standing(Failed(e))
    BY <2>1, <2>2, FailedEntry
  <2>4. e.n \in 1..submitted /\ told[e.n] = Standing(e) /\ Duty("state", e.n, {Standing(e)}, e) \in Duties
    BY <2>1, StateDuty DEF CommandsIInv
  <2>5. e.n \in 1..MaxRequests
    <3>1. submitted \in Nat /\ MaxRequests \in Nat /\ submitted <= MaxRequests
      BY ConstantsAssumption DEF TypeOK
    <3> QED BY <2>4, <3>1
  <2>6. Settlement(e, FALSE) \in Failing(c) /\ Settlement(e, FALSE).n = e.n
    BY DEF Failing, Settlement
  <2>a. PICK o \in Failing(c) :
          \E g : Ends(c, o, g) /\ g.n = e.n /\ told'[e.n] = Append(told[e.n], o.what)
    BY <2>5, <2>6, FailureTold
  <2>7. PICK g : Ends(c, o, g) /\ g.n = e.n /\ told'[e.n] = Append(told[e.n], o.what)
    BY <2>a
  <2> DEFINE d == Duty("state", e.n, {Standing(e)}, e)
  <2>8. d.n = e.n /\ d.by = "state" /\ d.entry = e
    BY DutyFields
  <2>9. d \in Duties
    BY <2>4
  <2> HIDE DEF d
  <2>10. g = d
    BY <2>7, <2>8, <2>9 DEF Ends, CommandsIInv, Accounted
  <2>11. PICK x \in Here(c) : o = Settlement(x, FALSE) /\ g = Duty("state", x.n, {Standing(x)}, x)
    BY <2>7, <2>8, <2>10 DEF Ends
  <2>12. x = e
    BY <2>8, <2>10, <2>11, DutyFields
  <2>13. told'[e.n] = Standing(Failed(e))
    BY <2>3, <2>4, <2>7, <2>11, <2>12
  <2> QED BY <2>3, <2>4, <2>6, <2>13
<1>4. ASSUME NEW h \in Y
      PROVE  \E e \in Here(c) : /\ e.required /\ h.n = e.n /\ h.said = {Standing(Failed(e))}
                                /\ h = Duty("state", Failed(e).n, {Standing(Failed(e))}, Failed(e))
  <2>1. PICK e \in Here(c) : e.required
                             /\ h = Duty("state", Failed(e).n, {Standing(Failed(e))}, Failed(e))
    OBVIOUS
  <2>2. h.n = Failed(e).n /\ h.said = {Standing(Failed(e))}
    BY <2>1, DutyFields
  <2> QED BY <1>3, <2>1, <2>2
<1>5. StateDuties(commandStates') \subseteq StateDuties(commandStates) \cup Y
  <2> SUFFICES ASSUME NEW h \in StateDuties(commandStates'), h \notin StateDuties(commandStates)
               PROVE  h \in Y
    OBVIOUS
  <2>1. PICK f \in commandStates' : h = Duty("state", f.n, {Standing(f)}, f)
    BY DEF StateDuties
  <2>2. f \notin commandStates
    BY <2>1 DEF StateDuties
  <2>3. PICK e \in Here(c) : e.required /\ f = Failed(e)
    BY <2>2 DEF FailsRequest
  <2> QED BY <2>1, <2>3
<1> HIDE DEF N, Y
<1>6. Duties' \subseteq Duties \cup Y
  <2>1. UNCHANGED <<queueOp, admissions, promptState, branch>>
    BY DEF FailsRequest
  <2>2. QueueDuties(deferred') \subseteq QueueDuties(deferred)
    BY EmptyQueue DEF FailsRequest
  <2>3. reload' \in {0, reload}
    BY DEF FailsRequest
  <2>4. ReloadDuties(reload', inflight') \subseteq ReloadDuties(reload, inflight)
    BY <2>3, ReloadShed, TameSends DEF CommandsIInv
  <2>5. FoundingDuties(inflight') \subseteq FoundingDuties(inflight)
    BY FoundingShed
  <2> QED BY <1>5, <2>1, <2>2, <2>4, <2>5, DutiesPassed
<1>7. \A h \in Duties' : h \in Y \/ (h \in Duties /\ h.n \notin N)
  BY <1>2, <1>6
<1>8. submitted' \in Nat /\ submitted <= submitted' /\ submitted' = submitted
  BY DEF TypeOK, FailsRequest
<1>9. \A h \in Y : h.n \in 1..submitted' /\ told'[h.n] \in h.said
  <2> SUFFICES ASSUME NEW h \in Y PROVE h.n \in 1..submitted' /\ told'[h.n] \in h.said
    OBVIOUS
  <2>1. PICK e \in Here(c) : e.required /\ h.n = e.n /\ h.said = {Standing(Failed(e))}
    BY <1>4
  <2> QED BY <1>3, <1>8, <2>1
<1>10. \A h \in Y : \A g \in Duties \cap Duties' : g.n = h.n => g = h
  <2> SUFFICES ASSUME NEW h \in Y, NEW g \in Duties \cap Duties', g.n = h.n PROVE FALSE
    OBVIOUS
  <2>1. PICK e \in Here(c) : e.required /\ h.n = e.n
    BY <1>4
  <2> QED BY <1>2, <1>3, <2>1
<1>11. \A g, h \in Y : g.n = h.n => g = h
  <2> SUFFICES ASSUME NEW g \in Y, NEW h \in Y PROVE g = h
    OBVIOUS
  <2>1. PICK e \in Here(c) : g = Duty("state", Failed(e).n, {Standing(Failed(e))}, Failed(e))
    BY <1>4
  <2>2. PICK f \in Here(c) : h = Duty("state", Failed(f).n, {Standing(Failed(f))}, Failed(f))
    BY <1>4
  <2>3. e = f
    BY DEF Here, Own, CommandsIInv, Numbered
  <2> QED BY <2>1, <2>2, <2>3
<1>12. Passes(N, Y)
  BY <1>1, <1>7, <1>8, <1>9, <1>10, <1>11 DEF Passes
<1> QED BY <1>12, DutyStep DEF CommandsIInv

LEMMA FailedReply ==
  ASSUME TypeOK, TypeOK', Founded, CommandsIInv, RequestFailed
  PROVE  CommandsIInv'
<1>1. PICK c \in inflight : RequestFailed!(c)
  BY DEF RequestFailed
<1>2. FailsRequest(c)
  BY <1>1 DEF FailsRequest, Failing, Here, Failed
<1>3. compaction.route \in Routes
  BY DEF TypeOK, CompactionType
<1>4. Tame
  BY <1>1, <1>3, EndSelectionTame, ConsumeFewer
<1>5. Accounted' /\ OutcomesLegal'
  BY <1>2, <1>4, FailureAccounted
<1>6. Consume(c) \/ \E kind, to : Follow(c, kind, to)
  <2>1. CASE EndSelection(c, compaction.route)
    BY <2>1 DEF EndSelection, RestoreOrWait, Continue
  <2> QED BY <1>1, <2>1
<1>7. \A d \in inflight' : d.id # c.id
  BY <1>6, AnsweredGone DEF CommandsIInv
<1>8. reload' \in {0, reload}
  BY <1>2 DEF FailsRequest
<1>9. /\ reload' < nextId'
      /\ \A i, j \in inflight' : i.id = j.id => i = j
      /\ \A e \in commandStates : e.id < nextId' /\ (e.failed => \A i \in inflight' : i.id # e.id)
  BY <1>4, <1>8, TameSends, Renumbered DEF CommandsIInv
<1>10. ASSUME NEW e \in commandStates', e \notin commandStates \ Own(c)
       PROVE  \E x \in Own(c) : e = Failed(x) /\ e.id = c.id /\ x \in commandStates
  <2>1. PICK x \in Here(c) : e = Failed(x)
    BY <1>2, <1>10 DEF FailsRequest
  <2>2. x \in Own(c) /\ x.id = c.id /\ x \in commandStates /\ x \in StateType
    BY DEF Here, Own, TypeOK
  <2>3. e.id = c.id
    BY <2>1, <2>2, FailedEntry
  <2> QED BY <2>1, <2>2, <2>3
<1>11. ASSUME NEW e \in commandStates'
       PROVE  e.id < nextId' /\ (e.failed => \A i \in inflight' : i.id # e.id)
  <2>1. CASE e \in commandStates \ Own(c)
    BY <1>9, <2>1
  <2>2. CASE e \notin commandStates \ Own(c)
    <3>1. PICK x \in Own(c) : e.id = c.id /\ x \in commandStates
      BY <1>10, <2>2
    <3>2. x.id = c.id
      BY DEF Own
    <3> QED BY <1>7, <1>9, <3>1, <3>2
  <2> QED BY <2>1, <2>2
<1>12. ASSUME NEW e \in commandStates', NEW f \in commandStates', e.id = f.id
       PROVE  e = f
  <2>1. CASE e \in commandStates \ Own(c) /\ f \in commandStates \ Own(c)
    BY <1>12, <2>1 DEF CommandsIInv, Numbered
  <2>2. CASE e \notin commandStates \ Own(c) /\ f \notin commandStates \ Own(c)
    <3>1. PICK x \in Own(c) : e = Failed(x) /\ x \in commandStates
      BY <1>10, <2>2
    <3>2. PICK y \in Own(c) : f = Failed(y) /\ y \in commandStates
      BY <1>10, <2>2
    <3>3. x = y
      BY <3>1, <3>2 DEF Own, CommandsIInv, Numbered
    <3> QED BY <3>1, <3>2, <3>3
  <2>3. CASE e \notin commandStates \ Own(c) /\ f \in commandStates \ Own(c)
    <3>1. e.id = c.id
      BY <1>10, <2>3
    <3> QED BY <1>12, <2>3, <3>1 DEF Own
  <2>4. CASE e \in commandStates \ Own(c) /\ f \notin commandStates \ Own(c)
    <3>1. f.id = c.id
      BY <1>10, <2>4
    <3> QED BY <1>12, <2>4, <3>1 DEF Own
  <2> QED BY <2>1, <2>2, <2>3, <2>4
<1>13. Numbered'
  BY <1>9, <1>11, <1>12 DEF Numbered
<1> QED BY <1>5, <1>13 DEF CommandsIInv

-----------------------------------------------------------------------------
(* Requests made, taken and refused *)

\* From now on the request r is nobody's but the handler's.
Frees(r) ==
  /\ r \in Request
  /\ submitted' \in Nat /\ submitted <= submitted' /\ r.n \in 1..submitted' /\ r.n \in 1..MaxRequests
  /\ \A n \in (1..MaxRequests) \ {r.n} : told'[n] = told[n]
  /\ \A h \in Duties \cap Duties' : h.n # r.n

\* A request routed at once has a number nothing remembers yet ...
LEMMA FreshFrees ==
  ASSUME TypeOK, Accounted, NEW r \in Request, r.n = submitted + 1, submitted < MaxRequests, submitted' = r.n,
         NEW said, told' = [told EXCEPT ![r.n] = said]
  PROVE  Frees(r) /\ told'[r.n] = said
<1>1. submitted \in Nat /\ MaxRequests \in Nat
  BY ConstantsAssumption DEF TypeOK
<1>2. /\ submitted' \in Nat /\ submitted <= submitted' /\ r.n \in 1..submitted' /\ r.n \in 1..MaxRequests
      /\ r.n \notin 1..submitted
  BY <1>1
<1>3. told'[r.n] = said /\ \A n \in (1..MaxRequests) \ {r.n} : told'[n] = told[n]
  BY <1>2 DEF TypeOK
<1>4. \A h \in Duties : h.n # r.n
  BY <1>2 DEF Accounted
<1> QED BY <1>2, <1>3, <1>4 DEF Frees

\* The loop takes a request: its place in the queue is gone.
LEMMA RemovedFrees ==
  ASSUME TypeOK, Queued, Accounted, NEW i \in Drainable, NEW r, r = deferred[i],
         deferred' = RemoveAt(deferred, i)
  PROVE  /\ Duty("queue", r.n, {Asked(r.kind)}, r) \in Duties
         /\ r \in Request /\ r.n \in 1..submitted /\ r.n \in 1..MaxRequests
         /\ told[r.n] = Asked(r.kind)
         /\ QueueDuties(deferred') \subseteq QueueDuties(deferred)
         /\ \A h \in Duties \cap Duties' : h.n # r.n
<1>1. deferred \in Seq(Request) /\ DOMAIN deferred = 1..Len(deferred)
  BY DEF TypeOK
<1>2. i \in DOMAIN deferred /\ i \in 1..Len(deferred)
  BY <1>1 DEF Drainable, ReadyControls
<1>3. Ordered(deferred)
  BY DEF Queued
<1>4. \A k \in DOMAIN deferred' : \E m \in DOMAIN deferred : /\ m # i /\ deferred'[k] = deferred[m]
  BY <1>1, <1>2, <1>3, RemovedOrder
<1> DEFINE g == Duty("queue", r.n, {Asked(r.kind)}, r)
<1>5. g.n = r.n /\ g.by = "queue" /\ g.said = {Asked(r.kind)}
  BY DutyFields
<1>6. g \in Duties
  BY <1>2 DEF Duties, QueueDuties
<1> HIDE DEF g
<1>7. r \in Request
  BY <1>1, <1>2
<1>8. r.n \in 1..submitted /\ told[r.n] = Asked(r.kind)
  BY <1>5, <1>6 DEF Accounted
<1>9. r.n \in 1..MaxRequests
  <2>1. submitted \in Nat /\ MaxRequests \in Nat /\ submitted <= MaxRequests
    BY ConstantsAssumption DEF TypeOK
  <2> QED BY <1>8, <2>1
<1>10. ASSUME NEW h \in QueueDuties(deferred')
       PROVE  h \in QueueDuties(deferred) /\ h.n # r.n
  <2>1. PICK k \in DOMAIN deferred' :
          h = Duty("queue", deferred'[k].n, {Asked(deferred'[k].kind)}, deferred'[k])
    BY DEF QueueDuties
  <2>2. PICK m \in DOMAIN deferred : m # i /\ deferred'[k] = deferred[m]
    BY <1>4
  <2>3. h \in QueueDuties(deferred)
    BY <2>1, <2>2 DEF QueueDuties
  <2>4. deferred[m].n # deferred[i].n
    <3>1. deferred[m].n \in Nat /\ deferred[i].n \in Nat
      <4>1. deferred[m] \in Request /\ deferred[i] \in Request
        BY <1>1, <1>2, <2>2
      <4> QED BY <4>1 DEF Request
    <3>2. m < i \/ i < m
      BY <1>1, <1>2, <2>2
    <3>3. deferred[m].n < deferred[i].n \/ deferred[i].n < deferred[m].n
      BY <1>2, <1>3, <2>2, <3>2 DEF Ordered
    <3> QED BY <3>1, <3>3
  <2>5. h.n = deferred[m].n
    BY <2>1, <2>2, DutyFields
  <2> QED BY <2>3, <2>4, <2>5
<1>11. ASSUME NEW h \in Duties, h \in Duties', h.n = r.n
       PROVE  FALSE
  <2>1. h = g
    BY <1>5, <1>6, <1>11 DEF Accounted
  <2>2. h \in QueueDuties(deferred')
    BY <1>5, <1>11, <2>1, KeptNext
  <2> QED BY <1>10, <1>11, <2>2
<1>12. QueueDuties(deferred') \subseteq QueueDuties(deferred)
  BY <1>10
<1>13. g \in Duties /\ \A h \in Duties \cap Duties' : h.n # r.n
  BY <1>6, <1>11
<1> QED BY <1>7, <1>8, <1>9, <1>12, <1>13 DEF g

\* ... and one the loop takes is remembered by its place in the queue only.
LEMMA TakenFrees ==
  ASSUME TypeOK, Queued, Accounted, NEW kinds, NEW r \in Offered(kinds), Taken(r)
  PROVE  /\ Frees(r) /\ told'[r.n] = Asked(r.kind) /\ r.kind \in kinds
         /\ QueueDuties(deferred') \subseteq QueueDuties(deferred)
<1>1. r \in Request /\ r.kind \in kinds
  BY TakenType
<1>2. CASE ~draining
  <2>1. /\ r.n = submitted + 1 /\ submitted < MaxRequests /\ submitted' = r.n /\ deferred' = deferred
        /\ told' = [told EXCEPT ![r.n] = Asked(r.kind)]
    BY <1>2 DEF Taken
  <2> QED BY <1>1, <2>1, FreshFrees
<1>3. CASE draining
  <2>1. PICK i \in Drainable : r = deferred[i] /\ deferred' = RemoveAt(deferred, i)
    BY <1>3 DEF Taken
  <2>2. told' = told /\ submitted' = submitted /\ submitted \in Nat
    BY <1>3 DEF Taken, TypeOK
  <2>3. Frees(r)
    <3>1. r.n \in 1..submitted /\ r.n \in 1..MaxRequests /\ \A h \in Duties \cap Duties' : h.n # r.n
      BY <2>1, RemovedFrees
    <3>2. submitted' \in Nat /\ submitted <= submitted' /\ r.n \in 1..submitted'
      BY <2>2, <3>1
    <3> QED BY <1>1, <2>2, <3>1, <3>2 DEF Frees
  <2>4. told'[r.n] = Asked(r.kind) /\ QueueDuties(deferred') \subseteq QueueDuties(deferred)
    BY <2>1, <2>2, RemovedFrees
  <2> QED BY <1>1, <2>3, <2>4
<1> QED BY <1>2, <1>3

LEMMA AskedLegal == \A kind : Asked(kind) \in LegalOutcomes
BY DEF Asked, LegalOutcomes

\* The request passes to the record y ...
LEMMA GivenStep ==
  ASSUME TypeOK, CommandsIInv, NEW r, Frees(r), told'[r.n] \in LegalOutcomes,
         NEW y, y.n = r.n, told'[r.n] \in y.said, Duties' \subseteq Duties \cup {y}
  PROVE  Accounted' /\ OutcomesLegal'
<1>1. Passes({r.n}, {y})
  BY DEF Passes, Frees
<1> QED BY <1>1, DutyStep DEF CommandsIInv

\* ... or is done with.
LEMMA DoneStep ==
  ASSUME TypeOK, CommandsIInv, NEW r, Frees(r), told'[r.n] \in LegalOutcomes, Duties' \subseteq Duties
  PROVE  Accounted' /\ OutcomesLegal'
<1>1. Passes({r.n}, {})
  BY DEF Passes, Frees
<1> QED BY <1>1, DutyStep DEF CommandsIInv

LEMMA DoneHandled ==
  ASSUME TypeOK, TypeOK', Founded, CommandsIInv, NEW r, Frees(r), told'[r.n] \in LegalOutcomes, Shedding
  PROVE  CommandsIInv'
<1>1. Accounted' /\ OutcomesLegal'
  BY DutiesShed, DoneStep DEF CommandsIInv
<1>2. Numbered'
  BY NumberedKept, TameSends DEF CommandsIInv, Shedding
<1> QED BY <1>1, <1>2 DEF CommandsIInv

LEMMA RoutedReload ==
  ASSUME TypeOK, TypeOK', CommandsIInv, Tame, UNCHANGED reload
  PROVE  /\ FoundingDuties(inflight') \subseteq FoundingDuties(inflight)
         /\ ReloadDuties(reload', inflight') \subseteq ReloadDuties(reload, inflight)
BY FoundingShed, ReloadShed, TameSends DEF CommandsIInv

\* The routes, one for each place that remembers the request.
LEMMA PromptRouted ==
  ASSUME TypeOK, TypeOK', Queued, Founded, CommandsIInv, RouteInput \/ RouteCommand
  PROVE  CommandsIInv'
<1>1. PICK r : /\ r \in Offered({"input"}) \/ r \in Offered({"command", "skill"})
               /\ Taken(r)
               /\ UNCHANGED <<queueOp, commandStates, promptState, branch, reload>>
               /\ \/ nextId' = nextId + 1 /\ UNCHANGED <<admissions, inflight>>
                  \/ /\ \E counted : /\ admissions' = admissions \cup {Admission(nextId, r, counted)}
                                     /\ \/ r \in Offered({"input"}) /\ counted = FALSE
                                        \/ r \in Offered({"command", "skill"}) /\ counted = (r.kind = "command")
                     /\ Send("prompt", r, None) \/ Send("command", r, None)
  <2>1. CASE RouteInput
    <3>1. PICK r \in Offered({"input"}) : RouteInput!(r)
      BY <2>1 DEF RouteInput
    <3>2. CASE AdmissionsFull
      BY <3>1, <3>2
    <3>3. CASE ~AdmissionsFull
      BY <3>1, <3>3
    <3> QED BY <3>2, <3>3
  <2>2. CASE RouteCommand
    <3>1. PICK r \in Offered({"command", "skill"}) : RouteCommand!(r)
      BY <2>2 DEF RouteCommand
    <3>2. CASE AdmissionsFull
      BY <3>1, <3>2
    <3>3. CASE ~AdmissionsFull
      BY <3>1, <3>3
    <3> QED BY <3>2, <3>3
  <2> QED BY <2>1, <2>2
<1>2. /\ Frees(r) /\ told'[r.n] = Asked(r.kind) /\ told'[r.n] \in LegalOutcomes
      /\ QueueDuties(deferred') \subseteq QueueDuties(deferred)
      /\ r \in Offered({"input"}) => r.kind = "input"
      /\ r \in Offered({"command", "skill"}) => r.kind \in {"command", "skill"}
  <2>1. /\ Frees(r) /\ told'[r.n] = Asked(r.kind) /\ QueueDuties(deferred') \subseteq QueueDuties(deferred)
    BY <1>1, TakenFrees DEF CommandsIInv
  <2>2. /\ r \in Offered({"input"}) => r.kind = "input"
        /\ r \in Offered({"command", "skill"}) => r.kind \in {"command", "skill"}
    BY <1>1, TakenType
  <2> QED BY <2>1, <2>2, AskedLegal
<1>3. CASE nextId' = nextId + 1 /\ UNCHANGED <<admissions, inflight>>
  <2>1. Tame
    BY <1>3 DEF Tame, Fewer
  <2>2. Shedding
    BY <1>1, <1>2, <1>3, <2>1 DEF Shedding
  <2> QED BY <1>2, <2>2, DoneHandled
<1>4. ASSUME NEW counted, admissions' = admissions \cup {Admission(nextId, r, counted)},
             \/ r \in Offered({"input"}) /\ counted = FALSE
             \/ r \in Offered({"command", "skill"}) /\ counted = (r.kind = "command"),
             Send("prompt", r, None) \/ Send("command", r, None)
      PROVE  CommandsIInv'
  <2> DEFINE a == Admission(nextId, r, counted)
             y == Duty("admission", a.n, {IF a.counted THEN <<"command">> ELSE <<>>}, a)
  <2>1. Tame /\ Sends
    BY <1>4, SendAdds, TameSends DEF Founding
  <2>2. a.n = r.n /\ a.counted = counted
    BY DEF Admission
  <2>3. Asked(r.kind) = IF counted THEN <<"command">> ELSE <<>>
    BY <1>2, <1>4 DEF Asked
  <2> HIDE DEF a
  <2>4. y.n = r.n /\ y.said = {IF counted THEN <<"command">> ELSE <<>>}
    BY <2>2, DutyFields
  <2>5. AdmissionDuties(admissions') \subseteq AdmissionDuties(admissions) \cup {y}
    BY <1>4, MoreAdmissions DEF a
  <2> HIDE DEF y
  <2>6. Duties' \subseteq Duties \cup {y}
    BY <1>1, <1>2, <2>1, <2>5, RoutedReload, DutiesPassed
  <2>7. told'[r.n] \in y.said
    BY <1>2, <2>3, <2>4
  <2>8. Accounted' /\ OutcomesLegal'
    BY <1>2, <2>4, <2>6, <2>7, GivenStep
  <2>9. Numbered'
    BY <1>1, <2>1, NumberedKept DEF CommandsIInv
  <2> QED BY <2>8, <2>9 DEF CommandsIInv
<1> QED BY <1>1, <1>3, <1>4

LEMMA NewRouted ==
  ASSUME TypeOK, TypeOK', Queued, Founded, CommandsIInv, RouteNew
  PROVE  CommandsIInv'
<1>1. PICK r \in Offered({"new"}) : RouteNew!(r)
  BY DEF RouteNew
<1>2. /\ Frees(r) /\ told'[r.n] = Asked(r.kind) /\ told'[r.n] \in LegalOutcomes /\ r.kind = "new"
      /\ QueueDuties(deferred') \subseteq QueueDuties(deferred)
  BY <1>1, TakenFrees, AskedLegal DEF CommandsIInv
<1> DEFINE x == Command(nextId, "new", r, model)
           y == Duty("founding", r.n, {<<>>}, nextId)
<1>3. Adds(x) /\ x.req = r
  BY <1>1, SendAdds
<1>4. Sends
  BY <1>3 DEF Sends
<1>5. FoundingDuties(inflight') \subseteq FoundingDuties(inflight) \cup {y}
  <2> SUFFICES ASSUME NEW h \in FoundingDuties(inflight'), h \notin FoundingDuties(inflight)
               PROVE  h = y
    OBVIOUS
  <2>1. PICK d \in inflight' : d.kind \in Founding /\ h = Duty("founding", d.req.n, {<<>>}, d.id)
    BY DEF FoundingDuties
  <2>2. d = x
    BY <1>3, <2>1 DEF Adds, FoundingDuties
  <2> QED BY <1>3, <2>1, <2>2 DEF Adds
<1>6. y.n = r.n /\ y.said = {<<>>}
  BY DutyFields
<1> HIDE DEF x, y
<1>7. ReloadDuties(reload', inflight') \subseteq ReloadDuties(reload, inflight)
  BY <1>1, <1>4, ReloadShed DEF CommandsIInv
<1>8. UNCHANGED <<admissions, commandStates, queueOp, promptState, branch>>
  BY <1>1 DEF tables
<1>9. Duties' \subseteq Duties \cup {y}
  BY <1>2, <1>5, <1>7, <1>8, DutiesPassed
<1>10. told'[r.n] \in y.said
  BY <1>2, <1>6 DEF Asked
<1>11. Accounted' /\ OutcomesLegal'
  BY <1>2, <1>6, <1>9, <1>10, GivenStep
<1>12. Numbered'
  BY <1>1, <1>4, <1>8, NumberedKept DEF CommandsIInv
<1> QED BY <1>11, <1>12 DEF CommandsIInv

LEMMA ReloadRouted ==
  ASSUME TypeOK, TypeOK', Queued, Founded, CommandsIInv, RouteReload
  PROVE  CommandsIInv'
<1>1. PICK r \in Offered({"reload"}) : RouteReload!(r)
  BY DEF RouteReload
<1>2. /\ Frees(r) /\ told'[r.n] = Asked(r.kind) /\ told'[r.n] \in LegalOutcomes /\ r.kind = "reload"
      /\ QueueDuties(deferred') \subseteq QueueDuties(deferred)
  BY <1>1, TakenFrees, AskedLegal DEF CommandsIInv
<1> DEFINE x == Command(nextId, "reload", r, None)
           y == Duty("reload", r.n, {<<"reload">>}, nextId)
<1>3. Adds(x) /\ x.req = r /\ Tame
  BY <1>1, SendAdds DEF Founding
<1>4. Sends
  BY <1>3 DEF Sends
<1>5. ReloadDuties(reload', inflight') \subseteq {y}
  <2> SUFFICES ASSUME NEW h \in ReloadDuties(reload', inflight') PROVE h = y
    OBVIOUS
  <2>1. PICK d \in inflight' : d.id = nextId /\ h = Duty("reload", d.req.n, {<<"reload">>}, d.id)
    BY <1>1 DEF ReloadDuties
  <2>2. d \notin inflight
    <3>1. ASSUME d \in inflight PROVE FALSE
      <4>1. d.id < nextId /\ d.id \in Nat /\ nextId \in Nat
        BY <3>1 DEF Founded, TypeOK, CommandType
      <4> QED BY <2>1, <4>1
    <3> QED BY <3>1
  <2>3. d = x
    BY <1>3, <2>2 DEF Adds
  <2> QED BY <1>3, <2>1, <2>3
<1>6. y.n = r.n /\ y.said = {<<"reload">>}
  BY DutyFields
<1> HIDE DEF x, y
<1>7. UNCHANGED <<admissions, commandStates, queueOp, promptState, branch>>
  BY <1>1 DEF tables
<1>8. Duties' \subseteq Duties \cup {y}
  BY <1>2, <1>3, <1>5, <1>7, FoundingShed, DutiesPassed
<1>9. told'[r.n] \in y.said
  BY <1>2, <1>6 DEF Asked
<1>10. Accounted' /\ OutcomesLegal'
  BY <1>2, <1>6, <1>8, <1>9, GivenStep
<1>11. Numbered'
  BY <1>1, <1>3, <1>4, <1>7, NumberedKept DEF CommandsIInv, Adds
<1> QED BY <1>10, <1>11 DEF CommandsIInv

\* A queue operation, a capture and a fork are remembered in fields of their own.
LEMMA FieldRouted ==
  ASSUME TypeOK, TypeOK', Queued, Founded, CommandsIInv, RouteQueueOp \/ RouteCapture \/ RouteFork
  PROVE  CommandsIInv'
<1>1. ASSUME NEW kinds, NEW r \in Offered(kinds), Taken(r), Tame,
             UNCHANGED <<admissions, commandStates, reload>>,
             NEW y, y.n = r.n, Asked(r.kind) \in y.said,
             OperationDuties(queueOp') \subseteq OperationDuties(queueOp) \cup {y},
             CaptureDuties(promptState') \subseteq CaptureDuties(promptState) \cup {y},
             BranchDuties(branch') \subseteq BranchDuties(branch) \cup {y}
      PROVE  CommandsIInv'
  <2>1. /\ Frees(r) /\ told'[r.n] = Asked(r.kind) /\ told'[r.n] \in LegalOutcomes
        /\ QueueDuties(deferred') \subseteq QueueDuties(deferred)
    BY <1>1, TakenFrees, AskedLegal DEF CommandsIInv
  <2>2. Duties' \subseteq Duties \cup {y}
    BY <1>1, <2>1, RoutedReload, DutiesPassed
  <2>3. Accounted' /\ OutcomesLegal'
    BY <1>1, <2>1, <2>2, GivenStep
  <2>4. Numbered'
    BY <1>1, NumberedKept, TameSends DEF CommandsIInv
  <2> QED BY <2>3, <2>4 DEF CommandsIInv
<1>2. CASE RouteQueueOp
  <2>1. PICK r \in Offered({"steer", "clear"}) : RouteQueueOp!(r)
    BY <1>2 DEF RouteQueueOp
  <2> DEFINE y == Duty("operation", r.n, {<<"steer">>, <<"clear">>}, nextId)
  <2>2. OperationDuties(queueOp') \subseteq {y}
    BY <2>1 DEF OperationDuties
  <2>3. y.n = r.n /\ y.said = {<<"steer">>, <<"clear">>}
    BY DutyFields
  <2> HIDE DEF y
  <2>4. r.kind \in {"steer", "clear"}
    BY <2>1, TakenType
  <2>5. Asked(r.kind) \in y.said
    BY <2>3, <2>4 DEF Asked
  <2>6. Tame
    BY <2>1, SendAdds DEF Founding
  <2>7. UNCHANGED <<admissions, commandStates, reload, promptState, branch>>
    BY <2>1 DEF tables
  <2> QED BY <1>1, <2>1, <2>2, <2>3, <2>5, <2>6, <2>7
<1>3. CASE RouteCapture
  <2>1. PICK r \in Offered({"capture"}) : RouteCapture!(r)
    BY <1>3 DEF RouteCapture
  <2> DEFINE y == Duty("capture", r.n, {<<"capture">>}, nextId)
  <2>2. CaptureDuties(promptState') \subseteq {y}
    BY <2>1 DEF CaptureDuties, CaptureFence
  <2>3. y.n = r.n /\ y.said = {<<"capture">>}
    BY DutyFields
  <2> HIDE DEF y
  <2>4. r.kind = "capture"
    BY <2>1, TakenType
  <2>5. Asked(r.kind) \in y.said
    BY <2>3, <2>4 DEF Asked
  <2>6. Tame
    BY <2>1, SendAdds DEF Founding
  <2>7. UNCHANGED <<admissions, commandStates, reload, queueOp, branch>>
    BY <2>1 DEF tables
  <2> QED BY <1>1, <2>1, <2>2, <2>3, <2>5, <2>6, <2>7
<1>4. CASE RouteFork
  <2>1. PICK r \in Offered({"fork"}), stage \in {"messages", "replace"}, message \in BOOLEAN :
          RouteFork!(r)!(stage, message)
    BY <1>4 DEF RouteFork
  <2> DEFINE y == Duty("branch", r.n, {<<"fork">>}, r.n)
  <2>2. branch'.n = r.n
    BY <2>1 DEF NoBranch
  <2>3. BranchDuties(branch') \subseteq {y}
    BY <2>2 DEF BranchDuties
  <2>4. y.n = r.n /\ y.said = {<<"fork">>}
    BY DutyFields
  <2> HIDE DEF y
  <2>5. r.kind = "fork"
    BY <2>1, TakenType
  <2>6. Asked(r.kind) \in y.said
    BY <2>4, <2>5 DEF Asked
  <2>7. Send("branch-messages", r, None) \/ Send("branch-replace", r, None)
    BY <2>1
  <2>8. Tame
    BY <2>7, SendAdds DEF Founding
  <2>9. UNCHANGED <<admissions, commandStates, reload, queueOp, promptState>>
    BY <2>1 DEF tables
  <2> QED BY <1>1, <2>1, <2>3, <2>4, <2>6, <2>8, <2>9
<1> QED BY <1>2, <1>3, <1>4

LEMMA OthersRouted ==
  ASSUME TypeOK, TypeOK', Queued, Founded, CommandsIInv,
         RouteAttach \/ RouteModel \/ RouteRead \/ RouteCompact
  PROVE  CommandsIInv'
<1>1. ASSUME NEW kinds, NEW r \in Offered(kinds), Taken(r), Tame,
             UNCHANGED <<admissions, commandStates, queueOp, promptState, branch, reload>>
      PROVE  CommandsIInv'
  <2>1. /\ Frees(r) /\ told'[r.n] = Asked(r.kind) /\ told'[r.n] \in LegalOutcomes
        /\ QueueDuties(deferred') \subseteq QueueDuties(deferred)
    BY <1>1, TakenFrees, AskedLegal DEF CommandsIInv
  <2>2. Shedding
    BY <1>1, <2>1 DEF Shedding
  <2> QED BY <2>1, <2>2, DoneHandled
<1>2. CASE RouteAttach
  <2>1. PICK r \in Offered({"attach"}) : RouteAttach!(r)
    BY <1>2 DEF RouteAttach
  <2>2. Tame
    BY <2>1, SendAdds DEF Founding
  <2> QED BY <1>1, <2>1, <2>2 DEF tables
<1>3. CASE RouteModel
  <2>1. PICK r \in Offered({"model", "modelEffort"}) : RouteModel!(r)
    BY <1>3 DEF RouteModel
  <2>2. Tame
    BY <2>1, SendAdds DEF Founding
  <2> QED BY <1>1, <2>1, <2>2 DEF tables
<1>4. CASE RouteRead
  <2>1. PICK r \in Offered({"modelGet", "ping"}) : RouteRead!(r)
    BY <1>4 DEF RouteRead
  <2>2. Tame
    BY <2>1, SendAdds DEF Founding, Tame, Fewer
  <2> QED BY <1>1, <2>1, <2>2 DEF tables
<1>5. CASE RouteCompact
  <2>1. PICK r \in Offered({"compact"}), target \in Models \cup {None} : RouteCompact!(r)!(target)
    BY <1>5 DEF RouteCompact
  <2>2. Send("plain-compact", r, None) \/ Send("abort", r, None)
    BY <2>1
  <2>3. Tame
    BY <2>2, SendAdds DEF Founding
  <2> QED BY <1>1, <2>1, <2>3 DEF tables
<1> QED BY <1>2, <1>3, <1>4, <1>5

\* A route that finds its place taken refuses.
LEMMA BusyRouted ==
  ASSUME TypeOK, TypeOK', Queued, Founded, CommandsIInv, RouteBusy
  PROVE  CommandsIInv'
<1>1. PICK r \in Offered({"fork", "reload"}) : Answered(r, "error")
  BY DEF RouteBusy
<1>2. /\ UNCHANGED <<queueOp, admissions, commandStates, promptState, branch, reload, nextId, inflight>>
      /\ Tame
  BY <1>1 DEF Answered, tables, Tame, Fewer
<1>3. r \in Request /\ r.kind \in {"fork", "reload"}
  <2>1. CASE ~draining
    BY <1>1, <2>1, OfferedType DEF Answered
  <2>2. CASE draining
    <3>1. PICK i \in Drainable : r = deferred[i]
      BY <1>1, <2>2 DEF Answered
    <3>2. i \in DOMAIN deferred
      BY <3>1 DEF Drainable, ReadyControls
    <3>3. r \in Range(deferred)
      BY <3>1, <3>2 DEF Range
    <3> QED BY <1>1, <3>3, OfferedType
  <2> QED BY <2>1, <2>2
<1>4. Append(Asked(r.kind), "error") \in LegalOutcomes
  <2>1. Asked(r.kind) = <<r.kind>>
    BY <1>3 DEF Asked
  <2> QED BY <1>3, <2>1, Legal
<1>5. /\ Frees(r) /\ told'[r.n] = Append(Asked(r.kind), "error")
      /\ QueueDuties(deferred') \subseteq QueueDuties(deferred)
  <2>1. CASE ~draining
    <3>1. /\ r.n = submitted + 1 /\ submitted < MaxRequests /\ submitted' = r.n /\ deferred' = deferred
          /\ told' = [told EXCEPT ![r.n] = Append(Asked(r.kind), "error")]
      BY <1>1, <2>1 DEF Answered
    <3> QED BY <1>3, <3>1, FreshFrees DEF CommandsIInv
  <2>2. CASE draining
    <3>1. PICK i \in Drainable : r = deferred[i] /\ deferred' = RemoveAt(deferred, i)
      BY <1>1, <2>2 DEF Answered
    <3>2. Tell(r.n, "error") /\ submitted' = submitted /\ submitted \in Nat
      BY <1>1, <2>2 DEF Answered, TypeOK
    <3>3. /\ r.n \in 1..submitted /\ r.n \in 1..MaxRequests /\ told[r.n] = Asked(r.kind)
          /\ QueueDuties(deferred') \subseteq QueueDuties(deferred)
          /\ \A h \in Duties \cap Duties' : h.n # r.n
      BY <3>1, RemovedFrees DEF CommandsIInv
    <3>4. /\ told'[r.n] = Append(Asked(r.kind), "error")
          /\ \A n \in (1..MaxRequests) \ {r.n} : told'[n] = told[n]
      BY <3>2, <3>3 DEF Tell, TypeOK
    <3>5. submitted' \in Nat /\ submitted <= submitted' /\ r.n \in 1..submitted'
      BY <3>2, <3>3
    <3> QED BY <1>3, <3>3, <3>4, <3>5 DEF Frees
  <2> QED BY <2>1, <2>2
<1>6. Shedding
  BY <1>2, <1>5 DEF Shedding
<1> QED BY <1>4, <1>5, <1>6, DoneHandled

LEMMA RefusedLegal == \A kind : Asked(kind) \o Refusal(kind) \in LegalOutcomes
<1> SUFFICES ASSUME NEW kind PROVE Asked(kind) \o Refusal(kind) \in LegalOutcomes
  OBVIOUS
<1>1. CASE Refusal(kind) = <<>>
  <2>1. Asked(kind) \o Refusal(kind) = Asked(kind)
    BY <1>1, Joined DEF Asked
  <2> QED BY <2>1, AskedLegal
<1>2. CASE Refusal(kind) # <<>>
  <2>1. Asked(kind) = <<kind>> /\ Refusal(kind) = <<Refusal(kind)[1]>>
    BY <1>2 DEF Asked, Refusal
  <2>2. Asked(kind) \o Refusal(kind) = <<kind, Refusal(kind)[1]>>
    BY <2>1, Joined
  <2>3. Append(Asked(kind), Refusal(kind)[1]) = <<kind, Refusal(kind)[1]>>
    BY <2>1, Appended
  <2> QED BY <1>2, <2>2, <2>3, RefusalLegal
<1> QED BY <1>1, <1>2

\* A deferred request is remembered by its place in the queue.
LEMMA AppendedDuties ==
  ASSUME NEW s \in Seq(Request), NEW r \in Request
  PROVE  QueueDuties(Append(s, r)) \subseteq QueueDuties(s) \cup {Duty("queue", r.n, {Asked(r.kind)}, r)}
<1> DEFINE t == Append(s, r)
<1>1. /\ DOMAIN s = 1..Len(s) /\ DOMAIN t = 1..(Len(s) + 1) /\ Len(s) \in Nat
      /\ \A i \in 1..Len(s) : t[i] = s[i]
      /\ t[Len(s) + 1] = r
  OBVIOUS
<1> HIDE DEF t
<1> SUFFICES ASSUME NEW h \in QueueDuties(t), h \notin QueueDuties(s)
             PROVE  h = Duty("queue", r.n, {Asked(r.kind)}, r)
  BY DEF t
<1>2. PICK i \in DOMAIN t : h = Duty("queue", t[i].n, {Asked(t[i].kind)}, t[i])
  BY DEF QueueDuties
<1>3. i \notin 1..Len(s)
  BY <1>1, <1>2 DEF QueueDuties
<1>4. i = Len(s) + 1
  BY <1>1, <1>3
<1> QED BY <1>1, <1>2, <1>4

LEMMA DeferHandled ==
  ASSUME TypeOK, TypeOK', Queued, Founded, CommandsIInv, Defer
  PROVE  CommandsIInv'
<1>1. PICK r \in Offered(Gated) : Defer!(r)
  BY DEF Defer
<1>2. r \in Request
  BY <1>1, OfferedType
<1>3. /\ UNCHANGED <<queueOp, admissions, commandStates, promptState, branch, reload, nextId, inflight>>
      /\ Tame
  BY <1>1 DEF tables, Tame, Fewer
<1>4. CASE deferred' = deferred /\ told' = [told EXCEPT ![r.n] = Asked(r.kind) \o Refusal(r.kind)]
  <2>1. Frees(r) /\ told'[r.n] = Asked(r.kind) \o Refusal(r.kind)
    BY <1>1, <1>2, <1>4, FreshFrees DEF CommandsIInv
  <2>2. Shedding
    BY <1>3, <1>4 DEF Shedding
  <2> QED BY <2>1, <2>2, RefusedLegal, DoneHandled
<1>5. CASE deferred' = Append(deferred, r) /\ told' = [told EXCEPT ![r.n] = Asked(r.kind)]
  <2> DEFINE y == Duty("queue", r.n, {Asked(r.kind)}, r)
  <2>1. Frees(r) /\ told'[r.n] = Asked(r.kind)
    BY <1>1, <1>2, <1>5, FreshFrees DEF CommandsIInv
  <2>2. QueueDuties(deferred') \subseteq QueueDuties(deferred) \cup {y}
    BY <1>2, <1>5, AppendedDuties DEF TypeOK
  <2>3. y.n = r.n /\ y.said = {Asked(r.kind)}
    BY DutyFields
  <2> HIDE DEF y
  <2>4. Duties' \subseteq Duties \cup {y}
    BY <1>3, <2>2, DutiesPassed
  <2>5. Accounted' /\ OutcomesLegal'
    BY <2>1, <2>3, <2>4, AskedLegal, GivenStep
  <2>6. Numbered'
    BY <1>3, NumberedKept, TameSends DEF CommandsIInv
  <2> QED BY <2>5, <2>6 DEF CommandsIInv
<1> QED BY <1>1, <1>4, <1>5 DEF Enqueued

LEMMA RefuseHandled ==
  ASSUME TypeOK, TypeOK', Founded, CommandsIInv, Refuse
  PROVE  CommandsIInv'
<1>1. PICK r \in Offered(Gated) : Refuse!(r)
  BY DEF Refuse
<1>2. r \in Request
  BY <1>1, OfferedType
<1>3. Frees(r) /\ told'[r.n] = Asked(r.kind) \o Refusal(r.kind)
  BY <1>1, <1>2, FreshFrees DEF CommandsIInv
<1>4. Shedding
  BY <1>1 DEF Shedding, tables, Tame, Fewer
<1> QED BY <1>3, <1>4, RefusedLegal, DoneHandled

LEMMA InterruptHandled ==
  ASSUME TypeOK, TypeOK', Queued, Founded, CommandsIInv, Interrupt \/ InterruptBranch
  PROVE  CommandsIInv'
<1>1. PICK r \in Offered({"interrupt"}) : Interrupt!(r) \/ InterruptBranch!(r)
  BY DEF Interrupt, InterruptBranch
<1>2. r \notin Range(deferred)
  <2>1. ASSUME r \in Range(deferred) PROVE FALSE
    <3>1. PICK k \in DOMAIN deferred : r = deferred[k]
      BY <2>1 DEF Range
    <3>2. r.kind \in Gated
      BY <3>1 DEF Queued
    <3>3. r.kind = "interrupt"
      BY <2>1, OfferedType
    <3> QED BY <3>2, <3>3 DEF Gated, PromptKinds, ModelControls, LineKinds
  <2> QED BY <2>1
<1>3. submitted' = submitted + 1
  BY <1>1, <1>2 DEF Offered
<1>4. UNCHANGED <<deferred, admissions, commandStates, queueOp, promptState, reload>>
  BY <1>1 DEF tables
<1>5. Tame
  <2>1. \/ \E kind \in {"interrupt-abort", "branch-abort"} : Send(kind, r, None)
        \/ UNCHANGED <<nextId, inflight>>
    BY <1>1
  <2> QED BY <2>1, SendAdds DEF Founding, Tame, Fewer
<1>6. CASE Interrupt!(r)
  <2>1. branch' = branch /\ told' = told
    BY <1>6
  <2>2. Shedding
    BY <1>4, <1>5, <2>1 DEF Shedding
  <2> QED BY <1>3, <2>1, <2>2, QuietHandled
<1>7. CASE InterruptBranch!(r)
  <2>1. Branching
    BY <1>7
  <2>2. CASE Finish("cancelled")
    <3>1. Shedding
      BY <1>4, <1>5, <2>2, FinishSheds DEF Shedding
    <3> QED BY <1>3, <2>1, <2>2, <3>1, BranchEnded
  <2>3. CASE branch' = [branch EXCEPT !.interrupted = TRUE] /\ told' = told
    <3>1. branch'.n = branch.n
      BY <2>3 DEF TypeOK, BranchType
    <3>2. Shedding
      BY <1>4, <1>5, <2>1, <3>1, BranchStays DEF Shedding, Branching
    <3> QED BY <1>3, <2>3, <3>2, QuietHandled
  <2> QED BY <1>7, <2>2, <2>3
<1> QED BY <1>1, <1>6, <1>7

LEMMA ChooseHandled ==
  ASSUME TypeOK, TypeOK', Founded, CommandsIInv, Choose
  PROVE  CommandsIInv'
<1>1. /\ UNCHANGED <<deferred, admissions, commandStates, queueOp, promptState, reload, submitted>>
      /\ Branching
  BY DEF Choose, tables, Branching
<1>2. CASE Finish("error") /\ UNCHANGED <<nextId, inflight>>
  <2>1. Shedding
    BY <1>1, <1>2, FinishSheds DEF Shedding, Tame, Fewer
  <2> QED BY <1>1, <1>2, <2>1, BranchEnded
<1>3. CASE /\ branch' = [branch EXCEPT !.stage = "replace", !.id = nextId] /\ told' = told
           /\ Send("branch-replace", [n |-> branch.n, kind |-> "fork", to |-> None], None)
  <2>1. branch'.n = branch.n
    BY <1>3 DEF TypeOK, BranchType
  <2>2. Tame
    BY <1>3, SendAdds DEF Founding
  <2>3. Shedding
    BY <1>1, <2>1, <2>2, BranchStays DEF Shedding, Branching
  <2> QED BY <1>1, <1>3, <2>3, QuietHandled
<1> QED BY <1>2, <1>3 DEF Choose

\* Pi acts on a command: it is the same command still.
LEMMA PiHandled ==
  ASSUME TypeOK, TypeOK', CommandsIInv, PiApply \/ PiCompactionStart
  PROVE  CommandsIInv'
<1>1. PICK c \in inflight : inflight' = (inflight \ {c}) \cup {[c EXCEPT !.done = TRUE]}
  BY DEF PiApply, PiCompactionStart
<1>2. UNCHANGED <<deferred, admissions, commandStates, queueOp, promptState, branch, reload, nextId,
                  told, submitted>>
  BY DEF PiApply, PiCompactionStart, tables
<1> DEFINE x == [c EXCEPT !.done = TRUE]
<1>3. x.id = c.id /\ x.kind = c.kind /\ x.req = c.req
  BY DEF TypeOK, CommandType
<1>4. inflight' = (inflight \ {c}) \cup {x}
  BY <1>1
<1> HIDE DEF x
<1>5. \A d \in inflight' : \E e \in inflight : d.id = e.id /\ d.kind = e.kind /\ d.req = e.req
  BY <1>3, <1>4
<1>6. FoundingDuties(inflight') \subseteq FoundingDuties(inflight)
  <2> SUFFICES ASSUME NEW h \in FoundingDuties(inflight') PROVE h \in FoundingDuties(inflight)
    OBVIOUS
  <2>1. PICK d \in inflight' : d.kind \in Founding /\ h = Duty("founding", d.req.n, {<<>>}, d.id)
    BY DEF FoundingDuties
  <2>2. PICK e \in inflight : d.id = e.id /\ d.kind = e.kind /\ d.req = e.req
    BY <1>5
  <2>3. h = Duty("founding", e.req.n, {<<>>}, e.id)
    BY <2>1, <2>2
  <2> QED BY <2>1, <2>2, <2>3 DEF FoundingDuties
<1>7. ReloadDuties(reload', inflight') \subseteq ReloadDuties(reload, inflight)
  <2> SUFFICES ASSUME NEW h \in ReloadDuties(reload', inflight') PROVE h \in ReloadDuties(reload, inflight)
    OBVIOUS
  <2>1. PICK d \in inflight' : d.id = reload /\ h = Duty("reload", d.req.n, {<<"reload">>}, d.id)
    BY <1>2 DEF ReloadDuties
  <2>2. PICK e \in inflight : d.id = e.id /\ d.req = e.req
    BY <1>5
  <2>3. h = Duty("reload", e.req.n, {<<"reload">>}, e.id)
    BY <2>1, <2>2
  <2> QED BY <2>1, <2>2, <2>3 DEF ReloadDuties
<1>8. Duties' \subseteq Duties
  BY <1>2, <1>6, <1>7 DEF Duties
<1>9. Accounted' /\ OutcomesLegal'
  BY <1>2, <1>8, QuietStep DEF CommandsIInv
<1>10. \A d, e \in inflight' : d.id = e.id => d = e
  BY <1>3, <1>4 DEF CommandsIInv, Numbered
<1>11. \A e \in commandStates : e.failed => \A d \in inflight' : d.id # e.id
  BY <1>5 DEF CommandsIInv, Numbered
<1>12. Numbered'
  BY <1>2, <1>10, <1>11 DEF CommandsIInv, Numbered
<1> QED BY <1>9, <1>12 DEF CommandsIInv

\* Every action keeps the records accounted for.
LEMMA CommandsStep ==
  ASSUME TypeOK, TypeOK', OrderIInv, CommandsIInv, [Next]_vars
  PROVE  CommandsIInv'
<1>1. Queued /\ Founded
  BY DEF OrderIInv
<1>2. CASE Route
  BY <1>1, <1>2, PromptRouted, NewRouted, ReloadRouted, FieldRouted, OthersRouted, BusyRouted DEF Route
<1>3. CASE Respond
  BY <1>1, <1>3, QuietReplies, VerifiedReply, CaptureReply, OperationReply, BranchReplies, RefusedReply,
     ReloadEnds, ReloadStepped, ChainStepped, AdmittedReply, SettledReplies, NewStateSettled, FailedReply
  DEF Respond
<1>4. CASE PiAgentStart \/ UNCHANGED vars
  <2>1. UNCHANGED <<deferred, admissions, commandStates, queueOp, promptState, branch, reload, nextId,
                    inflight, told, submitted>>
    BY <1>4 DEF PiAgentStart, vars, tables
  <2>2. Tame
    BY <2>1 DEF Tame, Fewer
  <2> QED BY <1>1, <2>1, <2>2, QuietKept
<1> QED
  BY <1>1, <1>2, <1>3, <1>4, DeferHandled, RefuseHandled, InterruptHandled, ChooseHandled, PiHandled
  DEF Next, Pi

LEMMA CommandsInit == Init => CommandsIInv
<1> SUFFICES ASSUME Init PROVE CommandsIInv
  OBVIOUS
<1>1. inflight = {Command(1, "state", StartupRequest, None)} /\ nextId = 2 /\ reload = 0
  BY DEF Init
<1> DEFINE c == Command(1, "state", StartupRequest, None)
<1>2. c.id = 1 /\ c.kind = "state"
  BY DEF Command
<1> HIDE DEF c
<1>3. FoundingDuties(inflight) = {} /\ ReloadDuties(reload, inflight) = {}
  BY <1>1, <1>2 DEF FoundingDuties, ReloadDuties, Founding, c
<1>4. /\ QueueDuties(deferred) = {} /\ AdmissionDuties(admissions) = {} /\ StateDuties(commandStates) = {}
      /\ OperationDuties(queueOp) = {} /\ CaptureDuties(promptState) = {} /\ BranchDuties(branch) = {}
  BY EmptyQueue DEF Init, AdmissionDuties, StateDuties, OperationDuties, CaptureDuties, BranchDuties,
     NoQueueOp, NoPromptState, NoBranch
<1>5. Accounted
  BY <1>3, <1>4 DEF Accounted, Duties
<1>6. Numbered
  BY <1>1 DEF Init, Numbered
<1>7. OutcomesLegal
  BY DEF Init, OutcomesLegal, LegalOutcomes
<1> QED BY <1>5, <1>6, <1>7 DEF CommandsIInv

-----------------------------------------------------------------------------
(* The bound of the correlation tables *)

Bounded == IsFiniteSet(admissions) /\ IsFiniteSet(commandStates) /\ AdmissionsBounded

\* The tables stay below the bound, by their cardinality.
LEMMA FewerBounded ==
  ASSUME Bounded, admissions' \subseteq admissions, commandStates' \subseteq commandStates
  PROVE  Bounded'
<1>1. /\ IsFiniteSet(admissions') /\ Cardinality(admissions') <= Cardinality(admissions)
      /\ IsFiniteSet(commandStates') /\ Cardinality(commandStates') <= Cardinality(commandStates)
  BY FS_Subset DEF Bounded
<1>2. /\ Cardinality(admissions) \in Nat /\ Cardinality(commandStates) \in Nat
      /\ Cardinality(admissions') \in Nat /\ Cardinality(commandStates') \in Nat
  BY <1>1, FS_CardinalityType DEF Bounded
<1>3. MaxAdmissions \in Nat
  BY ConstantsAssumption
<1> QED BY <1>1, <1>2, <1>3 DEF Bounded, AdmissionsBounded

\* An admission is added when the tables of A and C are below the bound.
LEMMA AddedBounded ==
  ASSUME Bounded, NEW A \in SUBSET admissions, NEW C \in SUBSET commandStates,
         ~(Cardinality(A) + Cardinality(C) >= MaxAdmissions),
         NEW a, admissions' = A \cup {a}, commandStates' \subseteq C
  PROVE  Bounded'
<1>1. IsFiniteSet(A) /\ IsFiniteSet(C) /\ IsFiniteSet(commandStates')
      /\ Cardinality(commandStates') <= Cardinality(C)
  BY FS_Subset DEF Bounded
<1>2. IsFiniteSet(A \cup {a}) /\ Cardinality(A \cup {a}) <= Cardinality(A) + 1
  <2>1. /\ IsFiniteSet(A \cup {a})
        /\ Cardinality(A \cup {a}) = IF a \in A THEN Cardinality(A) ELSE Cardinality(A) + 1
    BY <1>1, FS_AddElement
  <2>2. Cardinality(A) \in Nat
    BY <1>1, FS_CardinalityType
  <2> QED BY <2>1, <2>2
<1>3. /\ Cardinality(A) \in Nat /\ Cardinality(C) \in Nat /\ Cardinality(commandStates') \in Nat
      /\ Cardinality(A \cup {a}) \in Nat
  BY <1>1, <1>2, FS_CardinalityType
<1>4. MaxAdmissions \in Nat
  BY ConstantsAssumption
<1>5. Cardinality(admissions') + Cardinality(commandStates') <= MaxAdmissions
  <2>1. Cardinality(admissions') <= Cardinality(A) + 1 /\ Cardinality(admissions') \in Nat
    BY <1>2, <1>3
  <2> QED BY <1>1, <1>3, <1>4, <2>1
<1> QED BY <1>1, <1>2, <1>5 DEF Bounded, AdmissionsBounded

\* An entry replaces another.
LEMMA ReplacedBounded ==
  ASSUME NEW S, IsFiniteSet(S), NEW x \in S, NEW y
  PROVE  IsFiniteSet((S \ {x}) \cup {y}) /\ Cardinality((S \ {x}) \cup {y}) <= Cardinality(S)
<1>1. IsFiniteSet(S \ {x}) /\ Cardinality(S \ {x}) = Cardinality(S) - 1
  BY FS_RemoveElement
<1>2. /\ IsFiniteSet((S \ {x}) \cup {y})
      /\ Cardinality((S \ {x}) \cup {y}) = IF y \in S \ {x} THEN Cardinality(S \ {x})
                                                            ELSE Cardinality(S \ {x}) + 1
  BY <1>1, FS_AddElement
<1>3. Cardinality(S) \in Nat
  BY FS_CardinalityType
<1> QED BY <1>1, <1>2, <1>3

LEMMA AdmittedBounded ==
  ASSUME Bounded, PromptAdmitted
  PROVE  Bounded'
<1>1. PICK c \in inflight, a \in admissions, d \in Dispositions : PromptAdmitted!(c)!(a)!(d)
  BY DEF PromptAdmitted
<1>2. PICK e : admissions' = admissions \ {a} /\ commandStates' \subseteq commandStates \cup {e}
  <2>1. CASE c.kind = "command" \/ d = "handled"
    BY <1>1, <2>1
  <2>2. CASE ~(c.kind = "command" \/ d = "handled")
    BY <1>1, <2>2
  <2> QED BY <2>1, <2>2
<1>3. IsFiniteSet(admissions') /\ Cardinality(admissions') = Cardinality(admissions) - 1
  BY <1>2, FS_RemoveElement DEF Bounded
<1>4. /\ IsFiniteSet(commandStates \cup {e})
      /\ Cardinality(commandStates \cup {e}) \in {Cardinality(commandStates), Cardinality(commandStates) + 1}
  BY FS_AddElement DEF Bounded
<1>5. IsFiniteSet(commandStates') /\ Cardinality(commandStates') <= Cardinality(commandStates \cup {e})
  BY <1>2, <1>4, FS_Subset
<1>6. /\ Cardinality(admissions) \in Nat /\ Cardinality(commandStates) \in Nat
      /\ Cardinality(admissions') \in Nat /\ Cardinality(commandStates') \in Nat
  BY <1>3, <1>5, FS_CardinalityType DEF Bounded
<1>7. MaxAdmissions \in Nat
  BY ConstantsAssumption
<1>8. Cardinality(admissions') + Cardinality(commandStates') <= MaxAdmissions
  BY <1>3, <1>4, <1>5, <1>6, <1>7 DEF Bounded, AdmissionsBounded
<1> QED BY <1>3, <1>5, <1>8 DEF Bounded, AdmissionsBounded

LEMMA FailedBounded ==
  ASSUME Numbered, Bounded, RequestFailed
  PROVE  Bounded'
<1>1. PICK c \in inflight : RequestFailed!(c)
  BY DEF RequestFailed
<1>2. /\ admissions' = admissions
      /\ commandStates' = (commandStates \ Own(c)) \cup {Failed(e) : e \in {x \in Here(c) : x.required}}
  BY <1>1 DEF Here, Failed
<1>3. CASE Own(c) = {}
  <2>1. commandStates' \subseteq commandStates
    BY <1>2, <1>3 DEF Here
  <2> QED BY <1>2, <2>1, FewerBounded
<1>4. ASSUME NEW x \in Own(c)
      PROVE  Bounded'
  <2>1. x \in commandStates
    BY DEF Own
  <2>2. Own(c) = {x}
    BY DEF Own, Numbered
  <2> DEFINE S == (commandStates \ {x}) \cup {Failed(x)}
  <2>3. commandStates' \subseteq S
    BY <1>2, <2>2 DEF Here
  <2>4. IsFiniteSet(S) /\ Cardinality(S) <= Cardinality(commandStates)
    BY <2>1, ReplacedBounded DEF Bounded
  <2> HIDE DEF S
  <2>5. IsFiniteSet(commandStates') /\ Cardinality(commandStates') <= Cardinality(S)
    BY <2>3, <2>4, FS_Subset
  <2>6. /\ Cardinality(admissions) \in Nat /\ Cardinality(commandStates) \in Nat
        /\ Cardinality(S) \in Nat /\ Cardinality(commandStates') \in Nat
    BY <2>4, <2>5, FS_CardinalityType DEF Bounded
  <2>7. MaxAdmissions \in Nat
    BY ConstantsAssumption
  <2>8. Cardinality(admissions') + Cardinality(commandStates') <= MaxAdmissions
    BY <1>2, <2>4, <2>5, <2>6, <2>7 DEF Bounded, AdmissionsBounded
  <2> QED BY <1>2, <2>5, <2>8 DEF Bounded, AdmissionsBounded
<1> QED BY <1>3, <1>4

LEMMA NewStateBounded ==
  ASSUME Bounded, NewStateReply
  PROVE  Bounded'
<1>1. PICK c \in inflight, skill \in {FALSE, "skill" \in Kinds} : NewStateReply!(c)!(skill)
  BY DEF NewStateReply
<1> DEFINE A == IF Switched THEN {} ELSE admissions
           C == IF Switched THEN {} ELSE commandStates
<1>2. A \subseteq admissions /\ C \subseteq commandStates /\ commandStates' \subseteq C
  BY <1>1 DEF SettleStates
<1>3. \/ admissions' = A
      \/ /\ ~(Cardinality(A) + Cardinality(C) >= MaxAdmissions)
         /\ \E a : admissions' = A \cup {a}
  BY <1>1
<1> HIDE DEF A, C
<1> QED BY <1>2, <1>3, FewerBounded, AddedBounded

\* Only routing and the replies of prompts add to the tables.
LEMMA RouteBounded ==
  ASSUME Bounded, Route
  PROVE  Bounded'
<1>1. CASE RouteInput \/ RouteCommand
  <2>1. commandStates' = commandStates
        /\ \/ admissions' = admissions
           \/ /\ ~(Cardinality(admissions) + Cardinality(commandStates) >= MaxAdmissions)
              /\ \E a : admissions' = admissions \cup {a}
    BY <1>1 DEF RouteInput, RouteCommand, AdmissionsFull
  <2> QED BY <2>1, FewerBounded, AddedBounded
<1>2. CASE RouteQueueOp \/ RouteNew \/ RouteAttach \/ RouteModel \/ RouteRead \/ RouteCapture
             \/ RouteCompact \/ RouteFork \/ RouteReload \/ RouteBusy
  <2>1. UNCHANGED <<admissions, commandStates>>
    BY <1>2 DEF RouteQueueOp, RouteNew, RouteAttach, RouteModel, RouteRead, RouteCapture, RouteCompact,
       RouteFork, RouteReload, RouteBusy, Answered, tables
  <2> QED BY <2>1, FewerBounded
<1> QED BY <1>1, <1>2 DEF Route

LEMMA RespondBounded ==
  ASSUME Numbered, Bounded, Respond
  PROVE  Bounded'
<1>1. CASE PromptStateReply \/ PromptRefused \/ StateReply \/ CompactionVerified \/ SelectionConfirm
             \/ BranchState \/ ReloadStep
  <2>1. admissions' \subseteq admissions /\ commandStates' \subseteq commandStates
    <3>1. CASE PromptStateReply
      BY <3>1 DEF PromptStateReply, TakeTables, tables
    <3>2. CASE PromptRefused
      BY <3>2 DEF PromptRefused
    <3>3. CASE StateReply
      BY <3>3 DEF StateReply, TakeTables, SettleStates
    <3>4. CASE CompactionVerified
      BY <3>4 DEF CompactionVerified, TakeTables
    <3>5. CASE SelectionConfirm
      BY <3>5 DEF SelectionConfirm, TakeTables, SettleStates
    <3>6. CASE BranchState
      BY <3>6 DEF BranchState, TakeTables, tables
    <3>7. CASE ReloadStep
      BY <3>7 DEF ReloadStep, TakeTables, tables
    <3> QED BY <1>1, <3>1, <3>2, <3>3, <3>4, <3>5, <3>6, <3>7
  <2> QED BY <2>1, FewerBounded
<1>2. CASE InterruptAborted \/ InterruptReleased \/ InterruptReplaced \/ QueueReply \/ PromptReplyStale
             \/ StateReplyStale \/ ResumeReply \/ NewCancelled \/ ChainStep \/ CompactionDropped
             \/ CompactionStep \/ CompactionFailed \/ PlainCompacted \/ BranchMessages \/ BranchReplaced
             \/ BranchCancelled \/ BranchStep \/ BranchFailed \/ BranchStale \/ BranchAborted \/ ReloadReply
  <2>1. UNCHANGED <<admissions, commandStates>>
    BY <1>2 DEF InterruptAborted, InterruptReleased, InterruptReplaced, QueueReply, PromptReplyStale,
       StateReplyStale, ResumeReply, NewCancelled, ChainStep, CompactionDropped, CompactionStep,
       CompactionFailed, PlainCompacted, BranchMessages, BranchReplaced, BranchCancelled, BranchStep,
       BranchFailed, BranchStale, BranchAborted, ReloadReply, tables
  <2> QED BY <2>1, FewerBounded
<1> QED BY <1>1, <1>2, AdmittedBounded, FailedBounded, NewStateBounded DEF Respond

\* Every action keeps the bound.
LEMMA BoundedStep ==
  ASSUME Numbered, Bounded, [Next]_vars
  PROVE  Bounded'
<1>1. CASE Defer \/ Refuse \/ Interrupt \/ InterruptBranch \/ Choose \/ PiAgentStart \/ PiApply
             \/ PiCompactionStart \/ UNCHANGED vars
  <2>1. UNCHANGED <<admissions, commandStates>>
    BY <1>1 DEF Defer, Refuse, Interrupt, InterruptBranch, Choose, PiAgentStart, PiApply,
       PiCompactionStart, vars, tables
  <2> QED BY <2>1, FewerBounded
<1> QED BY <1>1, RouteBounded, RespondBounded DEF Next, Pi

LEMMA BoundedInit == Init => Bounded
<1> SUFFICES ASSUME Init PROVE Bounded
  OBVIOUS
<1>1. admissions = {} /\ commandStates = {}
  BY DEF Init
<1>2. IsFiniteSet({}) /\ Cardinality({}) = 0
  BY FS_EmptySet
<1>3. MaxAdmissions \in Nat
  BY ConstantsAssumption
<1> QED BY <1>1, <1>2, <1>3 DEF Bounded, AdmissionsBounded

\* A command is reported done at most once and nothing follows, a capture, a
\* queue operation, a fork and a reload get one answer of their kind, whatever Pi
\* refuses, however sessions switch, and in every order of answers; and the tables
\* that remember them never pass the bound that prompt admission checks.
THEOREM CommandsAccountedHolds == Spec => []CommandsAccounted
<1> DEFINE I == TypeOK /\ NothingBehindFork /\ NothingStranded /\ OrderIInv /\ CommandsIInv /\ Bounded
<1>1. Init => I
  BY TypeInit, AloneInit, StrandedInit, OrderInit, CommandsInit, BoundedInit
<1>2. I /\ [Next]_vars => I'
  <2> SUFFICES ASSUME I, [Next]_vars PROVE I'
    OBVIOUS
  <2>1. TypeOK'
    BY TypeStep
  <2>2. NothingBehindFork' /\ NothingStranded'
    BY AloneStep, StrandedStep
  <2>3. OrderIInv'
    BY <2>1, OrderStep
  <2>4. CommandsIInv'
    BY <2>1, CommandsStep
  <2>5. Bounded'
    BY BoundedStep DEF CommandsIInv
  <2> QED BY <2>1, <2>2, <2>3, <2>4, <2>5
<1>3. I => CommandsAccounted
  BY DEF CommandsIInv, Bounded, CommandsAccounted
<1> QED BY <1>1, <1>2, <1>3, PTL DEF Spec

-----------------------------------------------------------------------------
(* What waits has its end under way *)

\* One of the commands I is the one a fence waits for.
Pending(I, id, kinds) == \E c \in I : c.id = id /\ c.kind \in kinds

InterruptKinds   == {"interrupt-abort", "interrupt-state"}
ResumeKinds      == {"resume-switch", "resume-state", "resume-history"}
SelectionKinds   == {"model", "thinking", "configuration-state"}
TransactionKinds == {"abort", "snapshot", "select", "compact", "restore-model", "restore-effort",
                     "verify"}
ForkKinds        == {"branch-messages", "branch-replace", "branch-state", "branch-history",
                     "branch-models", "branch-commands", "branch-prompt"}

\* Each fence waits for a command of its own; a compaction that is over may wait for
\* the end of a selection instead.
Fences ==
  /\ interrupt.id # 0 => Pending(inflight, interrupt.id, InterruptKinds)
  /\ resume # 0 => Pending(inflight, resume, ResumeKinds)
  /\ queueOp.id # 0 => Pending(inflight, queueOp.id, {"asap"})
  /\ skillPrompt # 0 => Pending(inflight, skillPrompt, {"command", "prompt"})
  /\ reload # 0 => Pending(inflight, reload, ReloadKinds)
  /\ promptState.id # 0 => Pending(inflight, promptState.id, {"prompt-state"})
  /\ branch.stage \notin {"none", "choice"} => Pending(inflight, branch.id, ForkKinds)
  /\ compaction.selection.id # 0 => Pending(inflight, compaction.selection.id, SelectionKinds)
  /\ compaction.stage \notin {"none", "failed"} =>
       \/ Pending(inflight, compaction.id, TransactionKinds)
       \/ compaction.stage = "compact" /\ compaction.finished /\ compaction.selection.id # 0

\* A prompt that holds the queue has its admission.
SkillAdmitted == skillPrompt # 0 => \E a \in admissions : a.id = skillPrompt

\* No command answers for the user.
ChoiceFree == branch.stage = "choice" => branch.id < nextId /\ \A c \in inflight : c.id # branch.id

\* The admissions are those of the session the adapter knows.
Local ==
  /\ attached \in {None, session}
  /\ piSession # None
  /\ \A a \in admissions : a.session = session

FenceIInv == Fences /\ SkillAdmitted /\ ChoiceFree /\ Local

\* A step answers the commands in G; the others stay with their ids and kinds.
Stay(G) ==
  \A id, kinds : Pending(inflight, id, kinds) =>
    Pending(inflight', id, kinds) \/ \E c \in G : c.id = id /\ c.kind \in kinds

LEMMA SendStay ==
  ASSUME NEW kind, NEW r, NEW to, Send(kind, r, to)
  PROVE  Stay({}) /\ \A kinds : kind \in kinds => Pending(inflight', nextId, kinds)
<1> DEFINE x == Command(nextId, kind, r, to)
<1>1. x.id = nextId /\ x.kind = kind
  BY DEF Command
<1>2. inflight' = inflight \cup {x}
  BY DEF Send
<1> HIDE DEF x
<1> QED BY <1>1, <1>2 DEF Stay, Pending

LEMMA ConsumeStay ==
  ASSUME NEW c, Consume(c)
  PROVE  Stay({c})
BY DEF Consume, Stay, Pending

LEMMA FollowStay ==
  ASSUME NEW c, NEW kind, NEW to, Follow(c, kind, to)
  PROVE  Stay({c}) /\ \A kinds : kind \in kinds => Pending(inflight', nextId, kinds)
<1> DEFINE x == Command(nextId, kind, c.req, to)
<1>1. x.id = nextId /\ x.kind = kind
  BY DEF Command
<1>2. inflight' = (inflight \ {c}) \cup {x}
  BY DEF Follow
<1> HIDE DEF x
<1> QED BY <1>1, <1>2 DEF Stay, Pending

LEMMA DoneStay ==
  ASSUME TypeOK, NEW c \in inflight, inflight' = (inflight \ {c}) \cup {[c EXCEPT !.done = TRUE]}
  PROVE  Stay({})
<1> DEFINE d == [c EXCEPT !.done = TRUE]
<1>1. d.id = c.id /\ d.kind = c.kind
  BY DEF TypeOK, CommandType
<1>2. inflight' = (inflight \ {c}) \cup {d}
  OBVIOUS
<1> HIDE DEF d
<1> QED BY <1>1, <1>2 DEF Stay, Pending

LEMMA SameStay ==
  ASSUME inflight' = inflight
  PROVE  Stay({})
BY DEF Stay

\* A fence of kinds in K that waits for x goes on to wait for y.
Handed(x, y, K, G) ==
  \/ y = 0
  \/ Pending(inflight', y, K)
  \/ y = x /\ \A c \in G : c.id = x => c.kind \notin K

LEMMA HandedOn ==
  ASSUME NEW G, Stay(G), NEW x, NEW y, NEW K, x # 0 => Pending(inflight, x, K), Handed(x, y, K, G)
  PROVE  y # 0 => Pending(inflight', y, K)
BY DEF Handed, Stay

\* What a step must show for the fences.
FencesHanded(G) ==
  /\ Stay(G)
  /\ Handed(interrupt.id, interrupt'.id, InterruptKinds, G)
  /\ Handed(resume, resume', ResumeKinds, G)
  /\ Handed(queueOp.id, queueOp'.id, {"asap"}, G)
  /\ Handed(skillPrompt, skillPrompt', {"command", "prompt"}, G)
  /\ Handed(reload, reload', ReloadKinds, G)
  /\ Handed(promptState.id, promptState'.id, {"prompt-state"}, G)
  /\ Handed(compaction.selection.id, compaction'.selection.id, SelectionKinds, G)
BranchHanded(G) ==
  \/ branch'.stage \in {"none", "choice"}
  \/ Pending(inflight', branch'.id, ForkKinds)
  \/ /\ branch.stage \notin {"none", "choice"} /\ branch'.id = branch.id
     /\ \A c \in G : c.id = branch.id => c.kind \notin ForkKinds
TransactionHanded(G) ==
  \/ compaction'.stage \in {"none", "failed"}
  \/ Pending(inflight', compaction'.id, TransactionKinds)
  \/ compaction'.stage = "compact" /\ compaction'.finished /\ compaction'.selection.id # 0
  \/ /\ compaction'.stage = compaction.stage /\ compaction'.id = compaction.id
     /\ compaction'.finished = compaction.finished
     /\ compaction.finished /\ compaction.selection.id # 0 => compaction'.selection.id # 0
     /\ \A c \in G : c.id = compaction.id => c.kind \notin TransactionKinds

LEMMA FencesStep ==
  ASSUME Fences, NEW G, FencesHanded(G), BranchHanded(G), TransactionHanded(G)
  PROVE  Fences'
<1>1. /\ interrupt'.id # 0 => Pending(inflight', interrupt'.id, InterruptKinds)
      /\ resume' # 0 => Pending(inflight', resume', ResumeKinds)
      /\ queueOp'.id # 0 => Pending(inflight', queueOp'.id, {"asap"})
      /\ skillPrompt' # 0 => Pending(inflight', skillPrompt', {"command", "prompt"})
  BY HandedOn DEF Fences, FencesHanded
<1>2. /\ reload' # 0 => Pending(inflight', reload', ReloadKinds)
      /\ promptState'.id # 0 => Pending(inflight', promptState'.id, {"prompt-state"})
      /\ compaction'.selection.id # 0 => Pending(inflight', compaction'.selection.id, SelectionKinds)
  BY HandedOn DEF Fences, FencesHanded
<1>3. branch'.stage \notin {"none", "choice"} => Pending(inflight', branch'.id, ForkKinds)
  BY DEF Fences, FencesHanded, BranchHanded, Stay
<1>4. compaction'.stage \notin {"none", "failed"} =>
       \/ Pending(inflight', compaction'.id, TransactionKinds)
       \/ compaction'.stage = "compact" /\ compaction'.finished /\ compaction'.selection.id # 0
  BY DEF Fences, FencesHanded, TransactionHanded, Stay
<1> QED BY <1>1, <1>2, <1>3, <1>4 DEF Fences

-----------------------------------------------------------------------------
\* Requests that are routed raise a fence with its command, or none.
LEMMA RouteFences ==
  ASSUME TypeOK, Fences, NothingBehindFork, Route
  PROVE  Fences'
<1> SUFFICES FencesHanded({}) /\ BranchHanded({}) /\ TransactionHanded({})
  BY FencesStep
<1> USE DEF FencesHanded, BranchHanded, TransactionHanded, Handed
<1>1. CASE RouteInput
  BY <1>1, SendStay, SameStay DEF RouteInput
<1>2. CASE RouteCommand
  BY <1>2, SendStay, SameStay DEF RouteCommand
<1>3. CASE RouteQueueOp
  BY <1>3, SendStay DEF RouteQueueOp
<1>4. CASE RouteNew
  BY <1>4, SendStay DEF RouteNew
<1>5. CASE RouteAttach
  BY <1>5, SendStay DEF RouteAttach, ResumeKinds
<1>6. CASE RouteModel
  <2>1. PICK r \in Offered({"model", "modelEffort"}) : RouteModel!(r)
    BY <1>6 DEF RouteModel
  <2>2. compaction \in CompactionType
    BY DEF TypeOK
  <2>3. Stay({}) /\ Pending(inflight', nextId, SelectionKinds)
    BY <2>1, SendStay DEF SelectionKinds
  <2>4. /\ compaction'.stage = compaction.stage /\ compaction'.id = compaction.id
        /\ compaction'.finished = compaction.finished
        /\ compaction'.selection.id \in {compaction.selection.id, nextId}
        /\ compaction.selection.id # 0 => compaction'.selection.id = compaction.selection.id
    BY <2>1, <2>2 DEF CompactionType
  <2> QED BY <2>1, <2>3, <2>4
<1>7. CASE RouteRead
  BY <1>7, SendStay, SameStay DEF RouteRead
<1>8. CASE RouteCapture
  BY <1>8, SendStay DEF RouteCapture, CaptureFence
<1>9. CASE RouteCompact
  <2>1. PICK r \in Offered({"compact"}), target \in Models \cup {None} : RouteCompact!(r)!(target)
    BY <1>9 DEF RouteCompact
  <2>2. Stay({})
    BY <2>1, SendStay
  <2>3. CASE target = None
    BY <2>1, <2>2, <2>3
  <2>4. CASE target # None
    <3>1. Pending(inflight', nextId, TransactionKinds)
      BY <2>1, <2>4, SendStay DEF TransactionKinds
    <3>2. compaction'.id = nextId /\ compaction'.selection.id = 0
      <4>1. NoCompaction \in CompactionType /\ NoCompaction.selection.id = 0
        BY NoCompactionType DEF NoCompaction, NoSelection
      <4>2. compaction' = [NoCompaction EXCEPT !.stage = "abort", !.id = nextId,
                                   !.target = target, !.session = session]
        BY <2>1, <2>4
      <4> QED BY <4>1, <4>2 DEF CompactionType
    <3> QED BY <2>1, <2>2, <3>1, <3>2
  <2> QED BY <2>3, <2>4
<1>10. CASE RouteFork
  <2>1. PICK r \in Offered({"fork"}), stage \in {"messages", "replace"}, message \in BOOLEAN :
          RouteFork!(r)!(stage, message)
    BY <1>10 DEF RouteFork
  <2>2. Stay({}) /\ Pending(inflight', nextId, ForkKinds)
    BY <2>1, SendStay DEF ForkKinds
  <2>3. branch'.id = nextId
    BY <2>1 DEF NoBranch
  <2> QED BY <2>1, <2>2, <2>3
<1>11. CASE RouteReload
  BY <1>11, SendStay DEF RouteReload, ReloadKinds
<1>12. CASE RouteBusy
  BY <1>12, SameStay DEF RouteBusy, Answered
<1> QED
  BY <1>1, <1>2, <1>3, <1>4, <1>5, <1>6, <1>7, <1>8, <1>9, <1>10, <1>11, <1>12 DEF Route

LEMMA OtherFences ==
  ASSUME TypeOK, Fences,
         Defer \/ Refuse \/ Interrupt \/ InterruptBranch \/ Choose \/ PiAgentStart \/ PiApply
           \/ PiCompactionStart \/ UNCHANGED vars
  PROVE  Fences'
<1> SUFFICES FencesHanded({}) /\ BranchHanded({}) /\ TransactionHanded({})
  BY FencesStep
<1> USE DEF FencesHanded, BranchHanded, TransactionHanded, Handed
<1>0. branch \in BranchType /\ compaction \in CompactionType
  BY DEF TypeOK
<1>1. CASE Defer \/ Refuse \/ PiAgentStart \/ UNCHANGED vars
  BY <1>1, SameStay DEF Defer, Refuse, PiAgentStart, vars
<1>2. CASE Interrupt
  <2>1. Stay({}) /\ Pending(inflight', nextId, InterruptKinds)
    BY <1>2, SendStay DEF Interrupt, InterruptKinds
  <2>2. /\ compaction'.stage = compaction.stage /\ compaction'.id = compaction.id
        /\ compaction'.finished = compaction.finished /\ compaction'.selection = compaction.selection
    BY <1>0, <1>2 DEF Interrupt, CompactionType
  <2> QED BY <1>2, <2>1, <2>2 DEF Interrupt
<1>3. CASE InterruptBranch
  <2>1. Stay({})
    BY <1>3, SendStay, SameStay DEF InterruptBranch
  <2>2. branch'.stage = "none"
        \/ (branch'.stage = branch.stage /\ branch'.id = branch.id /\ branch.stage \notin {"none", "choice"})
    BY <1>0, <1>3 DEF InterruptBranch, Finish, NoBranch, BranchType, Branching
  <2> QED BY <1>3, <2>1, <2>2 DEF InterruptBranch
<1>4. CASE Choose
  <2>1. Stay({})
    BY <1>4, SendStay, SameStay DEF Choose
  <2>2. branch'.stage = "none" \/ (branch'.id = nextId /\ Pending(inflight', nextId, ForkKinds))
    <3>1. CASE branch' = NoBranch
      BY <3>1 DEF NoBranch
    <3>2. CASE /\ branch' = [branch EXCEPT !.stage = "replace", !.id = nextId]
               /\ Send("branch-replace", [n |-> branch.n, kind |-> "fork", to |-> None], None)
      <4>1. branch'.id = nextId
        BY <1>0, <3>2 DEF BranchType
      <4> QED BY <3>2, <4>1, SendStay DEF ForkKinds
    <3> QED BY <1>4, <3>1, <3>2 DEF Choose, Finish
  <2> QED BY <1>4, <2>1, <2>2 DEF Choose
<1>5. CASE PiApply
  BY <1>5, DoneStay DEF PiApply
<1>6. CASE PiCompactionStart
  <2>1. Stay({})
    BY <1>6, DoneStay DEF PiCompactionStart
  <2>2. /\ compaction'.stage = compaction.stage /\ compaction'.id = compaction.id
        /\ compaction'.finished = compaction.finished /\ compaction'.selection = compaction.selection
    BY <1>0, <1>6 DEF PiCompactionStart, CompactionType
  <2> QED BY <1>6, <2>1, <2>2 DEF PiCompactionStart
<1> QED BY <1>1, <1>2, <1>3, <1>4, <1>5, <1>6

LEMMA ItsKind ==
  ASSUME Numbered, NEW id, NEW K, Pending(inflight, id, K), NEW c \in inflight, c.id = id
  PROVE  c.kind \in K
BY DEF Numbered, Pending

\* The kinds of commands a fence may wait for, one by one.
LEMMA FenceKinds ==
  /\ InterruptKinds = {"interrupt-abort", "interrupt-state"}
  /\ ResumeKinds = {"resume-switch", "resume-state", "resume-history"}
  /\ SelectionKinds = {"model", "thinking", "configuration-state"}
  /\ TransactionKinds = {"abort", "snapshot", "select", "compact", "restore-model", "restore-effort", "verify"}
  /\ ForkKinds = {"branch-messages", "branch-replace", "branch-state", "branch-history",
                  "branch-models", "branch-commands", "branch-prompt"}
  /\ ReloadKinds = {"reload", "reload-state", "reload-models", "reload-commands"}
BY DEF InterruptKinds, ResumeKinds, SelectionKinds, TransactionKinds, ForkKinds, ReloadKinds

\* A state that is taken keeps the fences of the tables, or lowers them.
LEMMA TablesFences ==
  ASSUME TakeTables
  PROVE  queueOp'.id \in {queueOp.id, 0} /\ skillPrompt' \in {skillPrompt, 0}
BY DEF TakeTables, NoQueueOp

LEMMA QuietFences ==
  ASSUME TypeOK, Fences, SkillAdmitted, Local,
         \/ InterruptAborted \/ InterruptReleased \/ InterruptReplaced \/ QueueReply
         \/ PromptReplyStale \/ StateReplyStale \/ ResumeReply \/ NewCancelled \/ PlainCompacted
         \/ BranchStale \/ BranchAborted
  PROVE  Fences'
<1> SUFFICES \E c \in inflight : FencesHanded({c}) /\ BranchHanded({c}) /\ TransactionHanded({c})
  BY FencesStep
<1> USE FenceKinds DEF FencesHanded, BranchHanded, TransactionHanded, Handed
<1>1. CASE InterruptAborted
  <2>1. PICK c \in inflight : InterruptAborted!(c)
    BY <1>1 DEF InterruptAborted
  <2>2. Stay({c}) /\ Pending(inflight', nextId, InterruptKinds)
    BY <2>1, FollowStay
  <2>3. interrupt'.id = nextId
    BY <2>1
  <2> QED BY <2>1, <2>2, <2>3
<1>2. CASE InterruptReleased
  BY <1>2, ConsumeStay DEF InterruptReleased, NoInterrupt
<1>3. CASE InterruptReplaced
  BY <1>3, ConsumeStay DEF InterruptReplaced
<1>4. CASE QueueReply
  BY <1>4, ConsumeStay DEF QueueReply, NoQueueOp
<1>5. CASE PromptReplyStale
  <2>1. PICK c \in inflight : PromptReplyStale!(c)
    BY <1>5 DEF PromptReplyStale
  <2>2. skillPrompt # 0 => c.id # skillPrompt
    BY <2>1 DEF SkillAdmitted, Local
  <2> QED BY <2>1, <2>2, ConsumeStay DEF tables
<1>6. CASE StateReplyStale
  BY <1>6, ConsumeStay DEF StateReplyStale
<1>7. CASE ResumeReply
  <2>1. PICK c \in inflight : ResumeReply!(c)
    BY <1>7 DEF ResumeReply
  <2>2. CASE c.kind = "resume-switch" /\ resume = c.id
    BY <2>1, <2>2, FollowStay
  <2>3. CASE c.kind = "resume-switch" /\ resume # c.id
    BY <2>1, <2>3, ConsumeStay
  <2>4. CASE c.kind = "resume-history"
    BY <2>1, <2>4, ConsumeStay
  <2> QED BY <2>1, <2>2, <2>3, <2>4
<1>8. CASE NewCancelled
  BY <1>8, ConsumeStay DEF NewCancelled
<1>9. CASE PlainCompacted
  BY <1>9, ConsumeStay DEF PlainCompacted
<1>10. CASE BranchStale
  <2>1. PICK c \in inflight : BranchStale!(c)
    BY <1>10 DEF BranchStale
  <2>2. branch.stage # "none" => c.id # branch.id
    BY <2>1 DEF BranchOpen, Branching
  <2> QED BY <2>1, <2>2, ConsumeStay
<1>11. CASE BranchAborted
  BY <1>11, ConsumeStay, FollowStay DEF BranchAborted
<1> QED BY <1>1, <1>2, <1>3, <1>4, <1>5, <1>6, <1>7, <1>8, <1>9, <1>10, <1>11

LEMMA PromptFences ==
  ASSUME TypeOK, Fences, PromptStateReply \/ PromptAdmitted \/ PromptRefused
  PROVE  Fences'
<1> SUFFICES \E c \in inflight : FencesHanded({c}) /\ BranchHanded({c}) /\ TransactionHanded({c})
  BY FencesStep
<1> USE FenceKinds DEF FencesHanded, BranchHanded, TransactionHanded, Handed
<1>1. CASE PromptStateReply
  <2>1. PICK c \in inflight : PromptStateReply!(c)
    BY <1>1 DEF PromptStateReply
  <2>2. Stay({c})
    BY <2>1, ConsumeStay
  <2>3. queueOp'.id \in {queueOp.id, 0} /\ skillPrompt' \in {skillPrompt, 0}
    BY <2>1, TablesFences
  <2>4. promptState'.id = 0 \/ (promptState' = promptState /\ c.id # promptState.id)
    BY <2>1 DEF NoPromptState
  <2> QED BY <2>1, <2>2, <2>3, <2>4
<1>2. CASE PromptAdmitted
  <2>1. PICK c \in inflight, a \in admissions, d \in Dispositions : PromptAdmitted!(c)!(a)!(d)
    BY <1>2 DEF PromptAdmitted
  <2>2. Stay({c})
    BY <2>1, ConsumeStay, FollowStay
  <2>3. skillPrompt' = 0 \/ (skillPrompt' = skillPrompt /\ c.id # skillPrompt)
    BY <2>1 DEF SkillCleared
  <2> QED BY <2>1, <2>2, <2>3
<1>3. CASE PromptRefused
  <2>1. PICK c \in inflight, a \in admissions : PromptRefused!(c)!(a)
    BY <1>3 DEF PromptRefused
  <2>2. Stay({c})
    BY <2>1, ConsumeStay
  <2>3. skillPrompt' = 0 \/ (skillPrompt' = skillPrompt /\ c.id # skillPrompt)
    BY <2>1 DEF SkillCleared
  <2> QED BY <2>1, <2>2, <2>3
<1> QED BY <1>1, <1>2, <1>3

LEMMA ChainFences ==
  ASSUME TypeOK, Numbered, Fences, StateReply \/ ChainStep \/ NewStateReply
  PROVE  Fences'
<1> SUFFICES \E c \in inflight : FencesHanded({c}) /\ BranchHanded({c}) /\ TransactionHanded({c})
  BY FencesStep
<1> USE FenceKinds DEF FencesHanded, BranchHanded, TransactionHanded, Handed
<1>1. CASE StateReply
  <2>1. PICK c \in inflight : StateReply!(c)
    BY <1>1 DEF StateReply
  <2>2. Stay({c})
    BY <2>1, ConsumeStay, FollowStay
  <2>3. queueOp'.id \in {queueOp.id, 0} /\ skillPrompt' \in {skillPrompt, 0}
    BY <2>1, TablesFences
  <2>4. interrupt'.id = 0 \/ (interrupt' = interrupt /\ c.id # interrupt.id)
    BY <2>1 DEF NoInterrupt
  <2>5. \/ resume' = nextId /\ Pending(inflight', nextId, ResumeKinds)
        \/ resume' = resume /\ c.id # resume
    BY <2>1, FollowStay
  <2>6. c.kind = "reload-state" => c.id # reload
    BY <2>1
  <2>7. c.kind = "configuration-state" => c.id # compaction.selection.id
    BY <2>1 DEF Selecting
  <2> QED BY <2>1, <2>2, <2>3, <2>4, <2>5, <2>6, <2>7
<1>2. CASE ChainStep
  <2>1. PICK c \in inflight : ChainStep!(c)
    BY <1>2 DEF ChainStep
  <2>2. PICK next \in NextSteps(c) : Follow(c, next, c.to)
    BY <2>1
  <2>3. Stay({c}) /\ \A kinds : next \in kinds => Pending(inflight', nextId, kinds)
    BY <2>2, FollowStay
  <2>4. compaction \in CompactionType
    BY DEF TypeOK
  <2>5. CASE Selecting(c)
    <3>1. /\ compaction'.stage = compaction.stage /\ compaction'.id = compaction.id
          /\ compaction'.finished = compaction.finished /\ compaction'.selection.id = nextId
      BY <2>1, <2>4, <2>5 DEF CompactionType
    <3>2. nextId # 0
      BY DEF TypeOK
    <3>3. c.kind \in SelectionKinds
      <4>1. c.id = compaction.selection.id /\ c.id # 0
        BY <2>5 DEF Selecting, TypeOK, CommandType
      <4>2. Pending(inflight, compaction.selection.id, SelectionKinds)
        BY <4>1 DEF Fences
      <4> QED BY <4>1, <4>2, ItsKind
    <3>4. next \in SelectionKinds
      BY <2>1, <2>2, <3>3 DEF NextSteps
    <3> QED BY <2>1, <2>3, <3>1, <3>2, <3>3, <3>4
  <2>6. CASE ~Selecting(c)
    BY <2>1, <2>3, <2>6 DEF Selecting
  <2> QED BY <2>5, <2>6
<1>3. CASE NewStateReply
  <2>1. PICK c \in inflight, skill \in {FALSE, "skill" \in Kinds} : NewStateReply!(c)!(skill)
    BY <1>3 DEF NewStateReply
  <2>2. Stay({c})
    BY <2>1, ConsumeStay, FollowStay
  <2>3. \/ skillPrompt' \in {skillPrompt, 0}
        \/ skillPrompt' = nextId /\ Pending(inflight', nextId, {"command", "prompt"})
    BY <2>1, FollowStay
  <2>4. queueOp'.id \in {queueOp.id, 0}
    BY <2>1 DEF NoQueueOp
  <2> QED BY <2>1, <2>2, <2>3, <2>4
<1> QED BY <1>1, <1>2, <1>3

\* The transaction goes on with a command, or waits for the selection, or has failed.
Proceeds ==
  \/ compaction'.stage \in {"none", "failed"}
  \/ Pending(inflight', compaction'.id, TransactionKinds)
  \/ compaction'.stage = "compact" /\ compaction'.finished /\ compaction'.selection.id # 0

LEMMA ContinueFences ==
  ASSUME NEW c, NEW p \in CompactionType, p.stage \in TransactionKinds, Continue(c, p)
  PROVE  Stay({c}) /\ Proceeds /\ compaction'.selection = p.selection
<1>1. compaction' = [p EXCEPT !.id = nextId]
  BY DEF Continue
<1>2. compaction'.id = nextId /\ compaction'.selection = p.selection
  BY <1>1 DEF CompactionType
<1>3. Stay({c}) /\ Pending(inflight', nextId, TransactionKinds)
  BY FollowStay DEF Continue
<1> QED BY <1>2, <1>3 DEF Proceeds

LEMMA RestoreFences ==
  ASSUME NEW c, NEW p \in CompactionType, RestoreOrWait(c, p),
         p.selection.id # 0 => p.stage = "compact" /\ p.finished
  PROVE  Stay({c}) /\ Proceeds /\ compaction'.selection = p.selection
<1>1. CASE p.session # session
  <2>1. Consume(c) /\ compaction' = [p EXCEPT !.stage = "failed", !.open = FALSE]
    BY <1>1 DEF RestoreOrWait
  <2> QED BY <2>1, ConsumeStay DEF Proceeds, CompactionType
<1>2. CASE p.session = session /\ p.selection.id # 0
  <2>1. Consume(c) /\ compaction' = [p EXCEPT !.open = FALSE]
    BY <1>2 DEF RestoreOrWait
  <2>2. compaction'.stage = "compact" /\ compaction'.finished /\ compaction'.selection = p.selection
    BY <1>2, <2>1 DEF CompactionType
  <2> QED BY <1>2, <2>1, <2>2, ConsumeStay DEF Proceeds
<1>3. CASE p.session = session /\ p.selection.id = 0
  <2> DEFINE q == [p EXCEPT !.stage = "restore-model", !.open = FALSE]
  <2>1. Continue(c, q)
    BY <1>3 DEF RestoreOrWait
  <2>2. q.stage = "restore-model" /\ q.selection = p.selection
    BY DEF CompactionType
  <2>3. q \in CompactionType
    BY DEF CompactionType, Stages
  <2> HIDE DEF q
  <2> QED BY <2>1, <2>2, <2>3, ContinueFences, FenceKinds
<1> QED BY <1>1, <1>2, <1>3

\* A response to the transaction: nobody else waits for it.
LEMMA OwnedKind ==
  ASSUME Numbered, Fences, NEW c \in inflight, Owned(c), compaction.stage # "failed",
         ~(compaction.stage = "compact" /\ compaction.finished)
  PROVE  c.kind \in TransactionKinds
<1>1. c.id = compaction.id /\ Pending(inflight, compaction.id, TransactionKinds)
  BY DEF Owned, Fences
<1> QED BY <1>1, ItsKind

LEMMA OwnedFences ==
  ASSUME TypeOK, Numbered, Fences, NEW c \in inflight, Owned(c), compaction.stage # "failed",
         ~(compaction.stage = "compact" /\ compaction.finished), Stay({c}), Proceeds,
         compaction'.selection \in {compaction.selection, NoSelection},
         UNCHANGED <<interrupt, resume, reload, promptState, branch>>,
         queueOp'.id \in {queueOp.id, 0}, skillPrompt' \in {skillPrompt, 0}
  PROVE  Fences'
<1>1. c.id = compaction.id
  BY DEF Owned
<1>2. c.kind \in TransactionKinds
  BY OwnedKind
<1>3. compaction'.selection.id \in {compaction.selection.id, 0}
  BY DEF NoSelection
<1>4. FencesHanded({c})
  BY <1>2, <1>3, FenceKinds DEF FencesHanded, Handed
<1>5. BranchHanded({c})
  BY <1>2, FenceKinds DEF BranchHanded
<1>6. TransactionHanded({c})
  BY DEF TransactionHanded, Proceeds
<1> QED BY <1>4, <1>5, <1>6, FencesStep

LEMMA CompactionFences ==
  ASSUME TypeOK, Numbered, Fences,
         CompactionDropped \/ CompactionStep \/ CompactionFailed \/ CompactionVerified
  PROVE  Fences'
<1>0. compaction \in CompactionType
  BY DEF TypeOK
<1>1. CASE CompactionDropped
  <2>1. PICK c \in inflight : CompactionDropped!(c)
    BY <1>1 DEF CompactionDropped
  <2>2. Proceeds /\ compaction'.selection = NoSelection
    BY <2>1 DEF Proceeds, NoCompaction
  <2> QED BY <2>1, <2>2, OwnedFences, ConsumeStay
<1>2. CASE CompactionStep
  <2>1. PICK c \in inflight : CompactionStep!(c)
    BY <1>2 DEF CompactionStep
  <2>2. ASSUME NEW s \in TransactionKinds, Continue(c, [compaction EXCEPT !.stage = s])
        PROVE  Stay({c}) /\ Proceeds /\ compaction'.selection = compaction.selection
    <3> DEFINE p == [compaction EXCEPT !.stage = s]
    <3>1. p \in CompactionType /\ p.stage = s /\ p.selection = compaction.selection
      BY <1>0, FenceKinds DEF CompactionType, Stages
    <3>2. Continue(c, p)
      BY <2>2
    <3> HIDE DEF p
    <3> QED BY <3>1, <3>2, ContinueFences
  <2>3. ASSUME Continue(c, [compaction EXCEPT !.stage = "select", !.route = piModel])
        PROVE  Stay({c}) /\ Proceeds /\ compaction'.selection = compaction.selection
    <3> DEFINE p == [compaction EXCEPT !.stage = "select", !.route = piModel]
    <3>1. p \in CompactionType /\ p.stage = "select" /\ p.selection = compaction.selection
      BY <1>0 DEF CompactionType, Stages, TypeOK
    <3>2. Continue(c, p)
      BY <2>3
    <3> HIDE DEF p
    <3> QED BY <3>1, <3>2, ContinueFences, FenceKinds
  <2>4. ASSUME compaction.stage = "compact", RestoreOrWait(c, [compaction EXCEPT !.finished = TRUE])
        PROVE  Stay({c}) /\ Proceeds /\ compaction'.selection = compaction.selection
    <3> DEFINE p == [compaction EXCEPT !.finished = TRUE]
    <3>1. /\ p \in CompactionType /\ p.stage = "compact" /\ p.finished
          /\ p.selection = compaction.selection
      BY <1>0, <2>4 DEF CompactionType
    <3>2. RestoreOrWait(c, p)
      BY <2>4
    <3> HIDE DEF p
    <3> QED BY <3>1, <3>2, RestoreFences
  <2>5. Stay({c}) /\ Proceeds /\ compaction'.selection = compaction.selection
    BY <2>1, <2>2, <2>3, <2>4, FenceKinds
  <2>6. /\ Owned(c) /\ compaction.stage # "failed"
        /\ ~(compaction.stage = "compact" /\ compaction.finished)
    BY <2>1
  <2>7. UNCHANGED <<interrupt, resume, reload, promptState, branch, queueOp, skillPrompt>>
    BY <2>1
  <2> QED BY <2>5, <2>6, <2>7, OwnedFences
<1>3. CASE CompactionFailed
  <2>1. PICK c \in inflight : CompactionFailed!(c)
    BY <1>3 DEF CompactionFailed
  <2>2. Proceeds /\ compaction'.selection = compaction.selection
    BY <1>0, <2>1 DEF Proceeds, CompactionType
  <2> QED BY <2>1, <2>2, OwnedFences, ConsumeStay
<1>4. CASE CompactionVerified
  <2>1. PICK c \in inflight : CompactionVerified!(c)
    BY <1>4 DEF CompactionVerified
  <2>2. Proceeds /\ compaction'.selection = NoSelection
    BY <2>1 DEF Proceeds, NoCompaction
  <2>3. queueOp'.id \in {queueOp.id, 0} /\ skillPrompt' \in {skillPrompt, 0}
    BY <2>1, TablesFences
  <2> QED BY <2>1, <2>2, <2>3, OwnedFences, ConsumeStay
<1> QED BY <1>1, <1>2, <1>3, <1>4

\* The selection is over, and with it perhaps the wait of the transaction.
LEMMA SelectionEnds ==
  ASSUME TypeOK, NEW c, NEW route \in Routes, EndSelection(c, route), c.kind \notin TransactionKinds
  PROVE  Stay({c}) /\ compaction'.selection.id = 0 /\ TransactionHanded({c})
<1> DEFINE p == [compaction EXCEPT !.selection = NoSelection, !.route = route]
<1>1. /\ p \in CompactionType /\ p.selection = NoSelection /\ p.stage = compaction.stage
      /\ p.id = compaction.id /\ p.finished = compaction.finished
  BY DEF TypeOK, CompactionType, NoSelection, Routes
<1>2. IF p.finished THEN RestoreOrWait(c, p) ELSE Consume(c) /\ compaction' = p
  BY DEF EndSelection
<1> HIDE DEF p
<1>3. NoSelection.id = 0
  BY DEF NoSelection
<1>4. CASE p.finished
  <2>1. Stay({c}) /\ Proceeds /\ compaction'.selection = p.selection
    BY <1>1, <1>2, <1>3, <1>4, RestoreFences
  <2> QED BY <1>1, <1>3, <2>1 DEF Proceeds, TransactionHanded
<1>5. CASE ~p.finished
  <2>1. Stay({c}) /\ compaction' = p
    BY <1>2, <1>5, ConsumeStay
  <2> QED BY <1>1, <1>3, <1>5, <2>1 DEF TransactionHanded
<1> QED BY <1>4, <1>5

LEMMA FailureFences ==
  ASSUME TypeOK, Fences, SelectionConfirm \/ RequestFailed
  PROVE  Fences'
<1> SUFFICES \E c \in inflight : FencesHanded({c}) /\ BranchHanded({c}) /\ TransactionHanded({c})
  BY FencesStep
<1> USE FenceKinds
<1>1. CASE SelectionConfirm
  <2>1. PICK c \in inflight : SelectionConfirm!(c)
    BY <1>1 DEF SelectionConfirm
  <2>2. Stay({c}) /\ compaction'.selection.id = 0 /\ TransactionHanded({c})
    BY <2>1, SelectionEnds DEF TypeOK
  <2>3. queueOp'.id \in {queueOp.id, 0} /\ skillPrompt' \in {skillPrompt, 0}
    BY <2>1, TablesFences
  <2>4. FencesHanded({c})
    BY <2>1, <2>2, <2>3 DEF FencesHanded, Handed
  <2>5. BranchHanded({c})
    BY <2>1 DEF BranchHanded
  <2> QED BY <2>2, <2>4, <2>5
<1>2. CASE RequestFailed
  <2>1. PICK c \in inflight : RequestFailed!(c)
    BY <1>2 DEF RequestFailed
  <2>2. c.kind \notin TransactionKinds \cup ForkKinds \cup {"asap", "prompt", "command", "prompt-state"}
    BY <2>1
  <2>3. /\ Stay({c}) /\ TransactionHanded({c})
        /\ \/ compaction'.selection.id = 0
           \/ compaction' = compaction /\ c.id # compaction.selection.id
    <3>1. compaction.route \in Routes
      BY DEF TypeOK, CompactionType
    <3>2. CASE Selecting(c)
      BY <2>1, <2>2, <3>1, <3>2, SelectionEnds
    <3>3. CASE ~Selecting(c)
      <4>1. Consume(c) /\ compaction' = compaction
        BY <2>1, <3>3
      <4> QED BY <2>2, <3>3, <4>1, ConsumeStay DEF Selecting, TransactionHanded
    <3> QED BY <3>2, <3>3
  <2>4. /\ interrupt'.id = 0 \/ (interrupt' = interrupt /\ c.id # interrupt.id)
        /\ resume' = 0 \/ (resume' = resume /\ c.id # resume)
        /\ reload' = 0 \/ (reload' = reload /\ c.id # reload)
    BY <2>1 DEF NoInterrupt
  <2>5. UNCHANGED <<queueOp, skillPrompt, promptState, branch>>
    BY <2>1
  <2>6. FencesHanded({c})
    BY <2>2, <2>3, <2>4, <2>5 DEF FencesHanded, Handed
  <2>7. BranchHanded({c})
    BY <2>2, <2>5 DEF BranchHanded
  <2> QED BY <2>3, <2>6, <2>7
<1> QED BY <1>1, <1>2

LEMMA ReloadFences ==
  ASSUME TypeOK, Fences, ReloadStep \/ ReloadReply
  PROVE  Fences'
<1> SUFFICES \E c \in inflight : FencesHanded({c}) /\ BranchHanded({c}) /\ TransactionHanded({c})
  BY FencesStep
<1> USE FenceKinds DEF FencesHanded, BranchHanded, TransactionHanded, Handed
<1>1. CASE ReloadStep
  <2>1. PICK c \in inflight : ReloadStep!(c)
    BY <1>1 DEF ReloadStep
  <2>2. ReloadNext(c) \in ReloadKinds
    BY DEF ReloadNext
  <2>3. Stay({c}) /\ Pending(inflight', nextId, ReloadKinds)
    BY <2>1, <2>2, FollowStay
  <2>4. queueOp'.id \in {queueOp.id, 0} /\ skillPrompt' \in {skillPrompt, 0}
    BY <2>1, TablesFences
  <2> QED BY <2>1, <2>3, <2>4
<1>2. CASE ReloadReply
  <2>1. PICK c \in inflight : ReloadReply!(c)
    BY <1>2 DEF ReloadReply
  <2>2. Stay({c})
    BY <2>1, ConsumeStay
  <2> QED BY <2>1, <2>2
<1> QED BY <1>1, <1>2

\* An answer to the fork is the one it waits for, ...
LEMMA BranchOwned ==
  ASSUME TypeOK, Numbered, Fences, ChoiceFree, NEW c \in inflight, BranchOpen(c)
  PROVE  branch.stage \notin {"none", "choice"} /\ c.kind \in ForkKinds
<1>1. branch.stage # "none" /\ c.id = branch.id
  BY DEF BranchOpen, Branching
<1>2. branch.stage # "choice"
  BY <1>1 DEF ChoiceFree
<1>3. Pending(inflight, branch.id, ForkKinds)
  BY <1>1, <1>2 DEF Fences
<1> QED BY <1>1, <1>2, <1>3, ItsKind

\* ... and is followed by the next command, the user's choice or the end.
LEMMA BranchFences ==
  ASSUME TypeOK, Numbered, Fences, ChoiceFree,
         \/ BranchMessages \/ BranchReplaced \/ BranchCancelled \/ BranchState \/ BranchStep
         \/ BranchFailed
  PROVE  Fences'
<1>0. branch \in BranchType
  BY DEF TypeOK
<1>1. ASSUME NEW c \in inflight, BranchOpen(c), Stay({c}),
             branch'.stage \in {"none", "choice"} \/ Pending(inflight', branch'.id, ForkKinds),
             UNCHANGED <<interrupt, resume, reload, promptState, compaction>>,
             queueOp'.id \in {queueOp.id, 0}, skillPrompt' \in {skillPrompt, 0}
      PROVE  Fences'
  <2>1. c.kind \in ForkKinds
    BY <1>1, BranchOwned
  <2>2. FencesHanded({c})
    BY <1>1, <2>1, FenceKinds DEF FencesHanded, Handed
  <2>3. BranchHanded({c})
    BY <1>1 DEF BranchHanded
  <2>4. TransactionHanded({c})
    BY <1>1, <2>1, FenceKinds DEF TransactionHanded
  <2> QED BY <2>2, <2>3, <2>4, FencesStep
<1>2. ASSUME NEW c, NEW stage, NEW kind \in ForkKinds, BranchNext(c, stage, kind)
      PROVE  Stay({c}) /\ Pending(inflight', branch'.id, ForkKinds)
  <2>1. branch'.id = nextId
    BY <1>0, <1>2 DEF BranchNext, BranchType
  <2> QED BY <1>2, <2>1, FollowStay DEF BranchNext
<1>3. ASSUME NEW c, NEW outcome, BranchEnd(c, outcome)
      PROVE  Stay({c}) /\ branch'.stage = "none"
  BY <1>3, ConsumeStay DEF BranchEnd, Finish, NoBranch
<1>4. CASE BranchMessages
  <2>1. PICK c \in inflight : BranchMessages!(c)
    BY <1>4 DEF BranchMessages
  <2>2. Stay({c}) /\ branch'.stage \in {"none", "choice"}
    <3>1. CASE /\ branch' = [branch EXCEPT !.stage = "choice", !.id = nextId]
               /\ inflight' = inflight \ {c}
      BY <1>0, <3>1 DEF BranchType, Stay, Pending
    <3> QED BY <1>3, <2>1, <3>1
  <2> QED BY <1>1, <2>1, <2>2
<1>5. CASE BranchReplaced
  <2>1. PICK c \in inflight : BranchReplaced!(c)
    BY <1>5 DEF BranchReplaced
  <2>2. Stay({c}) /\ Pending(inflight', branch'.id, ForkKinds)
    BY <1>2, <2>1, FenceKinds
  <2> QED BY <1>1, <2>1, <2>2
<1>6. CASE BranchCancelled
  BY <1>1, <1>3, <1>6 DEF BranchCancelled
<1>7. CASE BranchState
  <2>1. PICK c \in inflight : BranchState!(c)
    BY <1>7 DEF BranchState
  <2>2. queueOp'.id \in {queueOp.id, 0} /\ skillPrompt' \in {skillPrompt, 0}
    BY <2>1, TablesFences
  <2>3. Stay({c}) /\ (branch'.stage = "none" \/ Pending(inflight', branch'.id, ForkKinds))
    <3>1. CASE /\ branch' = [branch EXCEPT !.stage = "history", !.id = nextId, !.target = piSession]
               /\ Follow(c, "branch-history", None)
      <4>1. branch'.id = nextId
        BY <1>0, <3>1 DEF BranchType
      <4> QED BY <3>1, <4>1, FollowStay, FenceKinds
    <3> QED BY <1>3, <2>1, <3>1
  <2> QED BY <1>1, <2>1, <2>2, <2>3
<1>8. CASE BranchStep
  <2>1. PICK c \in inflight : BranchStep!(c)
    BY <1>8 DEF BranchStep
  <2>2. \/ \E stage : \E kind \in ForkKinds : BranchNext(c, stage, kind)
        \/ \E outcome : BranchEnd(c, outcome)
    BY <2>1, FenceKinds
  <2> QED BY <1>1, <1>2, <1>3, <2>1, <2>2
<1>9. CASE BranchFailed
  BY <1>1, <1>3, <1>9 DEF BranchFailed
<1> QED BY <1>4, <1>5, <1>6, <1>7, <1>8, <1>9

LEMMA RespondFences ==
  ASSUME TypeOK, Numbered, FenceIInv, Respond
  PROVE  Fences'
BY QuietFences, PromptFences, ChainFences, CompactionFences, FailureFences, ReloadFences, BranchFences
DEF FenceIInv, Respond

\* A state that is taken is that of the session its tables belong to.
LEMMA StateLocal ==
  ASSUME Local, session' = piSession, attached' = piSession, piSession' = piSession,
         \A a \in admissions' : a.session = piSession \/ (~Switched /\ a \in admissions)
  PROVE  Local'
BY DEF Local, Switched

LEMMA TablesLocal ==
  ASSUME Local, SkillAdmitted, TakeState, TakeTables, piSession' = piSession
  PROVE  Local' /\ SkillAdmitted'
<1>1. Local'
  BY StateLocal DEF TakeState, TakeTables
<1>2. SkillAdmitted'
  BY DEF TakeTables, SkillAdmitted
<1> QED BY <1>1, <1>2

\* What leaves the session and its prompts alone.
LEMMA SteadyLocal ==
  ASSUME Local, SkillAdmitted, UNCHANGED <<session, attached, admissions>>,
         skillPrompt' \in {skillPrompt, 0}, piSession' # None
  PROVE  Local' /\ SkillAdmitted'
BY DEF Local, SkillAdmitted

LEMMA RouteLocal ==
  ASSUME TypeOK, Local, SkillAdmitted, Route
  PROVE  Local' /\ SkillAdmitted'
<1>0. piSession # None
  BY DEF Local
<1>1. CASE RouteInput
  <2>1. PICK r \in Offered({"input"}) : RouteInput!(r)
    BY <1>1 DEF RouteInput
  <2>2. admissions' \subseteq admissions \cup {Admission(nextId, r, FALSE)} /\ admissions \subseteq admissions'
    BY <2>1
  <2>3. UNCHANGED <<session, attached, skillPrompt, piSession>>
    BY <2>1 DEF mirror, pi
  <2>4. Admission(nextId, r, FALSE).session = session
    BY DEF Admission
  <2> QED BY <2>2, <2>3, <2>4 DEF Local, SkillAdmitted
<1>2. CASE RouteCommand
  <2>1. PICK r \in Offered({"command", "skill"}) : RouteCommand!(r)
    BY <1>2 DEF RouteCommand
  <2> DEFINE a == Admission(nextId, r, r.kind = "command")
  <2>2. a.session = session /\ a.id = nextId
    BY DEF Admission
  <2>3. \/ admissions' = admissions /\ skillPrompt' = skillPrompt
        \/ admissions' = admissions \cup {a} /\ skillPrompt' \in {skillPrompt, nextId}
    BY <2>1
  <2>4. UNCHANGED <<session, attached, piSession>>
    BY <2>1 DEF mirror, pi
  <2> HIDE DEF a
  <2> QED BY <2>2, <2>3, <2>4 DEF Local, SkillAdmitted
<1>3. CASE RouteAttach
  BY <1>3 DEF RouteAttach, Local, SkillAdmitted, tables, pi
<1>4. CASE RouteQueueOp \/ RouteNew \/ RouteModel \/ RouteRead \/ RouteCapture \/ RouteCompact
             \/ RouteFork \/ RouteReload \/ RouteBusy
  <2>1. UNCHANGED <<session, attached, admissions, skillPrompt, piSession>>
    BY <1>4 DEF RouteQueueOp, RouteNew, RouteModel, RouteRead, RouteCapture, RouteCompact, RouteFork,
       RouteReload, RouteBusy, Answered, tables, mirror, pi
  <2> QED BY <1>0, <2>1, SteadyLocal
<1> QED BY <1>1, <1>2, <1>3, <1>4 DEF Route

LEMMA RespondLocal ==
  ASSUME TypeOK, Local, SkillAdmitted, Respond
  PROVE  Local' /\ SkillAdmitted'
<1>0. piSession # None
  BY DEF Local
<1>1. CASE \/ InterruptAborted \/ InterruptReleased \/ InterruptReplaced \/ QueueReply
           \/ PromptReplyStale \/ StateReplyStale \/ ResumeReply \/ NewCancelled \/ ChainStep
           \/ CompactionDropped \/ CompactionStep \/ CompactionFailed \/ RequestFailed \/ PlainCompacted
  <2>1. UNCHANGED <<session, attached, admissions, skillPrompt, piSession>>
    BY <1>1 DEF InterruptAborted, InterruptReleased, InterruptReplaced, QueueReply, PromptReplyStale,
       StateReplyStale, ResumeReply, NewCancelled, ChainStep, CompactionDropped, CompactionStep,
       CompactionFailed, RequestFailed, PlainCompacted, tables, mirror, pi
  <2> QED BY <1>0, <2>1, SteadyLocal
<1>2. CASE BranchMessages \/ BranchReplaced \/ BranchCancelled \/ BranchStep \/ BranchFailed
             \/ BranchStale \/ BranchAborted \/ ReloadReply
  <2>1. UNCHANGED <<session, attached, admissions, skillPrompt, piSession>>
    BY <1>2 DEF BranchMessages, BranchReplaced, BranchCancelled, BranchStep, BranchFailed, BranchStale,
       BranchAborted, ReloadReply, tables, mirror, pi
  <2> QED BY <1>0, <2>1, SteadyLocal
<1>3. CASE PromptStateReply \/ StateReply \/ CompactionVerified \/ SelectionConfirm \/ BranchState
             \/ ReloadStep
  <2>1. /\ piSession' = piSession
        /\ \/ TakeState /\ TakeTables
           \/ UNCHANGED <<session, attached, admissions, skillPrompt>>
    BY <1>3 DEF PromptStateReply, StateReply, CompactionVerified, SelectionConfirm, BranchState,
       ReloadStep, tables, mirror, pi
  <2> QED BY <1>0, <2>1, TablesLocal, SteadyLocal
<1>4. CASE PromptAdmitted
  <2>1. PICK c \in inflight, a \in admissions, d \in Dispositions : PromptAdmitted!(c)!(a)!(d)
    BY <1>4 DEF PromptAdmitted
  <2>2. skillPrompt' = 0 \/ (skillPrompt' = skillPrompt /\ a.id # skillPrompt)
    BY <2>1 DEF SkillCleared
  <2>3. UNCHANGED <<session, attached, piSession>> /\ admissions' = admissions \ {a}
    BY <2>1 DEF mirror, pi
  <2> QED BY <2>2, <2>3 DEF Local, SkillAdmitted
<1>5. CASE PromptRefused
  <2>1. PICK c \in inflight, a \in admissions : PromptRefused!(c)!(a)
    BY <1>5 DEF PromptRefused
  <2>2. skillPrompt' = 0 \/ (skillPrompt' = skillPrompt /\ a.id # skillPrompt)
    BY <2>1 DEF SkillCleared
  <2>3. UNCHANGED <<session, attached, piSession>> /\ admissions' = admissions \ {a}
    BY <2>1 DEF mirror, pi
  <2> QED BY <2>2, <2>3 DEF Local, SkillAdmitted
<1>6. CASE NewStateReply
  <2>1. PICK c \in inflight, skill \in {FALSE, "skill" \in Kinds} : NewStateReply!(c)!(skill)
    BY <1>6 DEF NewStateReply
  <2> DEFINE kept == IF Switched THEN {} ELSE admissions
             a == [id |-> nextId, n |-> c.req.n, session |-> piSession, counted |-> FALSE]
  <2>2. \/ admissions' = kept /\ skillPrompt' \in {IF Switched THEN 0 ELSE skillPrompt}
        \/ admissions' = kept \cup {a} /\ skillPrompt' \in {nextId, IF Switched THEN 0 ELSE skillPrompt}
    BY <2>1
  <2>3. TakeState /\ piSession' = piSession
    BY <2>1 DEF pi
  <2>4. a.id = nextId /\ a.session = piSession
    OBVIOUS
  <2> HIDE DEF a
  <2>5. \A x \in admissions' : x.session = piSession \/ (~Switched /\ x \in admissions)
    BY <2>2, <2>4
  <2>6. Local'
    BY <2>3, <2>5, StateLocal DEF TakeState
  <2>7. SkillAdmitted'
    BY <2>2, <2>4 DEF SkillAdmitted
  <2> QED BY <2>6, <2>7
<1> QED BY <1>1, <1>2, <1>3, <1>4, <1>5, <1>6 DEF Respond

LEMMA OtherLocal ==
  ASSUME TypeOK, Local, SkillAdmitted,
         Defer \/ Refuse \/ Interrupt \/ InterruptBranch \/ Choose \/ PiAgentStart \/ PiApply
           \/ PiCompactionStart \/ UNCHANGED vars
  PROVE  Local' /\ SkillAdmitted'
<1>1. UNCHANGED <<session, attached, admissions>> /\ skillPrompt' \in {skillPrompt, 0}
  BY DEF Defer, Refuse, Interrupt, InterruptBranch, Choose, PiAgentStart, PiApply, PiCompactionStart,
     vars, tables, mirror
<1>2. piSession' # None
  <2>1. CASE PiApply
    <3>1. PICK c \in inflight : PiApply!(c)
      BY <2>1 DEF PiApply
    <3>2. c \in CommandType /\ piSession # None
      BY DEF TypeOK, Local
    <3>3. c.id \in Nat /\ (c.kind = "resume-switch" => c.to \in Sessions)
      BY <3>2 DEF CommandType
    <3>4. None \notin Sessions \cup Nat
      BY ConstantsAssumption
    <3>5. piSession' = piSession \/ piSession' = c.id \/ (c.kind = "resume-switch" /\ piSession' = c.to)
      BY <3>1 DEF pi
    <3> QED BY <3>2, <3>3, <3>4, <3>5
  <2>2. CASE ~PiApply
    BY <2>2 DEF Defer, Refuse, Interrupt, InterruptBranch, Choose, PiAgentStart, PiCompactionStart,
       vars, pi, Local
  <2> QED BY <2>1, <2>2
<1> QED BY <1>1, <1>2, SteadyLocal

-----------------------------------------------------------------------------
LEMMA ChoiceKept ==
  ASSUME TypeOK, ChoiceFree, Orderly, branch'.stage = "choice" => branch' = branch
  PROVE  ChoiceFree'
<1> SUFFICES ASSUME branch'.stage = "choice"
             PROVE  branch'.id < nextId' /\ \A c \in inflight' : c.id # branch'.id
  BY DEF ChoiceFree
<1>1. branch.id < nextId /\ \A c \in inflight : c.id # branch.id
  BY DEF ChoiceFree
<1>2. branch.id \in Nat /\ nextId \in Nat /\ nextId' \in Nat /\ nextId <= nextId'
  BY DEF TypeOK, BranchType, Orderly
<1> QED BY <1>1, <1>2 DEF Orderly

LEMMA ChoiceMade ==
  ASSUME TypeOK, OrderIInv, ChoiceFree, Orderly, BranchMessages
  PROVE  ChoiceFree'
<1>1. PICK c \in inflight : BranchMessages!(c)
  BY DEF BranchMessages
<1>2. branch \in BranchType /\ nextId \in Nat
  BY DEF TypeOK
<1>3. CASE branch' = [branch EXCEPT !.stage = "choice", !.id = nextId] /\ nextId' = nextId + 1
             /\ inflight' = inflight \ {c}
  <2>1. branch'.id = nextId
    BY <1>2, <1>3 DEF BranchType
  <2>2. \A d \in inflight : d.id < nextId /\ d.id \in Nat
    BY DEF OrderIInv, Founded, TypeOK, CommandType
  <2> QED BY <1>2, <1>3, <2>1, <2>2 DEF ChoiceFree
<1>4. CASE BranchEnd(c, "error")
  <2>1. branch'.stage = "none"
    BY <1>4 DEF BranchEnd, Finish, NoBranch
  <2> QED BY <2>1 DEF ChoiceFree
<1> QED BY <1>1, <1>3, <1>4

LEMMA ChoiceStep ==
  ASSUME TypeOK, OrderIInv, ChoiceFree, Orderly, [Next]_vars
  PROVE  ChoiceFree'
<1>0. branch \in BranchType
  BY DEF TypeOK
<1> SUFFICES ~BranchMessages => (branch'.stage = "choice" => branch' = branch)
  BY ChoiceKept, ChoiceMade
<1>1. CASE Route
  <2>1. CASE RouteFork
    BY <2>1 DEF RouteFork, NoBranch
  <2>2. CASE ~RouteFork
    BY <1>1, <2>2 DEF Route, RouteInput, RouteCommand, RouteQueueOp, RouteNew, RouteAttach, RouteModel,
       RouteRead, RouteCapture, RouteCompact, RouteReload, RouteBusy, Answered
  <2> QED BY <2>1, <2>2
<1>2. CASE Defer \/ Refuse \/ Interrupt \/ PiAgentStart \/ PiApply \/ PiCompactionStart \/ UNCHANGED vars
  BY <1>2 DEF Defer, Refuse, Interrupt, PiAgentStart, PiApply, PiCompactionStart, vars
<1>3. CASE InterruptBranch
  BY <1>0, <1>3 DEF InterruptBranch, Finish, NoBranch, BranchType
<1>4. CASE Choose
  <2>1. branch' = NoBranch \/ branch' = [branch EXCEPT !.stage = "replace", !.id = nextId]
    BY <1>4 DEF Choose, Finish
  <2>2. CASE branch' = NoBranch
    BY <2>2 DEF NoBranch
  <2>3. CASE branch' = [branch EXCEPT !.stage = "replace", !.id = nextId]
    <3>1. branch'.stage = "replace"
      BY <1>0, <2>3 DEF BranchType
    <3> QED BY <3>1
  <2> QED BY <2>1, <2>2, <2>3
<1>5. CASE BranchReplaced \/ BranchCancelled \/ BranchState \/ BranchStep \/ BranchFailed
  <2>1. ASSUME NEW c, NEW stage \in BranchStages \ {"choice"}, NEW kind, BranchNext(c, stage, kind)
        PROVE  branch'.stage # "choice"
    BY <1>0, <2>1 DEF BranchNext, BranchType
  <2>2. ASSUME NEW c, NEW outcome, BranchEnd(c, outcome)
        PROVE  branch'.stage # "choice"
    BY <2>2 DEF BranchEnd, Finish, NoBranch
  <2>3. CASE BranchReplaced
    BY <2>1, <2>3 DEF BranchReplaced, BranchStages
  <2>4. CASE BranchCancelled
    BY <2>2, <2>4 DEF BranchCancelled
  <2>5. CASE BranchState
    <3>1. PICK c \in inflight : BranchState!(c)
      BY <2>5 DEF BranchState
    <3>2. BranchEnd(c, "error") \/ branch' = [branch EXCEPT !.stage = "history", !.id = nextId, !.target = piSession]
      BY <3>1
    <3> QED BY <1>0, <2>2, <3>2 DEF BranchType
  <2>6. CASE BranchStep
    BY <2>1, <2>2, <2>6 DEF BranchStep, BranchStages
  <2>7. CASE BranchFailed
    BY <2>2, <2>7 DEF BranchFailed
  <2> QED BY <1>5, <2>3, <2>4, <2>5, <2>6, <2>7
<1>6. CASE Respond /\ ~(BranchMessages \/ BranchReplaced \/ BranchCancelled \/ BranchState \/ BranchStep \/ BranchFailed)
  BY <1>6 DEF Respond, InterruptAborted, InterruptReleased, InterruptReplaced, PromptStateReply,
     QueueReply, PromptReplyStale, PromptAdmitted, PromptRefused, StateReplyStale, StateReply,
     ResumeReply, NewCancelled, ChainStep, NewStateReply, CompactionDropped, CompactionStep,
     CompactionFailed, CompactionVerified, SelectionConfirm, RequestFailed, PlainCompacted,
     BranchStale, BranchAborted, ReloadStep, ReloadReply
<1> QED BY <1>1, <1>2, <1>3, <1>4, <1>5, <1>6 DEF Next, Pi

LEMMA FenceStep ==
  ASSUME TypeOK, NothingBehindFork, NothingStranded, OrderIInv, Numbered, FenceIInv, [Next]_vars
  PROVE  FenceIInv'
<1>1. Fences'
  BY RouteFences, RespondFences, OtherFences DEF FenceIInv, Next, Pi
<1>2. Local' /\ SkillAdmitted'
  BY RouteLocal, RespondLocal, OtherLocal DEF FenceIInv, Next, Pi
<1>3. ChoiceFree'
  BY OrderlyStep, ChoiceStep DEF FenceIInv
<1> QED BY <1>1, <1>2, <1>3 DEF FenceIInv

LEMMA FenceInit == Init => FenceIInv
<1> SUFFICES ASSUME Init PROVE FenceIInv
  OBVIOUS
<1>1. Fences /\ SkillAdmitted /\ ChoiceFree
  BY DEF Init, Fences, SkillAdmitted, ChoiceFree, NoInterrupt, NoQueueOp, NoPromptState, NoCompaction,
     NoSelection, NoBranch
<1>2. Local
  BY ConstantsAssumption DEF Init, Local
<1> QED BY <1>1, <1>2 DEF FenceIInv

LEMMA FencesShown ==
  ASSUME FenceIInv
  PROVE  FencesOwned
<1>1. \A id, kinds : Pending(inflight, id, kinds) => InFlight(id)
  BY DEF Pending, InFlight
<1> QED BY <1>1 DEF FenceIInv, Fences, FencesOwned, Branching

-----------------------------------------------------------------------------
(* Captures and forks are answered *)

Queueing(s, n) == \E i \in DOMAIN s : s[i].n = n

CaptureHeld(n) == Queueing(deferred, n) \/ (promptState.id # 0 /\ promptState.n = n)
ForkHeld(n)    == Queueing(deferred, n) \/ (Branching /\ branch.n = n)

\* What was asked and is not answered is deferred or under way.
AskedKept ==
  \A n \in 1..MaxRequests : /\ told[n] = <<"capture">> => CaptureHeld(n)
                            /\ told[n] = <<"fork">> => ForkHeld(n)

\* An outcome is not a question.
LEMMA Answer ==
  ASSUME NEW n \in 1..MaxRequests, TypeOK, NEW what, what \notin {"capture", "fork"}
  PROVE  Append(told[n], what) \notin {<<"capture">>, <<"fork">>}
<1> DEFINE s == told[n]
<1>1. s \in Seq(Outcomes)
  BY DEF TypeOK
<1> HIDE DEF s
<1>2. Len(s) \in Nat /\ Append(s, what)[Len(s) + 1] = what /\ Len(Append(s, what)) = Len(s) + 1
  BY <1>1, AppendProperties
<1>3. \A a : Len(<<a>>) = 1 /\ <<a>>[1] = a
  OBVIOUS
<1>4. ASSUME NEW a \in {"capture", "fork"}, Append(s, what) = <<a>> PROVE FALSE
  <2>1. Len(s) + 1 = 1
    BY <1>2, <1>3, <1>4
  <2> QED BY <1>2, <1>3, <1>4, <2>1
<1> QED BY <1>4 DEF s

\* What is told in a step: nothing, or an outcome.
Outcome(n) == told'[n] = told[n] \/ told'[n] \notin {<<"capture">>, <<"fork">>}

LEMMA Answering ==
  ASSUME TypeOK, NEW m, NEW what, Tell(m, what), what \notin {"capture", "fork"}
  PROVE  \A n \in 1..MaxRequests : /\ Outcome(n)
                                   /\ n = m => told'[n] \notin {<<"capture">>, <<"fork">>}
<1> SUFFICES ASSUME NEW n \in 1..MaxRequests
             PROVE  /\ Outcome(n)
                    /\ n = m => told'[n] \notin {<<"capture">>, <<"fork">>}
  OBVIOUS
<1>1. told' = [told EXCEPT ![m] = Append(told[m], what)] /\ DOMAIN told = 1..MaxRequests
  BY DEF Tell, TypeOK
<1>2. CASE n = m
  <2>1. told'[n] = Append(told[n], what)
    BY <1>1, <1>2
  <2> QED BY <2>1, Answer DEF Outcome
<1>3. CASE n # m
  BY <1>1, <1>3 DEF Outcome
<1> QED BY <1>2, <1>3

LEMMA AnsweringAll ==
  ASSUME TypeOK, NEW S, TellAll(S), \A o \in S : o.what \notin {"capture", "fork"}
  PROVE  \A n \in 1..MaxRequests : /\ Outcome(n)
                                   /\ (\E o \in S : o.n = n) => told'[n] \notin {<<"capture">>, <<"fork">>}
<1> SUFFICES ASSUME NEW n \in 1..MaxRequests
             PROVE  /\ Outcome(n)
                    /\ (\E o \in S : o.n = n) => told'[n] \notin {<<"capture">>, <<"fork">>}
  OBVIOUS
<1>1. DOMAIN told = 1..MaxRequests
  BY DEF TypeOK
<1>2. told'[n] = IF \E o \in S : o.n = n THEN Append(told[n], (CHOOSE o \in S : o.n = n).what) ELSE told[n]
  BY <1>1 DEF TellAll
<1>3. CASE \E o \in S : o.n = n
  <2> DEFINE o == CHOOSE x \in S : x.n = n
  <2>1. o \in S
    BY <1>3
  <2>2. told'[n] = Append(told[n], o.what)
    BY <1>2, <1>3
  <2> HIDE DEF o
  <2> QED BY <2>1, <2>2, Answer DEF Outcome
<1>4. CASE ~\E o \in S : o.n = n
  BY <1>2, <1>4 DEF Outcome
<1> QED BY <1>3, <1>4

\* The queue, the capture and the fork stay, and outcomes are reported, or none.
LEMMA HeldOn ==
  ASSUME AskedKept, \A n \in 1..MaxRequests : Outcome(n), deferred' = deferred, promptState' = promptState,
         branch'.n = branch.n, Branching => Branching'
  PROVE  AskedKept'
<1> SUFFICES ASSUME NEW n \in 1..MaxRequests
             PROVE  /\ told'[n] = <<"capture">> => CaptureHeld(n)'
                    /\ told'[n] = <<"fork">> => ForkHeld(n)'
  BY DEF AskedKept
<1> QED BY DEF AskedKept, Outcome, CaptureHeld, ForkHeld, Queueing

LEMMA SilentHeld ==
  ASSUME AskedKept, told' = told, deferred' = deferred, promptState' = promptState,
         branch'.n = branch.n, Branching => Branching'
  PROVE  AskedKept'
BY HeldOn DEF Outcome

\* The fork ends and its frontend hears of it.
LEMMA ForkEnds ==
  ASSUME TypeOK, AskedKept, NEW outcome, outcome \notin {"capture", "fork"}, Finish(outcome),
         deferred' = deferred, promptState' = promptState
  PROVE  AskedKept'
<1>1. \A n \in 1..MaxRequests : /\ Outcome(n)
                                /\ n = branch.n => told'[n] \notin {<<"capture">>, <<"fork">>}
  BY Answering DEF Finish
<1> QED BY <1>1 DEF AskedKept, Outcome, CaptureHeld, ForkHeld, Queueing

LEMMA ForkGoesOn ==
  ASSUME TypeOK, AskedKept, NEW c, NEW stage \in BranchStages \ {"none"}, NEW kind, BranchNext(c, stage, kind),
         deferred' = deferred, promptState' = promptState
  PROVE  AskedKept'
<1>1. branch'.n = branch.n /\ branch'.stage # "none"
  BY DEF BranchNext, TypeOK, BranchType
<1> QED BY <1>1, SilentHeld DEF BranchNext, Branching

LEMMA QuietHeld ==
  ASSUME TypeOK, AskedKept,
         \/ InterruptAborted \/ InterruptReleased \/ InterruptReplaced
         \/ PromptReplyStale \/ PromptAdmitted \/ StateReplyStale \/ ResumeReply
         \/ NewCancelled \/ ChainStep \/ CompactionDropped \/ CompactionStep \/ CompactionFailed
         \/ CompactionVerified \/ PlainCompacted \/ BranchStale \/ BranchAborted \/ ReloadStep
         \/ PiAgentStart \/ PiApply \/ PiCompactionStart \/ UNCHANGED vars
  PROVE  AskedKept'
<1>1. UNCHANGED <<told, deferred, promptState, branch>>
  BY DEF InterruptAborted, InterruptReleased, InterruptReplaced, PromptReplyStale, PromptAdmitted,
     StateReplyStale, ResumeReply, NewCancelled, ChainStep, CompactionDropped, CompactionStep,
     CompactionFailed, CompactionVerified, PlainCompacted, BranchStale, BranchAborted, ReloadStep,
     PiAgentStart, PiApply, PiCompactionStart, vars
<1> QED BY <1>1, SilentHeld DEF Branching

LEMMA SettlingWords == \A e, confirmed : Settlement(e, confirmed).what \notin {"capture", "fork"}
<1> SUFFICES ASSUME NEW e, NEW confirmed PROVE Settlement(e, confirmed).what \notin {"capture", "fork"}
  OBVIOUS
<1> DEFINE w == CASE e.counted /\ confirmed   -> "success"
                  [] e.counted /\ ~confirmed  -> "unconfirmed"
                  [] ~e.counted /\ confirmed  -> "settled"
                  [] ~e.counted /\ ~confirmed -> "unsettled"
<1>1. Settlement(e, confirmed).what = w
  BY DEF Settlement
<1>2. w \notin {"capture", "fork"}
  <2>1. CASE e.counted /\ confirmed
    BY <2>1
  <2>2. CASE e.counted /\ ~confirmed
    BY <2>2
  <2>3. CASE ~e.counted /\ confirmed
    BY <2>3
  <2>4. CASE ~e.counted /\ ~confirmed
    BY <2>4
  <2> QED BY <2>1, <2>2, <2>3, <2>4
<1> QED BY <1>1, <1>2

LEMMA RepliesHeld ==
  ASSUME TypeOK, AskedKept,
         \/ QueueReply \/ PromptRefused \/ StateReply \/ NewStateReply \/ SelectionConfirm \/ ReloadReply
  PROVE  AskedKept'
<1>1. UNCHANGED <<deferred, promptState, branch>>
  BY DEF QueueReply, PromptRefused, StateReply, NewStateReply, SelectionConfirm, ReloadReply
<1>2. CASE QueueReply
  <2>1. \/ told' = told
        \/ \E m : \E what \in {"queue-ok", "queue-failed"} : Tell(m, what)
    BY <1>2 DEF QueueReply
  <2> QED BY <1>1, <2>1, Answering, HeldOn, SilentHeld DEF Branching
<1>3. CASE PromptRefused
  <2>1. told' = told \/ \E m : Tell(m, "error")
    BY <1>3 DEF PromptRefused
  <2> QED BY <1>1, <2>1, Answering, HeldOn, SilentHeld DEF Branching
<1>4. CASE StateReply \/ NewStateReply \/ SelectionConfirm
  <2>1. \E c \in inflight : TellAll({Settlement(e, TRUE) : e \in Confirmed(c)})
    BY <1>4 DEF StateReply, NewStateReply, SelectionConfirm, SettleStates
  <2> QED BY <1>1, <2>1, AnsweringAll, SettlingWords, HeldOn DEF Branching
<1>5. CASE ReloadReply
  <2>1. told' = told \/ \E m : Tell(m, "success")
    BY <1>5 DEF ReloadReply
  <2> QED BY <1>1, <2>1, Answering, HeldOn, SilentHeld DEF Branching
<1> QED BY <1>2, <1>3, <1>4, <1>5

LEMMA CaptureAnswered ==
  ASSUME TypeOK, AskedKept, PromptStateReply
  PROVE  AskedKept'
<1>1. PICK c \in inflight : PromptStateReply!(c)
  BY DEF PromptStateReply
<1>2. CASE promptState.id # c.id
  BY <1>1, <1>2, SilentHeld DEF Branching
<1>3. CASE promptState.id = c.id
  <2>1. UNCHANGED <<deferred, branch>>
    BY <1>1
  <2>2. \E what \in {"captured", "capture-failed"} : Tell(promptState.n, what)
    BY <1>1, <1>3
  <2>3. \A n \in 1..MaxRequests : /\ Outcome(n)
                                  /\ n = promptState.n => told'[n] \notin {<<"capture">>, <<"fork">>}
    BY <2>2, Answering
  <2> QED BY <2>1, <2>3 DEF AskedKept, Outcome, CaptureHeld, ForkHeld, Queueing, Branching
<1> QED BY <1>2, <1>3

\* A failure that drops the queue answers every capture and fork in it.
LEMMA FailureHeld ==
  ASSUME TypeOK, CommandsIInv, AskedKept, RequestFailed
  PROVE  AskedKept'
<1>1. PICK c \in inflight : RequestFailed!(c)
  BY DEF RequestFailed
<1>2. UNCHANGED <<promptState, branch>>
  BY <1>1
<1> DEFINE S == {Settlement(e, FALSE) : e \in {x \in Own(c) : x.session = session}}
                  \cup RefusalsOf(Cancelled(c))
                  \cup (IF reload = c.id THEN {[n |-> c.req.n, what |-> "error"]} ELSE {})
<1>3. TellAll(S)
  BY <1>1
<1>4. \A r : Refusal(r.kind) # <<>> => Refusal(r.kind)[1] \notin {"capture", "fork"}
  BY DEF Refusal
<1>5. \A o \in RefusalsOf(Cancelled(c)) : o.what \notin {"capture", "fork"}
  BY <1>4 DEF RefusalsOf
<1>6. \A o \in S : o.what \notin {"capture", "fork"}
  <2> DEFINE A == {Settlement(e, FALSE) : e \in {x \in Own(c) : x.session = session}}
             R == IF reload = c.id THEN {[n |-> c.req.n, what |-> "error"]} ELSE {}
  <2>1. \A o \in A : o.what \notin {"capture", "fork"}
    BY SettlingWords
  <2>2. \A o \in R : o.what \notin {"capture", "fork"}
    OBVIOUS
  <2>3. S = A \cup RefusalsOf(Cancelled(c)) \cup R
    OBVIOUS
  <2> HIDE DEF A, R, S
  <2> QED BY <1>5, <2>1, <2>2, <2>3
<1>7. \A o \in RefusalsOf(Cancelled(c)) : o \in S
  OBVIOUS
<1> HIDE DEF S
<1>8. \A n \in 1..MaxRequests : /\ Outcome(n)
                                /\ (\E o \in S : o.n = n) => told'[n] \notin {<<"capture">>, <<"fork">>}
  BY <1>3, <1>6, AnsweringAll
<1>9. CASE configuration # c.id
  BY <1>1, <1>2, <1>8, <1>9, HeldOn DEF Branching
<1>10. CASE configuration = c.id
  <2> SUFFICES ASSUME NEW n \in 1..MaxRequests
               PROVE  /\ told'[n] = <<"capture">> => CaptureHeld(n)'
                      /\ told'[n] = <<"fork">> => ForkHeld(n)'
    BY DEF AskedKept
  <2>1. CASE \E i \in DOMAIN deferred : deferred[i].n = n
    <3>1. PICK i \in DOMAIN deferred : deferred[i].n = n
      BY <2>1
    <3> DEFINE r == deferred[i]
               d == Duty("queue", r.n, {Asked(r.kind)}, r)
    <3>2. d \in Duties
      BY DEF Duties, QueueDuties
    <3>3. d.n = r.n /\ d.said = {Asked(r.kind)}
      BY DutyFields
    <3> HIDE DEF d
    <3>4. told[n] = Asked(r.kind)
      BY <3>1, <3>2, <3>3 DEF CommandsIInv, Accounted
    <3>5. ASSUME told[n] \in {<<"capture">>, <<"fork">>}
          PROVE  \E o \in S : o.n = n
      <4>1. r.kind \in {"capture", "fork"}
        BY <3>4, <3>5 DEF Asked
      <4>2. Refusal(r.kind) # <<>>
        BY <4>1 DEF Refusal
      <4>3. r \in Cancelled(c)
        BY <1>10 DEF Cancelled, Range
      <4>4. [n |-> r.n, what |-> Refusal(r.kind)[1]] \in RefusalsOf(Cancelled(c))
        BY <4>2, <4>3 DEF RefusalsOf
      <4> QED BY <1>7, <3>1, <4>4
    <3> QED BY <1>8, <3>5 DEF Outcome
  <2>2. CASE ~\E i \in DOMAIN deferred : deferred[i].n = n
    BY <1>2, <1>8, <2>2 DEF AskedKept, Outcome, CaptureHeld, ForkHeld, Queueing, Branching
  <2> QED BY <2>1, <2>2
<1> QED BY <1>9, <1>10

LEMMA BranchHeld ==
  ASSUME TypeOK, AskedKept,
         BranchMessages \/ BranchReplaced \/ BranchCancelled \/ BranchState \/ BranchStep \/ BranchFailed
  PROVE  AskedKept'
<1>0. branch \in BranchType
  BY DEF TypeOK
<1>1. UNCHANGED <<deferred, promptState>>
  BY DEF BranchMessages, BranchReplaced, BranchCancelled, BranchState, BranchStep, BranchFailed
<1>2. ASSUME NEW c, NEW outcome \in {"success", "error", "cancelled"}, BranchEnd(c, outcome)
      PROVE  AskedKept'
  BY <1>1, <1>2, ForkEnds DEF BranchEnd
<1>3. ASSUME NEW c, NEW stage \in BranchStages \ {"none"}, NEW kind, BranchNext(c, stage, kind)
      PROVE  AskedKept'
  BY <1>1, <1>3, ForkGoesOn
<1>4. CASE BranchMessages
  <2>1. PICK c \in inflight : BranchMessages!(c)
    BY <1>4 DEF BranchMessages
  <2>2. CASE branch' = [branch EXCEPT !.stage = "choice", !.id = nextId] /\ told' = told
    <3>1. branch'.n = branch.n /\ branch'.stage # "none"
      BY <1>0, <2>2 DEF BranchType
    <3> QED BY <1>1, <2>2, <3>1, SilentHeld DEF Branching
  <2> QED BY <1>2, <2>1, <2>2
<1>5. CASE BranchReplaced
  BY <1>3, <1>5 DEF BranchReplaced, BranchStages
<1>6. CASE BranchCancelled
  BY <1>2, <1>6 DEF BranchCancelled
<1>7. CASE BranchState
  <2>1. PICK c \in inflight : BranchState!(c)
    BY <1>7 DEF BranchState
  <2>2. CASE /\ branch' = [branch EXCEPT !.stage = "history", !.id = nextId, !.target = piSession]
             /\ told' = told
    <3>1. branch'.n = branch.n /\ branch'.stage # "none"
      BY <1>0, <2>2 DEF BranchType
    <3> QED BY <1>1, <2>2, <3>1, SilentHeld DEF Branching
  <2> QED BY <1>2, <2>1, <2>2
<1>8. CASE BranchStep
  BY <1>2, <1>3, <1>8 DEF BranchStep, BranchStages
<1>9. CASE BranchFailed
  BY <1>2, <1>9 DEF BranchFailed
<1> QED BY <1>4, <1>5, <1>6, <1>7, <1>8, <1>9

LEMMA RespondHeld ==
  ASSUME TypeOK, CommandsIInv, AskedKept, Respond
  PROVE  AskedKept'
BY QuietHeld, RepliesHeld, CaptureAnswered, FailureHeld, BranchHeld DEF Respond

-----------------------------------------------------------------------------
(* Requests that are made keep the questions *)

\* A request that waits and is not the one taken waits on.
LEMMA QueueingOn ==
  ASSUME TypeOK, NEW i \in DOMAIN deferred, deferred' = RemoveAt(deferred, i),
         NEW n, n # deferred[i].n, Queueing(deferred, n)
  PROVE  Queueing(deferred', n)
<1>1. deferred \in Seq(Request) /\ Len(deferred) \in Nat /\ DOMAIN deferred = 1..Len(deferred)
  BY DEF TypeOK
<1>2. /\ deferred' \in Seq(Request) /\ Len(deferred') = Len(deferred) - 1
      /\ \A k \in 1..(Len(deferred) - 1) : deferred'[k] = IF k < i THEN deferred[k] ELSE deferred[k + 1]
  BY <1>1, Removed
<1>3. PICK j \in DOMAIN deferred : deferred[j].n = n
  BY DEF Queueing
<1>4. i \in 1..Len(deferred) /\ j \in 1..Len(deferred) /\ j # i
  BY <1>1, <1>3
<1>5. DOMAIN deferred' = 1..(Len(deferred) - 1)
  BY <1>1, <1>2
<1>6. CASE j < i
  <2>1. j \in 1..(Len(deferred) - 1)
    BY <1>1, <1>4, <1>6
  <2>2. deferred'[j] = deferred[j]
    BY <1>2, <1>6, <2>1
  <2> QED BY <1>3, <1>5, <2>1, <2>2 DEF Queueing
<1>7. CASE i < j
  <2>1. j - 1 \in 1..(Len(deferred) - 1) /\ ~(j - 1 < i) /\ (j - 1) + 1 = j
    BY <1>1, <1>4, <1>7
  <2>2. deferred'[j - 1] = deferred[j]
    BY <1>2, <2>1
  <2> QED BY <1>3, <1>5, <2>1, <2>2 DEF Queueing
<1> QED BY <1>4, <1>6, <1>7

\* The others are told nothing, and the request taken was asked for what it is.
LEMMA TakenAsks ==
  ASSUME TypeOK, CommandsIInv, NEW kinds, NEW r \in Offered(kinds), Taken(r)
  PROVE  /\ r.n \in 1..MaxRequests /\ told'[r.n] = Asked(r.kind)
         /\ \A n \in 1..MaxRequests : n # r.n =>
              told'[n] = told[n] /\ (Queueing(deferred, n) => Queueing(deferred', n))
<1>0. DOMAIN told = 1..MaxRequests /\ submitted \in 0..MaxRequests /\ MaxRequests \in Nat
  BY ConstantsAssumption DEF TypeOK
<1>1. CASE ~draining
  <2>1. /\ r.n = submitted + 1 /\ submitted < MaxRequests /\ deferred' = deferred
        /\ told' = [told EXCEPT ![r.n] = Asked(r.kind)]
    BY <1>1 DEF Taken
  <2>2. r.n \in 1..MaxRequests
    BY <1>0, <2>1
  <2> QED BY <1>0, <2>1, <2>2
<1>2. CASE draining
  <2>1. PICK i \in Drainable : r = deferred[i] /\ deferred' = RemoveAt(deferred, i)
    BY <1>2 DEF Taken
  <2>2. told' = told
    BY <1>2 DEF Taken
  <2>3. i \in DOMAIN deferred
    BY <2>1 DEF Drainable, ReadyControls
  <2> DEFINE d == Duty("queue", r.n, {Asked(r.kind)}, r)
  <2>4. d \in Duties
    BY <2>1, <2>3 DEF Duties, QueueDuties
  <2>5. d.n = r.n /\ d.said = {Asked(r.kind)}
    BY DutyFields
  <2> HIDE DEF d
  <2>6. r.n \in 1..submitted /\ told[r.n] = Asked(r.kind)
    BY <2>4, <2>5 DEF CommandsIInv, Accounted
  <2>7. r.n \in 1..MaxRequests
    BY <1>0, <2>6
  <2> QED BY <2>1, <2>2, <2>3, <2>6, <2>7, QueueingOn
<1> QED BY <1>1, <1>2

LEMMA Questions ==
  \A kind : /\ kind # "capture" => Asked(kind) # <<"capture">>
            /\ kind # "fork" => Asked(kind) # <<"fork">>
            /\ Asked(kind) \o Refusal(kind) \notin {<<"capture">>, <<"fork">>}
<1> SUFFICES ASSUME NEW kind
             PROVE  /\ kind # "capture" => Asked(kind) # <<"capture">>
                    /\ kind # "fork" => Asked(kind) # <<"fork">>
                    /\ Asked(kind) \o Refusal(kind) \notin {<<"capture">>, <<"fork">>}
  OBVIOUS
<1>0. \A a : Len(<<a>>) = 1 /\ <<a>>[1] = a
  OBVIOUS
<1>1. Asked(kind) \in {<<>>, <<kind>>}
  BY DEF Asked
<1>2. \A a : <<>> # <<a>>
  OBVIOUS
<1>3. /\ kind # "capture" => Asked(kind) # <<"capture">>
      /\ kind # "fork" => Asked(kind) # <<"fork">>
  BY <1>0, <1>1, <1>2
<1>4. CASE Refusal(kind) = <<>>
  <2>1. Asked(kind) \o Refusal(kind) = Asked(kind)
    BY <1>4, Joined DEF Asked
  <2>2. kind \notin {"capture", "fork"}
    BY <1>4 DEF Refusal
  <2> QED BY <1>3, <2>1, <2>2
<1>5. CASE Refusal(kind) # <<>>
  <2>1. Asked(kind) = <<kind>> /\ Refusal(kind) = <<Refusal(kind)[1]>>
    BY <1>5 DEF Asked, Refusal
  <2>2. Asked(kind) \o Refusal(kind) = <<kind, Refusal(kind)[1]>>
    BY <2>1, Joined
  <2> DEFINE two == <<kind, Refusal(kind)[1]>>
  <2>3. Len(two) = 2
    OBVIOUS
  <2> HIDE DEF two
  <2>4. Len(<<"capture">>) = 1 /\ Len(<<"fork">>) = 1
    OBVIOUS
  <2>5. two # <<"capture">> /\ two # <<"fork">>
    BY <2>3, <2>4
  <2> QED BY <1>3, <2>2, <2>5 DEF two
<1> QED BY <1>3, <1>4, <1>5

LEMMA AnsweredHeld ==
  ASSUME TypeOK, NEW r, NEW i \in DOMAIN deferred, deferred' = RemoveAt(deferred, i), r = deferred[i],
         Tell(r.n, "error"), AskedKept, UNCHANGED <<promptState, branch>>
  PROVE  AskedKept'
<1>1. \A n \in 1..MaxRequests : /\ Outcome(n)
                                /\ n = r.n => told'[n] \notin {<<"capture">>, <<"fork">>}
  BY Answering
<1>2. \A n \in 1..MaxRequests : n # r.n => (Queueing(deferred, n) => Queueing(deferred', n))
  BY QueueingOn
<1> QED BY <1>1, <1>2 DEF AskedKept, Outcome, CaptureHeld, ForkHeld, Branching

\* A request answered at once, or refused, leaves no question.
LEMMA RefusedAtOnce ==
  ASSUME TypeOK, AskedKept, NEW n \in 1..MaxRequests, NEW what,
         what \notin {<<"capture">>, <<"fork">>}, told' = [told EXCEPT ![n] = what],
         UNCHANGED <<deferred, promptState, branch>>
  PROVE  AskedKept'
<1>1. \A m \in 1..MaxRequests : Outcome(m)
  BY DEF Outcome, TypeOK
<1> QED BY <1>1, HeldOn DEF Branching

LEMMA BusyHeld ==
  ASSUME TypeOK, AskedKept, RouteBusy
  PROVE  AskedKept'
<1>1. PICK r \in Offered({"fork", "reload"}) : Answered(r, "error")
  BY DEF RouteBusy
<1>2. UNCHANGED <<promptState, branch>>
  BY <1>1 DEF Answered
<1>3. CASE draining
  <2>1. PICK i \in Drainable : r = deferred[i] /\ deferred' = RemoveAt(deferred, i)
    BY <1>1, <1>3 DEF Answered
  <2>2. i \in DOMAIN deferred
    BY <2>1 DEF Drainable, ReadyControls
  <2>3. Tell(r.n, "error")
    BY <1>1, <1>3 DEF Answered
  <2> QED BY <1>2, <2>1, <2>2, <2>3, AnsweredHeld
<1>4. CASE ~draining
  <2>1. /\ r.n = submitted + 1 /\ submitted < MaxRequests /\ deferred' = deferred
        /\ told' = [told EXCEPT ![r.n] = Append(Asked(r.kind), "error")]
    BY <1>1, <1>4 DEF Answered
  <2>2. r.kind \in {"fork", "reload"}
    BY <2>1, OfferedType
  <2>3. r.n \in 1..MaxRequests
    BY <2>1, ConstantsAssumption DEF TypeOK
  <2>4. Asked(r.kind) \o Refusal(r.kind) \notin {<<"capture">>, <<"fork">>}
    BY Questions
  <2>5. Append(Asked(r.kind), "error") = Asked(r.kind) \o Refusal(r.kind)
    <3>1. Asked(r.kind) = <<r.kind>> /\ Refusal(r.kind) = <<"error">>
      BY <2>2 DEF Asked, Refusal
    <3> QED BY <3>1, Appended, Joined
  <2> QED BY <1>2, <2>1, <2>3, <2>4, <2>5, RefusedAtOnce
<1> QED BY <1>3, <1>4

\* A capture takes its read along, and a fork the place of the fork.
LEMMA RouteHeld ==
  ASSUME TypeOK, NothingBehindFork, CommandsIInv, AskedKept,
         promptState.id # 0 => configuration # 0, Route
  PROVE  AskedKept'
<1>1. ASSUME NEW kinds, NEW r \in Offered(kinds), Taken(r), UNCHANGED <<promptState, branch>>,
             "capture" \notin kinds, "fork" \notin kinds
      PROVE  AskedKept'
  <2>1. r.kind \in kinds
    BY <1>1, TakenType
  <2>2. told'[r.n] \notin {<<"capture">>, <<"fork">>}
    BY <1>1, <2>1, TakenAsks, Questions
  <2>3. \A n \in 1..MaxRequests : n # r.n =>
              told'[n] = told[n] /\ (Queueing(deferred, n) => Queueing(deferred', n))
    BY <1>1, TakenAsks
  <2> QED BY <1>1, <2>2, <2>3 DEF AskedKept, CaptureHeld, ForkHeld, Branching
<1>2. CASE RouteCapture
  <2>1. PICK r \in Offered({"capture"}) : RouteCapture!(r)
    BY <1>2 DEF RouteCapture
  <2>2. r.kind = "capture"
    BY <2>1, TakenType
  <2>3. /\ told'[r.n] = Asked(r.kind)
        /\ \A n \in 1..MaxRequests : n # r.n =>
             told'[n] = told[n] /\ (Queueing(deferred, n) => Queueing(deferred', n))
    BY <2>1, TakenAsks
  <2>4. told'[r.n] # <<"fork">>
    BY <2>2, <2>3, Questions
  <2>5. promptState'.id = nextId /\ promptState'.n = r.n /\ nextId # 0 /\ branch' = branch
    BY <2>1 DEF CaptureFence, TypeOK
  <2>6. configuration = 0
    BY <2>1 DEF Taken, Blocked, Drainable, Held
  <2> QED BY <2>3, <2>4, <2>5, <2>6 DEF AskedKept, CaptureHeld, ForkHeld, Branching
<1>3. CASE RouteFork
  <2>1. PICK r \in Offered({"fork"}), stage \in {"messages", "replace"}, message \in BOOLEAN :
          RouteFork!(r)!(stage, message)
    BY <1>3 DEF RouteFork
  <2>2. r.kind = "fork"
    BY <2>1, TakenType
  <2>3. /\ told'[r.n] = Asked(r.kind)
        /\ \A n \in 1..MaxRequests : n # r.n =>
             told'[n] = told[n] /\ (Queueing(deferred, n) => Queueing(deferred', n))
    BY <2>1, TakenAsks
  <2>4. told'[r.n] # <<"capture">>
    BY <2>2, <2>3, Questions
  <2>5. branch'.stage # "none" /\ branch'.n = r.n /\ promptState' = promptState
    BY <2>1 DEF NoBranch
  <2>6. ~Branching
    BY <2>1, TakenAlone
  <2> QED BY <2>3, <2>4, <2>5, <2>6 DEF AskedKept, CaptureHeld, ForkHeld, Branching
<1>4. CASE RouteInput
  BY <1>1, <1>4 DEF RouteInput
<1>5. CASE RouteCommand
  BY <1>1, <1>5 DEF RouteCommand
<1>6. CASE RouteQueueOp
  BY <1>1, <1>6 DEF RouteQueueOp
<1>7. CASE RouteNew
  BY <1>1, <1>7 DEF RouteNew
<1>8. CASE RouteAttach
  BY <1>1, <1>8 DEF RouteAttach
<1>9. CASE RouteModel
  BY <1>1, <1>9 DEF RouteModel
<1>10. CASE RouteRead
  BY <1>1, <1>10 DEF RouteRead
<1>11. CASE RouteCompact
  BY <1>1, <1>11 DEF RouteCompact
<1>12. CASE RouteReload
  BY <1>1, <1>12 DEF RouteReload
<1>13. CASE RouteBusy
  BY <1>13, BusyHeld
<1> QED
  BY <1>2, <1>3, <1>4, <1>5, <1>6, <1>7, <1>8, <1>9, <1>10, <1>11, <1>12, <1>13 DEF Route

\* A request that is deferred or refused, an interrupt and a choice.
LEMMA RequestHeld ==
  ASSUME TypeOK, AskedKept, Defer \/ Refuse \/ Interrupt \/ InterruptBranch \/ Choose
  PROVE  AskedKept'
<1>0. branch \in BranchType /\ deferred \in Seq(Request) /\ submitted \in Nat
  BY DEF TypeOK
<1>1. CASE Defer
  <2>1. PICK r \in Offered(Gated) : Defer!(r)
    BY <1>1 DEF Defer
  <2>2. r.n \in 1..MaxRequests /\ r \in Request
    <3>1. r.n = submitted + 1 /\ submitted < MaxRequests
      BY <2>1
    <3>2. r.n \in 1..MaxRequests
      BY <1>0, <3>1, ConstantsAssumption
    <3> QED BY <3>1, <3>2, OfferedType
  <2>3. UNCHANGED <<promptState, branch>>
    BY <2>1
  <2>4. CASE Len(deferred) < MaxDeferred
    <3>1. deferred' = Append(deferred, r) /\ told' = [told EXCEPT ![r.n] = Asked(r.kind)]
      BY <2>1, <2>4 DEF Enqueued
    <3>2. /\ DOMAIN deferred = 1..Len(deferred) /\ DOMAIN deferred' = 1..(Len(deferred) + 1)
          /\ Len(deferred) \in Nat
          /\ \A k \in 1..Len(deferred) : deferred'[k] = deferred[k]
          /\ deferred'[Len(deferred) + 1] = r
      BY <1>0, <2>2, <3>1
    <3>3. \A n : Queueing(deferred, n) => Queueing(deferred', n)
      BY <3>2 DEF Queueing
    <3>4. Len(deferred) + 1 \in DOMAIN deferred'
      BY <3>2
    <3>5. Queueing(deferred', r.n)
      BY <3>2, <3>4 DEF Queueing
    <3>6. \A n \in 1..MaxRequests : n # r.n => told'[n] = told[n]
      BY <3>1 DEF TypeOK
    <3> QED BY <2>3, <3>3, <3>5, <3>6 DEF AskedKept, CaptureHeld, ForkHeld, Branching
  <2>5. CASE ~(Len(deferred) < MaxDeferred)
    <3>1. deferred' = deferred /\ told' = [told EXCEPT ![r.n] = Asked(r.kind) \o Refusal(r.kind)]
      BY <2>1, <2>5
    <3>2. Asked(r.kind) \o Refusal(r.kind) \notin {<<"capture">>, <<"fork">>}
      BY Questions
    <3> QED BY <2>2, <2>3, <3>1, <3>2, RefusedAtOnce
  <2> QED BY <2>4, <2>5
<1>2. CASE Refuse
  <2>1. PICK r \in Offered(Gated) : Refuse!(r)
    BY <1>2 DEF Refuse
  <2>2. r.n \in 1..MaxRequests
    BY <2>1, ConstantsAssumption DEF TypeOK
  <2>3. Asked(r.kind) \o Refusal(r.kind) \notin {<<"capture">>, <<"fork">>}
    BY Questions
  <2> QED BY <2>1, <2>2, <2>3, RefusedAtOnce
<1>3. CASE Interrupt
  BY <1>3, SilentHeld DEF Interrupt, Branching
<1>4. CASE InterruptBranch
  <2>1. UNCHANGED <<deferred, promptState>>
    BY <1>4 DEF InterruptBranch
  <2>2. CASE Finish("cancelled")
    BY <2>1, <2>2, ForkEnds
  <2>3. CASE branch' = [branch EXCEPT !.interrupted = TRUE] /\ told' = told
    <3>1. branch'.n = branch.n /\ branch'.stage = branch.stage
      BY <1>0, <2>3 DEF BranchType
    <3> QED BY <2>1, <2>3, <3>1, SilentHeld DEF Branching
  <2> QED BY <1>4, <2>2, <2>3 DEF InterruptBranch
<1>5. CASE Choose
  <2>1. UNCHANGED <<deferred, promptState>>
    BY <1>5 DEF Choose
  <2>2. CASE Finish("error")
    BY <2>1, <2>2, ForkEnds
  <2>3. CASE branch' = [branch EXCEPT !.stage = "replace", !.id = nextId] /\ told' = told
    <3>1. branch'.n = branch.n /\ branch'.stage = "replace"
      BY <1>0, <2>3 DEF BranchType
    <3> QED BY <2>1, <2>3, <3>1, SilentHeld DEF Branching
  <2> QED BY <1>5, <2>2, <2>3 DEF Choose
<1> QED BY <1>1, <1>2, <1>3, <1>4, <1>5

-----------------------------------------------------------------------------
\* A later barrier is never lifted before the capture that is under way.
CaptureFirst == promptState.id <= configuration

\* What a step must show for it.
Later(c) ==
  \/ promptState'.id = 0
  \/ promptState' = promptState /\ configuration' \in {configuration, nextId}
  \/ promptState' = promptState /\ configuration' = Cleared(c) /\ Answers(c) /\ c.kind # "prompt-state"
  \/ promptState'.id = nextId /\ configuration' = nextId

LEMMA LaterStep ==
  ASSUME TypeOK, TypeOK', Founded, Numbered, Fences, CaptureFirst, NEW c, Later(c)
  PROVE  CaptureFirst'
<1>1. /\ promptState.id \in Nat /\ configuration \in Nat /\ nextId \in Nat
      /\ promptState'.id \in Nat /\ configuration' \in Nat
  BY DEF TypeOK
<1>2. promptState.id # 0 => \E d \in inflight : d.id = promptState.id /\ d.kind = "prompt-state"
  BY DEF Fences, Pending
<1>3. promptState.id # 0 => promptState.id < nextId
  BY <1>2 DEF Founded
<1>4. CASE promptState'.id = 0
  BY <1>1, <1>4 DEF CaptureFirst
<1>5. CASE promptState' = promptState /\ configuration' \in {configuration, nextId}
  BY <1>1, <1>3, <1>5 DEF CaptureFirst
<1>6. CASE promptState' = promptState /\ configuration' = Cleared(c) /\ Answers(c) /\ c.kind # "prompt-state"
  <2> SUFFICES ASSUME promptState.id # 0 PROVE configuration # c.id
    BY <1>1, <1>6 DEF Cleared, CaptureFirst
  <2>1. PICK d \in inflight : d.id = promptState.id /\ d.kind = "prompt-state"
    BY <1>2
  <2>2. ~(d.id < c.id) /\ c \in inflight
    BY <1>6, <2>1 DEF Answers, Reads, StateReads
  <2>3. d.id # c.id
    BY <1>6, <2>1, <2>2 DEF Numbered
  <2>4. c.id \in Nat
    BY <2>2 DEF TypeOK, CommandType
  <2> QED BY <1>1, <2>1, <2>2, <2>3, <2>4 DEF CaptureFirst
<1>7. CASE promptState'.id = nextId /\ configuration' = nextId
  BY <1>1, <1>7 DEF CaptureFirst
<1> QED BY <1>4, <1>5, <1>6, <1>7 DEF Later

LEMMA FirstStep ==
  ASSUME TypeOK, TypeOK', Founded, Numbered, Fences, CaptureFirst, [Next]_vars
  PROVE  CaptureFirst'
<1> SUFFICES \E c : Later(c)
  BY LaterStep
<1>1. CASE Route
  <2>1. CASE RouteCapture
    <3>1. promptState'.id = nextId /\ configuration' = nextId
      BY <2>1 DEF RouteCapture, CaptureFence
    <3> QED BY <3>1 DEF Later
  <2>2. CASE Route /\ ~RouteCapture
    <3>1. promptState' = promptState
      BY <2>2 DEF Route, RouteInput, RouteCommand, RouteQueueOp, RouteNew, RouteAttach, RouteModel,
         RouteRead, RouteCompact, RouteFork, RouteReload, RouteBusy, Answered
    <3>2. configuration' \in {configuration, nextId}
      BY <2>2 DEF Route, RouteInput, RouteCommand, RouteQueueOp, RouteNew, RouteAttach, RouteModel,
         RouteRead, RouteCompact, RouteFork, RouteReload, RouteBusy, Answered
    <3> QED BY <3>1, <3>2 DEF Later
  <2> QED BY <1>1, <2>1, <2>2
<1>2. CASE Defer \/ Refuse \/ Interrupt \/ InterruptBranch \/ Choose \/ PiAgentStart \/ PiApply
             \/ PiCompactionStart \/ UNCHANGED vars
  BY <1>2 DEF Later, Defer, Refuse, Interrupt, InterruptBranch, Choose, PiAgentStart, PiApply,
     PiCompactionStart, vars
<1>3. CASE PromptStateReply
  BY <1>3 DEF Later, PromptStateReply, NoPromptState
<1>4. CASE StateReply
  BY <1>4 DEF Later, StateReply, Succeeds
<1>5. CASE NewCancelled
  BY <1>5 DEF Later, NewCancelled
<1>6. CASE NewStateReply
  BY <1>6 DEF Later, NewStateReply, Succeeds
<1>7. CASE SelectionConfirm
  BY <1>7 DEF Later, SelectionConfirm, Succeeds
<1>8. CASE RequestFailed
  <2>1. PICK c \in inflight : RequestFailed!(c)
    BY <1>8 DEF RequestFailed
  <2>2. Answers(c) /\ c.kind # "prompt-state"
    BY <2>1 DEF Succeeds, Fails, ReloadKinds
  <2> QED BY <2>1, <2>2 DEF Later
<1>9. CASE ReloadReply
  BY <1>9 DEF Later, ReloadReply, Succeeds, ReloadKinds
<1>10. CASE PromptAdmitted
  BY <1>10 DEF Later, PromptAdmitted
<1>11. CASE ChainStep \/ BranchAborted \/ ReloadStep
  BY <1>11 DEF Later, ChainStep, BranchAborted, ReloadStep
<1>12. CASE InterruptAborted \/ InterruptReleased \/ InterruptReplaced \/ QueueReply \/ PromptReplyStale
              \/ PromptRefused \/ StateReplyStale \/ ResumeReply \/ CompactionDropped \/ CompactionStep
              \/ CompactionFailed \/ CompactionVerified \/ PlainCompacted
  BY <1>12 DEF Later, InterruptAborted, InterruptReleased, InterruptReplaced, QueueReply,
     PromptReplyStale, PromptRefused, StateReplyStale, ResumeReply, CompactionDropped, CompactionStep,
     CompactionFailed, CompactionVerified, PlainCompacted
<1>13. CASE BranchMessages \/ BranchReplaced \/ BranchCancelled \/ BranchState \/ BranchStep \/ BranchFailed
              \/ BranchStale
  BY <1>13 DEF Later, BranchMessages, BranchReplaced, BranchCancelled, BranchState, BranchStep,
     BranchFailed, BranchStale
<1> QED BY <1>1, <1>2, <1>3, <1>4, <1>5, <1>6, <1>7, <1>8, <1>9, <1>10, <1>11, <1>12, <1>13
        DEF Next, Pi, Respond

-----------------------------------------------------------------------------
(* The configuration request, where no settlement makes a state read required *)

\* Neither a prompt Pi handles by itself nor a slash command of its own makes the
\* read that settles it the configuration request (that read may be forgotten).
NoRequiredRead == "handled" \notin Dispositions /\ "command" \notin Kinds

\* The commands a configuration request may be, but for the capture.
ConfigurationKinds == {"new", "new-model", "new-thinking", "new-state", "model", "thinking",
                       "configuration-state", "state"} \cup ReloadKinds

PlainQueue      == \A i \in DOMAIN deferred : deferred[i].kind # "command"
PlainAdmissions == \A a \in admissions : ~a.counted
BarrierOwned ==
  configuration # 0 =>
    Pending(inflight, configuration, ConfigurationKinds) \/ promptState.id = configuration

Plain == PlainQueue /\ PlainAdmissions /\ BarrierOwned

LEMMA OfferedPlain ==
  ASSUME NoRequiredRead, PlainQueue, NEW kinds, NEW r \in Offered(kinds)
  PROVE  r.kind # "command"
<1>1. CASE r \in Range(deferred)
  BY <1>1 DEF PlainQueue, Range
<1>2. CASE r \notin Range(deferred)
  <2>1. PICK k \in kinds \cap Kinds : r \in [n : {submitted + 1}, kind : {k}, to : Targets(k)]
    BY <1>2 DEF Offered
  <2> QED BY <2>1 DEF NoRequiredRead
<1> QED BY <1>1, <1>2

LEMMA PlainQueueStep ==
  ASSUME TypeOK, NothingStranded, OrderIInv, NoRequiredRead, PlainQueue, [Next]_vars
  PROVE  PlainQueue'
<1>0. deferred \in Seq(Request) /\ DOMAIN deferred = 1..Len(deferred) /\ Ordered(deferred)
  BY DEF TypeOK, OrderIInv, Queued
<1>1. ASSUME Shortened
      PROVE  PlainQueue'
  <2>1. CASE \E i \in DOMAIN deferred : deferred' = RemoveAt(deferred, i)
    <3>1. PICK i \in DOMAIN deferred : deferred' = RemoveAt(deferred, i)
      BY <2>1
    <3>2. \A k \in DOMAIN deferred' : \E m \in DOMAIN deferred : deferred'[k] = deferred[m]
      BY <1>0, <3>1, RemovedOrder
    <3> QED BY <3>2 DEF PlainQueue
  <2>2. CASE deferred' = deferred \/ deferred' = <<>>
    BY <2>2 DEF PlainQueue
  <2> QED BY <1>1, <2>1, <2>2 DEF Shortened
<1>2. CASE Route
  <2>1. \E kinds : \E r \in Offered(kinds) : Taken(r) \/ \E what : Answered(r, what)
    BY <1>2 DEF Route, RouteInput, RouteCommand, RouteQueueOp, RouteNew, RouteAttach, RouteModel,
       RouteRead, RouteCapture, RouteCompact, RouteFork, RouteReload, RouteBusy
  <2> QED BY <1>1, <2>1, TakenOrder DEF OrderIInv
<1>3. CASE Defer
  <2>1. PICK r \in Offered(Gated) : Defer!(r)
    BY <1>3 DEF Defer
  <2>2. r.kind # "command"
    BY OfferedPlain
  <2>3. CASE deferred' = Append(deferred, r)
    <3>1. r \in Request
      BY <2>1, OfferedType
    <3>2. /\ DOMAIN deferred' = 1..(Len(deferred) + 1)
          /\ Len(deferred) \in Nat
          /\ \A k \in 1..Len(deferred) : deferred'[k] = deferred[k]
          /\ deferred'[Len(deferred) + 1] = r
      BY <1>0, <2>3, <3>1
    <3>3. ASSUME NEW k \in DOMAIN deferred'
          PROVE  deferred'[k].kind # "command"
      <4>1. k \in 1..Len(deferred) \/ k = Len(deferred) + 1
        BY <3>2
      <4> QED BY <1>0, <2>2, <3>2, <4>1 DEF PlainQueue
    <3> QED BY <3>3 DEF PlainQueue
  <2>4. CASE deferred' = deferred
    BY <2>4 DEF PlainQueue
  <2> QED BY <2>1, <2>3, <2>4 DEF Enqueued
<1>4. CASE Respond
  <2>1. deferred' \in {deferred, <<>>}
    BY <1>4, RespondKeepsQueue
  <2> QED BY <2>1 DEF PlainQueue
<1>5. CASE Refuse \/ Interrupt \/ InterruptBranch \/ Choose \/ PiAgentStart \/ PiApply
             \/ PiCompactionStart \/ UNCHANGED vars
  BY <1>5 DEF PlainQueue, Refuse, Interrupt, InterruptBranch, Choose, PiAgentStart, PiApply,
     PiCompactionStart, vars
<1> QED BY <1>2, <1>3, <1>4, <1>5 DEF Next, Pi

LEMMA PlainAdmissionsStep ==
  ASSUME TypeOK, NoRequiredRead, PlainQueue, PlainAdmissions, [Next]_vars
  PROVE  PlainAdmissions'
<1>1. CASE RouteInput
  BY <1>1 DEF RouteInput, Admission, PlainAdmissions
<1>2. CASE RouteCommand
  <2>1. PICK r \in Offered({"command", "skill"}) : RouteCommand!(r)
    BY <1>2 DEF RouteCommand
  <2>2. r.kind # "command"
    BY OfferedPlain
  <2> DEFINE x == Admission(nextId, r, r.kind = "command")
  <2>3. admissions' \subseteq admissions \cup {x}
    BY <2>1
  <2>4. ~x.counted
    BY <2>2 DEF Admission
  <2> HIDE DEF x
  <2> QED BY <2>3, <2>4 DEF PlainAdmissions
<1>3. CASE Route /\ ~RouteInput /\ ~RouteCommand
  BY <1>3 DEF Route, RouteQueueOp, RouteNew, RouteAttach, RouteModel, RouteRead, RouteCapture,
     RouteCompact, RouteFork, RouteReload, RouteBusy, Answered, tables, PlainAdmissions
<1>4. CASE NewStateReply
  <2>1. PICK c \in inflight, skill \in {FALSE, "skill" \in Kinds} : NewStateReply!(c)!(skill)
    BY <1>4 DEF NewStateReply
  <2> DEFINE x == [id |-> nextId, n |-> c.req.n, session |-> piSession, counted |-> FALSE]
  <2>2. admissions' \subseteq admissions \cup {x}
    BY <2>1
  <2>3. ~x.counted
    OBVIOUS
  <2> HIDE DEF x
  <2> QED BY <2>2, <2>3 DEF PlainAdmissions
<1>5. CASE PromptStateReply \/ PromptAdmitted \/ PromptRefused \/ StateReply \/ CompactionVerified
             \/ SelectionConfirm \/ RequestFailed \/ BranchReplaced \/ BranchState \/ ReloadStep
  <2>1. admissions' \subseteq admissions
    BY <1>5 DEF PromptStateReply, PromptAdmitted, PromptRefused, StateReply, CompactionVerified,
       SelectionConfirm, RequestFailed, BranchReplaced, BranchState, ReloadStep, TakeTables, tables
  <2> QED BY <2>1 DEF PlainAdmissions
<1>6. CASE Respond /\ ~(NewStateReply \/ PromptStateReply \/ PromptAdmitted \/ PromptRefused \/ StateReply
             \/ CompactionVerified \/ SelectionConfirm \/ RequestFailed \/ BranchReplaced \/ BranchState
             \/ ReloadStep)
  BY <1>6 DEF Respond, InterruptAborted, InterruptReleased, InterruptReplaced, QueueReply,
     PromptReplyStale, StateReplyStale, ResumeReply, NewCancelled, ChainStep, CompactionDropped,
     CompactionStep, CompactionFailed, PlainCompacted, BranchMessages, BranchCancelled, BranchStep,
     BranchFailed, BranchStale, BranchAborted, ReloadReply, tables, PlainAdmissions
<1>7. CASE Defer \/ Refuse \/ Interrupt \/ InterruptBranch \/ Choose \/ PiAgentStart \/ PiApply
             \/ PiCompactionStart \/ UNCHANGED vars
  BY <1>7 DEF Defer, Refuse, Interrupt, InterruptBranch, Choose, PiAgentStart, PiApply,
     PiCompactionStart, vars, tables, PlainAdmissions
<1> QED BY <1>1, <1>2, <1>3, <1>4, <1>5, <1>6, <1>7 DEF Next, Pi

-----------------------------------------------------------------------------
\* What a step must show for the configuration request.
BarrierHanded(G) ==
  /\ Stay(G)
  /\ \/ configuration' = 0
     \/ Pending(inflight', configuration', ConfigurationKinds)
     \/ promptState'.id = configuration'
     \/ /\ configuration' = configuration /\ promptState' = promptState
        /\ \A c \in G : c.id = configuration => c.kind \notin ConfigurationKinds

LEMMA BarrierStep ==
  ASSUME BarrierOwned, NEW G, BarrierHanded(G)
  PROVE  BarrierOwned'
BY DEF BarrierOwned, BarrierHanded, Stay

LEMMA LeftStay ==
  ASSUME NEW c, inflight \ {c} \subseteq inflight'
  PROVE  Stay({c})
BY DEF Stay, Pending

\* A command of another kind is answered.
LEMMA OtherBarrier ==
  ASSUME BarrierOwned, NEW c, inflight \ {c} \subseteq inflight', c.kind \notin ConfigurationKinds,
         UNCHANGED <<configuration, promptState>>
  PROVE  BarrierOwned'
BY LeftStay, BarrierStep DEF BarrierHanded

\* The barrier is lifted with the answer to its command.
LEMMA ClearedBarrier ==
  ASSUME BarrierOwned, NEW c, inflight \ {c} \subseteq inflight', configuration' = Cleared(c),
         UNCHANGED promptState
  PROVE  BarrierOwned'
BY LeftStay, BarrierStep DEF BarrierHanded, Cleared

\* The next command of the chain takes its place.
LEMMA NextBarrier ==
  ASSUME BarrierOwned, NEW c, NEW kind \in ConfigurationKinds, NEW to, Follow(c, kind, to),
         configuration' = nextId
  PROVE  BarrierOwned'
BY FollowStay, BarrierStep DEF BarrierHanded

LEMMA RouteBarrier ==
  ASSUME BarrierOwned, Route
  PROVE  BarrierOwned'
<1> USE DEF BarrierHanded
<1>0. \A kind : kind \in {"new", "model", "reload"} => kind \in ConfigurationKinds
  BY DEF ConfigurationKinds, ReloadKinds
<1>1. CASE RouteInput
  BY <1>1, SendStay, SameStay, BarrierStep DEF RouteInput
<1>2. CASE RouteCommand
  BY <1>2, SendStay, SameStay, BarrierStep DEF RouteCommand
<1>3. CASE RouteQueueOp
  BY <1>3, SendStay, BarrierStep DEF RouteQueueOp
<1>4. CASE RouteNew
  BY <1>0, <1>4, SendStay, BarrierStep DEF RouteNew
<1>5. CASE RouteAttach
  BY <1>5, SendStay, BarrierStep DEF RouteAttach
<1>6. CASE RouteModel
  BY <1>0, <1>6, SendStay, BarrierStep DEF RouteModel
<1>7. CASE RouteRead
  BY <1>7, SendStay, SameStay, BarrierStep DEF RouteRead
<1>8. CASE RouteCapture
  BY <1>8, SendStay, BarrierStep DEF RouteCapture, CaptureFence
<1>9. CASE RouteCompact
  BY <1>9, SendStay, BarrierStep DEF RouteCompact
<1>10. CASE RouteFork
  BY <1>10, SendStay, BarrierStep DEF RouteFork
<1>11. CASE RouteReload
  BY <1>0, <1>11, SendStay, BarrierStep DEF RouteReload
<1>12. CASE RouteBusy
  BY <1>12, SameStay, BarrierStep DEF RouteBusy, Answered
<1> QED
  BY <1>1, <1>2, <1>3, <1>4, <1>5, <1>6, <1>7, <1>8, <1>9, <1>10, <1>11, <1>12 DEF Route

LEMMA KindsAside ==
  /\ \A kind : kind \in ConfigurationKinds =>
       kind \notin InterruptKinds \cup ResumeKinds \cup TransactionKinds \cup ForkKinds
  /\ ConfigurationKinds = {"new", "new-model", "new-thinking", "new-state", "model", "thinking",
                           "configuration-state", "state", "reload", "reload-state", "reload-models",
                           "reload-commands"}
BY FenceKinds DEF ConfigurationKinds

LEMMA CompactionBarrier ==
  ASSUME TypeOK, Numbered, Fences, BarrierOwned,
         CompactionDropped \/ CompactionStep \/ CompactionFailed \/ CompactionVerified
  PROVE  BarrierOwned'
<1> SUFFICES \E c \in inflight : /\ Owned(c) /\ compaction.stage # "failed"
                                 /\ ~(compaction.stage = "compact" /\ compaction.finished)
                                 /\ inflight \ {c} \subseteq inflight'
                                 /\ UNCHANGED <<configuration, promptState>>
  BY OwnedKind, KindsAside, OtherBarrier
<1>1. CASE CompactionDropped
  BY <1>1 DEF CompactionDropped, Consume
<1>2. CASE CompactionStep
  <2>1. PICK c \in inflight : CompactionStep!(c)
    BY <1>2 DEF CompactionStep
  <2>2. ASSUME NEW p, Continue(c, p) \/ RestoreOrWait(c, p)
        PROVE  inflight \ {c} \subseteq inflight'
    BY <2>2 DEF Continue, RestoreOrWait, Follow, Consume
  <2>3. inflight \ {c} \subseteq inflight'
    BY <2>1, <2>2
  <2>4. /\ Owned(c) /\ compaction.stage # "failed"
        /\ ~(compaction.stage = "compact" /\ compaction.finished)
    BY <2>1
  <2>5. UNCHANGED <<configuration, promptState>>
    BY <2>1
  <2> QED BY <2>3, <2>4, <2>5
<1>3. CASE CompactionFailed
  BY <1>3 DEF CompactionFailed, Consume
<1>4. CASE CompactionVerified
  BY <1>4 DEF CompactionVerified, Consume
<1> QED BY <1>1, <1>2, <1>3, <1>4

LEMMA BranchBarrier ==
  ASSUME TypeOK, Numbered, Fences, ChoiceFree, BarrierOwned,
         BranchMessages \/ BranchReplaced \/ BranchCancelled \/ BranchState \/ BranchStep \/ BranchFailed
  PROVE  BarrierOwned'
<1> SUFFICES \E c \in inflight : /\ BranchOpen(c) /\ inflight \ {c} \subseteq inflight'
                                 /\ UNCHANGED <<configuration, promptState>>
  BY BranchOwned, KindsAside, OtherBarrier
<1>1. ASSUME NEW c, NEW outcome, BranchEnd(c, outcome)
      PROVE  inflight \ {c} \subseteq inflight'
  BY <1>1 DEF BranchEnd, Consume
<1>2. ASSUME NEW c, NEW stage, NEW kind, BranchNext(c, stage, kind)
      PROVE  inflight \ {c} \subseteq inflight'
  BY <1>2 DEF BranchNext, Follow
<1>3. CASE BranchMessages
  BY <1>1, <1>3 DEF BranchMessages
<1>4. CASE BranchReplaced
  BY <1>2, <1>4 DEF BranchReplaced
<1>5. CASE BranchCancelled
  BY <1>1, <1>5 DEF BranchCancelled
<1>6. CASE BranchState
  BY <1>1, <1>6 DEF BranchState, Follow
<1>7. CASE BranchStep
  BY <1>1, <1>2, <1>7 DEF BranchStep
<1>8. CASE BranchFailed
  BY <1>1, <1>8 DEF BranchFailed
<1> QED BY <1>3, <1>4, <1>5, <1>6, <1>7, <1>8

\* The capture's own answer.
LEMMA CaptureBarrier ==
  ASSUME Numbered, Fences, BarrierOwned, PromptStateReply
  PROVE  BarrierOwned'
<1>1. PICK c \in inflight : PromptStateReply!(c)
  BY DEF PromptStateReply
<1>2. c.kind = "prompt-state" /\ inflight \ {c} \subseteq inflight'
  BY <1>1 DEF Consume
<1>3. CASE promptState.id # c.id
  BY <1>1, <1>2, <1>3, KindsAside, OtherBarrier
<1>4. CASE promptState.id = c.id
  <2>1. configuration' = Cleared(c)
    BY <1>1, <1>4
  <2>2. CASE configuration = c.id
    BY <2>1, <2>2 DEF Cleared, BarrierOwned
  <2>3. CASE configuration # c.id
    <3>1. configuration' = configuration
      BY <2>1, <2>3 DEF Cleared
    <3>2. configuration # 0 => Pending(inflight, configuration, ConfigurationKinds)
      BY <1>4, <2>3 DEF BarrierOwned
    <3> QED BY <1>2, <2>3, <3>1, <3>2, LeftStay DEF BarrierOwned, Stay
  <2> QED BY <2>2, <2>3
<1> QED BY <1>3, <1>4

LEMMA QuietBarrier ==
  ASSUME TypeOK, NoRequiredRead, PlainAdmissions, BarrierOwned,
         \/ InterruptAborted \/ InterruptReleased \/ InterruptReplaced \/ QueueReply
         \/ PromptReplyStale \/ PromptAdmitted \/ PromptRefused \/ StateReplyStale \/ ResumeReply
         \/ PlainCompacted \/ BranchStale
  PROVE  BarrierOwned'
<1> USE KindsAside, OtherBarrier DEF Consume, Follow
<1>1. CASE InterruptAborted
  BY <1>1 DEF InterruptAborted
<1>2. CASE InterruptReleased
  BY <1>2 DEF InterruptReleased
<1>3. CASE InterruptReplaced
  BY <1>3 DEF InterruptReplaced
<1>4. CASE QueueReply
  BY <1>4 DEF QueueReply
<1>5. CASE PromptReplyStale
  BY <1>5 DEF PromptReplyStale
<1>6. CASE PromptAdmitted
  <2>1. PICK c \in inflight, a \in admissions, d \in Dispositions : PromptAdmitted!(c)!(a)!(d)
    BY <1>6 DEF PromptAdmitted
  <2>2. ~(a.counted \/ d = "handled")
    BY DEF PlainAdmissions, NoRequiredRead
  <2>3. configuration' = configuration /\ inflight \ {c} \subseteq inflight'
    BY <2>1, <2>2
  <2> QED BY <2>1, <2>3
<1>7. CASE PromptRefused
  BY <1>7 DEF PromptRefused
<1>8. CASE StateReplyStale
  BY <1>8 DEF StateReplyStale
<1>9. CASE ResumeReply
  BY <1>9 DEF ResumeReply
<1>10. CASE PlainCompacted
  BY <1>10 DEF PlainCompacted
<1>11. CASE BranchStale
  BY <1>11 DEF BranchStale
<1> QED BY <1>1, <1>2, <1>3, <1>4, <1>5, <1>6, <1>7, <1>8, <1>9, <1>10, <1>11

LEMMA EndSelectionLeft ==
  ASSUME NEW c, NEW route, EndSelection(c, route)
  PROVE  inflight \ {c} \subseteq inflight'
BY DEF EndSelection, RestoreOrWait, Continue, Consume, Follow

LEMMA ClearingBarrier ==
  ASSUME BarrierOwned,
         NewCancelled \/ StateReply \/ NewStateReply \/ SelectionConfirm \/ RequestFailed \/ ReloadReply
  PROVE  BarrierOwned'
<1> SUFFICES \E c : /\ inflight \ {c} \subseteq inflight' /\ configuration' = Cleared(c)
                    /\ UNCHANGED promptState
  BY ClearedBarrier
<1> USE DEF Consume, Follow
<1>1. CASE NewCancelled
  BY <1>1 DEF NewCancelled
<1>2. CASE StateReply
  BY <1>2 DEF StateReply
<1>3. CASE NewStateReply
  BY <1>3 DEF NewStateReply
<1>4. CASE SelectionConfirm
  BY <1>4, EndSelectionLeft DEF SelectionConfirm
<1>5. CASE RequestFailed
  BY <1>5, EndSelectionLeft DEF RequestFailed
<1>6. CASE ReloadReply
  BY <1>6 DEF ReloadReply
<1> QED BY <1>1, <1>2, <1>3, <1>4, <1>5, <1>6

LEMMA ChainBarrier ==
  ASSUME BarrierOwned, ChainStep \/ BranchAborted \/ ReloadStep
  PROVE  BarrierOwned'
<1>1. CASE ChainStep
  <2>1. PICK c \in inflight : ChainStep!(c)
    BY <1>1 DEF ChainStep
  <2>2. NextSteps(c) \subseteq ConfigurationKinds
    BY KindsAside DEF NextSteps
  <2> QED BY <2>1, <2>2, NextBarrier
<1>2. CASE BranchAborted
  BY <1>2, KindsAside, NextBarrier, OtherBarrier DEF BranchAborted, Consume
<1>3. CASE ReloadStep
  <2>1. PICK c \in inflight : ReloadStep!(c)
    BY <1>3 DEF ReloadStep
  <2>2. ReloadNext(c) \in ConfigurationKinds
    BY KindsAside DEF ReloadNext
  <2> QED BY <2>1, <2>2, NextBarrier
<1> QED BY <1>1, <1>2, <1>3

LEMMA OtherBarriers ==
  ASSUME TypeOK, BarrierOwned,
         Defer \/ Refuse \/ Interrupt \/ InterruptBranch \/ Choose \/ PiAgentStart \/ PiApply
           \/ PiCompactionStart \/ UNCHANGED vars
  PROVE  BarrierOwned'
<1>1. UNCHANGED <<configuration, promptState>>
  BY DEF Defer, Refuse, Interrupt, InterruptBranch, Choose, PiAgentStart, PiApply, PiCompactionStart, vars
<1>2. Stay({})
  <2>1. CASE Defer \/ Refuse \/ PiAgentStart \/ UNCHANGED vars
    BY <2>1, SameStay DEF Defer, Refuse, PiAgentStart, vars
  <2>2. CASE Interrupt \/ InterruptBranch \/ Choose
    BY <2>2, SendStay, SameStay DEF Interrupt, InterruptBranch, Choose
  <2>3. CASE PiApply \/ PiCompactionStart
    BY <2>3, DoneStay DEF PiApply, PiCompactionStart
  <2> QED BY <2>1, <2>2, <2>3
<1> QED BY <1>1, <1>2, BarrierStep DEF BarrierHanded

LEMMA PlainStep ==
  ASSUME TypeOK, NothingStranded, OrderIInv, Numbered, FenceIInv, NoRequiredRead, Plain, [Next]_vars
  PROVE  Plain'
<1>1. PlainQueue' /\ PlainAdmissions'
  BY PlainQueueStep, PlainAdmissionsStep DEF Plain
<1>2. CASE Respond
  <2>1. BarrierOwned'
    BY <1>2, CompactionBarrier, BranchBarrier, CaptureBarrier, QuietBarrier, ClearingBarrier, ChainBarrier
    DEF Respond, Plain, FenceIInv
  <2> QED BY <1>1, <2>1 DEF Plain
<1>3. CASE ~Respond
  <2>1. BarrierOwned'
    BY <1>3, RouteBarrier, OtherBarriers DEF Next, Pi, Plain
  <2> QED BY <1>1, <2>1 DEF Plain
<1> QED BY <1>2, <1>3

-----------------------------------------------------------------------------
(* Every wait has its end under way *)

WaitsIInv == FenceIInv /\ CaptureFirst /\ AskedKept

LEMMA HeldStep ==
  ASSUME TypeOK, NothingBehindFork, CommandsIInv, CaptureFirst, AskedKept, [Next]_vars
  PROVE  AskedKept'
<1>1. promptState.id # 0 => configuration # 0
  BY DEF CaptureFirst, TypeOK
<1> QED BY <1>1, RouteHeld, RequestHeld, RespondHeld, QuietHeld DEF Next, Pi

LEMMA WaitsInit == Init => WaitsIInv
<1> SUFFICES ASSUME Init PROVE WaitsIInv
  OBVIOUS
<1>1. CaptureFirst
  BY DEF Init, CaptureFirst, NoPromptState
<1>2. AskedKept
  <2>1. \A n \in 1..MaxRequests : told[n] = <<>>
    BY DEF Init
  <2>2. \A a : <<>> # <<a>>
    OBVIOUS
  <2> QED BY <2>1, <2>2 DEF AskedKept
<1> QED BY <1>1, <1>2, FenceInit DEF WaitsIInv

LEMMA PlainInit == Init => Plain
BY DEF Init, Plain, PlainQueue, PlainAdmissions, BarrierOwned

LEMMA WaitsShown ==
  ASSUME TypeOK, NothingBehindFork, WaitsIInv
  PROVE  FencesOwned /\ CapturesAccounted /\ ForksAccounted
<1>1. FencesOwned
  BY FencesShown DEF WaitsIInv
<1>2. promptState.id # 0 => InFlight(promptState.id)
  BY DEF WaitsIInv, FenceIInv, Fences, Pending, InFlight
<1>3. CapturesAccounted
  BY <1>2 DEF WaitsIInv, AskedKept, CaptureHeld, Queueing, CapturesAccounted
<1>4. ForksAccounted
  BY DEF WaitsIInv, AskedKept, ForkHeld, Queueing, ForksAccounted
<1> QED BY <1>1, <1>3, <1>4

\* All that the adapter holds while it waits, but for the configuration request: the
\* invariant the two theorems below share.
AllIInv == /\ TypeOK /\ NothingBehindFork /\ NothingStranded
           /\ OrderIInv /\ CommandsIInv /\ WaitsIInv

LEMMA AllInit == Init => AllIInv
BY TypeInit, AloneInit, StrandedInit, OrderInit, CommandsInit, WaitsInit DEF AllIInv

LEMMA AllStep ==
  ASSUME AllIInv, [Next]_vars
  PROVE  AllIInv'
<1> USE DEF AllIInv
<1>1. TypeOK'
  BY TypeStep
<1>2. NothingBehindFork' /\ NothingStranded'
  BY AloneStep, StrandedStep
<1>3. OrderIInv'
  BY <1>1, OrderStep
<1>4. CommandsIInv'
  BY <1>1, CommandsStep
<1>5. FenceIInv'
  BY FenceStep DEF CommandsIInv, WaitsIInv
<1>6. CaptureFirst'
  BY <1>1, FirstStep DEF CommandsIInv, OrderIInv, WaitsIInv, FenceIInv
<1>7. AskedKept'
  BY HeldStep DEF WaitsIInv
<1> QED BY <1>1, <1>2, <1>3, <1>4, <1>5, <1>6, <1>7 DEF WaitsIInv

\* Every fence has its command in flight, every capture and every fork that is not
\* answered waits in the queue or has its read or its operation under way: whatever
\* Pi answers, refuses or switches to, and whatever a failure drops.
THEOREM FencesAnswered == Spec => [](FencesOwned /\ CapturesAccounted /\ ForksAccounted)
<1>1. AllIInv /\ [Next]_vars => AllIInv'
  BY AllStep
<1>2. AllIInv => FencesOwned /\ CapturesAccounted /\ ForksAccounted
  BY WaitsShown DEF AllIInv
<1> QED BY <1>1, <1>2, AllInit, PTL DEF Spec

\* The configuration request too has its command in flight, so that every wait ends,
\* where no settlement makes the state read after it required.
THEOREM WaitsAnsweredHolds ==
  ASSUME NoRequiredRead
  PROVE  Spec => []WaitsAnswered
<1> DEFINE I == AllIInv /\ Plain
<1>1. Init => I
  BY AllInit, PlainInit
<1>2. I /\ [Next]_vars => I'
  BY AllStep, PlainStep DEF AllIInv, CommandsIInv, WaitsIInv
<1>3. I => WaitsAnswered
  <2> SUFFICES ASSUME I PROVE WaitsAnswered
    OBVIOUS
  <2>1. FencesOwned /\ CapturesAccounted /\ ForksAccounted
    BY WaitsShown DEF AllIInv
  <2>2. ConfigurationOwned
    BY DEF Plain, BarrierOwned, Pending, InFlight, ConfigurationOwned, AllIInv, WaitsIInv, FenceIInv, Fences
  <2> QED BY <2>1, <2>2 DEF WaitsAnswered
<1> QED BY <1>1, <1>2, <1>3, PTL DEF Spec
=============================================================================
