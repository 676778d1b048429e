----------------------- MODULE PromptRoutesProofs -----------------------
(***************************************************************************)
(* Theorems about Records, for any number of prompts, routes and failures: *)
(* every Record runs under its route, and none that was given back.        *)
(*                                                                         *)
(* The argument is about the two channels.  A Record passes through stages *)
(* (Staged), and a stage says what may still be on its way in either       *)
(* channel and in which order; Pi, whose steps are interleaved with those  *)
(* of the frontend, can then change the route or run a body only when the  *)
(* frontend expects it.  What is in a channel is said by two predicates,   *)
(* In and Behind, of classes of requests and events; the lemmas about them *)
(* say what a step that takes one from the front, or puts some at the      *)
(* back, leaves of either.  Each action is then one lemma.                 *)
(***************************************************************************)
EXTENDS PromptRoutes, SequenceTheorems, WellFoundedInduction, TLAPS

-----------------------------------------------------------------------------
(* The types *)

PromptLike ==
  [id : 0..MaxPrompts, rec : 0..MaxPrompts, delivery : {"asap", "after"}, mark : Routes, route : Routes]
Records == {p \in PromptLike : p.rec = p.id /\ p.id # 0}

RequestType == [kind : {"model", "capture", "input", "steer", "clear"}, p : PromptLike, to : Routes]
EventKinds ==
  {"started", "settled", "status", "catalog", "captured", "dispatched", "admission", "settlement",
   "queue", "submitted", "cleared", "user", "prompt-error", "model-error"}
EventType ==
  [kind : EventKinds, id : 0..MaxPrompts, ok : BOOLEAN, to : Routes, ids : SUBSET (1..MaxPrompts)]
BodyType == [id : 1..MaxPrompts, to : Routes]

Phases == {"none", "selecting", "ready", "active", "restoring", "failed"}
TempType == [phase : Phases, original : Routes, target : Routes]
OwnerType ==
  [id : 0..MaxPrompts, prompt : 0..MaxPrompts, snapshot : BOOLEAN, cancel : BOOLEAN, sent : BOOLEAN,
   admitted : BOOLEAN, consumed : BOOLEAN, awaitingRun : BOOLEAN, runObserved : BOOLEAN,
   commandPending : BOOLEAN, admission : 0..MaxPrompts, recovered : BOOLEAN]

TypeOK ==
  /\ local \in Seq(Records) /\ failed \in Seq(PromptLike) /\ sending \in PromptLike
  /\ sending.rec = sending.id
  /\ remote \in SUBSET (1..MaxPrompts)
  /\ clearing \in BOOLEAN /\ clearSent \in BOOLEAN /\ running \in BOOLEAN
  /\ current \in Routes /\ temp \in TempType /\ owner \in OwnerType
  /\ toAgent \in Seq(RequestType) /\ toTui \in Seq(EventType)
  /\ piRoute \in Routes /\ piRunning \in BOOLEAN /\ piQueue \in Seq(BodyType)
  /\ starting \in SUBSET BodyType
  /\ submitted \in 0..MaxPrompts /\ interrupts = 0

-----------------------------------------------------------------------------
(* What travels in the channels *)

In(q, S) == \E i \in DOMAIN q : q[i] \in S
Behind(q, S, T) == \A i, j \in DOMAIN q : q[i] \in S /\ q[j] \in T => j <= i

Asks(kinds) == {r \in RequestType : r.kind \in kinds}
CaptureAsks == Asks({"capture"})
ModelAsks   == Asks({"model"})
BodyAsks    == Asks({"input", "steer"})
SteerAsks   == Asks({"steer"})
ClearAsks   == Asks({"clear"})
OtherAsks   == Asks({"model", "capture", "input", "steer"})
\* Requests for another route, and bodies that are not the owner's.
AwayAsks(route) == {r \in ModelAsks : r.to # route}
StrayAsks(prompt, route) == {r \in BodyAsks : r.p.id # prompt \/ r.to # route}

EventsOf(kinds) == {e \in EventType : e.kind \in kinds}
Catalogs    == EventsOf({"catalog"})
Captures    == EventsOf({"captured"})
ModelErrors == EventsOf({"model-error"})
Settlements == EventsOf({"settlement"})
ClearedAny  == EventsOf({"cleared"})
Submitteds  == EventsOf({"submitted"})
Bars        == EventsOf({"user", "prompt-error", "submitted"})
Answers     == EventsOf({"user", "admission", "submitted", "prompt-error"})
Listings    == {e \in EventsOf({"queue", "submitted", "cleared"}) : e.ids # {}}
News        == Answers \cup Listings
Refusals    == EventsOf({"prompt-error"}) \cup {e \in Submitteds : ~e.ok}
Ends        == EventsOf({"user", "prompt-error"}) \cup {e \in Answers : ~e.ok} \cup {e \in ClearedAny : e.ok}
Handleds    == {e \in EventsOf({"admission"}) : ~e.ok} \cup Catalogs \cup Settlements
Changes     == Catalogs \cup ModelErrors
Reads       == Captures \cup Catalogs
Reports     == Settlements \cup Catalogs
\* Reports of another route.
AwayCatalogs(route) == {e \in Catalogs : e.to # route}
AwayCaptures(route) == {e \in Captures : e.ok /\ e.to # route}

-----------------------------------------------------------------------------
(* The stages of a Record *)

Waits(o) == o.sent /\ o.awaitingRun /\ ~o.consumed /\ ~o.recovered /\ ~o.commandPending
Waiting == Waits(owner)
Busy == Waiting \/ owner.commandPending

Unanswered == In(toAgent, BodyAsks) \/ starting # {}
Out == Unanswered \/ piQueue # <<>>
Unlisted ==
  remote = {} /\ ~In(toAgent, ClearAsks) /\ ~In(toTui, ClearedAny) /\ ~In(toTui, Listings)

Quiet ==
  /\ ~In(toAgent, CaptureAsks) /\ ~In(toAgent, ModelAsks) /\ ~Out
  /\ ~In(toTui, News) /\ ~In(toTui, Catalogs) /\ ~In(toTui, Captures)
  /\ ~In(toTui, ModelErrors) /\ ~In(toTui, Settlements)

Capturing ==
  /\ ~In(toAgent, ModelAsks) /\ ~Out
  /\ ~In(toTui, News) /\ ~In(toTui, ModelErrors) /\ ~In(toTui, Settlements)
  /\ In(toAgent, CaptureAsks) => ~In(toTui, Reads)
  /\ Behind(toTui, Captures, Reads)
  /\ ~In(toTui, AwayCaptures(piRoute))

Changing(goal) ==
  /\ ~In(toAgent, CaptureAsks) /\ ~Out
  /\ ~In(toTui, News) /\ ~In(toTui, Captures) /\ ~In(toTui, Settlements)
  /\ ~In(toAgent, AwayAsks(goal))
  /\ In(toAgent, ModelAsks) => ~In(toTui, Changes)
  /\ Behind(toTui, Changes, Changes)
  /\ ~In(toTui, AwayCatalogs(goal))
  /\ In(toTui, Catalogs) => piRoute = goal

Working ==
  /\ ~In(toAgent, CaptureAsks) /\ ~In(toAgent, ModelAsks)
  /\ ~In(toTui, Captures) /\ ~In(toTui, ModelErrors)
  /\ Out => Waiting
  /\ In(toTui, News) => Waiting
  /\ Unanswered \/ In(toTui, Handleds) => Unlisted
  /\ Unanswered => ~In(toTui, Answers)
  /\ In(toTui, Ends) \/ In(toTui, Handleds) => ~Out
  /\ In(toTui, Handleds) => ~In(toTui, Bars)
  /\ Behind(toTui, Ends, News)
  /\ Behind(toTui, Settlements, Reports)
  /\ Behind(toTui, Submitteds, Submitteds)
  /\ In(toAgent, SteerAsks) \/ In(toTui, Submitteds) => sending.id = owner.prompt

Staged ==
  /\ temp.phase = "none" => piRoute = Base
  /\ temp.phase = "none" /\ ~owner.snapshot => owner.id = 0 /\ Quiet
  /\ owner.snapshot => temp.phase = "none" /\ ~owner.sent /\ Capturing
  /\ temp.phase = "selecting" => Changing(temp.target)
  /\ temp.phase = "restoring" => Changing(temp.original)
  /\ temp.phase = "failed" => Quiet
  /\ temp.phase \in {"ready", "active"} /\ ~Busy => Quiet
  /\ Busy => temp.phase = "active" /\ Working
  /\ temp.phase # "none" => owner.id # 0 /\ temp.original = Base
  /\ temp.phase \in {"none", "ready", "active"} =>
        current = piRoute /\ ~In(toTui, AwayCatalogs(piRoute))

\* One body at a time, the owner's, under the route it was promised.
OneBody ==
  /\ ~In(toAgent, StrayAsks(owner.prompt, piRoute))
  /\ \A x \in starting : x.id = owner.prompt /\ x.to = piRoute
  /\ \A i \in DOMAIN piQueue : piQueue[i].id = owner.prompt /\ piQueue[i].to = piRoute
  /\ In(toAgent, BodyAsks) => starting = {}
  /\ Unanswered => piQueue = <<>>
  /\ Len(piQueue) <= 1

\* One request of a kind at a time.
OneRequest ==
  /\ Behind(toAgent, OtherAsks, OtherAsks) /\ Behind(toAgent, ClearAsks, ClearAsks)
  /\ In(toAgent, ClearAsks) \/ In(toTui, ClearedAny) => clearing /\ clearSent
  /\ In(toAgent, ClearAsks) => ~In(toTui, ClearedAny)
  /\ Behind(toTui, ClearedAny, ClearedAny)
  /\ clearing /\ ~clearSent => sending.id # 0

OneOwner ==
  /\ ~owner.cancel /\ owner.id = owner.prompt
  /\ ~owner.sent => ~owner.consumed /\ ~owner.recovered /\ ~owner.commandPending /\ ~owner.admitted
  /\ owner.commandPending => owner.consumed
  /\ owner.id = 0 => ~owner.sent

-----------------------------------------------------------------------------
(* Where the prompts are *)

Distinct(s) == \A i, j \in DOMAIN s : s[i].id = s[j].id => i = j
RanIds == {r.id : r \in ran}

Placed ==
  /\ Ids(local) \subseteq 1..submitted \ (RanIds \cup returned)
  /\ Distinct(local)
  /\ owner.sent => owner.prompt \notin Ids(local)
  /\ RanIds \cup returned \subseteq 1..submitted
  /\ owner.prompt \in 0..submitted
  /\ Waiting => owner.prompt \notin returned
  /\ Out \/ In(toTui, Refusals) => owner.prompt \notin RanIds

IInv == TypeOK /\ Staged /\ OneBody /\ OneRequest /\ OneOwner /\ Placed /\ RightRoute /\ NotTwice

\* The user submits Records only, and interrupts none of them.
RecordsOnly == Kinds \subseteq {"macro"} /\ MaxInterrupts = 0

-----------------------------------------------------------------------------
(* Channels: what is in them after a step *)

LEMMA InTail ==
  ASSUME NEW X, NEW q \in Seq(X), q # <<>>
  PROVE  /\ \A S : In(Tail(q), S) => In(q, S)
         /\ \A S : In(q, S) => Head(q) \in S \/ In(Tail(q), S)
         /\ \A S : Head(q) \in S => In(q, S)
         /\ \A S, T : Behind(q, S, T) => Behind(Tail(q), S, T)
         /\ \A S, T : Behind(q, S, T) /\ Head(q) \in S => ~In(Tail(q), T)
<1>1. /\ Len(q) \in Nat /\ Len(q) >= 1 /\ DOMAIN q = 1..Len(q) /\ Head(q) = q[1]
      /\ DOMAIN Tail(q) = 1..(Len(q) - 1)
      /\ \A i \in 1..(Len(q) - 1) : Tail(q)[i] = q[i + 1]
  OBVIOUS
<1> DEFINE t == Tail(q)
           h == Head(q)
<1>2. /\ Len(q) \in Nat /\ Len(q) >= 1 /\ DOMAIN q = 1..Len(q) /\ h = q[1]
      /\ DOMAIN t = 1..(Len(q) - 1)
      /\ \A i \in 1..(Len(q) - 1) : t[i] = q[i + 1]
  BY <1>1
<1> HIDE DEF t, h
<1>3. \A i \in DOMAIN t : i + 1 \in DOMAIN q /\ t[i] = q[i + 1]
  BY <1>2
<1>4. \A i \in DOMAIN q : i = 1 \/ (i - 1 \in DOMAIN t /\ t[i - 1] = q[i])
  <2> SUFFICES ASSUME NEW i \in DOMAIN q, i # 1 PROVE i - 1 \in DOMAIN t /\ t[i - 1] = q[i]
    OBVIOUS
  <2>1. i - 1 \in 1..(Len(q) - 1) /\ (i - 1) + 1 = i
    BY <1>2
  <2> QED BY <1>2, <2>1
<1>5. 1 \in DOMAIN q
  BY <1>2
<1>6. \A S : In(t, S) => In(q, S)
  BY <1>3 DEF In
<1>7. \A S : In(q, S) => h \in S \/ In(t, S)
  BY <1>4, <1>2 DEF In
<1>8. \A S : h \in S => In(q, S)
  BY <1>5, <1>2 DEF In
<1>9. ASSUME NEW S, NEW T, Behind(q, S, T) PROVE Behind(t, S, T)
  <2> SUFFICES ASSUME NEW i \in DOMAIN t, NEW j \in DOMAIN t, t[i] \in S, t[j] \in T PROVE j <= i
    BY DEF Behind
  <2>1. j + 1 <= i + 1
    BY <1>3, <1>9 DEF Behind
  <2>2. i \in Int /\ j \in Int
    BY <1>2
  <2> QED BY <2>1, <2>2
<1>10. ASSUME NEW S, NEW T, Behind(q, S, T), h \in S PROVE ~In(t, T)
  <2> SUFFICES ASSUME NEW j \in DOMAIN t, t[j] \in T PROVE FALSE
    BY DEF In
  <2>1. j + 1 <= 1
    BY <1>2, <1>3, <1>5, <1>10 DEF Behind
  <2>2. j \in Int /\ j >= 1
    BY <1>2
  <2> QED BY <2>1, <2>2
<1> QED BY <1>6, <1>7, <1>8, <1>9, <1>10 DEF t, h

LEMMA InConcat ==
  ASSUME NEW X, NEW q \in Seq(X), NEW r \in Seq(X)
  PROVE  /\ \A S : In(q \o r, S) <=> In(q, S) \/ In(r, S)
         /\ \A S, T : Behind(q, S, T) /\ Behind(r, S, T) /\ ~(In(q, S) /\ In(r, T))
                        => Behind(q \o r, S, T)
<1> DEFINE t == q \o r
           m == Len(q)
           n == Len(r)
<1>1. /\ m \in Nat /\ n \in Nat /\ DOMAIN q = 1..m /\ DOMAIN r = 1..n /\ DOMAIN t = 1..(m + n)
      /\ \A i \in 1..(m + n) : t[i] = IF i <= m THEN q[i] ELSE r[i - m]
  BY ConcatProperties
<1> HIDE DEF t, m, n
<1>2. \A i \in DOMAIN t : \/ i \in DOMAIN q /\ t[i] = q[i]
                          \/ i > m /\ i - m \in DOMAIN r /\ t[i] = r[i - m]
  <2> SUFFICES ASSUME NEW i \in DOMAIN t
               PROVE  \/ i \in DOMAIN q /\ t[i] = q[i]
                      \/ i > m /\ i - m \in DOMAIN r /\ t[i] = r[i - m]
    OBVIOUS
  <2>1. CASE i <= m
    BY <1>1, <2>1
  <2>2. CASE i > m
    <3>1. i - m \in 1..n
      BY <1>1, <2>2
    <3> QED BY <1>1, <2>2, <3>1
  <2> QED BY <1>1, <2>1, <2>2
<1>3. \A i \in DOMAIN q : i \in DOMAIN t /\ t[i] = q[i]
  BY <1>1
<1>4. \A i \in DOMAIN r : m + i \in DOMAIN t /\ t[m + i] = r[i]
  <2> SUFFICES ASSUME NEW i \in DOMAIN r PROVE m + i \in DOMAIN t /\ t[m + i] = r[i]
    OBVIOUS
  <2>1. m + i \in 1..(m + n) /\ ~(m + i <= m) /\ (m + i) - m = i
    BY <1>1
  <2> QED BY <1>1, <2>1
<1>5. \A S : In(t, S) <=> In(q, S) \/ In(r, S)
  BY <1>2, <1>3, <1>4 DEF In
<1>6. ASSUME NEW S, NEW T, Behind(q, S, T), Behind(r, S, T), ~(In(q, S) /\ In(r, T))
      PROVE  Behind(t, S, T)
  <2> SUFFICES ASSUME NEW i \in DOMAIN t, NEW j \in DOMAIN t, t[i] \in S, t[j] \in T PROVE j <= i
    BY DEF Behind
  <2>0. i \in Int /\ j \in Int /\ m \in Int
    BY <1>1
  <2>1. CASE j \in DOMAIN q /\ t[j] = q[j]
    <3>1. CASE i \in DOMAIN q /\ t[i] = q[i]
      BY <2>1, <3>1, <1>6 DEF Behind
    <3>2. CASE i > m
      <4>1. j <= m
        BY <2>1, <1>1
      <4> QED BY <4>1, <3>2, <2>0
    <3> QED BY <1>2, <3>1, <3>2
  <2>2. CASE j > m /\ j - m \in DOMAIN r /\ t[j] = r[j - m]
    <3>1. CASE i \in DOMAIN q /\ t[i] = q[i]
      BY <2>2, <3>1, <1>6 DEF In
    <3>2. CASE i > m /\ i - m \in DOMAIN r /\ t[i] = r[i - m]
      <4>1. j - m <= i - m
        BY <2>2, <3>2, <1>6 DEF Behind
      <4> QED BY <4>1, <2>0
    <3> QED BY <1>2, <3>1, <3>2
  <2> QED BY <1>2, <2>1, <2>2
<1> QED BY <1>5, <1>6 DEF t

LEMMA InOne ==
  ASSUME NEW a
  PROVE  /\ \A S : In(<<a>>, S) <=> a \in S
         /\ \A S, T : Behind(<<a>>, S, T)
<1>1. DOMAIN <<a>> = {1} /\ <<a>>[1] = a
  OBVIOUS
<1> DEFINE t == <<a>>
<1>2. DOMAIN t = {1} /\ t[1] = a
  BY <1>1
<1> HIDE DEF t
<1>3. \A S : In(t, S) <=> a \in S
  BY <1>2 DEF In
<1>4. \A S, T : Behind(t, S, T)
  BY <1>2 DEF Behind
<1> QED BY <1>3, <1>4 DEF t

LEMMA InAppend ==
  ASSUME NEW X, NEW q \in Seq(X), NEW e \in X
  PROVE  /\ \A S : In(Append(q, e), S) <=> In(q, S) \/ e \in S
         /\ \A S, T : Behind(q, S, T) /\ ~(In(q, S) /\ e \in T) => Behind(Append(q, e), S, T)
<1>1. <<e>> \in Seq(X) /\ Append(q, e) = q \o <<e>>
  BY AppendIsConcat
<1>2. /\ \A S : In(q \o <<e>>, S) <=> In(q, S) \/ In(<<e>>, S)
      /\ \A S, T : Behind(q, S, T) /\ Behind(<<e>>, S, T) /\ ~(In(q, S) /\ In(<<e>>, T))
                        => Behind(q \o <<e>>, S, T)
  BY <1>1, InConcat
<1> QED BY <1>1, <1>2, InOne

LEMMA InTwo ==
  ASSUME NEW a, NEW b
  PROVE  /\ \A S : In(<<a, b>>, S) <=> a \in S \/ b \in S
         /\ \A S, T : (a \in S => b \notin T) => Behind(<<a, b>>, S, T)
<1>1. DOMAIN <<a, b>> = {1, 2} /\ <<a, b>>[1] = a /\ <<a, b>>[2] = b
  OBVIOUS
<1> DEFINE t == <<a, b>>
<1>2. DOMAIN t = {1, 2} /\ t[1] = a /\ t[2] = b
  BY <1>1
<1> HIDE DEF t
<1>3. \A S : In(t, S) <=> a \in S \/ b \in S
  BY <1>2 DEF In
<1>4. \A S, T : (a \in S => b \notin T) => Behind(t, S, T)
  BY <1>2 DEF Behind
<1> QED BY <1>3, <1>4 DEF t

LEMMA ShortSeqs ==
  /\ \A X : \A a \in X : <<a>> \in Seq(X)
  /\ \A X : \A a, b \in X : <<a, b>> \in Seq(X)
  /\ \A X : \A a, b, c \in X : <<a, b, c>> \in Seq(X)
OBVIOUS

-----------------------------------------------------------------------------
(* What each event and each request is *)

LEMMA SilentClass ==
  ASSUME NEW e \in EventType, e.kind \in {"started", "settled", "status", "dispatched"}
  PROVE
    /\ e \notin Catalogs /\ e \notin Captures /\ e \notin ModelErrors /\ e \notin Settlements
    /\ e \notin ClearedAny /\ e \notin Submitteds /\ e \notin Bars /\ e \notin Answers
    /\ e \notin Listings /\ e \notin News /\ e \notin Refusals /\ e \notin Ends
    /\ e \notin Handleds /\ e \notin Changes /\ e \notin Reads /\ e \notin Reports
    /\ (\A r : e \notin AwayCatalogs(r)) /\ (\A r : e \notin AwayCaptures(r))
BY DEF EventType, EventsOf, Catalogs, Captures, ModelErrors, Settlements, ClearedAny, Submitteds, Bars,
   Answers, Listings, News, Refusals, Ends, Handleds, Changes, Reads, Reports, AwayCatalogs, AwayCaptures

LEMMA CatalogClass ==
  ASSUME NEW e \in EventType, e.kind \in {"catalog"}
  PROVE
    /\ e \in Catalogs /\ e \notin Captures /\ e \notin ModelErrors /\ e \notin Settlements
    /\ e \notin ClearedAny /\ e \notin Submitteds /\ e \notin Bars /\ e \notin Answers
    /\ e \notin Listings /\ e \notin News /\ e \notin Refusals /\ e \notin Ends /\ e \in Handleds
    /\ e \in Changes /\ e \in Reads /\ e \in Reports
    /\ (\A r : e \in AwayCatalogs(r) <=> e.to # r) /\ (\A r : e \notin AwayCaptures(r))
BY DEF EventType, EventsOf, Catalogs, Captures, ModelErrors, Settlements, ClearedAny, Submitteds, Bars,
   Answers, Listings, News, Refusals, Ends, Handleds, Changes, Reads, Reports, AwayCatalogs, AwayCaptures

LEMMA CapturedClass ==
  ASSUME NEW e \in EventType, e.kind \in {"captured"}
  PROVE
    /\ e \notin Catalogs /\ e \in Captures /\ e \notin ModelErrors /\ e \notin Settlements
    /\ e \notin ClearedAny /\ e \notin Submitteds /\ e \notin Bars /\ e \notin Answers
    /\ e \notin Listings /\ e \notin News /\ e \notin Refusals /\ e \notin Ends
    /\ e \notin Handleds /\ e \notin Changes /\ e \in Reads /\ e \notin Reports
    /\ (\A r : e \notin AwayCatalogs(r)) /\ (\A r : e \in AwayCaptures(r) <=> e.ok /\ e.to # r)
BY DEF EventType, EventsOf, Catalogs, Captures, ModelErrors, Settlements, ClearedAny, Submitteds, Bars,
   Answers, Listings, News, Refusals, Ends, Handleds, Changes, Reads, Reports, AwayCatalogs, AwayCaptures

LEMMA AdmissionClass ==
  ASSUME NEW e \in EventType, e.kind \in {"admission"}
  PROVE
    /\ e \notin Catalogs /\ e \notin Captures /\ e \notin ModelErrors /\ e \notin Settlements
    /\ e \notin ClearedAny /\ e \notin Submitteds /\ e \notin Bars /\ e \in Answers
    /\ e \notin Listings /\ e \in News /\ e \notin Refusals /\ (e \in Ends <=> ~e.ok)
    /\ (e \in Handleds <=> ~e.ok) /\ e \notin Changes /\ e \notin Reads /\ e \notin Reports
    /\ (\A r : e \notin AwayCatalogs(r)) /\ (\A r : e \notin AwayCaptures(r))
BY DEF EventType, EventsOf, Catalogs, Captures, ModelErrors, Settlements, ClearedAny, Submitteds, Bars,
   Answers, Listings, News, Refusals, Ends, Handleds, Changes, Reads, Reports, AwayCatalogs, AwayCaptures

LEMMA SettlementClass ==
  ASSUME NEW e \in EventType, e.kind \in {"settlement"}
  PROVE
    /\ e \notin Catalogs /\ e \notin Captures /\ e \notin ModelErrors /\ e \in Settlements
    /\ e \notin ClearedAny /\ e \notin Submitteds /\ e \notin Bars /\ e \notin Answers
    /\ e \notin Listings /\ e \notin News /\ e \notin Refusals /\ e \notin Ends /\ e \in Handleds
    /\ e \notin Changes /\ e \notin Reads /\ e \in Reports /\ (\A r : e \notin AwayCatalogs(r))
    /\ (\A r : e \notin AwayCaptures(r))
BY DEF EventType, EventsOf, Catalogs, Captures, ModelErrors, Settlements, ClearedAny, Submitteds, Bars,
   Answers, Listings, News, Refusals, Ends, Handleds, Changes, Reads, Reports, AwayCatalogs, AwayCaptures

LEMMA QueueClass ==
  ASSUME NEW e \in EventType, e.kind \in {"queue"}
  PROVE
    /\ e \notin Catalogs /\ e \notin Captures /\ e \notin ModelErrors /\ e \notin Settlements
    /\ e \notin ClearedAny /\ e \notin Submitteds /\ e \notin Bars /\ e \notin Answers
    /\ (e \in Listings <=> e.ids # {}) /\ (e \in News <=> e.ids # {}) /\ e \notin Refusals
    /\ e \notin Ends /\ e \notin Handleds /\ e \notin Changes /\ e \notin Reads
    /\ e \notin Reports /\ (\A r : e \notin AwayCatalogs(r)) /\ (\A r : e \notin AwayCaptures(r))
BY DEF EventType, EventsOf, Catalogs, Captures, ModelErrors, Settlements, ClearedAny, Submitteds, Bars,
   Answers, Listings, News, Refusals, Ends, Handleds, Changes, Reads, Reports, AwayCatalogs, AwayCaptures

LEMMA SubmissionClass ==
  ASSUME NEW e \in EventType, e.kind \in {"submitted"}
  PROVE
    /\ e \notin Catalogs /\ e \notin Captures /\ e \notin ModelErrors /\ e \notin Settlements
    /\ e \notin ClearedAny /\ e \in Submitteds /\ e \in Bars /\ e \in Answers
    /\ (e \in Listings <=> e.ids # {}) /\ e \in News /\ (e \in Refusals <=> ~e.ok)
    /\ (e \in Ends <=> ~e.ok) /\ e \notin Handleds /\ e \notin Changes /\ e \notin Reads
    /\ e \notin Reports /\ (\A r : e \notin AwayCatalogs(r)) /\ (\A r : e \notin AwayCaptures(r))
BY DEF EventType, EventsOf, Catalogs, Captures, ModelErrors, Settlements, ClearedAny, Submitteds, Bars,
   Answers, Listings, News, Refusals, Ends, Handleds, Changes, Reads, Reports, AwayCatalogs, AwayCaptures

LEMMA ClearClass ==
  ASSUME NEW e \in EventType, e.kind \in {"cleared"}
  PROVE
    /\ e \notin Catalogs /\ e \notin Captures /\ e \notin ModelErrors /\ e \notin Settlements
    /\ e \in ClearedAny /\ e \notin Submitteds /\ e \notin Bars /\ e \notin Answers
    /\ (e \in Listings <=> e.ids # {}) /\ (e \in News <=> e.ids # {}) /\ e \notin Refusals
    /\ (e \in Ends <=> e.ok) /\ e \notin Handleds /\ e \notin Changes /\ e \notin Reads
    /\ e \notin Reports /\ (\A r : e \notin AwayCatalogs(r)) /\ (\A r : e \notin AwayCaptures(r))
BY DEF EventType, EventsOf, Catalogs, Captures, ModelErrors, Settlements, ClearedAny, Submitteds, Bars,
   Answers, Listings, News, Refusals, Ends, Handleds, Changes, Reads, Reports, AwayCatalogs, AwayCaptures

LEMMA UserClass ==
  ASSUME NEW e \in EventType, e.kind \in {"user"}
  PROVE
    /\ e \notin Catalogs /\ e \notin Captures /\ e \notin ModelErrors /\ e \notin Settlements
    /\ e \notin ClearedAny /\ e \notin Submitteds /\ e \in Bars /\ e \in Answers
    /\ e \notin Listings /\ e \in News /\ e \notin Refusals /\ e \in Ends /\ e \notin Handleds
    /\ e \notin Changes /\ e \notin Reads /\ e \notin Reports
    /\ (\A r : e \notin AwayCatalogs(r)) /\ (\A r : e \notin AwayCaptures(r))
BY DEF EventType, EventsOf, Catalogs, Captures, ModelErrors, Settlements, ClearedAny, Submitteds, Bars,
   Answers, Listings, News, Refusals, Ends, Handleds, Changes, Reads, Reports, AwayCatalogs, AwayCaptures

LEMMA PromptErrorClass ==
  ASSUME NEW e \in EventType, e.kind \in {"prompt-error"}
  PROVE
    /\ e \notin Catalogs /\ e \notin Captures /\ e \notin ModelErrors /\ e \notin Settlements
    /\ e \notin ClearedAny /\ e \notin Submitteds /\ e \in Bars /\ e \in Answers
    /\ e \notin Listings /\ e \in News /\ e \in Refusals /\ e \in Ends /\ e \notin Handleds
    /\ e \notin Changes /\ e \notin Reads /\ e \notin Reports
    /\ (\A r : e \notin AwayCatalogs(r)) /\ (\A r : e \notin AwayCaptures(r))
BY DEF EventType, EventsOf, Catalogs, Captures, ModelErrors, Settlements, ClearedAny, Submitteds, Bars,
   Answers, Listings, News, Refusals, Ends, Handleds, Changes, Reads, Reports, AwayCatalogs, AwayCaptures

LEMMA ModelErrorClass ==
  ASSUME NEW e \in EventType, e.kind \in {"model-error"}
  PROVE
    /\ e \notin Catalogs /\ e \notin Captures /\ e \in ModelErrors /\ e \notin Settlements
    /\ e \notin ClearedAny /\ e \notin Submitteds /\ e \notin Bars /\ e \notin Answers
    /\ e \notin Listings /\ e \notin News /\ e \notin Refusals /\ e \notin Ends
    /\ e \notin Handleds /\ e \in Changes /\ e \notin Reads /\ e \notin Reports
    /\ (\A r : e \notin AwayCatalogs(r)) /\ (\A r : e \notin AwayCaptures(r))
BY DEF EventType, EventsOf, Catalogs, Captures, ModelErrors, Settlements, ClearedAny, Submitteds, Bars,
   Answers, Listings, News, Refusals, Ends, Handleds, Changes, Reads, Reports, AwayCatalogs, AwayCaptures

LEMMA ModelClass ==
  ASSUME NEW r \in RequestType, r.kind \in {"model"}
  PROVE
    /\ r \notin CaptureAsks /\ r \in ModelAsks /\ r \notin BodyAsks /\ r \notin SteerAsks
    /\ r \notin ClearAsks /\ r \in OtherAsks /\ (\A to : r \in AwayAsks(to) <=> r.to # to)
    /\ (\A p, to : r \notin StrayAsks(p, to))
BY DEF RequestType, Asks, CaptureAsks, ModelAsks, BodyAsks, SteerAsks, ClearAsks, OtherAsks, AwayAsks,
   StrayAsks

LEMMA CaptureClass ==
  ASSUME NEW r \in RequestType, r.kind \in {"capture"}
  PROVE
    /\ r \in CaptureAsks /\ r \notin ModelAsks /\ r \notin BodyAsks /\ r \notin SteerAsks
    /\ r \notin ClearAsks /\ r \in OtherAsks /\ (\A to : r \notin AwayAsks(to))
    /\ (\A p, to : r \notin StrayAsks(p, to))
BY DEF RequestType, Asks, CaptureAsks, ModelAsks, BodyAsks, SteerAsks, ClearAsks, OtherAsks, AwayAsks,
   StrayAsks

LEMMA InputClass ==
  ASSUME NEW r \in RequestType, r.kind \in {"input"}
  PROVE
    /\ r \notin CaptureAsks /\ r \notin ModelAsks /\ r \in BodyAsks /\ r \notin SteerAsks
    /\ r \notin ClearAsks /\ r \in OtherAsks /\ (\A to : r \notin AwayAsks(to))
    /\ (\A p, to : r \in StrayAsks(p, to) <=> r.p.id # p \/ r.to # to)
BY DEF RequestType, Asks, CaptureAsks, ModelAsks, BodyAsks, SteerAsks, ClearAsks, OtherAsks, AwayAsks,
   StrayAsks

LEMMA SteerClass ==
  ASSUME NEW r \in RequestType, r.kind \in {"steer"}
  PROVE
    /\ r \notin CaptureAsks /\ r \notin ModelAsks /\ r \in BodyAsks /\ r \in SteerAsks
    /\ r \notin ClearAsks /\ r \in OtherAsks /\ (\A to : r \notin AwayAsks(to))
    /\ (\A p, to : r \in StrayAsks(p, to) <=> r.p.id # p \/ r.to # to)
BY DEF RequestType, Asks, CaptureAsks, ModelAsks, BodyAsks, SteerAsks, ClearAsks, OtherAsks, AwayAsks,
   StrayAsks

LEMMA ClearAskClass ==
  ASSUME NEW r \in RequestType, r.kind \in {"clear"}
  PROVE
    /\ r \notin CaptureAsks /\ r \notin ModelAsks /\ r \notin BodyAsks /\ r \notin SteerAsks
    /\ r \in ClearAsks /\ r \notin OtherAsks /\ (\A to : r \notin AwayAsks(to))
    /\ (\A p, to : r \notin StrayAsks(p, to))
BY DEF RequestType, Asks, CaptureAsks, ModelAsks, BodyAsks, SteerAsks, ClearAsks, OtherAsks, AwayAsks,
   StrayAsks

\* Which classes are part of which.
LEMMA InEvents ==
  ASSUME NEW q
  PROVE  /\ In(q, News) <=> In(q, Answers) \/ In(q, Listings)
         /\ In(q, Handleds) => In(q, Answers) \/ In(q, Catalogs) \/ In(q, Settlements)
         /\ In(q, Catalogs) \/ In(q, Settlements) => In(q, Handleds)
         /\ In(q, Submitteds) => In(q, Bars)
         /\ In(q, Bars) \/ In(q, Refusals) => In(q, Answers)
         /\ In(q, Ends) => In(q, Answers) \/ In(q, ClearedAny)
         /\ In(q, Changes) <=> In(q, Catalogs) \/ In(q, ModelErrors)
         /\ In(q, Reads) <=> In(q, Catalogs) \/ In(q, Captures)
         /\ In(q, Reports) <=> In(q, Catalogs) \/ In(q, Settlements)
         /\ \A to : In(q, AwayCatalogs(to)) => In(q, Catalogs)
         /\ \A to : In(q, AwayCaptures(to)) => In(q, Captures)
BY DEF In, EventsOf, Catalogs, Captures, ModelErrors, Settlements, ClearedAny, Submitteds, Bars,
   Answers, Listings, News, Refusals, Ends, Handleds, Changes, Reads, Reports, AwayCatalogs, AwayCaptures

LEMMA InRequests ==
  ASSUME NEW q
  PROVE  /\ In(q, SteerAsks) => In(q, BodyAsks)
         /\ In(q, OtherAsks) <=> In(q, CaptureAsks) \/ In(q, ModelAsks) \/ In(q, BodyAsks)
         /\ \A to : In(q, AwayAsks(to)) => In(q, ModelAsks)
         /\ \A p, to : In(q, StrayAsks(p, to)) => In(q, BodyAsks)
BY DEF In, Asks, CaptureAsks, ModelAsks, BodyAsks, SteerAsks, ClearAsks, OtherAsks, AwayAsks, StrayAsks

-----------------------------------------------------------------------------
(* Induction, for a set rather than a predicate *)

\* A set of naturals that holds zero and with every number the next holds them all.
LEMMA SetInduction ==
  ASSUME NEW S, 0 \in S, \A n \in Nat : n \in S => n + 1 \in S
  PROVE  Nat \subseteq S
<1> SUFFICES ASSUME Nat \ S # {} PROVE FALSE
  OBVIOUS
<1> DEFINE R == {p \in Nat \X Nat : p[1] < p[2]}
           T == Nat \ S
<1>1. R = {p \in Nat \X Nat : p[1] < p[2]}
  OBVIOUS
<1>2. IsWellFoundedOn(R, Nat)
  BY NatLessThanWellFounded, <1>1 DEF OpToRel
<1>3. \A m, n \in Nat : m < n => <<m, n>> \in R
  OBVIOUS
<1>4. T \subseteq Nat /\ T # {} /\ \A n \in Nat : n \in T <=> n \notin S
  OBVIOUS
<1> HIDE DEF R, T
<1>5. PICK x \in T : \A y \in T : ~(<<y, x>> \in R)
  BY <1>2, <1>4, WFMin
<1>6. x \in Nat /\ x \notin S /\ x # 0
  BY <1>4, <1>5
<1>7. x - 1 \in Nat /\ x - 1 < x /\ (x - 1) + 1 = x
  BY <1>6
<1>8. x - 1 \notin S
  BY <1>6, <1>7
<1>9. x - 1 \in T
  BY <1>4, <1>7, <1>8
<1> QED BY <1>3, <1>5, <1>6, <1>7, <1>9

\* Induction up to a bound.
LEMMA InductionUpTo ==
  ASSUME NEW low \in Nat, NEW high \in Nat, NEW S, low \in S,
         \A n \in low..high : n \in S /\ n < high => n + 1 \in S
  PROVE  \A n \in low..high : n \in S
<1> DEFINE T == {n \in Nat : low + n <= high => low + n \in S}
<1>1. 0 \in T
  OBVIOUS
<1>2. ASSUME NEW n \in Nat, n \in T PROVE n + 1 \in T
  <2>1. SUFFICES ASSUME low + (n + 1) <= high PROVE low + (n + 1) \in S
    OBVIOUS
  <2>2. low + n \in S /\ low + n \in low..high /\ low + n < high /\ (low + n) + 1 = low + (n + 1)
    BY <1>2, <2>1
  <2> QED BY <2>2
<1>3. Nat \subseteq T
  <2> HIDE DEF T
  <2> QED BY <1>1, <1>2, SetInduction
<1>4. ASSUME NEW n \in low..high PROVE n \in S
  <2>1. n - low \in Nat /\ low + (n - low) = n
    OBVIOUS
  <2>2. n - low \in T
    BY <1>3, <2>1
  <2> QED BY <2>1, <2>2
<1> QED BY <1>4

-----------------------------------------------------------------------------
(* The queue: which prompts are left of it *)

LEMMA Removed ==
  ASSUME NEW S, NEW s \in Seq(S), NEW i \in 1..Len(s)
  PROVE  /\ RemoveAt(s, i) \in Seq(S)
         /\ Len(RemoveAt(s, i)) = Len(s) - 1
         /\ \A k \in 1..(Len(s) - 1) : RemoveAt(s, i)[k] = IF k < i THEN s[k] ELSE s[k + 1]
<1> DEFINE a == SubSeq(s, 1, i - 1)
           b == SubSeq(s, i + 1, Len(s))
<1>1. /\ a \in Seq(S) /\ Len(a) = i - 1
      /\ \A k \in 1..(i - 1) : a[k] = s[k]
  OBVIOUS
<1>2. /\ b \in Seq(S) /\ Len(b) = Len(s) - i
      /\ \A k \in 1..(Len(s) - i) : b[k] = s[i + k]
  OBVIOUS
<1>3. RemoveAt(s, i) = a \o b
  BY DEF RemoveAt
<1> HIDE DEF a, b
<1>4. a \o b \in Seq(S) /\ Len(a \o b) = Len(s) - 1
  <2>1. a \o b \in Seq(S) /\ Len(a \o b) = Len(a) + Len(b)
    BY <1>1, <1>2, ConcatProperties
  <2>2. Len(s) \in Nat /\ i \in Nat /\ Len(a) = i - 1 /\ Len(b) = Len(s) - i
    BY <1>1, <1>2
  <2>3. Len(a) + Len(b) = Len(s) - 1
    BY <2>2
  <2> QED BY <2>1, <2>3
<1>5. ASSUME NEW k \in 1..(Len(s) - 1)
      PROVE  (a \o b)[k] = IF k < i THEN s[k] ELSE s[k + 1]
  <2>1. CASE k < i
    <3>1. (a \o b)[k] = a[k]
      BY <1>1, <1>2, <2>1
    <3> QED BY <1>1, <2>1, <3>1
  <2>2. CASE ~(k < i)
    <3>1. (a \o b)[k] = b[k - (i - 1)]
      BY <1>1, <1>2, <2>2
    <3>2. k - (i - 1) \in 1..(Len(s) - i) /\ i + (k - (i - 1)) = k + 1
      BY <2>2
    <3>3. b[k - (i - 1)] = s[k + 1]
      BY <1>2, <3>2
    <3> QED BY <2>2, <3>1, <3>3
  <2> QED BY <2>1, <2>2
<1> QED BY <1>3, <1>4, <1>5

LEMMA RemovedIds ==
  ASSUME NEW X, NEW s \in Seq(X), NEW i \in DOMAIN s, Distinct(s)
  PROVE  /\ RemoveAt(s, i) \in Seq(X) /\ Distinct(RemoveAt(s, i))
         /\ Ids(RemoveAt(s, i)) \subseteq Ids(s) \ {s[i].id}
<1> DEFINE t == RemoveAt(s, i)
<1>0. i \in 1..Len(s) /\ Len(s) \in Nat /\ DOMAIN s = 1..Len(s)
  OBVIOUS
<1>1. /\ t \in Seq(X) /\ Len(t) = Len(s) - 1
      /\ \A k \in 1..(Len(s) - 1) : t[k] = IF k < i THEN s[k] ELSE s[k + 1]
  BY <1>0, Removed
<1> HIDE DEF t
<1>2. DOMAIN t = 1..(Len(s) - 1)
  BY <1>1
<1> DEFINE at(k) == IF k < i THEN k ELSE k + 1
<1>3. ASSUME NEW k \in DOMAIN t
      PROVE  at(k) \in DOMAIN s /\ at(k) # i /\ t[k] = s[at(k)]
  <2>1. CASE k < i
    BY <1>0, <1>1, <1>2, <2>1
  <2>2. CASE ~(k < i)
    BY <1>0, <1>1, <1>2, <2>2
  <2> QED BY <2>1, <2>2
<1>4. \A k, m \in DOMAIN t : at(k) = at(m) => k = m
  BY <1>0, <1>2
<1> HIDE DEF at
<1>5. Distinct(t)
  <2> SUFFICES ASSUME NEW k \in DOMAIN t, NEW m \in DOMAIN t, t[k].id = t[m].id PROVE k = m
    BY DEF Distinct
  <2>1. at(k) = at(m)
    BY <1>3 DEF Distinct
  <2> QED BY <2>1, <1>4
<1>6. Ids(t) \subseteq Ids(s) \ {s[i].id}
  BY <1>3 DEF Ids, Distinct
<1> QED BY <1>1, <1>5, <1>6 DEF t

LEMMA FrontIds ==
  ASSUME NEW X, NEW s \in Seq(X), s # <<>>
  PROVE  /\ Front(s) \in Seq(X) /\ Ids(Front(s)) \subseteq Ids(s)
         /\ Distinct(s) => Distinct(Front(s))
<1> DEFINE t == Front(s)
<1>1. t \in Seq(X) /\ Len(t) = Len(s) - 1 /\ \A k \in 1..(Len(s) - 1) : t[k] = s[k]
  <2>1. Len(s) \in Nat /\ Len(s) >= 1 /\ Len(s) - 1 \in Nat /\ 1 \in Int
    OBVIOUS
  <2>2. \A k \in 1..(Len(s) - 1) : s[k] \in X
    BY <2>1
  <2>3. /\ SubSeq(s, 1, Len(s) - 1) \in Seq(X)
        /\ Len(SubSeq(s, 1, Len(s) - 1)) = IF 1 <= Len(s) - 1 THEN (Len(s) - 1) - 1 + 1 ELSE 0
        /\ \A k \in 1..((Len(s) - 1) - 1 + 1) : SubSeq(s, 1, Len(s) - 1)[k] = s[1 + k - 1]
    BY <2>1, <2>2, SubSeqProperties
  <2> DEFINE u == SubSeq(s, 1, Len(s) - 1)
             n == Len(s)
  <2>4. /\ u \in Seq(X) /\ Len(u) = IF 1 <= n - 1 THEN (n - 1) - 1 + 1 ELSE 0
        /\ \A k \in 1..((n - 1) - 1 + 1) : u[k] = s[1 + k - 1]
    BY <2>3
  <2>5. n \in Nat /\ n >= 1
    BY <2>1
  <2>6. t = u
    BY DEF Front
  <2> HIDE DEF u, n, t
  <2>7. Len(u) = n - 1
    BY <2>4, <2>5
  <2>8. \A k \in 1..(n - 1) : u[k] = s[k]
    BY <2>4, <2>5
  <2> QED BY <2>4, <2>6, <2>7, <2>8 DEF n
<1>2. DOMAIN s = 1..Len(s) /\ Len(s) \in Nat
  OBVIOUS
<1> HIDE DEF t
<1>3. \A k \in DOMAIN t : k \in DOMAIN s /\ t[k] = s[k]
  BY <1>1, <1>2
<1>4. Ids(t) \subseteq Ids(s) /\ (Distinct(s) => Distinct(t))
  BY <1>3 DEF Ids, Distinct
<1> QED BY <1>1, <1>4 DEF t

LEMMA AppendedIds ==
  ASSUME NEW X, NEW s \in Seq(X), NEW p \in X
  PROVE  /\ Append(s, p) \in Seq(X) /\ Ids(Append(s, p)) = Ids(s) \cup {p.id}
         /\ Distinct(s) /\ p.id \notin Ids(s) => Distinct(Append(s, p))
<1> DEFINE t == Append(s, p)
<1>1. /\ t \in Seq(X) /\ DOMAIN t = 1..(Len(s) + 1) /\ DOMAIN s = 1..Len(s) /\ Len(s) \in Nat
      /\ \A k \in 1..Len(s) : t[k] = s[k]
      /\ t[Len(s) + 1] = p
  BY AppendProperties
<1> HIDE DEF t
<1>2. \A k \in DOMAIN t : (k \in DOMAIN s /\ t[k] = s[k]) \/ (k = Len(s) + 1 /\ t[k] = p)
  BY <1>1
<1>3. \A k \in DOMAIN s : k \in DOMAIN t /\ t[k] = s[k]
  BY <1>1
<1>4. Len(s) + 1 \in DOMAIN t
  BY <1>1
<1>5. Ids(t) = Ids(s) \cup {p.id}
  BY <1>1, <1>2, <1>3, <1>4 DEF Ids
<1>6. Distinct(s) /\ p.id \notin Ids(s) => Distinct(t)
  BY <1>1, <1>2, <1>3 DEF Ids, Distinct
<1> QED BY <1>1, <1>5, <1>6 DEF t

\* Afters is what its definition says.
KeepOn(kept, s, i) ==
  IF i = 0 THEN <<>>
  ELSE IF s[i].delivery = "asap" THEN kept[i - 1] ELSE Append(kept[i - 1], s[i])
Keeping(kept, s, n) == kept = [i \in 0..n |-> KeepOn(kept, s, i)]

LEMMA KeepingExists ==
  ASSUME NEW s
  PROVE  \A n \in Nat : \E kept : Keeping(kept, s, n)
<1> DEFINE S == {n \in Nat : \E kept : Keeping(kept, s, n)}
<1>1. 0 \in S
  <2>1. Keeping([i \in 0..0 |-> <<>>], s, 0)
    BY DEF Keeping, KeepOn
  <2> QED BY <2>1
<1>2. ASSUME NEW n \in Nat, n \in S PROVE n + 1 \in S
  <2>1. PICK g : Keeping(g, s, n)
    BY <1>2
  <2> DEFINE h == [i \in 0..(n + 1) |-> IF i <= n THEN g[i] ELSE KeepOn(g, s, i)]
  <2>2. \A i \in 0..n : h[i] = g[i] /\ g[i] = KeepOn(g, s, i)
    BY <2>1 DEF Keeping
  <2>3. h[n + 1] = KeepOn(g, s, n + 1)
    OBVIOUS
  <2>4. \A i \in 0..(n + 1) : h[i] = KeepOn(h, s, i)
    <3> SUFFICES ASSUME NEW i \in 0..(n + 1) PROVE h[i] = KeepOn(h, s, i)
      OBVIOUS
    <3>1. h[i] = KeepOn(g, s, i)
      <4>1. CASE i \in 0..n
        BY <4>1, <2>2
      <4>2. CASE i = n + 1
        BY <4>2, <2>3
      <4> QED BY <4>1, <4>2
    <3>2. CASE i = 0
      BY <3>1, <3>2 DEF KeepOn
    <3>3. CASE i # 0
      <4>1. i - 1 \in 0..n
        BY <3>3
      <4>2. h[i - 1] = g[i - 1]
        BY <4>1, <2>2
      <4> HIDE DEF h
      <4> QED BY <3>1, <3>3, <4>2 DEF KeepOn
    <3> QED BY <3>2, <3>3
  <2>5. h = [i \in 0..(n + 1) |-> KeepOn(h, s, i)]
    <3>1. h = [i \in 0..(n + 1) |-> h[i]]
      OBVIOUS
    <3> HIDE DEF h
    <3> QED BY <3>1, <2>4
  <2>6. Keeping(h, s, n + 1)
    BY <2>5 DEF Keeping
  <2> QED BY <2>6
<1>3. Nat \subseteq S
  <2> HIDE DEF S
  <2> QED BY <1>1, <1>2, SetInduction
<1> QED BY <1>3

LEMMA AftersIs ==
  ASSUME NEW s, Len(s) \in Nat
  PROVE  \E kept : Keeping(kept, s, Len(s)) /\ Afters(s) = kept[Len(s)]
<1>1. \E kept : Keeping(kept, s, Len(s))
  BY KeepingExists
<1> DEFINE k == CHOOSE kept : Keeping(kept, s, Len(s))
<1>2. Keeping(k, s, Len(s))
  BY <1>1
<1>3. Afters(s) = k[Len(s)]
  BY DEF Afters, Keeping, KeepOn
<1> QED BY <1>2, <1>3

\* A part of a queue: its prompts are among those in the first n places.
Part(t, s, n) == \A k \in DOMAIN t : \E m \in 1..n : t[k] = s[m]

LEMMA AftersIds ==
  ASSUME NEW X, NEW s \in Seq(X)
  PROVE  /\ Afters(s) \in Seq(X) /\ Ids(Afters(s)) \subseteq Ids(s)
         /\ Distinct(s) => Distinct(Afters(s))
<1>0. Len(s) \in Nat /\ DOMAIN s = 1..Len(s)
  OBVIOUS
<1>1. PICK kept : Keeping(kept, s, Len(s)) /\ Afters(s) = kept[Len(s)]
  BY <1>0, AftersIs
<1>2. \A i \in 0..Len(s) : kept[i] = KeepOn(kept, s, i)
  BY <1>1 DEF Keeping
<1> DEFINE S == {n \in Nat : /\ kept[n] \in Seq(X) /\ Part(kept[n], s, n)
                             /\ Distinct(s) => Distinct(kept[n])}
<1>3. 0 \in S
  <2>1. kept[0] = <<>>
    BY <1>0, <1>2 DEF KeepOn
  <2>2. kept[0] \in Seq(X) /\ DOMAIN kept[0] = {}
    BY <2>1
  <2> QED BY <2>2 DEF Part, Distinct
<1>4. ASSUME NEW n \in 0..Len(s), n \in S, n < Len(s) PROVE n + 1 \in S
  <2>1. n \in Nat /\ n + 1 \in 1..Len(s) /\ n + 1 \in 0..Len(s) /\ n + 1 # 0 /\ (n + 1) - 1 = n
    BY <1>0, <1>4
  <2> DEFINE t == kept[n]
             u == kept[n + 1]
             x == s[n + 1]
  <2>2. t \in Seq(X) /\ Part(t, s, n) /\ (Distinct(s) => Distinct(t))
    BY <1>4
  <2>3. u = IF x.delivery = "asap" THEN t ELSE Append(t, x)
    BY <1>2, <2>1 DEF KeepOn
  <2>4. x \in X
    BY <2>1
  <2> HIDE DEF t, u, x
  <2>5. \A m \in 1..n : m \in 1..(n + 1) /\ m \in DOMAIN s /\ m # n + 1
    BY <1>0, <1>4, <2>1
  <2>6. CASE u = t
    BY <2>1, <2>2, <2>5, <2>6 DEF Part, u
  <2>7. CASE u = Append(t, x)
    <3>1. u \in Seq(X) /\ (Distinct(t) /\ x.id \notin Ids(t) => Distinct(u))
      BY <2>2, <2>4, <2>7, AppendedIds
    <3>2. \A k \in DOMAIN u : (k \in DOMAIN t /\ u[k] = t[k]) \/ u[k] = x
      BY <2>2, <2>4, <2>7, AppendProperties
    <3>3. n + 1 \in 1..(n + 1) /\ x = s[n + 1]
      BY <2>1 DEF x
    <3>4. Part(u, s, n + 1)
      BY <2>2, <2>5, <3>2, <3>3 DEF Part
    <3>5. Distinct(s) => x.id \notin Ids(t)
      <4> SUFFICES ASSUME Distinct(s), NEW k \in DOMAIN t, t[k].id = x.id PROVE FALSE
        BY DEF Ids
      <4>1. PICK m \in 1..n : t[k] = s[m]
        BY <2>2 DEF Part
      <4>2. m \in DOMAIN s /\ m # n + 1 /\ n + 1 \in DOMAIN s
        BY <1>0, <2>1, <2>5
      <4> QED BY <3>3, <4>1, <4>2 DEF Distinct
    <3> QED BY <2>1, <2>2, <3>1, <3>4, <3>5 DEF u
  <2> QED BY <2>3, <2>6, <2>7
<1>5. \A n \in 0..Len(s) : n \in S
  <2> HIDE DEF S
  <2> QED BY <1>0, <1>3, <1>4, InductionUpTo
<1>6. Len(s) \in S
  BY <1>0, <1>5
<1>7. Part(Afters(s), s, Len(s)) /\ Afters(s) \in Seq(X) /\ (Distinct(s) => Distinct(Afters(s)))
  BY <1>1, <1>6
<1>8. Ids(Afters(s)) \subseteq Ids(s)
  BY <1>0, <1>7 DEF Ids, Part
<1> QED BY <1>7, <1>8

-----------------------------------------------------------------------------
(* Types, and what a step does to a channel *)

LEMMA Constants ==
  /\ None \in Routes /\ Base \in Routes /\ NoPrompt \in PromptLike /\ NoTemp \in TempType
  /\ NoOwner \in OwnerType /\ 0 \in 0..MaxPrompts
BY ConstantsAssumption
DEF Routes, NoPrompt, PromptLike, NoTemp, TempType, Phases, NoOwner, NewOwner, OwnerType

LEMMA ToldTyped ==
  ASSUME NEW kind \in EventKinds, NEW id \in 0..MaxPrompts, NEW ok \in BOOLEAN
  PROVE  /\ Told(kind, id, ok) \in EventType /\ Told(kind, id, ok).kind = kind
         /\ Told(kind, id, ok).id = id /\ Told(kind, id, ok).ok = ok /\ Told(kind, id, ok).ids = {}
BY Constants DEF Told, Event, EventType

LEMMA RequestTyped ==
  ASSUME NEW kind \in {"model", "capture", "input", "steer", "clear"}, NEW p \in PromptLike, NEW to \in Routes
  PROVE  /\ Request(kind, p, to) \in RequestType /\ Request(kind, p, to).kind = kind
         /\ Request(kind, p, to).p = p /\ Request(kind, p, to).to = to
BY DEF Request, RequestType

\* The channel behind the frontend's back: what is left of q, and what was its head.
Popped(q, r, e) ==
  /\ \A S : In(r, S) => In(q, S)
  /\ \A S : In(q, S) => e \in S \/ In(r, S)
  /\ \A S : e \in S => In(q, S)
  /\ \A S, T : Behind(q, S, T) => Behind(r, S, T)
  /\ \A S, T : Behind(q, S, T) /\ e \in S => ~In(r, T)

LEMMA Received ==
  ASSUME TypeOK, NEW kinds, Incoming(kinds)
  PROVE  /\ Head(toTui) \in EventType /\ Head(toTui).kind \in kinds
         /\ toTui' \in Seq(EventType)
         /\ Popped(toTui, toTui', Head(toTui))
<1>1. toTui \in Seq(EventType) /\ toTui # <<>> /\ toTui' = Tail(toTui)
  BY DEF TypeOK, Incoming
<1>2. Popped(toTui, Tail(toTui), Head(toTui))
  BY <1>1, InTail DEF Popped
<1> QED BY <1>1, <1>2, HeadTailProperties DEF Incoming

LEMMA Taken ==
  ASSUME TypeOK, NEW kind, Takes(kind)
  PROVE  /\ Head(toAgent) \in RequestType /\ Head(toAgent).kind = kind
         /\ toAgent' \in Seq(RequestType)
         /\ Popped(toAgent, toAgent', Head(toAgent))
<1>1. toAgent \in Seq(RequestType) /\ toAgent # <<>> /\ toAgent' = Tail(toAgent)
  BY DEF TypeOK, Takes
<1>2. Popped(toAgent, Tail(toAgent), Head(toAgent))
  BY <1>1, InTail DEF Popped
<1> QED BY <1>1, <1>2, HeadTailProperties DEF Takes

\* The channel with one more request or event.
Pushed(q, r, e) ==
  /\ \A S : In(r, S) <=> In(q, S) \/ e \in S
  /\ \A S, T : Behind(q, S, T) /\ ~(In(q, S) /\ e \in T) => Behind(r, S, T)

LEMMA Asked ==
  ASSUME TypeOK, NEW r \in RequestType, Ask(r)
  PROVE  toAgent' \in Seq(RequestType) /\ Pushed(toAgent, toAgent', r)
<1>1. toAgent \in Seq(RequestType) /\ toAgent' = Append(toAgent, r)
  BY DEF TypeOK, Ask
<1>2. Pushed(toAgent, Append(toAgent, r), r)
  BY <1>1, InAppend DEF Pushed
<1> QED BY <1>1, <1>2, AppendProperties

-----------------------------------------------------------------------------
(* What is left alone *)

\* No prompt begins to run or is given back.
LEMMA SameRuns ==
  ASSUME RightRoute, NotTwice, ran' = ran, returned' = returned, dropped \subseteq dropped'
  PROVE  RightRoute' /\ NotTwice'
BY DEF RightRoute, NotTwice

-----------------------------------------------------------------------------
(* The frontend receives *)

LEMMA StatusStep == ASSUME IInv, OnStatus PROVE IInv'
<1> DEFINE e == Head(toTui)
<1>0. TypeOK /\ Staged /\ OneBody /\ OneRequest /\ OneOwner /\ Placed /\ RightRoute /\ NotTwice
  BY DEF IInv
<1>1. /\ e \in EventType /\ e.kind \in {"started", "settled", "status"}
      /\ toTui' \in Seq(EventType) /\ Popped(toTui, toTui', e)
  BY <1>0, Received DEF OnStatus
<1> HIDE DEF e
<1>2. /\ UNCHANGED <<pending, composer, current, temp, toAgent, pi, history>>
      /\ running' = e.ok
      /\ owner' = IF temp.phase # "active" THEN owner
                  ELSE [owner EXCEPT !.runObserved = IF e.ok THEN Owned ELSE @ /\ owner.consumed,
                                     !.awaitingRun = @ /\ ~(e.ok /\ owner.consumed)]
  BY DEF OnStatus, e
<1>3. /\ owner' \in OwnerType /\ Busy' = Busy /\ Waiting' = Waiting
      /\ owner'.id = owner.id /\ owner'.prompt = owner.prompt /\ owner'.sent = owner.sent
      /\ owner'.snapshot = owner.snapshot /\ owner'.cancel = owner.cancel
      /\ owner'.consumed = owner.consumed /\ owner'.recovered = owner.recovered
      /\ owner'.commandPending = owner.commandPending /\ owner'.admitted = owner.admitted
  <2>1. /\ owner \in OwnerType /\ owner.awaitingRun \in BOOLEAN /\ owner.runObserved \in BOOLEAN
        /\ e.ok \in BOOLEAN
    BY <1>0, <1>1 DEF TypeOK, OwnerType, EventType
  <2> DEFINE x == IF e.ok THEN Owned ELSE owner.runObserved /\ owner.consumed
             y == owner.awaitingRun /\ ~(e.ok /\ owner.consumed)
  <2>2. x \in BOOLEAN /\ y \in BOOLEAN /\ (y /\ ~owner.consumed <=> owner.awaitingRun /\ ~owner.consumed)
    BY <2>1 DEF Owned
  <2>3. owner' = owner \/ owner' = [owner EXCEPT !.runObserved = x, !.awaitingRun = y]
    BY <1>2
  <2> HIDE DEF x, y
  <2>4. /\ owner' \in OwnerType
        /\ owner'.id = owner.id /\ owner'.prompt = owner.prompt /\ owner'.sent = owner.sent
        /\ owner'.snapshot = owner.snapshot /\ owner'.cancel = owner.cancel
        /\ owner'.consumed = owner.consumed /\ owner'.recovered = owner.recovered
        /\ owner'.commandPending = owner.commandPending /\ owner'.admitted = owner.admitted
        /\ owner' = owner \/ owner'.awaitingRun = y
    BY <2>1, <2>2, <2>3 DEF OwnerType
  <2>5. Waiting' = Waiting
    BY <2>2, <2>4 DEF Waiting, Waits
  <2>6. Busy' = Busy
    BY <2>4, <2>5 DEF Busy
  <2> QED BY <2>4, <2>5, <2>6
<1>4. TypeOK'
  BY <1>0, <1>1, <1>2, <1>3 DEF TypeOK, pending, pi, history, EventType
<1>5. Staged'
  BY <1>0, <1>1, <1>2, <1>3
  DEF Staged, Quiet, Capturing, Changing, Working, Out, Unanswered, Unlisted, Popped, pending, pi
<1>6. OneBody' /\ OneRequest' /\ OneOwner'
  BY <1>0, <1>1, <1>2, <1>3 DEF OneBody, OneRequest, OneOwner, Popped, pending, pi, Unanswered
<1>7. Placed'
  BY <1>0, <1>1, <1>2, <1>3 DEF Placed, Popped, pending, pi, history, Out, Unanswered, RanIds
<1>8. RightRoute' /\ NotTwice'
  BY <1>0, <1>2, SameRuns DEF history
<1> QED BY <1>4, <1>5, <1>6, <1>7, <1>8 DEF IInv

LEMMA CatalogStep == ASSUME IInv, OnCatalog PROVE IInv'
<1> DEFINE e == Head(toTui)
<1>0. TypeOK /\ Staged /\ OneBody /\ OneRequest /\ OneOwner /\ Placed /\ RightRoute /\ NotTwice
  BY DEF IInv
<1>1. /\ e \in EventType /\ e.kind \in {"catalog"}
      /\ toTui' \in Seq(EventType) /\ Popped(toTui, toTui', e)
  BY <1>0, Received DEF OnCatalog
<1>2. /\ UNCHANGED <<pending, composer, status, pendingSub, toAgent, pi, history>>
      /\ current' = e.to
      /\ CASE temp.phase = "selecting" /\ e.to = temp.target ->
                temp' = [temp EXCEPT !.phase = "ready"] /\ UNCHANGED owner
           [] temp.phase \in {"restoring", "failed"} /\ e.to = temp.original ->
                temp' = NoTemp /\ owner' = NoOwner
           [] OTHER -> UNCHANGED <<temp, owner>>
  BY DEF OnCatalog
<1> HIDE DEF e
<1>c. /\ e \in Catalogs /\ e \in Handleds /\ e \in Changes /\ e \in Reads /\ e \in Reports
      /\ e.to \in Routes /\ \A r : e \in AwayCatalogs(r) <=> e.to # r
  BY <1>1, CatalogClass DEF EventType
<1>3. In(toTui, Catalogs) /\ In(toTui, Handleds)
  BY <1>1, <1>c DEF Popped
<1>4. CASE temp.phase = "selecting" /\ e.to = temp.target
  <2>1. temp' = [temp EXCEPT !.phase = "ready"] /\ owner' = owner
    BY <1>2, <1>4
  <2>2. temp' \in TempType /\ temp'.phase = "ready" /\ temp'.original = temp.original /\ temp'.target = temp.target
    BY <1>0, <2>1 DEF TypeOK, TempType, Phases
  <2>3. TypeOK'
    BY <1>0, <1>1, <1>c, <1>2, <2>1, <2>2 DEF TypeOK, pending, status, pi, history
  <2>4. piRoute = temp.target /\ ~In(toTui, AwayCatalogs(temp.target))
    BY <1>0, <1>3, <1>4 DEF Staged, Changing
  <2>5. Staged'
    BY <1>0, <1>1, <1>c, <1>2, <1>3, <1>4, <2>1, <2>2, <2>4, InEvents
    DEF Staged, Quiet, Capturing, Changing, Working, Out, Unanswered, Unlisted, Busy, Waiting, Popped,
       pending, pi
  <2>6. OneBody' /\ OneRequest' /\ OneOwner'
    BY <1>0, <1>1, <1>2, <2>1 DEF OneBody, OneRequest, OneOwner, Popped, pending, pi, Unanswered
  <2>7. Placed'
    BY <1>0, <1>1, <1>2, <2>1 DEF Placed, Popped, pending, pi, history, Out, Unanswered, RanIds, Waiting
  <2> QED BY <1>0, <1>2, <2>3, <2>5, <2>6, <2>7, SameRuns DEF IInv, history
<1>5. CASE temp.phase \in {"restoring", "failed"} /\ e.to = temp.original
  <2>1. temp' = NoTemp /\ owner' = NoOwner
    BY <1>2, <1>5
  <2>2. /\ temp' \in TempType /\ temp'.phase = "none" /\ owner' \in OwnerType
        /\ owner'.id = 0 /\ owner'.prompt = 0 /\ ~owner'.snapshot /\ ~owner'.sent /\ ~owner'.cancel
        /\ ~owner'.consumed /\ ~owner'.recovered /\ ~owner'.commandPending /\ ~owner'.admitted
        /\ ~owner'.awaitingRun
    BY <2>1, Constants DEF NoTemp, NoOwner, NewOwner, NoPrompt
  <2>3. TypeOK'
    BY <1>0, <1>1, <1>c, <1>2, <2>1, <2>2 DEF TypeOK, pending, status, pi, history
  <2>4. /\ temp.phase = "restoring" /\ piRoute = temp.original /\ temp.original = Base
        /\ ~In(toTui, AwayCatalogs(temp.original)) /\ ~Out
    BY <1>0, <1>3, <1>5 DEF Staged, Changing, Quiet
  <2>5. Staged'
    BY <1>0, <1>1, <1>c, <1>2, <1>3, <1>5, <2>2, <2>4, InEvents
    DEF Staged, Quiet, Capturing, Changing, Working, Out, Unanswered, Unlisted, Busy, Waiting, Waits,
       Popped, pending, pi
  <2>6. OneBody' /\ OneRequest' /\ OneOwner'
    BY <1>0, <1>1, <1>2, <2>2, <2>4, InRequests
    DEF OneBody, OneRequest, OneOwner, Popped, pending, pi, Out, Unanswered, TypeOK
  <2>7. Placed'
    <3>1. submitted \in Nat /\ ~In(toTui', Refusals)
      BY <1>0, <1>1, <2>4, InEvents DEF TypeOK, Staged, Changing, Popped
    <3> QED
      BY <1>0, <1>1, <1>2, <2>2, <2>4, <3>1
      DEF Placed, pending, pi, history, Out, Unanswered, RanIds, Waiting, Waits
  <2> QED BY <1>0, <1>2, <2>3, <2>5, <2>6, <2>7, SameRuns DEF IInv, history
<1>6. CASE UNCHANGED <<temp, owner>> /\ e.to = piRoute
  <2>3. TypeOK'
    BY <1>0, <1>1, <1>c, <1>2, <1>6 DEF TypeOK, pending, status, pi, history
  <2>5. Staged'
    BY <1>0, <1>1, <1>2, <1>6
    DEF Staged, Quiet, Capturing, Changing, Working, Out, Unanswered, Unlisted, Busy, Waiting, Popped,
       pending, pi
  <2>6. OneBody' /\ OneRequest' /\ OneOwner'
    BY <1>0, <1>1, <1>2, <1>6 DEF OneBody, OneRequest, OneOwner, Popped, pending, pi, Unanswered
  <2>7. Placed'
    BY <1>0, <1>1, <1>2, <1>6 DEF Placed, Popped, pending, pi, history, Out, Unanswered, RanIds, Waiting
  <2> QED BY <1>0, <1>2, <2>3, <2>5, <2>6, <2>7, SameRuns DEF IInv, history
<1>7. UNCHANGED <<temp, owner>> => e.to = piRoute
  BY <1>0, <1>1, <1>c, <1>3 DEF Staged, Changing, Quiet, Popped, TypeOK, TempType, Phases
<1> QED BY <1>2, <1>4, <1>5, <1>6, <1>7

LEMMA DispatchedStep == ASSUME IInv, OnDispatched PROVE IInv'
<1> DEFINE e == Head(toTui)
<1>0. TypeOK /\ Staged /\ OneBody /\ OneRequest /\ OneOwner /\ Placed /\ RightRoute /\ NotTwice
  BY DEF IInv
<1>1. /\ e \in EventType /\ e.kind \in {"dispatched"}
      /\ toTui' \in Seq(EventType) /\ Popped(toTui, toTui', e)
  BY <1>0, Received DEF OnDispatched
<1>2. /\ UNCHANGED <<pending, composer, status, pendingSub, current, temp, toAgent, pi, history>>
      /\ owner' = IF Owned /\ owner.id = e.id /\ owner.sent /\ owner.admission = 0
                  THEN [owner EXCEPT !.admission = e.id, !.admitted = FALSE] ELSE owner
  BY DEF OnDispatched
<1> HIDE DEF e
<1>3. /\ owner' \in OwnerType /\ Busy' = Busy /\ Waiting' = Waiting
      /\ owner'.id = owner.id /\ owner'.prompt = owner.prompt /\ owner'.sent = owner.sent
      /\ owner'.snapshot = owner.snapshot /\ owner'.cancel = owner.cancel
      /\ owner'.consumed = owner.consumed /\ owner'.recovered = owner.recovered
      /\ owner'.commandPending = owner.commandPending /\ (~owner.sent => owner'.admitted = owner.admitted)
  BY <1>0, <1>1, <1>2 DEF TypeOK, OwnerType, Owned, Busy, Waiting, Waits, EventType
<1>4. TypeOK'
  BY <1>0, <1>1, <1>2, <1>3 DEF TypeOK, pending, status, pi, history
<1>5. Staged'
  BY <1>0, <1>1, <1>2, <1>3
  DEF Staged, Quiet, Capturing, Changing, Working, Out, Unanswered, Unlisted, Popped, pending, pi
<1>6. OneBody' /\ OneRequest' /\ OneOwner'
  BY <1>0, <1>1, <1>2, <1>3 DEF OneBody, OneRequest, OneOwner, Popped, pending, pi, Unanswered
<1>7. Placed'
  BY <1>0, <1>1, <1>2, <1>3 DEF Placed, Popped, pending, pi, history, Out, Unanswered, RanIds
<1>8. RightRoute' /\ NotTwice'
  BY <1>0, <1>2, SameRuns DEF history
<1> QED BY <1>4, <1>5, <1>6, <1>7, <1>8 DEF IInv

LEMMA AdmissionStep == ASSUME IInv, OnAdmission PROVE IInv'
<1> DEFINE e == Head(toTui)
<1>0. TypeOK /\ Staged /\ OneBody /\ OneRequest /\ OneOwner /\ Placed /\ RightRoute /\ NotTwice
  BY DEF IInv
<1>1. /\ e \in EventType /\ e.kind \in {"admission"}
      /\ toTui' \in Seq(EventType) /\ Popped(toTui, toTui', e)
  BY <1>0, Received DEF OnAdmission
<1>2. /\ UNCHANGED <<pending, composer, running, interruptPending, current, temp, toAgent, pi, history>>
      /\ owner' = IF ~(Owned /\ owner.admission = e.id) THEN owner
                  ELSE [owner EXCEPT
                        !.admitted = TRUE,
                        !.awaitingRun = e.ok /\ (~owner.consumed \/ ~owner.runObserved),
                        !.consumed = @ \/ ~e.ok,
                        !.commandPending = @ \/ ~e.ok]
  BY DEF OnAdmission
<1> HIDE DEF e
<1>c. /\ e \in Answers /\ e \in News /\ (e \in Ends <=> ~e.ok) /\ (e \in Handleds <=> ~e.ok)
      /\ e.ok \in BOOLEAN
  BY <1>1, AdmissionClass DEF EventType
<1>3. In(toTui, News) /\ In(toTui, Answers)
  BY <1>1, <1>c DEF Popped
<1>w. Waiting /\ Working /\ temp.phase = "active" /\ ~owner.snapshot
  BY <1>0, <1>3 DEF Staged, Quiet, Capturing, Changing, Busy, Working, TypeOK, TempType, Phases
<1>f. /\ owner.sent /\ owner.awaitingRun /\ ~owner.consumed /\ ~owner.recovered /\ ~owner.commandPending
      /\ owner \in OwnerType
  BY <1>0, <1>w DEF Waiting, Waits, TypeOK
<1>4. CASE e.ok \/ owner' = owner
  <2>1. /\ owner' \in OwnerType
        /\ owner'.id = owner.id /\ owner'.prompt = owner.prompt /\ owner'.sent = owner.sent
        /\ owner'.snapshot = owner.snapshot /\ owner'.cancel = owner.cancel
        /\ owner'.consumed = owner.consumed /\ owner'.recovered = owner.recovered
        /\ owner'.commandPending = owner.commandPending /\ owner'.awaitingRun
    BY <1>2, <1>c, <1>f, <1>4 DEF OwnerType
  <2>2. Waiting' /\ Busy'
    BY <1>f, <2>1 DEF Waiting, Waits, Busy
  <2>3. TypeOK'
    BY <1>0, <1>1, <1>2, <2>1 DEF TypeOK, pending, pi, history
  <2>5. Staged'
    BY <1>0, <1>1, <1>2, <1>w, <2>1, <2>2
    DEF Staged, Quiet, Capturing, Changing, Working, Out, Unanswered, Unlisted, Popped, pending, pi
  <2>6. OneBody' /\ OneRequest' /\ OneOwner'
    BY <1>0, <1>1, <1>2, <1>f, <2>1 DEF OneBody, OneRequest, OneOwner, Popped, pending, pi, Unanswered
  <2>7. Placed'
    BY <1>0, <1>1, <1>2, <1>w, <2>1 DEF Placed, Popped, pending, pi, history, Out, Unanswered, RanIds
  <2> QED BY <1>0, <1>2, <2>3, <2>5, <2>6, <2>7, SameRuns DEF IInv, history
<1>5. CASE ~e.ok /\ owner' # owner
  <2>1. /\ owner' \in OwnerType
        /\ owner'.id = owner.id /\ owner'.prompt = owner.prompt /\ owner'.sent = owner.sent
        /\ owner'.snapshot = owner.snapshot /\ owner'.cancel = owner.cancel
        /\ owner'.consumed /\ owner'.commandPending
    BY <1>2, <1>c, <1>f, <1>5 DEF OwnerType
  <2>2. ~Waiting' /\ Busy'
    BY <1>f, <2>1 DEF Waiting, Waits, Busy
  <2>3. TypeOK'
    BY <1>0, <1>1, <1>2, <2>1 DEF TypeOK, pending, pi, history
  <2>4. In(toTui, Ends) /\ In(toTui, Handleds) /\ ~Out /\ ~In(toTui', News) /\ ~Out'
    BY <1>1, <1>2, <1>c, <1>5, <1>w DEF Popped, Working, Out, Unanswered, pi
  <2>5. Staged'
    BY <1>0, <1>1, <1>2, <1>w, <2>1, <2>2, <2>4
    DEF Staged, Working, Unanswered, Out, Unlisted, Popped, pending, pi
  <2>6. OneBody' /\ OneRequest' /\ OneOwner'
    BY <1>0, <1>1, <1>2, <1>f, <2>1 DEF OneBody, OneRequest, OneOwner, Popped, pending, pi, Unanswered
  <2>7. Placed'
    BY <1>0, <1>1, <1>2, <2>1, <2>2 DEF Placed, Popped, pending, pi, history, Out, Unanswered, RanIds
  <2> QED BY <1>0, <1>2, <2>3, <2>5, <2>6, <2>7, SameRuns DEF IInv, history
<1> QED BY <1>4, <1>5

LEMMA SettlementStep == ASSUME IInv, OnSettlement PROVE IInv'
<1> DEFINE e == Head(toTui)
<1>0. TypeOK /\ Staged /\ OneBody /\ OneRequest /\ OneOwner /\ Placed /\ RightRoute /\ NotTwice
  BY DEF IInv
<1>1. /\ e \in EventType /\ e.kind \in {"settlement"}
      /\ toTui' \in Seq(EventType) /\ Popped(toTui, toTui', e)
  BY <1>0, Received DEF OnSettlement
<1>2. /\ UNCHANGED <<pending, composer, status, pendingSub, current, temp, toAgent, pi, history>>
      /\ owner' = IF Settles(e) THEN [owner EXCEPT !.commandPending = FALSE] ELSE owner
  BY DEF OnSettlement
<1> HIDE DEF e
<1>c. e \in Settlements /\ e \in Handleds /\ e \in Reports
  BY <1>1, SettlementClass
<1>3. In(toTui, Settlements) /\ In(toTui, Handleds)
  BY <1>1, <1>c DEF Popped
<1>4. CASE owner' = owner
  <2>3. TypeOK'
    BY <1>0, <1>1, <1>2, <1>4 DEF TypeOK, pending, status, pi, history
  <2>5. Staged'
    BY <1>0, <1>1, <1>2, <1>4
    DEF Staged, Quiet, Capturing, Changing, Working, Out, Unanswered, Unlisted, Busy, Waiting, Popped,
       pending, pi
  <2>6. OneBody' /\ OneRequest' /\ OneOwner'
    BY <1>0, <1>1, <1>2, <1>4 DEF OneBody, OneRequest, OneOwner, Popped, pending, pi, Unanswered
  <2>7. Placed'
    BY <1>0, <1>1, <1>2, <1>4 DEF Placed, Popped, pending, pi, history, Out, Unanswered, RanIds, Waiting
  <2> QED BY <1>0, <1>2, <2>3, <2>5, <2>6, <2>7, SameRuns DEF IInv, history
<1>5. CASE owner' # owner
  <2>0. owner.commandPending /\ owner.consumed /\ owner.sent /\ owner' = [owner EXCEPT !.commandPending = FALSE]
    BY <1>0, <1>2, <1>5 DEF Settles, OneOwner
  <2>1. /\ owner' \in OwnerType
        /\ owner'.id = owner.id /\ owner'.prompt = owner.prompt /\ owner'.sent = owner.sent
        /\ owner'.snapshot = owner.snapshot /\ owner'.cancel = owner.cancel
        /\ owner'.consumed /\ ~owner'.commandPending
    BY <1>0, <2>0 DEF OwnerType, TypeOK
  <2>2. ~Waiting /\ ~Waiting' /\ ~Busy' /\ Busy /\ temp.phase = "active" /\ Working
    BY <1>0, <2>0, <2>1 DEF Waiting, Waits, Busy, Staged
  <2>3. TypeOK'
    BY <1>0, <1>1, <1>2, <2>1 DEF TypeOK, pending, status, pi, history
  <2>4. ~Out /\ ~In(toTui, News) /\ ~In(toTui', Reports)
    BY <1>1, <1>c, <1>3, <2>2 DEF Popped, Working
  <2>5. Staged'
    BY <1>0, <1>1, <1>2, <2>1, <2>2, <2>4, InEvents
    DEF Staged, Quiet, Working, Unanswered, Out, Popped, pending, pi
  <2>6. OneBody' /\ OneRequest' /\ OneOwner'
    BY <1>0, <1>1, <1>2, <2>0, <2>1 DEF OneBody, OneRequest, OneOwner, Popped, pending, pi, Unanswered
  <2>7. Placed'
    BY <1>0, <1>1, <1>2, <2>1, <2>2 DEF Placed, Popped, pending, pi, history, Out, Unanswered, RanIds
  <2> QED BY <1>0, <1>2, <2>3, <2>5, <2>6, <2>7, SameRuns DEF IInv, history
<1> QED BY <1>4, <1>5

\* One prompt is given back that has not run.
LEMMA GivenBack ==
  ASSUME RightRoute, NotTwice, ran' = ran, dropped \subseteq dropped',
         NEW x, x \notin RanIds, returned' = returned \cup {x}
  PROVE  RightRoute' /\ NotTwice'
BY DEF RightRoute, NotTwice, RanIds

LEMMA GiveBackTyped ==
  ASSUME TypeOK, NEW p \in PromptLike, GiveBack(p)
  PROVE  failed' \in Seq(PromptLike) /\ returned' = returned \cup {p.id}
<1>1. failed \in Seq(PromptLike) /\ Append(failed, p) \in Seq(PromptLike)
  BY AppendProperties DEF TypeOK
<1>2. failed' = failed \/ failed' = Append(failed, p)
  BY DEF GiveBack
<1> QED BY <1>1, <1>2 DEF GiveBack

LEMMA UserStep == ASSUME IInv, OnUser PROVE IInv'
<1> DEFINE e == Head(toTui)
<1>0. TypeOK /\ Staged /\ OneBody /\ OneRequest /\ OneOwner /\ Placed /\ RightRoute /\ NotTwice
  BY DEF IInv
<1>1. /\ e \in EventType /\ e.kind \in {"user"}
      /\ toTui' \in Seq(EventType) /\ Popped(toTui, toTui', e)
  BY <1>0, Received DEF OnUser
<1>2. /\ UNCHANGED <<pending, composer, running, interruptPending, current, temp, toAgent, pi, history>>
      /\ owner' = IF owner.sent /\ ~owner.consumed /\ ~owner.commandPending
                     /\ Looks(owner.prompt, e.id)
                  THEN [owner EXCEPT !.consumed = TRUE, !.awaitingRun = ~owner.runObserved,
                                     !.admitted = @ \/ owner.admission = 0]
                  ELSE owner
  BY DEF OnUser
<1> HIDE DEF e
<1>c. e \in Answers /\ e \in News /\ e \in Ends /\ e \in Bars
  BY <1>1, UserClass
<1>3. In(toTui, News) /\ In(toTui, Answers) /\ In(toTui, Ends) /\ In(toTui, Bars)
  BY <1>1, <1>c DEF Popped
<1>w. Waiting /\ Working /\ temp.phase = "active" /\ ~owner.snapshot
  BY <1>0, <1>3 DEF Staged, Quiet, Capturing, Changing, Busy, Working, TypeOK, TempType, Phases
<1>f. /\ owner.sent /\ owner.awaitingRun /\ ~owner.consumed /\ ~owner.recovered /\ ~owner.commandPending
      /\ owner \in OwnerType
  BY <1>0, <1>w DEF Waiting, Waits, TypeOK
<1>4. CASE owner' = owner
  <2>3. TypeOK'
    BY <1>0, <1>1, <1>2, <1>4 DEF TypeOK, pending, pi, history
  <2>5. Staged'
    BY <1>0, <1>1, <1>2, <1>4
    DEF Staged, Quiet, Capturing, Changing, Working, Out, Unanswered, Unlisted, Busy, Waiting, Popped,
       pending, pi
  <2>6. OneBody' /\ OneRequest' /\ OneOwner'
    BY <1>0, <1>1, <1>2, <1>4 DEF OneBody, OneRequest, OneOwner, Popped, pending, pi, Unanswered
  <2>7. Placed'
    BY <1>0, <1>1, <1>2, <1>4 DEF Placed, Popped, pending, pi, history, Out, Unanswered, RanIds, Waiting
  <2> QED BY <1>0, <1>2, <2>3, <2>5, <2>6, <2>7, SameRuns DEF IInv, history
<1>5. CASE owner' # owner
  <2>1. /\ owner' \in OwnerType
        /\ owner'.id = owner.id /\ owner'.prompt = owner.prompt /\ owner'.sent = owner.sent
        /\ owner'.snapshot = owner.snapshot /\ owner'.cancel = owner.cancel
        /\ owner'.recovered = owner.recovered /\ owner'.consumed /\ ~owner'.commandPending
    BY <1>2, <1>f, <1>5 DEF OwnerType
  <2>2. ~Waiting' /\ ~Busy'
    BY <2>1 DEF Waiting, Waits, Busy
  <2>3. TypeOK'
    BY <1>0, <1>1, <1>2, <2>1 DEF TypeOK, pending, pi, history
  <2>4. ~Out /\ ~In(toTui', News) /\ ~In(toTui, Handleds)
    BY <1>1, <1>c, <1>3, <1>w DEF Popped, Working
  <2>5. Staged'
    BY <1>0, <1>1, <1>2, <1>w, <2>1, <2>2, <2>4, InEvents
    DEF Staged, Quiet, Working, Unanswered, Out, Popped, pending, pi
  <2>6. OneBody' /\ OneRequest' /\ OneOwner'
    BY <1>0, <1>1, <1>2, <1>f, <2>1 DEF OneBody, OneRequest, OneOwner, Popped, pending, pi, Unanswered
  <2>7. Placed'
    BY <1>0, <1>1, <1>2, <2>1, <2>2 DEF Placed, Popped, pending, pi, history, Out, Unanswered, RanIds
  <2> QED BY <1>0, <1>2, <2>3, <2>5, <2>6, <2>7, SameRuns DEF IInv, history
<1> QED BY <1>4, <1>5

LEMMA PromptErrorStep == ASSUME IInv, OnPromptError PROVE IInv'
<1> DEFINE e == Head(toTui)
<1>0. TypeOK /\ Staged /\ OneBody /\ OneRequest /\ OneOwner /\ Placed /\ RightRoute /\ NotTwice
  BY DEF IInv
<1>1. /\ e \in EventType /\ e.kind \in {"prompt-error"}
      /\ toTui' \in Seq(EventType) /\ Popped(toTui, toTui', e)
  BY <1>0, Received DEF OnPromptError
<1>2. /\ UNCHANGED <<local, remote, sending, clearing, clearSent, running, interruptPending, current,
                     temp, toAgent, pi, submitted, interrupts, ran>>
      /\ dropped \subseteq dropped'
      /\ RefusesOwner => owner' = [owner EXCEPT !.commandPending = FALSE, !.awaitingRun = FALSE,
                                                !.recovered = TRUE]
      /\ RefusesOwner /\ ~owner.recovered =>
            GiveBack([NoPrompt EXCEPT !.id = owner.prompt, !.delivery = "after"])
  BY DEF OnPromptError
<1> HIDE DEF e
<1>c. e \in Answers /\ e \in News /\ e \in Ends /\ e \in Bars /\ e \in Refusals
  BY <1>1, PromptErrorClass
<1>3. In(toTui, News) /\ In(toTui, Answers) /\ In(toTui, Ends) /\ In(toTui, Bars) /\ In(toTui, Refusals)
  BY <1>1, <1>c DEF Popped
<1>w. Waiting /\ Working /\ temp.phase = "active" /\ ~owner.snapshot
  BY <1>0, <1>3 DEF Staged, Quiet, Capturing, Changing, Busy, Working, TypeOK, TempType, Phases
<1>f. /\ owner.sent /\ owner.awaitingRun /\ ~owner.consumed /\ ~owner.recovered /\ ~owner.commandPending
      /\ owner \in OwnerType /\ owner.id # 0 /\ owner.id = owner.prompt
  BY <1>0, <1>w DEF Waiting, Waits, TypeOK, OneOwner
<1>h. RefusesOwner /\ owner' = [owner EXCEPT !.commandPending = FALSE, !.awaitingRun = FALSE, !.recovered = TRUE]
  BY <1>2, <1>f DEF RefusesOwner, Owned
<1> DEFINE p == [NoPrompt EXCEPT !.id = owner.prompt, !.delivery = "after"]
<1>p. p \in PromptLike /\ p.id = owner.prompt
  BY <1>f, Constants DEF NoPrompt, PromptLike, OwnerType
<1>g. GiveBack(p)
  BY <1>2, <1>f, <1>h
<1> HIDE DEF p
<1>b. failed' \in Seq(PromptLike) /\ returned' = returned \cup {owner.prompt}
  BY <1>0, <1>p, <1>g, GiveBackTyped
<1>4. /\ owner' \in OwnerType
      /\ owner'.id = owner.id /\ owner'.prompt = owner.prompt /\ owner'.sent = owner.sent
      /\ owner'.snapshot = owner.snapshot /\ owner'.cancel = owner.cancel
      /\ owner'.recovered /\ ~owner'.commandPending
  BY <1>f, <1>h DEF OwnerType
<1>5. ~Waiting' /\ ~Busy'
  BY <1>4 DEF Waiting, Waits, Busy
<1>6. TypeOK'
  BY <1>0, <1>1, <1>2, <1>4, <1>b DEF TypeOK, pi
<1>7. ~Out /\ ~In(toTui', News) /\ ~In(toTui, Handleds)
  BY <1>1, <1>c, <1>3, <1>w DEF Popped, Working
<1>8. Staged'
  BY <1>0, <1>1, <1>2, <1>w, <1>4, <1>5, <1>7, InEvents
  DEF Staged, Quiet, Working, Unanswered, Out, Popped, pi
<1>9. OneBody' /\ OneRequest' /\ OneOwner'
  BY <1>0, <1>1, <1>2, <1>f, <1>4 DEF OneBody, OneRequest, OneOwner, Popped, pi, Unanswered
<1>10. owner.prompt \notin RanIds /\ owner.prompt \in 1..submitted
  BY <1>0, <1>3, <1>f DEF Placed, TypeOK
<1>11. Placed'
  BY <1>0, <1>1, <1>2, <1>b, <1>f, <1>4, <1>5, <1>10
  DEF Placed, Popped, pi, Out, Unanswered, RanIds
<1>12. RightRoute' /\ NotTwice'
  BY <1>0, <1>2, <1>b, <1>10, GivenBack
<1> QED BY <1>6, <1>8, <1>9, <1>11, <1>12 DEF IInv

\* The queue holds what it held or less, and each prompt is still in one place.
FewerQueued ==
  /\ local' \in Seq(Records) /\ failed' \in Seq(PromptLike)
  /\ Distinct(local)' /\ Ids(local)' \subseteq Ids(local)
  /\ Ids(local)' \subseteq 1..submitted \ (RanIds' \cup returned')
  /\ RanIds' = RanIds /\ returned' \subseteq 1..submitted
  /\ RightRoute' /\ NotTwice'

LEMMA QueueSame ==
  ASSUME TypeOK, Placed, RightRoute, NotTwice, dropped \subseteq dropped',
         UNCHANGED <<local, failed, returned, ran, submitted>>
  PROVE  FewerQueued /\ returned' = returned
BY SameRuns DEF FewerQueued, TypeOK, Placed, Distinct, Ids, RanIds

\* The queue loses a prompt that is given back.
LEMMA QueueGivesBack ==
  ASSUME TypeOK, Placed, RightRoute, NotTwice, dropped \subseteq dropped',
         NEW i \in DOMAIN local, local' = RemoveAt(local, i), GiveBack(local[i]),
         UNCHANGED <<submitted, ran>>
  PROVE  FewerQueued /\ returned' = returned \cup {local[i].id} /\ local[i].id \in Ids(local)
<1>1. local[i] \in Records /\ local[i] \in PromptLike
  BY DEF TypeOK, Records
<1>2. failed' \in Seq(PromptLike) /\ returned' = returned \cup {local[i].id}
  BY <1>1, GiveBackTyped
<1>3. /\ local \in Seq(Records) /\ Distinct(local)
      /\ RemoveAt(local, i) \in Seq(Records) /\ Distinct(RemoveAt(local, i))
      /\ Ids(RemoveAt(local, i)) \subseteq Ids(local) \ {local[i].id}
  BY RemovedIds DEF TypeOK, Placed
<1>4. local[i].id \in Ids(local)
  BY DEF Ids
<1>5. local[i].id \in 1..submitted /\ local[i].id \notin RanIds
  BY <1>4 DEF Placed
<1>6. Ids(local)' = Ids(RemoveAt(local, i)) /\ Distinct(local)' = Distinct(RemoveAt(local, i))
  BY DEF Ids, Distinct
<1>7. RanIds' = RanIds
  BY DEF RanIds
<1>8. RightRoute' /\ NotTwice'
  BY <1>2, <1>5, GivenBack
<1> QED BY <1>2, <1>3, <1>4, <1>5, <1>6, <1>7, <1>8 DEF Placed, FewerQueued

LEMMA ModelErrorStep == ASSUME IInv, OnModelError PROVE IInv'
<1> DEFINE e == Head(toTui)
<1>0. TypeOK /\ Staged /\ OneBody /\ OneRequest /\ OneOwner /\ Placed /\ RightRoute /\ NotTwice
  BY DEF IInv
<1>1. /\ e \in EventType /\ e.kind \in {"model-error"}
      /\ toTui' \in Seq(EventType) /\ Popped(toTui, toTui', e)
  BY <1>0, Received DEF OnModelError
<1>2. /\ UNCHANGED <<remote, sending, clearing, clearSent, status, pendingSub, current, owner, pi,
                     submitted, interrupts, ran, dropped>>
      /\ CASE temp.phase = "restoring" ->
                /\ temp' = [temp EXCEPT !.phase = "failed"]
                /\ UNCHANGED <<local, toAgent>> /\ KeepBack
           [] temp.phase = "selecting" ->
                /\ IF Unroutable = {} THEN UNCHANGED local /\ KeepBack
                   ELSE \E i \in Unroutable : local' = RemoveAt(local, i) /\ GiveBack(local[i])
                /\ Restore
           [] OTHER -> UNCHANGED <<temp, local, toAgent>> /\ KeepBack
  BY DEF OnModelError
<1> HIDE DEF e
<1>c. e \in ModelErrors /\ e \in Changes
  BY <1>1, ModelErrorClass
<1>3. In(toTui, ModelErrors) /\ In(toTui, Changes)
  BY <1>1, <1>c DEF Popped
<1>p. temp.phase \in {"selecting", "restoring"}
  BY <1>0, <1>3 DEF Staged, Quiet, Capturing, Changing, Busy, Working, TypeOK, TempType, Phases
<1>s. /\ ~owner.snapshot /\ ~Busy /\ ~Out /\ owner.id # 0 /\ temp.original = Base
      /\ ~In(toAgent, CaptureAsks) /\ ~In(toAgent, ModelAsks)
      /\ ~In(toTui, News) /\ ~In(toTui, Captures) /\ ~In(toTui, Settlements)
      /\ ~In(toTui', Changes)
  BY <1>0, <1>1, <1>c, <1>3, <1>p DEF Staged, Changing, Popped
<1>4. CASE temp.phase = "restoring"
  <2>1. temp' = [temp EXCEPT !.phase = "failed"] /\ UNCHANGED <<local, toAgent, failed, composer, returned>>
    BY <1>2, <1>4 DEF KeepBack
  <2>2. temp' \in TempType /\ temp'.phase = "failed" /\ temp'.original = temp.original
    BY <1>0, <2>1 DEF TypeOK, TempType, Phases
  <2>3. TypeOK'
    BY <1>0, <1>1, <1>2, <2>1, <2>2 DEF TypeOK, status, pi
  <2>5. Staged'
    BY <1>0, <1>1, <1>2, <1>s, <2>1, <2>2, InEvents
    DEF Staged, Quiet, Out, Unanswered, Busy, Waiting, Popped, pi
  <2>6. OneBody' /\ OneRequest' /\ OneOwner'
    BY <1>0, <1>1, <1>2, <2>1 DEF OneBody, OneRequest, OneOwner, Popped, pi, Unanswered
  <2>7. Placed'
    BY <1>0, <1>1, <1>2, <2>1 DEF Placed, Popped, pi, Out, Unanswered, RanIds, Waiting
  <2> QED BY <1>0, <1>2, <2>1, <2>3, <2>5, <2>6, <2>7, SameRuns DEF IInv
<1>5. CASE temp.phase = "selecting"
  <2>1. /\ Restore
        /\ \/ UNCHANGED <<local, failed, composer, returned>>
           \/ \E i \in Unroutable : local' = RemoveAt(local, i) /\ GiveBack(local[i])
    BY <1>2, <1>5 DEF KeepBack
  <2>2. temp' \in TempType /\ temp'.phase = "restoring" /\ temp'.original = temp.original
    BY <1>0, <2>1 DEF TypeOK, TempType, Phases, Restore
  <2> DEFINE r == Request("model", NoPrompt, temp.original)
  <2>3. r \in RequestType /\ r.kind = "model" /\ r.to = temp.original
    BY <1>0, RequestTyped, Constants DEF TypeOK, TempType
  <2>4. Ask(r)
    BY <2>1 DEF Restore
  <2> HIDE DEF r
  <2>5. toAgent' \in Seq(RequestType) /\ Pushed(toAgent, toAgent', r)
    BY <1>0, <2>3, <2>4, Asked
  <2>6. /\ r \in ModelAsks /\ r \in OtherAsks /\ r \notin CaptureAsks /\ r \notin BodyAsks
        /\ r \notin SteerAsks /\ r \notin ClearAsks /\ r \notin AwayAsks(temp.original)
        /\ \A p, to : r \notin StrayAsks(p, to)
    BY <2>3, ModelClass
  <2>7. FewerQueued
    <3>1. CASE UNCHANGED <<local, failed, composer, returned>>
      BY <1>0, <1>2, <3>1, QueueSame
    <3>2. ASSUME NEW i \in Unroutable, local' = RemoveAt(local, i), GiveBack(local[i]) PROVE FewerQueued
      <4>1. i \in DOMAIN local /\ ran' = ran /\ submitted' = submitted /\ dropped \subseteq dropped'
        BY <1>2 DEF Unroutable
      <4> QED BY <1>0, <3>2, <4>1, QueueGivesBack
    <3> QED BY <2>1, <3>1, <3>2
  <2>8. TypeOK'
    BY <1>0, <1>1, <1>2, <2>2, <2>5, <2>7 DEF FewerQueued, TypeOK, status, pi
  <2>9. ~In(toTui', Catalogs) /\ ~In(toTui', ModelErrors) /\ ~In(toTui', AwayCatalogs(temp.original))
    BY <1>s, InEvents
  <2>10. /\ ~In(toAgent', CaptureAsks) /\ ~In(toAgent', AwayAsks(temp.original))
         /\ (In(toAgent', BodyAsks) <=> In(toAgent, BodyAsks))
    BY <1>s, <2>5, <2>6, InRequests DEF Pushed
  <2>11. Staged'
    BY <1>0, <1>1, <1>2, <1>s, <2>2, <2>9, <2>10
    DEF Staged, Changing, Out, Unanswered, Busy, Waiting, Popped, pi
  <2>12. OneBody' /\ OneRequest' /\ OneOwner'
    BY <1>0, <1>1, <1>2, <1>s, <2>5, <2>6, <2>10, InRequests
    DEF OneBody, OneRequest, OneOwner, Popped, Pushed, pi, Out, Unanswered
  <2>13. Placed'
    BY <1>0, <1>1, <1>2, <2>7, <2>10, <1>s
    DEF FewerQueued, Placed, Popped, pi, Out, Unanswered, Waiting, Busy
  <2> QED BY <2>7, <2>8, <2>11, <2>12, <2>13 DEF FewerQueued, IInv
<1> QED BY <1>p, <1>4, <1>5

LEMMA CapturedStep == ASSUME IInv, OnCaptured PROVE IInv'
<1> DEFINE e == Head(toTui)
<1>0. TypeOK /\ Staged /\ OneBody /\ OneRequest /\ OneOwner /\ Placed /\ RightRoute /\ NotTwice
  BY DEF IInv
<1>1. /\ e \in EventType /\ e.kind \in {"captured"}
      /\ toTui' \in Seq(EventType) /\ Popped(toTui, toTui', e)
  BY <1>0, Received DEF OnCaptured
<1>2. /\ UNCHANGED <<remote, sending, clearing, clearSent, status, pendingSub, current, toAgent, pi,
                     submitted, interrupts, ran, dropped>>
      /\ \/ UNCHANGED <<owner, temp, local>> /\ KeepBack
         \/ owner.cancel
         \/ owner' = NoOwner /\ UNCHANGED <<temp, local>> /\ KeepBack
         \/ /\ e.ok /\ Owned
            /\ temp' = Borrowed(e.to)
            /\ owner' = [owner EXCEPT !.snapshot = FALSE]
            /\ UNCHANGED local /\ KeepBack
         \/ /\ owner' = NoOwner /\ UNCHANGED temp
            /\ \E i \in DOMAIN local : local' = RemoveAt(local, i) /\ GiveBack(local[i])
  BY DEF OnCaptured
<1> HIDE DEF e
<1>c. /\ e \in Captures /\ e \in Reads /\ e.to \in Routes
      /\ \A r : e \in AwayCaptures(r) <=> e.ok /\ e.to # r
  BY <1>1, CapturedClass DEF EventType
<1>3. In(toTui, Captures) /\ In(toTui, Reads)
  BY <1>1, <1>c DEF Popped
<1>s. /\ owner.snapshot /\ temp.phase = "none" /\ ~owner.sent /\ piRoute = Base /\ ~Out
      /\ ~In(toAgent, ModelAsks) /\ ~In(toAgent, CaptureAsks)
      /\ ~In(toTui, News) /\ ~In(toTui, ModelErrors) /\ ~In(toTui, Settlements)
      /\ ~In(toTui', Reads) /\ current = piRoute /\ ~In(toTui, AwayCatalogs(piRoute))
      /\ ~In(toTui, AwayCaptures(piRoute))
  BY <1>0, <1>1, <1>c, <1>3
  DEF Staged, Quiet, Capturing, Changing, Busy, Working, TypeOK, TempType, Phases, Popped
<1>r. ~In(toTui', Captures) /\ ~In(toTui', Catalogs) /\ ~In(toTui', AwayCatalogs(piRoute))
  BY <1>s, InEvents
<1>o. /\ ~owner.cancel /\ ~owner.commandPending /\ ~Waiting
  BY <1>0, <1>s DEF OneOwner, Waiting, Waits
<1>4. CASE UNCHANGED <<owner, temp, local>> /\ KeepBack
  <2>1. UNCHANGED <<owner, temp, local, failed, composer, returned>>
    BY <1>4 DEF KeepBack
  <2>3. TypeOK'
    BY <1>0, <1>1, <1>2, <2>1 DEF TypeOK, status, pi
  <2>5. Staged'
    BY <1>0, <1>1, <1>2, <2>1
    DEF Staged, Quiet, Capturing, Changing, Working, Out, Unanswered, Unlisted, Busy, Waiting, Popped, pi
  <2>6. OneBody' /\ OneRequest' /\ OneOwner'
    BY <1>0, <1>1, <1>2, <2>1 DEF OneBody, OneRequest, OneOwner, Popped, pi, Unanswered
  <2>7. Placed'
    BY <1>0, <1>1, <1>2, <2>1 DEF Placed, Popped, pi, Out, Unanswered, RanIds, Waiting
  <2> QED BY <1>0, <1>2, <2>1, <2>3, <2>5, <2>6, <2>7, SameRuns DEF IInv
<1>5. CASE /\ e.ok /\ Owned
           /\ temp' = Borrowed(e.to)
           /\ owner' = [owner EXCEPT !.snapshot = FALSE]
           /\ UNCHANGED local /\ KeepBack
  <2>1. UNCHANGED <<local, failed, composer, returned>>
    BY <1>5 DEF KeepBack
  <2>2. e.to = Base
    BY <1>1, <1>c, <1>5, <1>s DEF Popped
  <2>3. temp' \in TempType /\ temp'.phase = "ready" /\ temp'.original = Base
    BY <1>c, <1>5, <2>2 DEF TempType, Phases, Borrowed
  <2>4. /\ owner' \in OwnerType /\ owner'.id = owner.id /\ owner'.prompt = owner.prompt
        /\ ~owner'.snapshot /\ ~owner'.sent /\ ~owner'.commandPending /\ owner'.cancel = owner.cancel
        /\ owner'.consumed = owner.consumed /\ owner'.recovered = owner.recovered
        /\ owner'.admitted = owner.admitted /\ owner'.id # 0
    BY <1>0, <1>5, <1>s, <1>o DEF TypeOK, OwnerType, Owned
  <2>5. ~Waiting' /\ ~Busy'
    BY <2>4 DEF Waiting, Waits, Busy
  <2>6. TypeOK'
    BY <1>0, <1>1, <1>2, <2>1, <2>3, <2>4 DEF TypeOK, status, pi
  <2>7. Staged'
    BY <1>0, <1>1, <1>2, <1>s, <1>r, <2>3, <2>4, <2>5
    DEF Staged, Quiet, Out, Unanswered, Popped, pi
  <2>8. OneBody' /\ OneRequest' /\ OneOwner'
    BY <1>0, <1>1, <1>2, <1>s, <2>4 DEF OneBody, OneRequest, OneOwner, Popped, pi, Unanswered
  <2>9. Placed'
    BY <1>0, <1>1, <1>2, <2>1, <2>4, <2>5 DEF Placed, Popped, pi, Out, Unanswered, RanIds
  <2> QED BY <1>0, <1>2, <2>1, <2>6, <2>7, <2>8, <2>9, SameRuns DEF IInv
<1>6. CASE /\ owner' = NoOwner /\ UNCHANGED temp
           /\ \/ UNCHANGED local /\ KeepBack
              \/ \E i \in DOMAIN local : local' = RemoveAt(local, i) /\ GiveBack(local[i])
  <2>1. FewerQueued
    <3>1. CASE UNCHANGED local /\ KeepBack
      BY <1>0, <1>2, <3>1, QueueSame DEF KeepBack
    <3>2. CASE \E i \in DOMAIN local : local' = RemoveAt(local, i) /\ GiveBack(local[i])
      BY <1>0, <1>2, <3>2, QueueGivesBack
    <3> QED BY <1>6, <3>1, <3>2
  <2>2. /\ owner' \in OwnerType
        /\ owner'.id = 0 /\ owner'.prompt = 0 /\ ~owner'.snapshot /\ ~owner'.sent /\ ~owner'.cancel
        /\ ~owner'.consumed /\ ~owner'.recovered /\ ~owner'.commandPending /\ ~owner'.admitted
    BY <1>6, Constants DEF NoOwner, NewOwner, NoPrompt
  <2>3. ~Waiting' /\ ~Busy'
    BY <2>2 DEF Waiting, Waits, Busy
  <2>4. TypeOK'
    BY <1>0, <1>1, <1>2, <1>6, <2>1, <2>2 DEF FewerQueued, TypeOK, status, pi
  <2>5. Staged'
    BY <1>0, <1>1, <1>2, <1>6, <1>s, <1>r, <2>2, <2>3
    DEF Staged, Quiet, Out, Unanswered, Popped, pi
  <2>6. OneBody' /\ OneRequest' /\ OneOwner'
    BY <1>0, <1>1, <1>2, <1>s, <2>2, InRequests
    DEF OneBody, OneRequest, OneOwner, Popped, pi, Out, Unanswered, TypeOK
  <2>7. Placed'
    <3>1. submitted \in Nat /\ ~In(toTui', Refusals)
      BY <1>0, <1>1, <1>s, InEvents DEF TypeOK, Popped
    <3> QED
      BY <1>0, <1>1, <1>2, <1>s, <2>1, <2>2, <2>3, <3>1
      DEF FewerQueued, Placed, pi, Out, Unanswered
  <2> QED BY <2>1, <2>4, <2>5, <2>6, <2>7 DEF FewerQueued, IInv
<1> QED BY <1>2, <1>o, <1>4, <1>5, <1>6

\* What OnAsapQueue does, whatever the event says.
LEMMA AsapQueueStep == ASSUME IInv, OnAsapQueue PROVE IInv'
<1> DEFINE e == Head(toTui)
<1>0. TypeOK /\ Staged /\ OneBody /\ OneRequest /\ OneOwner /\ Placed /\ RightRoute /\ NotTwice
  BY DEF IInv
<1>1. /\ e \in EventType /\ e.kind \in {"queue", "submitted", "cleared"}
      /\ toTui' \in Seq(EventType) /\ Popped(toTui, toTui', e)
  BY <1>0, Received DEF OnAsapQueue
<1> DEFINE r == Request("clear", NoPrompt, None)
           ask == clearing' /\ ~clearSent /\ sending'.id = 0
<1>2. /\ UNCHANGED <<local, composer, status, pendingSub, current, temp, pi, submitted, interrupts, ran>>
      /\ remote' = e.ids
      /\ owner' = CASE e.kind = "submitted" -> Submitted(e)
                    [] e.kind = "cleared" -> Cleared(e)
                    [] OTHER -> owner
      /\ sending' = IF e.kind = "submitted" THEN NoPrompt ELSE sending
      /\ failed' = IF Refused(e) /\ ~clearing THEN Append(failed, sending) ELSE failed
      /\ returned' = IF Refused(e) /\ ~clearing THEN returned \cup {sending.id} ELSE returned
      /\ dropped \subseteq dropped'
      /\ clearing' = (clearing /\ e.kind # "cleared")
      /\ clearSent' = ((clearSent /\ e.kind # "cleared") \/ ask)
      /\ toAgent' = IF ask THEN Append(toAgent, r) ELSE toAgent
  BY DEF OnAsapQueue, e
<1> HIDE DEF e, ask
<1>e. e.ids \in SUBSET (1..MaxPrompts) /\ e.ok \in BOOLEAN
  BY <1>1 DEF EventType
<1>4. CASE e.kind = "queue"
  <2>0. ~Refused(e)
    BY <1>4 DEF Refused
  <2>1. /\ UNCHANGED <<owner, sending, failed, returned>> /\ clearing' = clearing
        /\ ~ask /\ clearSent' = clearSent /\ toAgent' = toAgent
    BY <1>0, <1>2, <1>4, <2>0 DEF OneRequest, TypeOK, ask
  <2>2. e \in Listings <=> e.ids # {}
    BY <1>1, <1>4, QueueClass
  <2>3. TypeOK'
    BY <1>0, <1>1, <1>2, <1>e, <2>1 DEF TypeOK, status, pi
  <2>4. In(toTui, Listings) \/ remote' = {}
    BY <1>1, <1>2, <2>2 DEF Popped
  <2>5. Staged'
    BY <1>0, <1>1, <1>2, <2>1, <2>4
    DEF Staged, Quiet, Capturing, Changing, Working, Out, Unanswered, Unlisted, Busy, Waiting, Popped, pi
  <2>6. OneBody' /\ OneRequest' /\ OneOwner'
    BY <1>0, <1>1, <1>2, <2>1 DEF OneBody, OneRequest, OneOwner, Popped, pi, Unanswered
  <2>7. Placed'
    BY <1>0, <1>1, <1>2, <2>1 DEF Placed, Popped, pi, Out, Unanswered, RanIds, Waiting
  <2> QED BY <1>0, <1>2, <2>1, <2>3, <2>5, <2>6, <2>7, SameRuns DEF IInv
<1>5. CASE e.kind = "cleared"
  <2>0. ~Refused(e)
    BY <1>5 DEF Refused
  <2>1. /\ UNCHANGED <<sending, failed, returned>> /\ clearing' = FALSE
        /\ clearSent' = FALSE /\ toAgent' = toAgent
        /\ owner' = Cleared(e)
    BY <1>0, <1>2, <1>5, <2>0 DEF ask
  <2>2. /\ e \in ClearedAny /\ (e \in Ends <=> e.ok) /\ (e \in Listings <=> e.ids # {})
        /\ (e \in News <=> e.ids # {})
    BY <1>1, <1>5, ClearClass
  <2>3. In(toTui, ClearedAny) /\ ~In(toAgent, ClearAsks) /\ ~In(toTui', ClearedAny)
    BY <1>0, <1>1, <2>2 DEF OneRequest, Popped
  <2>4. In(toTui, Listings) \/ remote' = {}
    BY <1>1, <1>2, <2>2 DEF Popped
  <2>5. OneBody' /\ OneRequest'
    <3>1. owner'.prompt = owner.prompt
      BY <1>0, <2>1 DEF Cleared, TypeOK, OwnerType
    <3> QED BY <1>0, <1>1, <1>2, <2>1, <2>3, <3>1 DEF OneBody, OneRequest, Popped, pi, Unanswered
  <2>6. CASE owner' = owner
    <3>3. TypeOK'
      BY <1>0, <1>1, <1>2, <1>e, <2>1, <2>6 DEF TypeOK, status, pi
    <3>5. Staged'
      BY <1>0, <1>1, <1>2, <2>1, <2>4, <2>6
      DEF Staged, Quiet, Capturing, Changing, Working, Out, Unanswered, Unlisted, Busy, Waiting,
         Popped, pi
    <3>6. OneOwner'
      BY <1>0, <2>6 DEF OneOwner
    <3>7. Placed'
      BY <1>0, <1>1, <1>2, <2>1, <2>6 DEF Placed, Popped, pi, Out, Unanswered, RanIds, Waiting
    <3> QED BY <1>0, <1>2, <2>1, <2>5, <3>3, <3>5, <3>6, <3>7, SameRuns DEF IInv
  <2>7. CASE owner' # owner
    <3>1. /\ e.ok /\ owner.sent /\ ~owner.consumed
          /\ owner' = [owner EXCEPT !.awaitingRun = FALSE, !.consumed = TRUE, !.recovered = TRUE]
      BY <2>1, <2>7 DEF Cleared
    <3>2. /\ owner' \in OwnerType
          /\ owner'.id = owner.id /\ owner'.prompt = owner.prompt /\ owner'.sent = owner.sent
          /\ owner'.snapshot = owner.snapshot /\ owner'.cancel = owner.cancel
          /\ owner'.recovered /\ owner'.consumed /\ owner'.commandPending = owner.commandPending
      BY <1>0, <3>1 DEF OwnerType, TypeOK
    <3>3. ~owner.commandPending /\ ~Waiting' /\ ~Busy'
      BY <1>0, <3>1, <3>2 DEF OneOwner, Waiting, Waits, Busy
    <3>4. TypeOK'
      BY <1>0, <1>1, <1>2, <1>e, <2>1, <3>2 DEF TypeOK, status, pi
    <3>5. Staged'
      <4>1. CASE Busy
        <5>1. Working /\ temp.phase = "active" /\ ~owner.snapshot
          BY <1>0, <4>1 DEF Staged
        <5>2. In(toTui, Ends) /\ ~Out /\ ~In(toTui, Handleds) /\ ~In(toTui', News)
          BY <1>1, <2>2, <2>3, <3>1, <5>1 DEF Popped, Working, Unlisted
        <5> QED
          BY <1>0, <1>1, <1>2, <2>1, <3>2, <3>3, <5>1, <5>2, InEvents
          DEF Staged, Quiet, Working, Unanswered, Out, Popped, pi
      <4>2. CASE ~Busy
        BY <1>0, <1>1, <1>2, <2>1, <3>2, <3>3, <4>2
        DEF Staged, Quiet, Capturing, Changing, Unanswered, Out, Popped, pi
      <4> QED BY <4>1, <4>2
    <3>6. OneOwner'
      BY <1>0, <3>1, <3>2 DEF OneOwner
    <3>7. Placed'
      BY <1>0, <1>1, <1>2, <2>1, <3>2, <3>3 DEF Placed, Popped, pi, Out, Unanswered, RanIds
    <3> QED BY <1>0, <1>2, <2>1, <2>5, <3>4, <3>5, <3>6, <3>7, SameRuns DEF IInv
  <2> QED BY <2>6, <2>7
<1>6. CASE e.kind = "submitted"
  <2>2. /\ e \in Submitteds /\ e \in Bars /\ e \in Answers /\ e \in News
        /\ (e \in Listings <=> e.ids # {}) /\ (e \in Refusals <=> ~e.ok) /\ (e \in Ends <=> ~e.ok)
    BY <1>1, <1>6, SubmissionClass
  <2>3. In(toTui, Submitteds) /\ In(toTui, News) /\ In(toTui, Answers) /\ In(toTui, Bars)
    BY <1>1, <2>2 DEF Popped
  <2>w. Waiting /\ Working /\ temp.phase = "active" /\ ~owner.snapshot
    BY <1>0, <2>3 DEF Staged, Quiet, Capturing, Changing, Busy, Working, TypeOK, TempType, Phases
  <2>f. /\ owner.sent /\ owner.awaitingRun /\ ~owner.consumed /\ ~owner.recovered /\ ~owner.commandPending
        /\ owner \in OwnerType /\ owner.id # 0 /\ owner.id = owner.prompt
    BY <1>0, <2>w DEF Waiting, Waits, TypeOK, OneOwner
  <2>4. sending.id = owner.prompt /\ sending.rec = owner.id /\ sending.id # 0
    BY <1>0, <2>3, <2>w, <2>f DEF Working, TypeOK
  <2>5. /\ owner' = [owner EXCEPT !.admitted = TRUE, !.awaitingRun = @ /\ e.ok, !.recovered = @ \/ ~e.ok]
        /\ sending' = NoPrompt /\ clearing' = clearing
        /\ clearSent' = (clearSent \/ ask)
    <3>1. clearing \in BOOLEAN /\ clearSent \in BOOLEAN /\ e.kind # "cleared" /\ e.kind = "submitted"
      BY <1>0, <1>6 DEF TypeOK
    <3>2. owner' = Submitted(e) /\ sending' = NoPrompt
      BY <1>2, <3>1
    <3>3. clearing' = clearing /\ clearSent' = (clearSent \/ ask)
      BY <1>2, <3>1
    <3> QED BY <2>f, <2>4, <3>2, <3>3 DEF Submitted, Owned
  <2>6. sending'.id = 0 /\ sending'.rec = 0 /\ sending' \in PromptLike
    BY <2>5, Constants DEF NoPrompt
  <2>7. /\ owner' \in OwnerType
        /\ owner'.id = owner.id /\ owner'.prompt = owner.prompt /\ owner'.sent = owner.sent
        /\ owner'.snapshot = owner.snapshot /\ owner'.cancel = owner.cancel
        /\ owner'.consumed = owner.consumed /\ owner'.commandPending = owner.commandPending
        /\ (e.ok => owner'.awaitingRun /\ ~owner'.recovered) /\ (~e.ok => owner'.recovered)
    <3> DEFINE x == owner.awaitingRun /\ e.ok
               y == owner.recovered \/ ~e.ok
    <3>1. x \in BOOLEAN /\ y \in BOOLEAN /\ (e.ok => x /\ ~y) /\ (~e.ok => y)
      BY <2>f
    <3>2. owner' = [owner EXCEPT !.admitted = TRUE, !.awaitingRun = x, !.recovered = y]
      BY <2>5
    <3> HIDE DEF x, y
    <3>3. owner' \in OwnerType
      BY <2>f, <3>1, <3>2 DEF OwnerType
    <3>4. /\ owner'.id = owner.id /\ owner'.prompt = owner.prompt /\ owner'.sent = owner.sent
          /\ owner'.snapshot = owner.snapshot /\ owner'.cancel = owner.cancel
          /\ owner'.consumed = owner.consumed /\ owner'.commandPending = owner.commandPending
          /\ owner'.awaitingRun = x /\ owner'.recovered = y
      BY <2>f, <3>2 DEF OwnerType
    <3> QED BY <3>1, <3>3, <3>4
  <2>8. (Waiting' <=> e.ok) /\ (Busy' <=> e.ok)
    BY <2>7, <2>f DEF Waiting, Waits, Busy
  <2>9. /\ ~Unanswered /\ ~In(toTui, Handleds) /\ ~In(toTui', Submitteds)
        /\ ~In(toAgent, BodyAsks) /\ starting = {}
    BY <1>1, <2>2, <2>3, <2>w DEF Working, Popped, Unanswered
  <2>r. r \in RequestType /\ r.kind = "clear"
    BY RequestTyped, Constants
  <2> HIDE DEF r
  <2>10. /\ r \notin ModelAsks /\ r \notin OtherAsks /\ r \notin CaptureAsks /\ r \notin BodyAsks
         /\ r \notin SteerAsks /\ r \in ClearAsks /\ (\A to : r \notin AwayAsks(to))
         /\ \A p, to : r \notin StrayAsks(p, to)
    BY <2>r, ClearAskClass
  <2>11. /\ toAgent' \in Seq(RequestType)
         /\ \/ toAgent' = toAgent /\ clearSent' = clearSent /\ ~(clearing /\ ~clearSent)
            \/ Pushed(toAgent, toAgent', r) /\ clearing /\ ~clearSent /\ clearSent'
    <3>1. CASE ask
      BY <1>0, <1>2, <2>r, <2>5, <3>1, Asked DEF Ask, ask
    <3>2. CASE ~ask
      BY <1>0, <1>2, <2>5, <2>6, <3>2 DEF ask, TypeOK
    <3> QED BY <3>1, <3>2
  <2>12. /\ In(toAgent', BodyAsks) <=> In(toAgent, BodyAsks)
         /\ In(toAgent', SteerAsks) <=> In(toAgent, SteerAsks)
         /\ In(toAgent', CaptureAsks) <=> In(toAgent, CaptureAsks)
         /\ In(toAgent', ModelAsks) <=> In(toAgent, ModelAsks)
         /\ \A p, to : In(toAgent', StrayAsks(p, to)) <=> In(toAgent, StrayAsks(p, to))
    BY <2>10, <2>11 DEF Pushed
  <2>13. OneRequest'
    <3>1. Behind(toAgent', OtherAsks, OtherAsks)
      BY <1>0, <2>10, <2>11 DEF Pushed, OneRequest
    <3>2. CASE toAgent' = toAgent
      BY <1>0, <1>1, <1>2, <2>5, <2>6, <2>10, <2>11, <3>2 DEF OneRequest, Popped, Pushed
    <3>3. CASE Pushed(toAgent, toAgent', r) /\ clearing /\ ~clearSent /\ clearSent'
      <4>1. ~In(toAgent, ClearAsks) /\ ~In(toTui, ClearedAny)
        BY <1>0, <3>3 DEF OneRequest
      <4> QED BY <1>0, <1>1, <2>5, <2>10, <3>1, <3>3, <4>1 DEF OneRequest, Popped, Pushed
    <3> QED BY <2>11, <3>2, <3>3
  <2>14. OneBody' /\ OneOwner'
    BY <1>0, <1>2, <2>f, <2>7, <2>12 DEF OneBody, OneOwner, Unanswered, pi
  <2>15. CASE e.ok
    <3>1. ~Refused(e) /\ UNCHANGED <<failed, returned>>
      BY <1>2, <2>15 DEF Refused
    <3>2. TypeOK'
      BY <1>0, <1>1, <1>2, <1>e, <2>5, <2>6, <2>7, <2>11, <3>1 DEF TypeOK, status, pi
    <3>3. Staged'
      BY <1>0, <1>1, <1>2, <2>w, <2>7, <2>8, <2>9, <2>12, <2>15, InRequests
      DEF Staged, Working, Out, Unanswered, Popped, pi
    <3>4. Placed'
      BY <1>0, <1>1, <1>2, <2>w, <2>7, <2>8, <2>12, <3>1 DEF Placed, Popped, pi, Out, Unanswered, RanIds
    <3> QED BY <1>0, <1>2, <2>13, <2>14, <3>1, <3>2, <3>3, <3>4, SameRuns DEF IInv
  <2>16. CASE ~e.ok
    <3>1. /\ ~Out /\ ~In(toTui', News) /\ In(toTui, Refusals)
      BY <1>1, <2>2, <2>16, <2>w DEF Working, Popped
    <3>2. /\ failed' \in Seq(PromptLike)
          /\ returned' = returned \/ returned' = returned \cup {owner.prompt}
      BY <1>0, <1>2, <2>4, AppendProperties DEF TypeOK
    <3>3. owner.prompt \notin RanIds /\ owner.prompt \in 1..submitted
      BY <1>0, <2>f, <3>1 DEF Placed, TypeOK
    <3>4. TypeOK'
      BY <1>0, <1>1, <1>2, <1>e, <2>5, <2>6, <2>7, <2>11, <3>2 DEF TypeOK, status, pi
    <3>5. Staged'
      BY <1>0, <1>1, <1>2, <2>w, <2>7, <2>8, <2>9, <2>12, <2>16, <3>1, InEvents
      DEF Staged, Quiet, Working, Out, Unanswered, Popped, pi
    <3>6. Placed'
      BY <1>0, <1>1, <1>2, <2>f, <2>7, <2>8, <2>12, <2>16, <3>2, <3>3
      DEF Placed, Popped, pi, Out, Unanswered, RanIds
    <3>7. RightRoute' /\ NotTwice'
      BY <1>0, <1>2, <3>2, <3>3, SameRuns, GivenBack
    <3> QED BY <2>13, <2>14, <3>4, <3>5, <3>6, <3>7 DEF IInv
  <2> QED BY <1>e, <2>15, <2>16
<1> QED BY <1>1, <1>4, <1>5, <1>6

-----------------------------------------------------------------------------
(* The adapter and Pi *)

\* Events emitted together: what is in the channel afterwards.
Adds1(q, r, a) ==
  /\ \A S : In(r, S) <=> In(q, S) \/ a \in S
  /\ \A S, T : Behind(q, S, T) /\ (In(q, S) => a \notin T) => Behind(r, S, T)
Adds2(q, r, a, b) ==
  /\ \A S : In(r, S) <=> In(q, S) \/ a \in S \/ b \in S
  /\ \A S, T : /\ Behind(q, S, T)
               /\ In(q, S) => a \notin T /\ b \notin T
               /\ a \in S => b \notin T
               => Behind(r, S, T)
Adds3(q, r, a, b, c) ==
  /\ \A S : In(r, S) <=> In(q, S) \/ a \in S \/ b \in S \/ c \in S
  /\ \A S, T : /\ Behind(q, S, T)
               /\ In(q, S) => a \notin T /\ b \notin T /\ c \notin T
               /\ a \in S => b \notin T /\ c \notin T
               /\ b \in S => c \notin T
               => Behind(r, S, T)
Adds4(q, r, a, b, c, d) ==
  /\ \A S : In(r, S) <=> In(q, S) \/ a \in S \/ b \in S \/ c \in S \/ d \in S
  /\ \A S, T : /\ Behind(q, S, T)
               /\ In(q, S) => a \notin T /\ b \notin T /\ c \notin T /\ d \notin T
               /\ a \in S => b \notin T /\ c \notin T /\ d \notin T
               /\ b \in S => c \notin T /\ d \notin T
               /\ c \in S => d \notin T
               => Behind(r, S, T)

LEMMA AddsConcat ==
  ASSUME NEW q \in Seq(EventType), NEW a \in EventType, NEW b \in EventType, NEW c \in EventType,
         NEW d \in EventType
  PROVE  /\ q \o <<a>> \in Seq(EventType) /\ Adds1(q, q \o <<a>>, a)
         /\ q \o <<a, b>> \in Seq(EventType) /\ Adds2(q, q \o <<a, b>>, a, b)
         /\ q \o (<<a>> \o <<b>>) \in Seq(EventType) /\ Adds2(q, q \o (<<a>> \o <<b>>), a, b)
         /\ q \o (<<a>> \o <<b, c>>) \in Seq(EventType) /\ Adds3(q, q \o (<<a>> \o <<b, c>>), a, b, c)
         /\ q \o (<<a, b>> \o <<c>>) \in Seq(EventType) /\ Adds3(q, q \o (<<a, b>> \o <<c>>), a, b, c)
         /\ q \o ((<<a>> \o <<b, c>>) \o <<d>>) \in Seq(EventType)
         /\ Adds4(q, q \o ((<<a>> \o <<b, c>>) \o <<d>>), a, b, c, d)
<1> DEFINE Joined2(s, t) ==
             /\ s \o t \in Seq(EventType)
             /\ \A S : In(s \o t, S) <=> In(s, S) \/ In(t, S)
             /\ \A S, T : Behind(s, S, T) /\ Behind(t, S, T) /\ ~(In(s, S) /\ In(t, T))
                        => Behind(s \o t, S, T)
<1>1. ASSUME NEW s \in Seq(EventType), NEW t \in Seq(EventType) PROVE Joined2(s, t)
  BY InConcat, ConcatProperties
<1> DEFINE sa == <<a>>
           sb == <<b>>
           sc == <<c>>
           sd == <<d>>
           sab == <<a, b>>
           sbc == <<b, c>>
<1>2. /\ sa \in Seq(EventType) /\ sb \in Seq(EventType) /\ sc \in Seq(EventType)
      /\ sd \in Seq(EventType) /\ sab \in Seq(EventType) /\ sbc \in Seq(EventType)
  BY ShortSeqs
<1>3. /\ \A S : /\ In(sa, S) <=> a \in S
                /\ In(sb, S) <=> b \in S
                /\ In(sc, S) <=> c \in S
                /\ In(sd, S) <=> d \in S
                /\ In(sab, S) <=> a \in S \/ b \in S
                /\ In(sbc, S) <=> b \in S \/ c \in S
      /\ \A S, T : /\ Behind(sa, S, T) /\ Behind(sb, S, T) /\ Behind(sc, S, T) /\ Behind(sd, S, T)
                   /\ (a \in S => b \notin T) => Behind(sab, S, T)
                   /\ (b \in S => c \notin T) => Behind(sbc, S, T)
  BY InOne, InTwo
<1> HIDE DEF sa, sb, sc, sd, sab, sbc, Joined2
<1>4. /\ Joined2(q, sa) /\ Joined2(q, sab) /\ Joined2(sa, sb) /\ Joined2(sa, sbc) /\ Joined2(sab, sc)
  BY <1>1, <1>2
<1>5. sa \o sb \in Seq(EventType) /\ sa \o sbc \in Seq(EventType) /\ sab \o sc \in Seq(EventType)
  BY <1>4 DEF Joined2
<1>6. Joined2(q, sa \o sb) /\ Joined2(q, sa \o sbc) /\ Joined2(q, sab \o sc) /\ Joined2(sa \o sbc, sd)
  BY <1>1, <1>2, <1>5
<1>7. (sa \o sbc) \o sd \in Seq(EventType)
  BY <1>6 DEF Joined2
<1>8. Joined2(q, (sa \o sbc) \o sd)
  BY <1>1, <1>7
<1>9. q \o sa \in Seq(EventType) /\ Adds1(q, q \o sa, a)
  BY <1>3, <1>4 DEF Joined2, Adds1
<1>10. q \o sab \in Seq(EventType) /\ Adds2(q, q \o sab, a, b)
  BY <1>3, <1>4 DEF Joined2, Adds2
<1>11. q \o (sa \o sb) \in Seq(EventType) /\ Adds2(q, q \o (sa \o sb), a, b)
  BY <1>3, <1>4, <1>6 DEF Joined2, Adds2
<1>12. q \o (sa \o sbc) \in Seq(EventType) /\ Adds3(q, q \o (sa \o sbc), a, b, c)
  BY <1>3, <1>4, <1>6 DEF Joined2, Adds3
<1>13. q \o (sab \o sc) \in Seq(EventType) /\ Adds3(q, q \o (sab \o sc), a, b, c)
  BY <1>3, <1>4, <1>6 DEF Joined2, Adds3
<1>14. q \o ((sa \o sbc) \o sd) \in Seq(EventType) /\ Adds4(q, q \o ((sa \o sbc) \o sd), a, b, c, d)
  <2>1. q \o ((sa \o sbc) \o sd) \in Seq(EventType)
    BY <1>8 DEF Joined2
  <2>2. \A S : In((sa \o sbc) \o sd, S) <=> a \in S \/ b \in S \/ c \in S \/ d \in S
    BY <1>3, <1>4, <1>6 DEF Joined2
  <2>3. \A S, T : /\ a \in S => b \notin T /\ c \notin T /\ d \notin T
                  /\ b \in S => c \notin T /\ d \notin T
                  /\ c \in S => d \notin T
                  => Behind((sa \o sbc) \o sd, S, T)
    BY <1>3, <1>4, <1>6 DEF Joined2
  <2>4. /\ \A S : In(q \o ((sa \o sbc) \o sd), S) <=> In(q, S) \/ In((sa \o sbc) \o sd, S)
        /\ \A S, T : /\ Behind(q, S, T) /\ Behind((sa \o sbc) \o sd, S, T)
                     /\ ~(In(q, S) /\ In((sa \o sbc) \o sd, T))
                     => Behind(q \o ((sa \o sbc) \o sd), S, T)
    BY <1>8 DEF Joined2
  <2> DEFINE u == (sa \o sbc) \o sd
  <2> HIDE DEF u
  <2>5. Adds4(q, q \o u, a, b, c, d)
    BY <2>2, <2>3, <2>4 DEF Adds4, u
  <2> QED BY <2>1, <2>5 DEF u
<1> QED
  BY <1>9, <1>10, <1>11, <1>12, <1>13, <1>14 DEF sa, sb, sc, sd, sab, sbc

LEMMA StateIs ==
  ASSUME NEW live \in BOOLEAN, NEW route \in Routes
  PROVE  \E a, c \in EventType :
           /\ State(live, route) = <<a, c>>
           /\ a.kind = "status" /\ c.kind = "catalog" /\ c.to = route
<1> DEFINE a == Told("status", 0, live)
           c == Event("catalog", 0, TRUE, route, {})
<1>1. a \in EventType /\ a.kind = "status"
  BY ToldTyped, Constants DEF EventKinds
<1>2. "catalog" \in EventKinds /\ 0 \in 0..MaxPrompts /\ {} \in SUBSET (1..MaxPrompts) /\ TRUE \in BOOLEAN
  BY Constants DEF EventKinds
<1>4. c \in EventType /\ c.kind = "catalog" /\ c.to = route
  BY <1>2 DEF Event, EventType
<1>3. State(live, route) = <<a, c>>
  BY DEF State
<1> QED BY <1>1, <1>4, <1>3

-----------------------------------------------------------------------------
(* The adapter takes a request *)

LEMMA TakeModelStep == ASSUME IInv, TakeModel PROVE IInv'
<1> DEFINE r == Head(toAgent)
           goal == IF temp.phase = "selecting" THEN temp.target ELSE temp.original
<1>0. TypeOK /\ Staged /\ OneBody /\ OneRequest /\ OneOwner /\ Placed /\ RightRoute /\ NotTwice
  BY DEF IInv
<1>1. /\ r \in RequestType /\ r.kind = "model"
      /\ toAgent' \in Seq(RequestType) /\ Popped(toAgent, toAgent', r)
  BY <1>0, Taken DEF TakeModel
<1>2. /\ UNCHANGED <<tui, piRunning, piQueue, starting, ran, dropped>>
      /\ \/ piRoute' = r.to /\ Emit(State(piRunning, r.to))
         \/ piRoute' \in {piRoute, r.to} /\ Emit(<<Told("model-error", 0, FALSE)>>)
  BY DEF TakeModel
<1> HIDE DEF r
<1>c. /\ r \in ModelAsks /\ r \in OtherAsks /\ \A to : r \in AwayAsks(to) <=> r.to # to
  BY <1>1, ModelClass
<1>3. In(toAgent, ModelAsks)
  BY <1>1, <1>c DEF Popped
<1>s. /\ temp.phase \in {"selecting", "restoring"} /\ Changing(goal)
      /\ ~owner.snapshot /\ ~Busy /\ owner.id # 0 /\ temp.original = Base
  BY <1>0, <1>3 DEF Staged, Quiet, Capturing, Busy, Working, TypeOK, TempType, Phases
<1>g. UNCHANGED <<goal, temp, owner, local, remote, sending, clearing, clearSent, submitted, interrupts, returned, current>>
  BY <1>2 DEF tui, pending
<1> HIDE DEF goal
<1>4. /\ r.to = goal /\ ~In(toAgent', OtherAsks) /\ ~Out /\ r.to \in Routes
      /\ ~In(toTui, Catalogs) /\ ~In(toTui, ModelErrors) /\ ~In(toTui, Changes)
  BY <1>0, <1>1, <1>c, <1>3, <1>s, InEvents DEF Changing, Popped, OneRequest, RequestType
<1>5. /\ ~In(toAgent', ModelAsks) /\ ~In(toAgent', CaptureAsks) /\ ~In(toAgent', BodyAsks)
      /\ ~In(toAgent', SteerAsks) /\ \A p, to : ~In(toAgent', StrayAsks(p, to))
      /\ \A to : ~In(toAgent', AwayAsks(to))
  BY <1>4, InRequests
<1>6. toTui' \in Seq(EventType) /\ OneRequest' /\ Changing(goal)' /\ (\A S : S = Refusals \/ S = News => In(toTui', S) <=> In(toTui, S))
  <2>1. CASE piRoute' = r.to /\ Emit(State(piRunning, r.to))
    <3>1. PICK a \in EventType, c \in EventType :
             /\ State(piRunning, r.to) = <<a, c>>
             /\ a.kind = "status" /\ c.kind = "catalog" /\ c.to = r.to
      BY <1>0, <1>4, StateIs DEF TypeOK
    <3>2. toTui' \in Seq(EventType) /\ Adds2(toTui, toTui', a, c)
      BY <1>0, <2>1, <3>1, AddsConcat DEF Emit, TypeOK
    <3>3. OneRequest'
      BY <1>0, <1>1, <1>2, <3>1, <3>2, SilentClass, CatalogClass
      DEF OneRequest, Popped, Adds2, tui, pending
    <3>4. Changing(goal)'
      BY <1>0, <1>2, <1>g, <1>s, <1>4, <1>5, <2>1, <3>1, <3>2, SilentClass, CatalogClass
      DEF Changing, Adds2, Out, Unanswered
    <3> QED BY <3>1, <3>2, <3>3, <3>4, SilentClass, CatalogClass DEF Adds2
  <2>2. CASE piRoute' \in {piRoute, r.to} /\ Emit(<<Told("model-error", 0, FALSE)>>)
    <3> DEFINE a == Told("model-error", 0, FALSE)
    <3>1. a \in EventType /\ a.kind = "model-error"
      BY ToldTyped, Constants DEF EventKinds
    <3>2. toTui' \in Seq(EventType) /\ Adds1(toTui, toTui', a)
      BY <1>0, <2>2, <3>1, AddsConcat DEF Emit, TypeOK
    <3> HIDE DEF a
    <3>3. OneRequest'
      BY <1>0, <1>1, <1>2, <3>1, <3>2, ModelErrorClass DEF OneRequest, Popped, Adds1, tui, pending
    <3>4. Changing(goal)'
      BY <1>0, <1>2, <1>g, <1>s, <1>4, <1>5, <3>1, <3>2, ModelErrorClass
      DEF Changing, Adds1, Out, Unanswered
    <3> QED BY <3>1, <3>2, <3>3, <3>4, ModelErrorClass DEF Adds1
  <2> QED BY <1>2, <2>1, <2>2
<1>7. TypeOK'
  BY <1>0, <1>1, <1>2, <1>4, <1>6 DEF TypeOK, tui, pending, status
<1>8. Staged'
  BY <1>0, <1>2, <1>g, <1>s, <1>6 DEF Staged, Busy, Waiting, tui, goal
<1>9. OneBody' /\ OneOwner'
  BY <1>0, <1>2, <1>4, <1>5 DEF OneBody, OneOwner, Out, Unanswered, tui, TypeOK
<1>10. Placed'
  BY <1>0, <1>2, <1>4, <1>5, <1>6 DEF Placed, Out, Unanswered, RanIds, Waiting, tui, pending
<1> QED BY <1>0, <1>2, <1>6, <1>7, <1>8, <1>9, <1>10, SameRuns DEF IInv, tui

\* Only a Record without a route has it read.
LEMMA TakeCaptureStep == ASSUME IInv, TakeCapture PROVE IInv'
<1> DEFINE r == Head(toAgent)
           c == Event("captured", r.p.rec, TRUE, piRoute, {})
           d == Told("captured", r.p.rec, FALSE)
<1>0. TypeOK /\ Staged /\ OneBody /\ OneRequest /\ OneOwner /\ Placed /\ RightRoute /\ NotTwice
  BY DEF IInv
<1>1. /\ r \in RequestType /\ r.kind = "capture"
      /\ toAgent' \in Seq(RequestType) /\ Popped(toAgent, toAgent', r)
  BY <1>0, Taken DEF TakeCapture
<1>2. /\ UNCHANGED <<tui, pi, ran, dropped>>
      /\ Emit(State(piRunning, piRoute) \o <<c>>) \/ Emit(<<d>>)
  BY DEF TakeCapture
<1>e. /\ c \in EventType /\ c.kind = "captured" /\ c.to = piRoute
      /\ d \in EventType /\ d.kind = "captured" /\ ~d.ok
  <2>1. r.p.rec \in 0..MaxPrompts /\ piRoute \in Routes /\ "captured" \in EventKinds
    BY <1>0, <1>1 DEF RequestType, PromptLike, TypeOK, EventKinds
  <2>2. c \in EventType /\ c.kind = "captured" /\ c.to = piRoute
    BY <2>1 DEF Event, EventType
  <2> HIDE DEF r
  <2>3. d \in EventType /\ d.kind = "captured" /\ d.ok = FALSE
    BY <2>1, Constants DEF Told, Event, EventType
  <2> QED BY <2>2, <2>3
<1> HIDE DEF r, c, d
<1>c. r \in CaptureAsks /\ r \in OtherAsks
  BY <1>1, CaptureClass
<1>3. In(toAgent, CaptureAsks) /\ In(toAgent, OtherAsks) /\ ~In(toAgent', OtherAsks)
  BY <1>0, <1>1, <1>c DEF Popped, OneRequest
<1>s. owner.snapshot /\ Capturing /\ temp.phase = "none" /\ ~owner.sent /\ ~Busy /\ ~Waiting
  BY <1>0, <1>3 DEF Staged, Quiet, Changing, Busy, Waiting, Waits, Working, TypeOK, TempType, Phases,
     OneOwner
<1>4. ~In(toTui, Catalogs) /\ ~In(toTui, Captures) /\ ~In(toTui, Reads)
  BY <1>3, <1>s, InEvents DEF Capturing
<1>5. PICK a \in EventType, b \in EventType :
         /\ State(piRunning, piRoute) = <<a, b>>
         /\ a.kind = "status" /\ b.kind = "catalog" /\ b.to = piRoute
  BY <1>0, StateIs DEF TypeOK
<1>6. toTui' \in Seq(EventType) /\ (Adds3(toTui, toTui', a, b, c) \/ Adds1(toTui, toTui', d))
  <2>0. toTui \in Seq(EventType) /\ c \in EventType /\ d \in EventType
    BY <1>0, <1>e DEF TypeOK
  <2>1. CASE toTui' = toTui \o (<<a, b>> \o <<c>>)
    <3>1. /\ toTui \o (<<a, b>> \o <<c>>) \in Seq(EventType)
          /\ Adds3(toTui, toTui \o (<<a, b>> \o <<c>>), a, b, c)
      BY <2>0, AddsConcat
    <3> QED BY <2>1, <3>1
  <2>2. CASE toTui' = toTui \o <<d>>
    <3>1. toTui \o <<d>> \in Seq(EventType) /\ Adds1(toTui, toTui \o <<d>>, d)
      BY <2>0, AddsConcat
    <3> QED BY <2>2, <3>1
  <2> QED BY <1>2, <1>5, <2>1, <2>2 DEF Emit
<1>7. /\ \A S : S \in {News, ModelErrors, Settlements, Refusals, ClearedAny} => (In(toTui', S) <=> In(toTui, S))
      /\ Behind(toTui', Captures, Reads)
      /\ Behind(toTui, ClearedAny, ClearedAny) => Behind(toTui', ClearedAny, ClearedAny)
      /\ ~In(toTui', AwayCaptures(piRoute)) /\ (~In(toTui, AwayCatalogs(piRoute)) => ~In(toTui', AwayCatalogs(piRoute)))
  <2>1. CASE Adds3(toTui, toTui', a, b, c)
    BY <1>4, <1>5, <1>e, <1>s, <2>1, SilentClass, CatalogClass, CapturedClass DEF Adds3, Capturing
  <2>2. CASE Adds1(toTui, toTui', d)
    BY <1>4, <1>e, <1>s, <2>2, CapturedClass DEF Adds1, Capturing
  <2> QED BY <1>6, <2>1, <2>2
<1>8. TypeOK'
  BY <1>0, <1>1, <1>2, <1>6 DEF TypeOK, tui, pending, pi, status
<1>9. ~In(toAgent', CaptureAsks) /\ ~In(toAgent', ModelAsks) /\ ~In(toAgent', BodyAsks)
      /\ ~In(toAgent', SteerAsks) /\ \A p, to : ~In(toAgent', StrayAsks(p, to))
  BY <1>3, InRequests
<1>10. Staged'
  <2>1. UNCHANGED <<owner, temp, piRoute, piQueue, starting, current, remote, sending>>
    BY <1>2 DEF tui, pending, pi
  <2>2. Capturing'
    BY <1>s, <1>7, <1>9, <2>1 DEF Capturing, Out, Unanswered
  <2>3. ~Busy'
    BY <1>s, <2>1 DEF Busy, Waiting
  <2> QED BY <1>0, <1>s, <1>7, <2>1, <2>2, <2>3 DEF Staged
<1>11. OneBody' /\ OneOwner' /\ OneRequest'
  BY <1>0, <1>1, <1>2, <1>7, <1>9 DEF OneBody, OneOwner, OneRequest, Popped, Unanswered, tui, pending, pi
<1>12. Placed'
  BY <1>0, <1>2, <1>s, <1>7, <1>9 DEF Placed, Out, Unanswered, RanIds, Waiting, tui, pending, pi
<1> QED BY <1>0, <1>2, <1>8, <1>10, <1>11, <1>12, SameRuns DEF IInv, tui

\* An event that is in none of the classes, or no event.
Quietly(q, r, a) ==
  /\ a \in EventType /\ a.kind \in {"started", "settled", "status", "dispatched"}
  /\ \A S : a \notin S => (In(r, S) <=> In(q, S))
  /\ \A S, T : a \notin T /\ Behind(q, S, T) => Behind(r, S, T)

LEMMA TakeInputStep == ASSUME IInv, TakeInput PROVE IInv'
<1> DEFINE r == Head(toAgent)
           x == [id |-> r.p.id, to |-> r.to]
           d == Told("dispatched", r.p.id, TRUE)
<1>0. TypeOK /\ Staged /\ OneBody /\ OneRequest /\ OneOwner /\ Placed /\ RightRoute /\ NotTwice
  BY DEF IInv
<1>1. /\ r \in RequestType /\ r.kind = "input"
      /\ toAgent' \in Seq(RequestType) /\ Popped(toAgent, toAgent', r)
  BY <1>0, Taken DEF TakeInput
<1>2. /\ UNCHANGED <<tui, piRoute, piRunning, piQueue, ran, dropped>>
      /\ starting' = starting \cup {x}
      /\ Emit(<<d>>) \/ Emit(<<>>)
  BY DEF TakeInput
<1>d. d \in EventType /\ d.kind = "dispatched" /\ x.id = r.p.id /\ x.to = r.to
  <2>1. r.p.id \in 0..MaxPrompts /\ "dispatched" \in EventKinds
    BY <1>1 DEF RequestType, PromptLike, EventKinds
  <2> HIDE DEF r
  <2>2. d \in EventType /\ d.kind = "dispatched"
    BY <2>1, Constants DEF Told, Event, EventType
  <2> QED BY <2>2
<1>x. r.p.id \in 1..MaxPrompts /\ r.to \in Routes => x \in BodyType
  BY DEF BodyType
<1> HIDE DEF r, x, d
<1>c. /\ r \in BodyAsks /\ r \in OtherAsks
      /\ \A p, to : r \in StrayAsks(p, to) <=> r.p.id # p \/ r.to # to
  BY <1>1, InputClass
<1>3. In(toAgent, BodyAsks) /\ ~In(toAgent', OtherAsks)
  BY <1>0, <1>1, <1>c DEF Popped, OneRequest
<1>9. ~In(toAgent', CaptureAsks) /\ ~In(toAgent', ModelAsks) /\ ~In(toAgent', BodyAsks)
      /\ ~In(toAgent', SteerAsks) /\ \A p, to : ~In(toAgent', StrayAsks(p, to))
  BY <1>3, InRequests
<1>s. Unanswered /\ Out /\ Waiting /\ Working /\ temp.phase = "active" /\ ~owner.snapshot /\ Unlisted
  BY <1>0, <1>3
  DEF Staged, Quiet, Capturing, Changing, Busy, Working, Out, Unanswered, TypeOK, TempType, Phases
<1>4. starting = {} /\ piQueue = <<>> /\ r.p.id = owner.prompt /\ r.to = piRoute /\ owner.prompt # 0
  BY <1>0, <1>1, <1>3, <1>c, <1>s DEF OneBody, Popped, Waiting, Waits, OneOwner
<1>5. x \in BodyType /\ x.id = owner.prompt /\ x.to = piRoute /\ starting' = {x}
  BY <1>0, <1>1, <1>2, <1>4, <1>d, <1>x DEF TypeOK, OwnerType
<1>6. toTui' \in Seq(EventType) /\ Quietly(toTui, toTui', d)
  <2>1. CASE Emit(<<d>>)
    <3>1. toTui' \in Seq(EventType) /\ Adds1(toTui, toTui', d)
      BY <1>0, <1>d, <2>1, AddsConcat DEF Emit, TypeOK
    <3> QED BY <1>d, <3>1 DEF Adds1, Quietly
  <2>2. CASE Emit(<<>>)
    <3>1. toTui' = toTui
      BY <1>0, <2>2 DEF Emit, TypeOK
    <3> QED BY <1>0, <1>d, <3>1 DEF Quietly, TypeOK
  <2> QED BY <1>2, <2>1, <2>2
<1>7. TypeOK'
  BY <1>0, <1>1, <1>2, <1>5, <1>6 DEF TypeOK, tui, pending, status
<1>8. Staged'
  <2>1. UNCHANGED <<owner, temp, piRoute, piQueue, current, remote, sending>>
    BY <1>2 DEF tui, pending
  <2>2. Waiting' /\ Busy'
    BY <1>s, <2>1 DEF Waiting, Busy
  <2>3. /\ \A S : S \in {Captures, ModelErrors, News, Handleds, Answers, Ends, Bars, Submitteds, ClearedAny, Listings}
                     => (In(toTui', S) <=> In(toTui, S))
        /\ Behind(toTui, Ends, News) => Behind(toTui', Ends, News)
        /\ Behind(toTui, Settlements, Reports) => Behind(toTui', Settlements, Reports)
        /\ Behind(toTui, Submitteds, Submitteds) => Behind(toTui', Submitteds, Submitteds)
        /\ In(toTui', AwayCatalogs(piRoute)) <=> In(toTui, AwayCatalogs(piRoute))
    BY <1>6, SilentClass DEF Quietly
  <2>4. Working'
    BY <1>1, <1>9, <1>s, <2>1, <2>2, <2>3 DEF Working, Unlisted, Out, Unanswered, Popped
  <2> QED BY <1>0, <1>s, <2>1, <2>2, <2>3, <2>4 DEF Staged
<1>10. OneBody' /\ OneOwner' /\ OneRequest'
  <2>1. UNCHANGED <<owner, piRoute, piQueue, sending, clearing, clearSent>>
    BY <1>2 DEF tui, pending
  <2>2. (In(toTui', ClearedAny) <=> In(toTui, ClearedAny)) /\ (Behind(toTui, ClearedAny, ClearedAny) => Behind(toTui', ClearedAny, ClearedAny))
    BY <1>6, SilentClass DEF Quietly
  <2> QED BY <1>0, <1>1, <1>4, <1>5, <1>9, <2>1, <2>2
  DEF OneBody, OneOwner, OneRequest, Popped, Unanswered
<1>11. Placed'
  <2>1. UNCHANGED <<owner, local, piQueue, submitted, ran, returned>>
    BY <1>2 DEF tui, pending
  <2>2. In(toTui', Refusals) <=> In(toTui, Refusals)
    BY <1>6, SilentClass DEF Quietly
  <2> QED BY <1>0, <1>s, <2>1, <2>2 DEF Placed, RanIds, Waiting
<1> QED BY <1>0, <1>2, <1>7, <1>8, <1>10, <1>11, SameRuns DEF IInv, tui

LEMMA PiSettleStep == ASSUME IInv, PiSettle PROVE IInv'
<1> DEFINE d == Told("settled", 0, FALSE)
<1>0. TypeOK /\ Staged /\ OneBody /\ OneRequest /\ OneOwner /\ Placed /\ RightRoute /\ NotTwice
  BY DEF IInv
<1>1. d \in EventType /\ d.kind = "settled"
  <2>1. "settled" \in EventKinds /\ 0 \in 0..MaxPrompts
    BY Constants DEF EventKinds
  <2> QED BY <2>1, Constants DEF Told, Event, EventType
<1>2. /\ UNCHANGED <<tui, toAgent, piRoute, piQueue, starting, ran, dropped>>
      /\ piRunning' = FALSE /\ Emit(<<d>>)
  BY DEF PiSettle
<1> HIDE DEF d
<1>3. toTui' \in Seq(EventType) /\ Adds1(toTui, toTui', d)
  BY <1>0, <1>1, <1>2, AddsConcat DEF Emit, TypeOK
<1>4. Quietly(toTui, toTui', d)
  BY <1>1, <1>3 DEF Adds1, Quietly
<1>5. TypeOK'
  BY <1>0, <1>2, <1>3 DEF TypeOK, tui, pending, status
<1>6. Staged'
  BY <1>0, <1>2, <1>4, SilentClass
  DEF Staged, Quiet, Capturing, Changing, Working, Out, Unanswered, Unlisted, Busy, Waiting, Quietly,
     tui, pending
<1>7. OneBody' /\ OneOwner' /\ OneRequest'
  BY <1>0, <1>2, <1>4, SilentClass DEF OneBody, OneOwner, OneRequest, Quietly, Unanswered, tui, pending
<1>8. Placed'
  BY <1>0, <1>2, <1>4, SilentClass DEF Placed, Quietly, Out, Unanswered, RanIds, Waiting, tui, pending
<1> QED BY <1>0, <1>2, <1>5, <1>6, <1>7, <1>8, SameRuns DEF IInv, tui

-----------------------------------------------------------------------------
(* Pi, and the body that is out *)

\* The body runs: under the route it was promised, and it was not given back.
LEMMA Runs ==
  ASSUME RightRoute, NotTwice, NEW p, p.to = piRoute, p.id \notin returned,
         Ran(p), returned' = returned, dropped \subseteq dropped'
  PROVE  RightRoute' /\ NotTwice' /\ RanIds' = RanIds \cup {p.id}
<1> DEFINE x == [id |-> p.id, promised |-> p.to, under |-> piRoute]
<1>1. ran' = ran \cup {x} /\ x.id = p.id /\ x.promised = x.under
  BY DEF Ran
<1> HIDE DEF x
<1> QED BY <1>1 DEF RightRoute, NotTwice, RanIds

LEMMA IdsOf ==
  ASSUME NEW X, NEW s \in Seq(X)
  PROVE  Ids(s) = {} <=> s = <<>>
<1>1. CASE s = <<>>
  <2>1. DOMAIN s = {}
    BY <1>1
  <2> QED BY <1>1, <2>1 DEF Ids
<1>2. CASE s # <<>>
  <2>1. 1 \in DOMAIN s
    BY <1>2
  <2> QED BY <1>2, <2>1 DEF Ids
<1> QED BY <1>1, <1>2

LEMMA OneId ==
  ASSUME NEW p \in BodyType
  PROVE  /\ Append(<<>>, p) \in Seq(BodyType) /\ Len(Append(<<>>, p)) = 1
         /\ \A i \in DOMAIN Append(<<>>, p) : Append(<<>>, p)[i] = p
         /\ Ids(Append(<<>>, p)) = {p.id}
<1> DEFINE s == Append(<<>>, p)
<1>1. s \in Seq(BodyType) /\ Len(s) = 1 /\ DOMAIN s = {1} /\ s[1] = p
  <2>1. <<>> \in Seq(BodyType)
    OBVIOUS
  <2> QED BY <2>1, AppendProperties
<1> HIDE DEF s
<1>2. Ids(s) = {p.id}
  BY <1>1 DEF Ids
<1> QED BY <1>1, <1>2 DEF s

\* While a body is out it is the owner's, it has not run, and nothing of its end
\* is on its way; until it is answered nothing of it is.
LEMMA OutIs ==
  ASSUME IInv, Out
  PROVE  /\ Waiting /\ Busy /\ Working /\ temp.phase = "active" /\ ~owner.snapshot
         /\ owner.prompt \in 1..MaxPrompts /\ owner.prompt \in 1..submitted
         /\ owner.prompt \notin returned /\ owner.prompt \notin RanIds /\ owner.prompt \notin Ids(local)
         /\ ~In(toTui, Ends) /\ ~In(toTui, Handleds) /\ ~In(toTui, Refusals)
         /\ Unanswered => /\ Unlisted /\ piQueue = <<>>
                          /\ ~In(toTui, Answers) /\ ~In(toTui, News) /\ ~In(toTui, Bars)
                          /\ ~In(toTui, Submitteds)
<1>0. TypeOK /\ Staged /\ OneBody /\ OneOwner /\ Placed
  BY DEF IInv
<1>1. Waiting /\ Working /\ temp.phase = "active" /\ ~owner.snapshot /\ Busy
  BY <1>0 DEF Staged, Quiet, Capturing, Changing, Busy, Working, TypeOK, TempType, Phases
<1>2. owner.sent /\ owner.prompt # 0
  BY <1>0, <1>1 DEF Waiting, Waits, OneOwner
<1>3. owner.prompt \in 0..MaxPrompts /\ owner.prompt \in 0..submitted /\ submitted \in 0..MaxPrompts
  BY <1>0 DEF TypeOK, OwnerType, Placed
<1>4. owner.prompt \in 1..MaxPrompts /\ owner.prompt \in 1..submitted
  BY <1>2, <1>3
<1>5. ~In(toTui, Ends) /\ ~In(toTui, Handleds)
  BY <1>1 DEF Working
<1>6. In(toTui, Refusals) => In(toTui, Ends)
  BY DEF In, Refusals, Ends, Answers, Submitteds, EventsOf
<1>7. Unanswered => /\ Unlisted /\ piQueue = <<>>
                    /\ ~In(toTui, Answers) /\ ~In(toTui, News) /\ ~In(toTui, Bars)
                    /\ ~In(toTui, Submitteds)
  BY <1>0, <1>1, InEvents DEF Working, OneBody, Unlisted
<1> QED BY <1>0, <1>1, <1>2, <1>4, <1>5, <1>6, <1>7 DEF Placed

\* A channel that lost requests at most.
Fewer(q, r) ==
  /\ \A S : In(r, S) => In(q, S)
  /\ \A S, T : Behind(q, S, T) => Behind(r, S, T)

\* What a step of Pi with the body that is out has to show.
LEMMA BodyStep ==
  ASSUME IInv, Out, UNCHANGED <<tui, piRoute>>,
         toAgent' \in Seq(RequestType), Fewer(toAgent, toAgent'),
         toTui' \in Seq(EventType), piRunning' \in BOOLEAN, piQueue' \in Seq(BodyType),
         starting' \subseteq starting,
         \A i \in DOMAIN piQueue' : piQueue'[i].id = owner.prompt /\ piQueue'[i].to = piRoute,
         Len(piQueue') <= 1, Unanswered' => piQueue' = <<>>,
         In(toTui', ClearedAny) <=> In(toTui, ClearedAny), Behind(toTui', ClearedAny, ClearedAny),
         Working', ~In(toTui', AwayCatalogs(piRoute)),
         RightRoute', NotTwice', RanIds' \subseteq RanIds \cup {owner.prompt},
         owner.prompt \in RanIds' => ~Out' /\ ~In(toTui', Refusals)
  PROVE  IInv'
<1>0. TypeOK /\ Staged /\ OneBody /\ OneRequest /\ OneOwner /\ Placed
  BY DEF IInv
<1>1. /\ UNCHANGED <<local, remote, sending, failed, clearing, clearSent, running, current, temp, owner,
                     submitted, interrupts, returned, piRoute>>
  BY DEF tui, pending, status
<1>2. /\ Waiting /\ Busy /\ temp.phase = "active" /\ ~owner.snapshot
      /\ owner.prompt \in 1..submitted
      /\ owner.prompt \notin returned /\ owner.prompt \notin RanIds /\ owner.prompt \notin Ids(local)
  BY OutIs
<1>3. TypeOK'
  <2>1. starting' \in SUBSET BodyType
    BY <1>0 DEF TypeOK
  <2> QED BY <1>0, <1>1, <2>1 DEF TypeOK
<1>4. Waiting' /\ Busy'
  BY <1>1, <1>2 DEF Waiting, Busy
<1>5. Staged'
  BY <1>0, <1>1, <1>2, <1>4 DEF Staged
<1>6. OneBody'
  BY <1>0, <1>1 DEF OneBody, Fewer
<1>7. OneRequest'
  BY <1>0, <1>1 DEF OneRequest, Fewer
<1>8. OneOwner'
  BY <1>0, <1>1 DEF OneOwner
<1>9. Placed'
  <2>1. Ids(local)' = Ids(local) /\ Distinct(local)' = Distinct(local)
    BY <1>1 DEF Ids, Distinct
  <2>2. RanIds' \subseteq 1..submitted
    BY <1>0, <1>2 DEF Placed
  <2>3. Ids(local) \subseteq 1..submitted \ (RanIds' \cup returned)
    BY <1>0, <1>2 DEF Placed
  <2>4. Out' \/ In(toTui', Refusals) => owner.prompt \notin RanIds'
    OBVIOUS
  <2> QED BY <1>0, <1>1, <1>2, <1>4, <2>1, <2>2, <2>3, <2>4 DEF Placed
<1> QED BY <1>3, <1>5, <1>6, <1>7, <1>8, <1>9 DEF IInv

\* Bodies that have not been answered: the one on its way or the one Pi looks at.
LEMMA Answering ==
  ASSUME IInv, Unanswered, UNCHANGED <<tui, piRoute, starting>> \/ (UNCHANGED <<tui, piRoute>> /\ starting' = {}),
         starting = {} \/ starting' = {},
         In(toAgent', BodyAsks) => FALSE, Fewer(toAgent, toAgent')
  PROVE  /\ ~Unanswered' /\ Waiting' /\ owner' = owner /\ sending' = sending
         /\ (Out' <=> piQueue' # <<>>)
         /\ ~In(toAgent', CaptureAsks) /\ ~In(toAgent', ModelAsks) /\ ~In(toAgent', SteerAsks)
<1>1. Waiting /\ Working
  BY OutIs DEF Out
<1>2. owner' = owner /\ sending' = sending
  BY DEF tui, pending
<1>3. ~Unanswered'
  BY DEF Unanswered
<1> QED BY <1>1, <1>2, <1>3, InRequests DEF Out, Waiting, Working, Fewer

LEMMA TakeSteerStep == ASSUME IInv, TakeSteer PROVE IInv'
<1> DEFINE r == Head(toAgent)
           p == [id |-> r.p.id, to |-> r.to]
           a == Event("submitted", 0, TRUE, None, Ids(Joining(p)))
           b == Told("started", 0, TRUE)
           c == Told("user", p.id, TRUE)
           d == Event("submitted", 0, FALSE, None, Ids(piQueue))
<1>0. TypeOK /\ Staged /\ OneBody /\ OneRequest /\ OneOwner /\ Placed /\ RightRoute /\ NotTwice
  BY DEF IInv
<1>1. /\ r \in RequestType /\ r.kind = "steer"
      /\ toAgent' \in Seq(RequestType) /\ Popped(toAgent, toAgent', r)
  BY <1>0, Taken DEF TakeSteer
<1>2. /\ UNCHANGED <<tui, piRoute, starting, dropped>>
      /\ \/ piRunning /\ piRunning' = TRUE /\ piQueue' = Append(piQueue, p) /\ Emit(<<a>>) /\ UNCHANGED ran
         \/ ~piRunning /\ piRunning' = TRUE /\ piQueue' = piQueue /\ Emit(<<a>> \o <<b, c>>) /\ Ran(p)
         \/ Emit(<<d>>) /\ UNCHANGED <<piRunning, piQueue, ran>>
      /\ piRunning => Joining(p) = Append(piQueue, p)
      /\ ~piRunning => Joining(p) = piQueue
  BY <1>0 DEF TakeSteer, Accept, Joining, TypeOK
<1>d. p.id = r.p.id /\ p.to = r.to
  OBVIOUS
<1>x. r.p.id \in 1..MaxPrompts /\ r.to \in Routes => p \in BodyType
  BY DEF BodyType
<1>a. /\ a = Event("submitted", 0, TRUE, None, Ids(Joining(p))) /\ b = Told("started", 0, TRUE)
      /\ c = Told("user", p.id, TRUE) /\ d = Event("submitted", 0, FALSE, None, Ids(piQueue))
  OBVIOUS
<1> HIDE DEF r, p, a, b, c, d
<1>c. /\ r \in BodyAsks /\ r \in OtherAsks /\ r \in SteerAsks
      /\ \A q, to : r \in StrayAsks(q, to) <=> r.p.id # q \/ r.to # to
  BY <1>1, SteerClass
<1>3. In(toAgent, BodyAsks) /\ ~In(toAgent', OtherAsks) /\ In(toAgent, SteerAsks)
  BY <1>0, <1>1, <1>c DEF Popped, OneRequest
<1>4. ~In(toAgent', BodyAsks) /\ Fewer(toAgent, toAgent') /\ Unanswered /\ Out
  BY <1>1, <1>3, InRequests DEF Popped, Fewer, Unanswered, Out
<1>o. /\ Waiting /\ Working /\ owner.prompt \in 1..MaxPrompts /\ owner.prompt \notin returned
      /\ owner.prompt \notin RanIds /\ ~In(toTui, Ends) /\ ~In(toTui, Handleds) /\ ~In(toTui, Refusals)
      /\ Unlisted /\ piQueue = <<>> /\ ~In(toTui, Answers) /\ ~In(toTui, News) /\ ~In(toTui, Bars)
      /\ ~In(toTui, Submitteds) /\ temp.phase = "active"
  BY <1>4, OutIs
<1>5. starting = {} /\ p.id = owner.prompt /\ p.to = piRoute
  BY <1>0, <1>1, <1>3, <1>c, <1>d DEF OneBody, Popped
<1>6. p \in BodyType
  BY <1>0, <1>5, <1>d, <1>o, <1>x DEF TypeOK
<1>7. /\ ~Unanswered' /\ Waiting' /\ owner' = owner /\ sending' = sending
      /\ (Out' <=> piQueue' # <<>>)
      /\ ~In(toAgent', CaptureAsks) /\ ~In(toAgent', ModelAsks) /\ ~In(toAgent', SteerAsks)
  BY <1>2, <1>4, <1>5, Answering
<1>8. ~In(toTui, AwayCatalogs(piRoute)) /\ sending.id = owner.prompt
  BY <1>0, <1>3, <1>o DEF Staged, Working
<1>9. Ids(<<>>) = {}
  BY DEF Ids
<1>10. Ids(Joining(p)) \in SUBSET (1..MaxPrompts) /\ Ids(piQueue) = {}
  BY <1>2, <1>5, <1>6, <1>9, <1>o, OneId
<1>e. /\ a \in EventType /\ a.kind = "submitted" /\ a.ok
      /\ b \in EventType /\ b.kind = "started"
      /\ c \in EventType /\ c.kind = "user"
      /\ d \in EventType /\ d.kind = "submitted" /\ ~d.ok
  <2>1. /\ "submitted" \in EventKinds /\ "started" \in EventKinds /\ "user" \in EventKinds
        /\ 0 \in 0..MaxPrompts /\ p.id \in 0..MaxPrompts /\ {} \in SUBSET (1..MaxPrompts)
    BY <1>5, <1>o, Constants DEF EventKinds
  <2>2. a \in EventType /\ a.kind = "submitted" /\ a.ok
    BY <1>10, <1>a, <2>1, Constants DEF Event, EventType
  <2>3. d \in EventType /\ d.kind = "submitted" /\ ~d.ok
    BY <1>10, <1>a, <2>1, Constants DEF Event, EventType
  <2>4. b \in EventType /\ b.kind = "started" /\ c \in EventType /\ c.kind = "user"
    BY <1>a, <2>1, Constants DEF Told, Event, EventType
  <2> QED BY <2>2, <2>3, <2>4
<1>11. CASE piRunning /\ piRunning' = TRUE /\ piQueue' = Append(piQueue, p) /\ Emit(<<a>>) /\ UNCHANGED ran
  <2>1. toTui' \in Seq(EventType) /\ Adds1(toTui, toTui', a)
    BY <1>0, <1>11, <1>e, AddsConcat DEF Emit, TypeOK
  <2>2. /\ piQueue' \in Seq(BodyType) /\ Len(piQueue') = 1
        /\ \A i \in DOMAIN piQueue' : piQueue'[i] = p
    BY <1>11, <1>6, <1>o, OneId
  <2>3. Working'
    BY <1>7, <1>8, <1>e, <1>o, <2>1, SubmissionClass DEF Working, Adds1
  <2>4. RightRoute' /\ NotTwice' /\ RanIds' = RanIds
    BY <1>0, <1>2, <1>11, SameRuns DEF tui, RanIds
  <2>5. /\ In(toTui', ClearedAny) <=> In(toTui, ClearedAny)
        /\ Behind(toTui', ClearedAny, ClearedAny) /\ ~In(toTui', AwayCatalogs(piRoute))
    BY <1>0, <1>8, <1>e, <2>1, SubmissionClass DEF OneRequest, Adds1
  <2> QED BY <1>1, <1>2, <1>4, <1>5, <1>7, <1>11, <1>o, <2>1, <2>2, <2>3, <2>4, <2>5, BodyStep
<1>12. CASE ~piRunning /\ piRunning' = TRUE /\ piQueue' = piQueue /\ Emit(<<a>> \o <<b, c>>) /\ Ran(p)
  <2>1. toTui' \in Seq(EventType) /\ Adds3(toTui, toTui', a, b, c)
    BY <1>0, <1>12, <1>e, AddsConcat DEF Emit, TypeOK
  <2>2. piQueue' \in Seq(BodyType) /\ Len(piQueue') = 0 /\ piQueue' = <<>> /\ ~Out'
    BY <1>12, <1>7, <1>o
  <2>3. Working'
    BY <1>7, <1>8, <1>e, <1>o, <2>1, <2>2, SubmissionClass, SilentClass, UserClass DEF Working, Adds3
  <2>4. RightRoute' /\ NotTwice' /\ RanIds' = RanIds \cup {owner.prompt}
    BY <1>0, <1>2, <1>5, <1>12, <1>o, Runs DEF tui
  <2>5. /\ In(toTui', ClearedAny) <=> In(toTui, ClearedAny)
        /\ Behind(toTui', ClearedAny, ClearedAny) /\ ~In(toTui', AwayCatalogs(piRoute)) /\ ~In(toTui', Refusals)
    BY <1>0, <1>8, <1>e, <1>o, <2>1, SubmissionClass, SilentClass, UserClass DEF OneRequest, Adds3
  <2> QED BY <1>1, <1>2, <1>4, <1>5, <1>7, <1>12, <1>o, <2>1, <2>2, <2>3, <2>4, <2>5, BodyStep
<1>13. CASE Emit(<<d>>) /\ UNCHANGED <<piRunning, piQueue, ran>>
  <2>1. toTui' \in Seq(EventType) /\ Adds1(toTui, toTui', d)
    BY <1>0, <1>13, <1>e, AddsConcat DEF Emit, TypeOK
  <2>2. piQueue' \in Seq(BodyType) /\ Len(piQueue') = 0 /\ piQueue' = <<>> /\ ~Out'
    BY <1>13, <1>7, <1>o
  <2>3. Working'
    BY <1>7, <1>8, <1>e, <1>o, <2>1, <2>2, SubmissionClass DEF Working, Adds1
  <2>4. RightRoute' /\ NotTwice' /\ RanIds' = RanIds
    BY <1>0, <1>2, <1>13, SameRuns DEF tui, RanIds
  <2>5. /\ In(toTui', ClearedAny) <=> In(toTui, ClearedAny)
        /\ Behind(toTui', ClearedAny, ClearedAny) /\ ~In(toTui', AwayCatalogs(piRoute))
    BY <1>0, <1>8, <1>e, <2>1, SubmissionClass DEF OneRequest, Adds1
  <2>6. piRunning' \in BOOLEAN
    BY <1>0, <1>13 DEF TypeOK
  <2> QED BY <1>1, <1>2, <1>4, <1>5, <1>7, <1>13, <1>o, <2>1, <2>2, <2>3, <2>4, <2>5, <2>6, BodyStep
<1> QED BY <1>2, <1>11, <1>12, <1>13

\* The body Pi has started to look at is the owner's, and the only one.
LEMMA StartingIs ==
  ASSUME IInv, NEW p \in starting, starting' = starting \ {p}
  PROVE  /\ p \in BodyType /\ p.id = owner.prompt /\ p.to = piRoute
         /\ starting' = {} /\ Unanswered /\ Out /\ ~In(toAgent, BodyAsks)
<1>0. TypeOK /\ OneBody
  BY DEF IInv
<1>1. p \in BodyType /\ p.id = owner.prompt /\ p.to = piRoute
  BY <1>0 DEF TypeOK, OneBody
<1>2. ASSUME NEW x \in starting PROVE x = p
  <2>1. x \in BodyType /\ x.id = owner.prompt /\ x.to = piRoute
    BY <1>0 DEF TypeOK, OneBody
  <2> QED BY <1>1, <2>1 DEF BodyType
<1>3. starting' = {}
  BY <1>2
<1> QED BY <1>0, <1>1, <1>3 DEF Unanswered, Out, OneBody

LEMMA Unchanged == Fewer(toAgent, toAgent)
BY DEF Fewer

LEMMA PiAcceptStep == ASSUME IInv, PiAccept PROVE IInv'
<1>0. TypeOK /\ Staged /\ OneBody /\ OneRequest /\ OneOwner /\ Placed /\ RightRoute /\ NotTwice
  BY DEF IInv
<1>1. PICK p \in starting :
         /\ starting' = starting \ {p}
         /\ Accept(p, (IF piRunning THEN <<Event("queue", 0, TRUE, None, Ids(Joining(p)))>> ELSE <<>>)
                      \o <<Told("admission", p.id, TRUE)>>)
         /\ UNCHANGED <<tui, toAgent, piRoute, dropped>>
  BY DEF PiAccept
<1> DEFINE a == Event("queue", 0, TRUE, None, Ids(Joining(p)))
           b == Told("admission", p.id, TRUE)
           c == Told("started", 0, TRUE)
           d == Told("user", p.id, TRUE)
<1>2. /\ \/ piRunning /\ piRunning' = TRUE /\ piQueue' = Append(piQueue, p) /\ Emit(<<a>> \o <<b>>) /\ UNCHANGED ran
         \/ ~piRunning /\ piRunning' = TRUE /\ piQueue' = piQueue /\ Emit((<<>> \o <<b>>) \o <<c, d>>) /\ Ran(p)
      /\ piRunning => Joining(p) = Append(piQueue, p)
      /\ ~piRunning => Joining(p) = piQueue
  BY <1>0, <1>1 DEF Accept, Joining, TypeOK
<1>a. /\ a = Event("queue", 0, TRUE, None, Ids(Joining(p))) /\ b = Told("admission", p.id, TRUE)
      /\ c = Told("started", 0, TRUE) /\ d = Told("user", p.id, TRUE)
  OBVIOUS
<1> HIDE DEF a, b, c, d
<1>3. /\ p \in BodyType /\ p.id = owner.prompt /\ p.to = piRoute
      /\ starting' = {} /\ Unanswered /\ Out /\ ~In(toAgent', BodyAsks) /\ toAgent' = toAgent
  BY <1>1, StartingIs
<1>o. /\ Waiting /\ Working /\ owner.prompt \in 1..MaxPrompts /\ owner.prompt \notin returned
      /\ owner.prompt \notin RanIds /\ ~In(toTui, Ends) /\ ~In(toTui, Handleds) /\ ~In(toTui, Refusals)
      /\ Unlisted /\ piQueue = <<>> /\ ~In(toTui, Answers) /\ ~In(toTui, News) /\ ~In(toTui, Bars)
      /\ ~In(toTui, Submitteds) /\ temp.phase = "active"
  BY <1>3, OutIs
<1>f. Fewer(toAgent, toAgent') /\ toAgent' \in Seq(RequestType)
  BY <1>0, <1>3, Unchanged DEF TypeOK
<1>4. /\ ~Unanswered' /\ Waiting' /\ owner' = owner /\ sending' = sending
      /\ (Out' <=> piQueue' # <<>>)
      /\ ~In(toAgent', CaptureAsks) /\ ~In(toAgent', ModelAsks) /\ ~In(toAgent', SteerAsks)
  BY <1>1, <1>3, <1>f, Answering
<1>8. ~In(toTui, AwayCatalogs(piRoute))
  BY <1>0, <1>o DEF Staged
<1>9. Ids(<<>>) = {}
  BY DEF Ids
<1>10. Ids(Joining(p)) \in SUBSET (1..MaxPrompts)
  BY <1>2, <1>3, <1>9, <1>o, OneId
<1>e. /\ a \in EventType /\ a.kind = "queue"
      /\ b \in EventType /\ b.kind = "admission" /\ b.ok
      /\ c \in EventType /\ c.kind = "started"
      /\ d \in EventType /\ d.kind = "user"
  <2>1. /\ "queue" \in EventKinds /\ "admission" \in EventKinds /\ "started" \in EventKinds /\ "user" \in EventKinds
        /\ 0 \in 0..MaxPrompts /\ p.id \in 0..MaxPrompts /\ {} \in SUBSET (1..MaxPrompts)
    BY <1>3, <1>o, Constants DEF EventKinds
  <2>2. a \in EventType /\ a.kind = "queue"
    BY <1>10, <1>a, <2>1, Constants DEF Event, EventType
  <2>3. b \in EventType /\ b.kind = "admission" /\ b.ok
    BY <1>a, <2>1, Constants DEF Told, Event, EventType
  <2>4. c \in EventType /\ c.kind = "started" /\ d \in EventType /\ d.kind = "user"
    BY <1>a, <2>1, Constants DEF Told, Event, EventType
  <2> QED BY <2>2, <2>3, <2>4
<1>11. CASE piRunning /\ piRunning' = TRUE /\ piQueue' = Append(piQueue, p) /\ Emit(<<a>> \o <<b>>) /\ UNCHANGED ran
  <2>1. toTui' \in Seq(EventType) /\ Adds2(toTui, toTui', a, b)
    BY <1>0, <1>11, <1>e, AddsConcat DEF Emit, TypeOK
  <2>2. /\ piQueue' \in Seq(BodyType) /\ Len(piQueue') = 1
        /\ \A i \in DOMAIN piQueue' : piQueue'[i] = p
    BY <1>11, <1>3, <1>o, OneId
  <2>3. Working'
    BY <1>4, <1>e, <1>o, <2>1, QueueClass, AdmissionClass DEF Working, Adds2
  <2>4. RightRoute' /\ NotTwice' /\ RanIds' = RanIds
    BY <1>0, <1>1, <1>11, SameRuns DEF tui, RanIds
  <2>5. /\ In(toTui', ClearedAny) <=> In(toTui, ClearedAny)
        /\ Behind(toTui', ClearedAny, ClearedAny) /\ ~In(toTui', AwayCatalogs(piRoute))
    BY <1>0, <1>8, <1>e, <2>1, QueueClass, AdmissionClass DEF OneRequest, Adds2
  <2> QED BY <1>1, <1>3, <1>f, <1>4, <1>11, <1>o, <2>1, <2>2, <2>3, <2>4, <2>5, BodyStep
<1>12. CASE ~piRunning /\ piRunning' = TRUE /\ piQueue' = piQueue /\ Emit((<<>> \o <<b>>) \o <<c, d>>) /\ Ran(p)
  <2>1. toTui' \in Seq(EventType) /\ Adds3(toTui, toTui', b, c, d)
    <3>1. <<>> \o <<b>> = <<b>>
      OBVIOUS
    <3>2. Emit(<<b>> \o <<c, d>>)
      BY <1>12, <3>1
    <3> QED BY <1>0, <3>2, <1>e, AddsConcat DEF Emit, TypeOK
  <2>2. piQueue' \in Seq(BodyType) /\ Len(piQueue') = 0 /\ piQueue' = <<>> /\ ~Out'
    BY <1>12, <1>4, <1>o
  <2>3. Working'
    BY <1>4, <1>e, <1>o, <2>1, <2>2, AdmissionClass, SilentClass, UserClass DEF Working, Adds3
  <2>4. RightRoute' /\ NotTwice' /\ RanIds' = RanIds \cup {owner.prompt}
    BY <1>0, <1>1, <1>3, <1>12, <1>o, Runs DEF tui
  <2>5. /\ In(toTui', ClearedAny) <=> In(toTui, ClearedAny)
        /\ Behind(toTui', ClearedAny, ClearedAny) /\ ~In(toTui', AwayCatalogs(piRoute)) /\ ~In(toTui', Refusals)
    BY <1>0, <1>8, <1>e, <1>o, <2>1, AdmissionClass, SilentClass, UserClass DEF OneRequest, Adds3
  <2> QED BY <1>1, <1>3, <1>f, <1>4, <1>12, <1>o, <2>1, <2>2, <2>3, <2>4, <2>5, BodyStep
<1> QED BY <1>2, <1>11, <1>12

LEMMA PiRefuseStep == ASSUME IInv, PiRefuse PROVE IInv'
<1>0. TypeOK /\ Staged /\ OneBody /\ OneRequest /\ OneOwner /\ Placed /\ RightRoute /\ NotTwice
  BY DEF IInv
<1>1. PICK p \in starting :
         /\ starting' = starting \ {p}
         /\ Emit(<<Told("prompt-error", p.id, FALSE)>>)
         /\ UNCHANGED <<tui, toAgent, piRoute, piRunning, piQueue, ran, dropped>>
  BY DEF PiRefuse
<1> DEFINE a == Told("prompt-error", p.id, FALSE)
<1>2. Emit(<<a>>) /\ a = Told("prompt-error", p.id, FALSE)
  BY <1>1
<1> HIDE DEF a
<1>3. /\ p \in BodyType /\ p.id = owner.prompt /\ p.to = piRoute
      /\ starting' = {} /\ Unanswered /\ Out /\ ~In(toAgent', BodyAsks) /\ toAgent' = toAgent
  BY <1>1, StartingIs
<1>o. /\ Waiting /\ Working /\ owner.prompt \in 1..MaxPrompts /\ owner.prompt \notin returned
      /\ owner.prompt \notin RanIds /\ ~In(toTui, Ends) /\ ~In(toTui, Handleds) /\ ~In(toTui, Refusals)
      /\ Unlisted /\ piQueue = <<>> /\ ~In(toTui, Answers) /\ ~In(toTui, News) /\ ~In(toTui, Bars)
      /\ ~In(toTui, Submitteds) /\ temp.phase = "active"
  BY <1>3, OutIs
<1>f. Fewer(toAgent, toAgent') /\ toAgent' \in Seq(RequestType) /\ piRunning' \in BOOLEAN
  BY <1>0, <1>1, <1>3, Unchanged DEF TypeOK
<1>4. /\ ~Unanswered' /\ Waiting' /\ owner' = owner /\ sending' = sending
      /\ (Out' <=> piQueue' # <<>>)
      /\ ~In(toAgent', CaptureAsks) /\ ~In(toAgent', ModelAsks) /\ ~In(toAgent', SteerAsks)
  BY <1>1, <1>3, <1>f, Answering
<1>8. ~In(toTui, AwayCatalogs(piRoute))
  BY <1>0, <1>o DEF Staged
<1>e. a \in EventType /\ a.kind = "prompt-error"
  <2>1. "prompt-error" \in EventKinds /\ p.id \in 0..MaxPrompts
    BY <1>3, <1>o DEF EventKinds
  <2> QED BY <1>2, <2>1, Constants DEF Told, Event, EventType
<1>5. toTui' \in Seq(EventType) /\ Adds1(toTui, toTui', a)
  BY <1>0, <1>2, <1>e, AddsConcat DEF Emit, TypeOK
<1>6. piQueue' \in Seq(BodyType) /\ Len(piQueue') = 0 /\ piQueue' = <<>> /\ ~Out'
  BY <1>1, <1>4, <1>o
<1>7. Working'
  BY <1>4, <1>e, <1>o, <1>5, <1>6, PromptErrorClass DEF Working, Adds1
<1>9. RightRoute' /\ NotTwice' /\ RanIds' = RanIds
  BY <1>0, <1>1, SameRuns DEF tui, RanIds
<1>10. /\ In(toTui', ClearedAny) <=> In(toTui, ClearedAny)
       /\ Behind(toTui', ClearedAny, ClearedAny) /\ ~In(toTui', AwayCatalogs(piRoute))
  BY <1>0, <1>8, <1>e, <1>5, PromptErrorClass DEF OneRequest, Adds1
<1> QED BY <1>1, <1>3, <1>f, <1>4, <1>o, <1>5, <1>6, <1>7, <1>9, <1>10, BodyStep

LEMMA PiHandleStep == ASSUME IInv, PiHandle PROVE IInv'
<1>0. TypeOK /\ Staged /\ OneBody /\ OneRequest /\ OneOwner /\ Placed /\ RightRoute /\ NotTwice
  BY DEF IInv
<1>1. PICK p \in starting :
         /\ starting' = starting \ {p}
         /\ Ran(p)
         /\ Emit((<<Told("admission", p.id, FALSE)>> \o State(piRunning, piRoute))
                 \o <<Told("settlement", p.id, TRUE)>>)
         /\ UNCHANGED <<tui, toAgent, piRoute, piRunning, piQueue, dropped>>
  BY DEF PiHandle
<1> DEFINE a == Told("admission", p.id, FALSE)
           d == Told("settlement", p.id, TRUE)
<1>2. /\ Emit((<<a>> \o State(piRunning, piRoute)) \o <<d>>)
      /\ a = Told("admission", p.id, FALSE) /\ d = Told("settlement", p.id, TRUE)
  BY <1>1
<1> HIDE DEF a, d
<1>3. /\ p \in BodyType /\ p.id = owner.prompt /\ p.to = piRoute
      /\ starting' = {} /\ Unanswered /\ Out /\ ~In(toAgent', BodyAsks) /\ toAgent' = toAgent
  BY <1>1, StartingIs
<1>o. /\ Waiting /\ Working /\ owner.prompt \in 1..MaxPrompts /\ owner.prompt \notin returned
      /\ owner.prompt \notin RanIds /\ ~In(toTui, Ends) /\ ~In(toTui, Handleds) /\ ~In(toTui, Refusals)
      /\ Unlisted /\ piQueue = <<>> /\ ~In(toTui, Answers) /\ ~In(toTui, News) /\ ~In(toTui, Bars)
      /\ ~In(toTui, Submitteds) /\ temp.phase = "active"
  BY <1>3, OutIs
<1>f. Fewer(toAgent, toAgent') /\ toAgent' \in Seq(RequestType) /\ piRunning' \in BOOLEAN
  BY <1>0, <1>1, <1>3, Unchanged DEF TypeOK
<1>4. /\ ~Unanswered' /\ Waiting' /\ owner' = owner /\ sending' = sending /\ remote' = remote
      /\ (Out' <=> piQueue' # <<>>)
      /\ ~In(toAgent', CaptureAsks) /\ ~In(toAgent', ModelAsks) /\ ~In(toAgent', SteerAsks)
  BY <1>1, <1>3, <1>f, Answering DEF tui, pending
<1>8. ~In(toTui, AwayCatalogs(piRoute))
  BY <1>0, <1>o DEF Staged
<1>e. /\ a \in EventType /\ a.kind = "admission" /\ ~a.ok
      /\ d \in EventType /\ d.kind = "settlement"
  <2>1. "admission" \in EventKinds /\ "settlement" \in EventKinds /\ p.id \in 0..MaxPrompts
    BY <1>3, <1>o DEF EventKinds
  <2>2. a \in EventType /\ a.kind = "admission" /\ ~a.ok
    BY <1>2, <2>1, Constants DEF Told, Event, EventType
  <2>3. d \in EventType /\ d.kind = "settlement"
    BY <1>2, <2>1, Constants DEF Told, Event, EventType
  <2> QED BY <2>2, <2>3
<1>s. PICK b \in EventType, c \in EventType :
         /\ State(piRunning, piRoute) = <<b, c>>
         /\ b.kind = "status" /\ c.kind = "catalog" /\ c.to = piRoute
  BY <1>0, StateIs DEF TypeOK
<1>5. toTui' \in Seq(EventType) /\ Adds4(toTui, toTui', a, b, c, d)
  <2>1. toTui \in Seq(EventType) /\ a \in EventType /\ d \in EventType
    BY <1>0, <1>e DEF TypeOK
  <2>2. toTui' = toTui \o ((<<a>> \o <<b, c>>) \o <<d>>)
    BY <1>2, <1>s DEF Emit
  <2>3. /\ toTui \o ((<<a>> \o <<b, c>>) \o <<d>>) \in Seq(EventType)
        /\ Adds4(toTui, toTui \o ((<<a>> \o <<b, c>>) \o <<d>>), a, b, c, d)
    BY <2>1, AddsConcat
  <2> QED BY <2>2, <2>3
<1>6. piQueue' \in Seq(BodyType) /\ Len(piQueue') = 0 /\ piQueue' = <<>> /\ ~Out'
  BY <1>1, <1>4, <1>o
<1>c. /\ a \in Ends /\ a \in Handleds /\ a \notin Settlements /\ a \notin Reports
      /\ d \in Settlements /\ d \notin Ends
  BY <1>e, AdmissionClass, SettlementClass
<1>7. Working'
  <2>1. /\ ~In(toTui', Captures) /\ ~In(toTui', ModelErrors) /\ ~In(toTui', Bars)
        /\ Behind(toTui', Ends, News) /\ Behind(toTui', Submitteds, Submitteds)
        /\ ~In(toTui', Submitteds)
    BY <1>e, <1>o, <1>s, <1>5, AdmissionClass, SilentClass, CatalogClass, SettlementClass
    DEF Working, Adds4
  <2>2. ~In(toTui, Settlements)
    BY <1>o, InEvents
  <2>3. Behind(toTui', Settlements, Reports)
    BY <1>e, <1>o, <1>s, <1>5, <2>2, AdmissionClass, SilentClass, CatalogClass, SettlementClass
    DEF Working, Adds4
  <2>4. Unlisted'
    BY <1>e, <1>o, <1>s, <1>3, <1>4, <1>5, AdmissionClass, SilentClass, CatalogClass, SettlementClass
    DEF Unlisted, Adds4
  <2> QED BY <1>4, <1>6, <2>1, <2>3, <2>4 DEF Working
<1>9. RightRoute' /\ NotTwice' /\ RanIds' = RanIds \cup {owner.prompt}
  BY <1>0, <1>1, <1>3, <1>o, Runs DEF tui
<1>10. /\ In(toTui', ClearedAny) <=> In(toTui, ClearedAny)
       /\ Behind(toTui', ClearedAny, ClearedAny) /\ ~In(toTui', AwayCatalogs(piRoute)) /\ ~In(toTui', Refusals)
  BY <1>0, <1>8, <1>e, <1>o, <1>s, <1>5, AdmissionClass, SilentClass, CatalogClass, SettlementClass
  DEF OneRequest, Adds4
<1> QED BY <1>1, <1>3, <1>f, <1>4, <1>o, <1>5, <1>6, <1>7, <1>9, <1>10, BodyStep

LEMMA PiConsumeStep == ASSUME IInv, PiConsume PROVE IInv'
<1> DEFINE p == Head(piQueue)
           a == Event("queue", 0, TRUE, None, Ids(piQueue'))
           b == Told("user", p.id, TRUE)
<1>0. TypeOK /\ Staged /\ OneBody /\ OneRequest /\ OneOwner /\ Placed /\ RightRoute /\ NotTwice
  BY DEF IInv
<1>1. /\ piQueue # <<>> /\ piQueue' = Tail(piQueue) /\ Ran(p) /\ Emit(<<a, b>>)
      /\ UNCHANGED <<tui, toAgent, piRoute, piRunning, starting, dropped>>
  BY DEF PiConsume
<1>2. p \in BodyType /\ p.id = owner.prompt /\ p.to = piRoute /\ piQueue' = <<>>
  <2>1. piQueue \in Seq(BodyType) /\ 1 \in DOMAIN piQueue /\ p = piQueue[1] /\ Len(piQueue) <= 1
    BY <1>0, <1>1 DEF TypeOK, OneBody
  <2>2. Tail(piQueue) = <<>>
    BY <2>1, <1>1
  <2> QED BY <1>0, <1>1, <2>1, <2>2 DEF OneBody
<1>a. a = Event("queue", 0, TRUE, None, Ids(piQueue')) /\ b = Told("user", p.id, TRUE)
  OBVIOUS
<1> HIDE DEF p, a, b
<1>3. Out /\ ~Unanswered
  BY <1>0, <1>1 DEF Out, OneBody
<1>o. /\ Waiting /\ Working /\ owner.prompt \in 1..MaxPrompts /\ owner.prompt \notin returned
      /\ owner.prompt \notin RanIds /\ ~In(toTui, Ends) /\ ~In(toTui, Handleds) /\ ~In(toTui, Refusals)
      /\ temp.phase = "active"
  BY <1>3, OutIs
<1>4. /\ ~Unanswered' /\ Waiting' /\ owner' = owner /\ sending' = sending /\ ~Out'
  BY <1>1, <1>2, <1>3, <1>o DEF Unanswered, Out, Waiting, tui, pending
<1>t. /\ toAgent' \in Seq(RequestType) /\ piRunning' \in BOOLEAN
      /\ piQueue' \in Seq(BodyType) /\ Len(piQueue') = 0 /\ DOMAIN piQueue' = {}
  <2>1. toAgent' \in Seq(RequestType) /\ piRunning' \in BOOLEAN
    BY <1>0, <1>1 DEF TypeOK
  <2>2. piQueue' \in Seq(BodyType) /\ Len(piQueue') = 0 /\ DOMAIN piQueue' = {}
    BY <1>2
  <2> QED BY <2>1, <2>2
<1>f. Fewer(toAgent, toAgent')
  BY <1>1, Unchanged
<1>s. starting' \subseteq starting /\ piRoute' = piRoute /\ UNCHANGED tui
  BY <1>1
<1>8. ~In(toTui, AwayCatalogs(piRoute))
  BY <1>0, <1>o DEF Staged
<1>9. Ids(piQueue') = {}
  BY <1>2 DEF Ids
<1>e. /\ a \in EventType /\ a.kind = "queue" /\ a.ids = {}
      /\ b \in EventType /\ b.kind = "user"
  <2>1. "queue" \in EventKinds /\ "user" \in EventKinds /\ 0 \in 0..MaxPrompts /\ p.id \in 0..MaxPrompts
    BY <1>2, <1>o, Constants DEF EventKinds
  <2>2. a \in EventType /\ a.kind = "queue" /\ a.ids = {}
    BY <1>9, <1>a, <2>1, Constants DEF Event, EventType
  <2>3. b \in EventType /\ b.kind = "user"
    BY <1>a, <2>1, Constants DEF Told, Event, EventType
  <2> QED BY <2>2, <2>3
<1>5. toTui' \in Seq(EventType) /\ Adds2(toTui, toTui', a, b)
  BY <1>0, <1>1, <1>e, AddsConcat DEF Emit, TypeOK
<1>7. Working'
  BY <1>1, <1>4, <1>e, <1>o, <1>5, QueueClass, UserClass DEF Working, Adds2
<1>10. RightRoute' /\ NotTwice' /\ RanIds' = RanIds \cup {owner.prompt}
  BY <1>0, <1>1, <1>2, <1>o, Runs DEF tui
<1>11. /\ In(toTui', ClearedAny) <=> In(toTui, ClearedAny)
       /\ Behind(toTui', ClearedAny, ClearedAny) /\ ~In(toTui', AwayCatalogs(piRoute)) /\ ~In(toTui', Refusals)
  BY <1>0, <1>8, <1>e, <1>o, <1>5, QueueClass, UserClass DEF OneRequest, Adds2
<1> QED BY <1>s, <1>2, <1>3, <1>4, <1>t, <1>f, <1>5, <1>7, <1>10, <1>11, BodyStep

\* Pi's queue is emptied, or is not; the request is one at a time either way.
LEMMA TakeClearStep == ASSUME IInv, TakeClear PROVE IInv'
<1> DEFINE r == Head(toAgent)
           a == Event("cleared", 0, TRUE, None, {})
           b == Event("cleared", 0, FALSE, None, Ids(piQueue))
<1>0. TypeOK /\ Staged /\ OneBody /\ OneRequest /\ OneOwner /\ Placed /\ RightRoute /\ NotTwice
  BY DEF IInv
<1>1. /\ r \in RequestType /\ r.kind = "clear"
      /\ toAgent' \in Seq(RequestType) /\ Popped(toAgent, toAgent', r)
  BY <1>0, Taken DEF TakeClear
<1>2. /\ UNCHANGED <<tui, piRoute, piRunning, starting, ran>>
      /\ \/ piQueue' = <<>> /\ dropped \subseteq dropped' /\ Emit(<<a>>)
         \/ Emit(<<b>>) /\ UNCHANGED <<piQueue, dropped>>
  BY DEF TakeClear
<1>a. a = Event("cleared", 0, TRUE, None, {}) /\ b = Event("cleared", 0, FALSE, None, Ids(piQueue))
  OBVIOUS
<1> HIDE DEF r, a, b
<1>c. r \in ClearAsks
  BY <1>1, ClearAskClass
<1>3. /\ In(toAgent, ClearAsks) /\ ~In(toAgent', ClearAsks) /\ ~In(toTui, ClearedAny)
      /\ clearing /\ clearSent /\ ~Unlisted
  BY <1>0, <1>1, <1>c DEF Popped, OneRequest, Unlisted
<1>4. Ids(piQueue) \in SUBSET (1..MaxPrompts) /\ (Ids(piQueue) = {} <=> piQueue = <<>>)
  <2>1. \A i \in DOMAIN piQueue : piQueue[i].id \in 1..MaxPrompts
    <3>1. piQueue \in Seq(BodyType)
      BY <1>0 DEF TypeOK
    <3>2. \A i \in DOMAIN piQueue : piQueue[i] \in BodyType
      BY <3>1
    <3> QED BY <3>2 DEF BodyType
  <2>2. Ids(piQueue) = {} <=> piQueue = <<>>
    BY <1>0, IdsOf DEF TypeOK
  <2> QED BY <2>1, <2>2 DEF Ids
<1>e. /\ a \in EventType /\ a.kind = "cleared" /\ a.ids = {}
      /\ b \in EventType /\ b.kind = "cleared" /\ ~b.ok /\ b.ids = Ids(piQueue)
  <2>1. "cleared" \in EventKinds /\ 0 \in 0..MaxPrompts /\ {} \in SUBSET (1..MaxPrompts)
    BY Constants DEF EventKinds
  <2>2. a \in EventType /\ a.kind = "cleared" /\ a.ids = {}
    BY <1>a, <2>1, Constants DEF Event, EventType
  <2>3. b \in EventType /\ b.kind = "cleared" /\ ~b.ok /\ b.ids = Ids(piQueue)
    BY <1>4, <1>a, <2>1, Constants DEF Event, EventType
  <2> QED BY <2>2, <2>3
<1>5. PICK d \in EventType :
         /\ d.kind = "cleared" /\ Emit(<<d>>) /\ dropped \subseteq dropped'
         /\ \/ d.ids = {} /\ piQueue' = <<>>
            \/ d.ids = Ids(piQueue) /\ ~d.ok /\ piQueue' = piQueue
  BY <1>2, <1>e
<1>6. toTui' \in Seq(EventType) /\ Adds1(toTui, toTui', d)
  BY <1>0, <1>5, AddsConcat DEF Emit, TypeOK
<1>7. /\ d \in ClearedAny /\ (d \in Listings <=> d.ids # {}) /\ (d \in News <=> d.ids # {})
      /\ (d \in Ends <=> d.ok)
      /\ d \notin Catalogs /\ d \notin Captures /\ d \notin ModelErrors /\ d \notin Settlements
      /\ d \notin Submitteds /\ d \notin Bars /\ d \notin Answers /\ d \notin Refusals
      /\ d \notin Handleds /\ d \notin Changes /\ d \notin Reads /\ d \notin Reports
      /\ (\A to : d \notin AwayCatalogs(to)) /\ (\A to : d \notin AwayCaptures(to))
  BY <1>5, ClearClass
<1>8. piQueue' \in Seq(BodyType) /\ (piQueue' = <<>> \/ piQueue' = piQueue) /\ (Out' => Out)
      /\ (Unanswered' => Unanswered)
  <2>1. piQueue' \in Seq(BodyType) /\ (piQueue' = <<>> \/ piQueue' = piQueue)
    <3>1. piQueue \in Seq(BodyType) /\ <<>> \in Seq(BodyType)
      BY <1>0 DEF TypeOK
    <3> QED BY <1>5, <3>1
  <2> QED BY <1>1, <1>2, <2>1 DEF Out, Unanswered, Popped
<1>u. /\ UNCHANGED <<local, remote, sending, failed, clearing, clearSent, running, current, temp, owner,
                     submitted, interrupts, returned, piRoute, piRunning, starting, ran>>
  BY <1>2 DEF tui, pending, status
<1>9. TypeOK'
  BY <1>0, <1>1, <1>u, <1>6, <1>8 DEF TypeOK
<1>10. Waiting' = Waiting /\ Busy' = Busy
  BY <1>u DEF Waiting, Busy
<1>11. ASSUME ~Out PROVE ~Out' /\ (In(toTui', News) <=> In(toTui, News))
  BY <1>4, <1>5, <1>6, <1>7, <1>8, <1>11 DEF Out, Adds1
<1>12. ASSUME Working PROVE Working'
  <2>1. ~Unanswered /\ ~In(toTui, Handleds)
    BY <1>3, <1>12 DEF Working
  <2>2. ~Unanswered' /\ ~In(toTui', Handleds)
    BY <1>6, <1>7, <1>8, <2>1 DEF Adds1
  <2>3. In(toTui', News) => Waiting'
    BY <1>10, <1>11, <1>12, <1>6 DEF Working
  <2>4. In(toTui', Ends) => ~Out'
    <3>1. CASE piQueue' = <<>>
      BY <2>2, <3>1 DEF Out
    <3>2. CASE ~d.ok
      BY <1>6, <1>7, <1>8, <1>12, <3>2 DEF Adds1, Working
    <3> QED BY <1>5, <3>1, <3>2
  <2>5. Behind(toTui', Ends, News)
    <3>1. In(toTui, Ends) => d \notin News
      BY <1>4, <1>5, <1>7, <1>12 DEF Working, Out
    <3> QED BY <1>6, <1>12, <3>1 DEF Adds1, Working
  <2> QED BY <1>1, <1>6, <1>7, <1>8, <1>10, <1>12, <1>u, <2>2, <2>3, <2>4, <2>5 DEF Working, Adds1, Popped
<1>13. ASSUME Quiet PROVE Quiet'
  BY <1>1, <1>6, <1>7, <1>11, <1>13 DEF Quiet, Adds1, Popped
<1>14. ASSUME Capturing PROVE Capturing'
  BY <1>1, <1>6, <1>7, <1>11, <1>14, <1>u DEF Capturing, Adds1, Popped
<1>15. ASSUME NEW goal, goal = temp.target \/ goal = temp.original, Changing(goal)
       PROVE  /\ ~In(toAgent', CaptureAsks) /\ ~Out'
              /\ ~In(toTui', News) /\ ~In(toTui', Captures) /\ ~In(toTui', Settlements)
              /\ ~In(toAgent', AwayAsks(goal))
              /\ In(toAgent', ModelAsks) => ~In(toTui', Changes)
              /\ Behind(toTui', Changes, Changes)
              /\ ~In(toTui', AwayCatalogs(goal))
              /\ In(toTui', Catalogs) => piRoute' = goal
  BY <1>1, <1>6, <1>7, <1>11, <1>15, <1>u DEF Changing, Adds1, Popped
<1>16. (Changing(temp.target) => Changing(temp.target)') /\ (Changing(temp.original) => Changing(temp.original)')
  BY <1>15, <1>u DEF Changing
<1>17. Staged'
  BY <1>0, <1>6, <1>7, <1>10, <1>12, <1>13, <1>14, <1>16, <1>u DEF Staged, Adds1
<1>18. OneBody'
  BY <1>0, <1>1, <1>5, <1>8, <1>u DEF OneBody, Popped
<1>19. OneRequest' /\ OneOwner'
  BY <1>0, <1>1, <1>3, <1>6, <1>7, <1>u DEF OneRequest, OneOwner, Popped, Adds1
<1>20. Placed'
  BY <1>0, <1>6, <1>7, <1>8, <1>10, <1>u DEF Placed, RanIds, Adds1
<1> QED BY <1>0, <1>5, <1>u, <1>9, <1>17, <1>18, <1>19, <1>20, SameRuns DEF IInv

-----------------------------------------------------------------------------
(* The frontend dispatches *)

LEMMA Nothing ==
  ASSUME NEW q
  PROVE  \A S, T : ~In(q, S) \/ ~In(q, T) => Behind(q, S, T)
BY DEF In, Behind

LEMMA NextIs ==
  ASSUME TypeOK, NEW i \in NextIndex
  PROVE  /\ i \in DOMAIN local /\ local[i] \in Records /\ local[i].rec = local[i].id /\ local[i].rec # 0
         /\ Joined(local[i]) = local[i] /\ JoinedQueue(i) = local
         /\ sending.id = 0 /\ ~clearing
<1>1. i \in DOMAIN local /\ sending.id = 0 /\ ~clearing
  BY DEF NextIndex, Asaps
<1>2. local[i] \in Records
  BY <1>1 DEF TypeOK
<1>3. local[i].rec = local[i].id /\ local[i].rec # 0
  BY <1>2 DEF Records, PromptLike
<1> QED BY <1>1, <1>2, <1>3 DEF Joined, JoinedQueue

\* Nothing travels, and nothing of an earlier Record is left, when the next comes up.
LEMMA OpenIs ==
  ASSUME IInv, RecordOpen, ~HoldsTurn \/ (ShouldRestore(None) /\ temp.phase # "none")
  PROVE  /\ ~Busy /\ ~Waiting /\ Quiet /\ temp.phase \in {"none", "ready", "active"} /\ ~owner.snapshot
         /\ remote = {} /\ ~Out /\ current = piRoute
         /\ ~In(toAgent, OtherAsks) /\ ~In(toAgent, SteerAsks)
         /\ ~In(toTui, Changes) /\ ~In(toTui, Reads) /\ ~In(toTui, Listings) /\ ~In(toTui, Answers)
         /\ ~In(toTui, Submitteds) /\ ~In(toTui, Bars) /\ ~In(toTui, Handleds) /\ ~In(toTui, Refusals)
         /\ \A to : ~In(toTui, AwayCatalogs(to)) /\ ~In(toTui, AwayCaptures(to))
         /\ \A to : ~In(toAgent, AwayAsks(to))
         /\ \A p, to : ~In(toAgent, StrayAsks(p, to))
         /\ ~clearing => Unlisted /\ ~In(toTui, Ends)
<1>0. TypeOK /\ Staged /\ OneRequest /\ OneOwner
  BY DEF IInv
<1>1. remote = {} /\ ~owner.snapshot /\ temp.phase \notin {"selecting", "restoring", "failed"}
  BY DEF RecordOpen, RecordHeld, HasBackend, Blocked
<1>2. temp.phase \in {"none", "ready", "active"}
  BY <1>0, <1>1 DEF TypeOK, TempType, Phases
<1>3. ~Busy /\ ~Waiting
  <2>1. CASE ~HoldsTurn
    BY <1>0, <2>1 DEF HoldsTurn, Replaceable, Busy, Waiting, Waits, OneOwner
  <2>2. CASE ShouldRestore(None) /\ temp.phase # "none"
    BY <1>0, <2>2 DEF ShouldRestore, Owned, Unfinished, Busy, Waiting, Waits, Staged
  <2> QED BY <2>1, <2>2
<1>4. Quiet /\ current = piRoute
  BY <1>0, <1>1, <1>2, <1>3 DEF Staged
<1>5. /\ ~Out /\ ~In(toAgent, BodyAsks) /\ ~In(toAgent, CaptureAsks) /\ ~In(toAgent, ModelAsks)
      /\ ~In(toTui, Catalogs) /\ ~In(toTui, Captures) /\ ~In(toTui, ModelErrors)
      /\ ~In(toTui, Settlements) /\ ~In(toTui, News)
  BY <1>4 DEF Quiet, Out, Unanswered
<1>6. /\ ~In(toAgent, OtherAsks) /\ ~In(toAgent, SteerAsks)
      /\ \A to : ~In(toAgent, AwayAsks(to))
      /\ \A p, to : ~In(toAgent, StrayAsks(p, to))
  BY <1>5, InRequests
<1>7. /\ ~In(toTui, Changes) /\ ~In(toTui, Reads) /\ ~In(toTui, Listings) /\ ~In(toTui, Answers)
      /\ ~In(toTui, Submitteds) /\ ~In(toTui, Bars) /\ ~In(toTui, Handleds) /\ ~In(toTui, Refusals)
      /\ \A to : ~In(toTui, AwayCatalogs(to)) /\ ~In(toTui, AwayCaptures(to))
  <2>1. ~In(toTui, Answers) /\ ~In(toTui, Listings)
    BY <1>5, InEvents
  <2>2. ~In(toTui, Bars) /\ ~In(toTui, Refusals)
    BY <2>1, InEvents
  <2> QED BY <1>5, <2>1, <2>2, InEvents
<1>8. ~clearing => Unlisted /\ ~In(toTui, Ends)
  <2>1. ~clearing => ~In(toAgent, ClearAsks) /\ ~In(toTui, ClearedAny)
    BY <1>0 DEF OneRequest
  <2> QED BY <1>1, <1>7, <2>1, InEvents DEF Unlisted
<1> QED BY <1>1, <1>2, <1>3, <1>4, <1>5, <1>6, <1>7, <1>8

LEMMA RestoreStep ==
  ASSUME IInv, Restore, ~Busy, Quiet, temp.phase \in {"ready", "active"},
         UNCHANGED <<pending, composer, status, pendingSub, current, owner, toTui, pi, history>>
  PROVE  IInv'
<1> DEFINE r == Request("model", NoPrompt, temp.original)
<1>0. TypeOK /\ Staged /\ OneBody /\ OneRequest /\ OneOwner /\ Placed /\ RightRoute /\ NotTwice
  BY DEF IInv
<1>1. Ask(r) /\ temp' = [temp EXCEPT !.phase = "restoring"]
  BY DEF Restore
<1>2. r \in RequestType /\ r.kind = "model" /\ r.to = temp.original
  BY <1>0, RequestTyped, Constants DEF TypeOK, TempType
<1> HIDE DEF r
<1>3. toAgent' \in Seq(RequestType) /\ Pushed(toAgent, toAgent', r)
  BY <1>0, <1>1, <1>2, Asked
<1>4. temp' \in TempType /\ temp'.phase = "restoring" /\ temp'.original = temp.original
  BY <1>0, <1>1 DEF TypeOK, TempType, Phases
<1>c. /\ r \in ModelAsks /\ r \in OtherAsks /\ r \notin CaptureAsks /\ r \notin BodyAsks
      /\ r \notin SteerAsks /\ r \notin ClearAsks /\ r \notin AwayAsks(temp.original)
      /\ \A p, to : r \notin StrayAsks(p, to)
  BY <1>2, ModelClass
<1>5. /\ ~Out /\ ~In(toAgent, BodyAsks) /\ ~In(toAgent, CaptureAsks) /\ ~In(toAgent, ModelAsks)
      /\ ~In(toTui, Catalogs) /\ ~In(toTui, Captures) /\ ~In(toTui, ModelErrors)
      /\ ~In(toTui, Settlements) /\ ~In(toTui, News)
  BY DEF Quiet, Out, Unanswered
<1>6. ~In(toAgent, OtherAsks) /\ ~In(toAgent, AwayAsks(temp.original)) /\ ~In(toTui, Changes)
      /\ ~In(toTui, AwayCatalogs(temp.original))
  BY <1>5, InRequests, InEvents
<1>7. TypeOK'
  BY <1>0, <1>3, <1>4 DEF TypeOK, pending, status, pi, history
<1>8. Changing(temp.original)'
  BY <1>3, <1>4, <1>c, <1>5, <1>6, Nothing DEF Changing, Pushed, Out, Unanswered, pi
<1>9. Staged'
  <2>1. owner' = owner /\ ~Busy' /\ ~owner.snapshot
    BY <1>0 DEF Busy, Waiting, Staged
  <2> QED BY <1>0, <1>4, <1>8, <2>1 DEF Staged
<1>10. OneBody' /\ OneRequest' /\ OneOwner'
  BY <1>0, <1>3, <1>c, <1>6 DEF OneBody, OneRequest, OneOwner, Pushed, pending, pi, Unanswered
<1>11. Placed'
  BY <1>0, <1>3, <1>c DEF Placed, Pushed, pending, pi, history, Out, Unanswered, RanIds, Waiting
<1> QED BY <1>0, <1>7, <1>9, <1>10, <1>11, SameRuns DEF IInv, history

LEMMA DispatchRestoreStep == ASSUME IInv, DispatchRestore PROVE IInv'
<1>1. RecordOpen /\ temp.phase # "none" /\ (~HoldsTurn \/ ShouldRestore(None)) /\ Restore
  BY DEF DispatchRestore
<1>2. ~Busy /\ Quiet /\ temp.phase \in {"ready", "active"}
  BY <1>1, OpenIs
<1> QED BY <1>1, <1>2, RestoreStep DEF DispatchRestore

FreshOwner(o, p) ==
  /\ o.id = p.id /\ o.prompt = p.id /\ ~o.snapshot /\ ~o.cancel /\ ~o.sent /\ ~o.consumed
  /\ ~o.recovered /\ ~o.commandPending /\ ~o.admitted /\ ~o.awaitingRun

LEMMA NewOwnerIs ==
  ASSUME NEW p, p.rec = p.id, p.id \in 1..MaxPrompts
  PROVE  NewOwner(p) \in OwnerType /\ FreshOwner(NewOwner(p), p)
<1>1. p.id \in 0..MaxPrompts /\ 0 \in 0..MaxPrompts
  BY Constants
<1>2. NewOwner(p) \in OwnerType
  BY <1>1 DEF NewOwner, OwnerType
<1>3. FreshOwner(NewOwner(p), p)
  BY DEF NewOwner, FreshOwner
<1> QED BY <1>2, <1>3

LEMMA DispatchCaptureStep == ASSUME IInv, DispatchCapture PROVE IInv'
<1>0. TypeOK /\ Staged /\ OneBody /\ OneRequest /\ OneOwner /\ Placed /\ RightRoute /\ NotTwice
  BY DEF IInv
<1>1. PICK i \in NextIndex :
         /\ Current(i) /\ temp.phase = "none"
         /\ local' = JoinedQueue(i)
         /\ owner' = [NewOwner(Joined(local[i])) EXCEPT !.snapshot = TRUE]
         /\ Ask(Request("capture", Joined(local[i]), None))
         /\ UNCHANGED <<remote, sending, failed, clearing, clearSent, composer, status, pendingSub,
                        current, temp, toTui, pi, history>>
  BY DEF DispatchCapture
<1> DEFINE p == local[i]
           r == Request("capture", p, None)
<1>2. /\ p \in Records /\ p.rec = p.id /\ p.rec # 0 /\ i \in DOMAIN local /\ ~clearing
      /\ local' = local /\ owner' = [NewOwner(p) EXCEPT !.snapshot = TRUE] /\ Ask(r)
      /\ RecordOpen /\ ~HoldsTurn
  BY <1>0, <1>1, NextIs DEF Current
<1>p. p \in PromptLike /\ p.id \in 1..MaxPrompts /\ p.id \in 1..submitted
  <2>1. p \in PromptLike /\ p.id \in 1..MaxPrompts
    BY <1>2 DEF Records, PromptLike
  <2>2. p.id \in Ids(local)
    BY <1>2 DEF Ids
  <2> QED BY <1>0, <2>1, <2>2 DEF Placed
<1>3. r \in RequestType /\ r.kind = "capture"
  BY <1>p, RequestTyped, Constants
<1> HIDE DEF r, p
<1>4. toAgent' \in Seq(RequestType) /\ Pushed(toAgent, toAgent', r)
  BY <1>0, <1>2, <1>3, Asked
<1>5. /\ owner' \in OwnerType /\ owner'.id = p.id /\ owner'.prompt = p.id /\ owner'.snapshot
      /\ ~owner'.cancel /\ ~owner'.sent /\ ~owner'.consumed /\ ~owner'.recovered
      /\ ~owner'.commandPending /\ ~owner'.admitted
  <2>1. NewOwner(p) \in OwnerType /\ FreshOwner(NewOwner(p), p)
    BY <1>2, <1>p, NewOwnerIs
  <2> DEFINE o == NewOwner(p)
  <2>2. o \in OwnerType /\ FreshOwner(o, p) /\ owner' = [o EXCEPT !.snapshot = TRUE]
    BY <1>2, <2>1
  <2> HIDE DEF o
  <2> QED BY <2>2 DEF OwnerType, FreshOwner
<1>c. /\ r \in CaptureAsks /\ r \in OtherAsks /\ r \notin ModelAsks /\ r \notin BodyAsks
      /\ r \notin SteerAsks /\ r \notin ClearAsks /\ \A q, to : r \notin StrayAsks(q, to)
  BY <1>3, CaptureClass
<1>o. /\ Quiet /\ ~Out /\ current = piRoute
      /\ ~In(toAgent, OtherAsks) /\ ~In(toAgent, SteerAsks)
      /\ ~In(toTui, Changes) /\ ~In(toTui, Reads) /\ ~In(toTui, Listings) /\ ~In(toTui, Answers)
      /\ ~In(toTui, Refusals)
      /\ \A to : ~In(toTui, AwayCatalogs(to)) /\ ~In(toTui, AwayCaptures(to))
      /\ \A q, to : ~In(toAgent, StrayAsks(q, to))
  BY <1>2, OpenIs
<1>u. /\ UNCHANGED <<local, remote, sending, failed, clearing, clearSent, running, current, temp, toTui,
                     submitted, interrupts, returned, ran, dropped, piRoute, piRunning, piQueue, starting>>
  BY <1>1, <1>2 DEF status, pi, history
<1>6. TypeOK'
  BY <1>0, <1>4, <1>5, <1>u DEF TypeOK
<1>7. ~Out' /\ ~Unanswered' /\ ~Waiting' /\ ~Busy'
  BY <1>4, <1>5, <1>c, <1>o, <1>u DEF Out, Unanswered, Waiting, Waits, Busy, Pushed
<1>8. Capturing'
  BY <1>4, <1>7, <1>c, <1>o, <1>u, Nothing DEF Capturing, Quiet, Pushed
<1>9. Staged'
  BY <1>0, <1>1, <1>5, <1>7, <1>8, <1>o, <1>u DEF Staged
<1>10. OneBody' /\ OneOwner'
  BY <1>0, <1>4, <1>5, <1>7, <1>2, <1>c, <1>o, <1>u DEF OneBody, OneOwner, Pushed, Out, Unanswered
<1>11. OneRequest'
  BY <1>0, <1>4, <1>c, <1>o, <1>u DEF OneRequest, Pushed
<1>12. Placed'
  BY <1>0, <1>5, <1>7, <1>o, <1>p, <1>u DEF Placed, RanIds
<1> QED BY <1>0, <1>6, <1>9, <1>10, <1>11, <1>12, <1>u, SameRuns DEF IInv

LEMMA DispatchFailStep == ASSUME IInv, DispatchFail PROVE IInv'
<1>0. TypeOK /\ Staged /\ OneBody /\ OneRequest /\ OneOwner /\ Placed /\ RightRoute /\ NotTwice
  BY DEF IInv
<1>1. PICK i \in NextIndex :
         /\ Current(i) /\ temp.phase # "none"
         /\ local' = RemoveAt(local, i) /\ GiveBack(Joined(local[i]))
         /\ UNCHANGED <<remote, sending, clearing, clearSent, status, pendingSub, current, temp,
                        owner, toAgent, toTui, pi, submitted, interrupts, ran, dropped>>
  BY DEF DispatchFail
<1>2. i \in DOMAIN local /\ GiveBack(local[i]) /\ RecordOpen /\ ~HoldsTurn
  BY <1>0, <1>1, NextIs DEF Current
<1>3. FewerQueued
  BY <1>0, <1>1, <1>2, QueueGivesBack
<1>o. ~Waiting
  BY <1>2, OpenIs
<1>u. /\ UNCHANGED <<remote, sending, clearing, clearSent, running, current, temp, owner, toAgent, toTui,
                     submitted, interrupts, ran, dropped, piRoute, piRunning, piQueue, starting>>
  BY <1>1 DEF status, pi
<1>4. TypeOK'
  BY <1>0, <1>3, <1>u DEF TypeOK, FewerQueued
<1>5. Staged'
  BY <1>0, <1>u DEF Staged, Quiet, Capturing, Changing, Working, Out, Unanswered, Unlisted, Busy, Waiting
<1>6. OneBody' /\ OneRequest' /\ OneOwner'
  BY <1>0, <1>u DEF OneBody, OneRequest, OneOwner, Unanswered
<1>7. Placed'
  BY <1>0, <1>3, <1>o, <1>u DEF Placed, FewerQueued, Waiting, Out, Unanswered
<1> QED BY <1>3, <1>4, <1>5, <1>6, <1>7 DEF IInv, FewerQueued

\* The next Record, its route, and the owner it gets.
LEMMA NextRecord ==
  ASSUME IInv, NEW i \in NextIndex, Current(i)
  PROVE  /\ local[i] \in PromptLike /\ local[i].id \in 1..MaxPrompts /\ local[i].id \in 1..submitted
         /\ local[i].id \in Ids(local) /\ local[i].id \notin RanIds /\ local[i].id \notin returned
         /\ Heir(local[i]) \in OwnerType
         /\ Heir(local[i]) = owner \/ FreshOwner(Heir(local[i]), local[i])
         /\ Heir(local[i]).id = local[i].id /\ Heir(local[i]).prompt = local[i].id
         /\ ~Heir(local[i]).sent
<1> DEFINE p == local[i]
<1>0. TypeOK /\ Placed /\ OneOwner
  BY DEF IInv
<1>1. p \in Records /\ p.rec = p.id /\ p.rec # 0 /\ i \in DOMAIN local
  BY <1>0, NextIs
<1>2. p.id \in Ids(local)
  BY <1>1 DEF Ids
<1> HIDE DEF p
<1>3. p \in PromptLike /\ p.id \in 1..MaxPrompts
  BY <1>1 DEF Records, PromptLike
<1>4. p.id \in 1..submitted /\ p.id \notin RanIds /\ p.id \notin returned
  BY <1>0, <1>2 DEF Placed
<1>5. CASE owner.id = p.rec
  <2>1. Heir(p) = owner
    BY <1>5 DEF Heir
  <2>2. owner.id = p.id /\ owner.prompt = p.id /\ ~owner.sent
    BY <1>0, <1>1, <1>2, <1>5 DEF OneOwner, Placed
  <2> QED BY <1>0, <1>2, <1>3, <1>4, <2>1, <2>2 DEF TypeOK, p
<1>6. CASE owner.id # p.rec
  <2>1. Heir(p) = NewOwner(p)
    BY <1>6 DEF Heir
  <2>2. Heir(p) \in OwnerType /\ FreshOwner(Heir(p), p)
    BY <1>1, <1>3, <2>1, NewOwnerIs
  <2> QED BY <1>2, <1>3, <1>4, <2>2 DEF FreshOwner, p
<1> QED BY <1>5, <1>6

LEMMA DispatchSelectStep == ASSUME IInv, DispatchSelect PROVE IInv'
<1>0. TypeOK /\ Staged /\ OneBody /\ OneRequest /\ OneOwner /\ Placed /\ RightRoute /\ NotTwice
  BY DEF IInv
<1>1. PICK i \in NextIndex :
         /\ Current(i) /\ temp.phase # "none"
         /\ owner' = Heir(Joined(local[i]))
         /\ local' = JoinedQueue(i)
         /\ temp' = [temp EXCEPT !.target = Target(Joined(local[i])), !.phase = "selecting"]
         /\ Ask(Request("model", NoPrompt, Target(Joined(local[i]))))
         /\ UNCHANGED <<remote, sending, failed, clearing, clearSent, composer, status, pendingSub,
                        current, toTui, pi, history>>
  BY DEF DispatchSelect
<1> DEFINE p == local[i]
           goal == Target(p)
           r == Request("model", NoPrompt, goal)
<1>2. /\ local' = local /\ owner' = Heir(p) /\ Ask(r) /\ ~clearing
      /\ temp' = [temp EXCEPT !.target = goal, !.phase = "selecting"]
      /\ RecordOpen /\ ~HoldsTurn
  BY <1>0, <1>1, NextIs DEF Current
<1>p. /\ p \in PromptLike /\ p.id \in 1..submitted /\ p.id # 0
      /\ owner' \in OwnerType /\ owner'.id = p.id /\ owner'.prompt = p.id /\ ~owner'.sent
      /\ owner' = owner \/ FreshOwner(owner', p)
  BY <1>1, <1>2, NextRecord
<1>g. goal \in Routes
  BY <1>0, <1>p DEF Target, TypeOK, TempType, PromptLike
<1>3. r \in RequestType /\ r.kind = "model" /\ r.to = goal
  BY <1>g, RequestTyped, Constants
<1> HIDE DEF r, p, goal
<1>4. toAgent' \in Seq(RequestType) /\ Pushed(toAgent, toAgent', r)
  BY <1>0, <1>2, <1>3, Asked
<1>t. temp' \in TempType /\ temp'.phase = "selecting" /\ temp'.target = goal /\ temp'.original = temp.original
  BY <1>0, <1>2, <1>g DEF TypeOK, TempType, Phases
<1>c. /\ r \in ModelAsks /\ r \in OtherAsks /\ r \notin CaptureAsks /\ r \notin BodyAsks
      /\ r \notin SteerAsks /\ r \notin ClearAsks /\ r \notin AwayAsks(goal)
      /\ \A q, to : r \notin StrayAsks(q, to)
  BY <1>3, ModelClass
<1>o. /\ Quiet /\ ~Out /\ ~Waiting /\ ~Busy /\ ~owner.snapshot
      /\ ~In(toAgent, OtherAsks) /\ ~In(toAgent, SteerAsks)
      /\ ~In(toTui, Changes) /\ ~In(toTui, Reads) /\ ~In(toTui, Refusals)
      /\ \A to : ~In(toTui, AwayCatalogs(to)) /\ ~In(toTui, AwayCaptures(to))
      /\ \A to : ~In(toAgent, AwayAsks(to))
      /\ \A q, to : ~In(toAgent, StrayAsks(q, to))
  BY <1>2, OpenIs
<1>u. /\ UNCHANGED <<local, remote, sending, failed, clearing, clearSent, running, current, toTui,
                     submitted, interrupts, returned, ran, dropped, piRoute, piRunning, piQueue, starting>>
  BY <1>1, <1>2 DEF status, pi, history
<1>5. ~Out' /\ ~Unanswered' /\ ~Waiting' /\ ~Busy' /\ ~owner'.snapshot
  <2>1. ~Waiting' /\ ~Busy' /\ ~owner'.snapshot
    BY <1>o, <1>p DEF Waiting, Waits, Busy, FreshOwner
  <2>2. ~Out' /\ ~Unanswered'
    BY <1>4, <1>c, <1>o, <1>u DEF Out, Unanswered, Pushed
  <2> QED BY <2>1, <2>2
<1>6. TypeOK'
  BY <1>0, <1>4, <1>p, <1>t, <1>u DEF TypeOK
<1>8. Changing(temp.target)'
  BY <1>4, <1>5, <1>c, <1>o, <1>t, <1>u, Nothing, InEvents DEF Changing, Quiet, Pushed
<1>9. Staged'
  BY <1>0, <1>1, <1>p, <1>t, <1>5, <1>8, <1>u DEF Staged
<1>10. OneBody' /\ OneOwner'
  BY <1>0, <1>4, <1>5, <1>p, <1>c, <1>o, <1>u DEF OneBody, OneOwner, Pushed, Out, Unanswered, FreshOwner
<1>11. OneRequest'
  BY <1>0, <1>4, <1>c, <1>o, <1>u DEF OneRequest, Pushed
<1>12. Placed'
  BY <1>0, <1>p, <1>5, <1>o, <1>u DEF Placed, RanIds
<1> QED BY <1>0, <1>6, <1>9, <1>10, <1>11, <1>12, <1>u, SameRuns DEF IInv

LEMMA DispatchSendStep == ASSUME IInv, DispatchSend PROVE IInv'
<1>0. TypeOK /\ Staged /\ OneBody /\ OneRequest /\ OneOwner /\ Placed /\ RightRoute /\ NotTwice
  BY DEF IInv
<1>1. PICK i \in NextIndex :
         /\ Current(i) /\ temp.phase # "none"
         /\ current = Target(Joined(local[i]))
         /\ owner' = SentOwner(Joined(local[i]))
         /\ temp' = [temp EXCEPT !.phase = "active"]
         /\ local' = RemoveAt(local, i)
         /\ Deliver(Joined(local[i]), Joined(local[i]).delivery = "asap" /\ ~AgentIdle)
         /\ UNCHANGED <<remote, failed, clearing, clearSent, composer, running, interruptPending,
                        current, toTui, pi, history>>
  BY DEF DispatchSend
<1> DEFINE p == local[i]
           h == Heir(p)
           steer == Request("steer", p, Promised(p))
           input == Request("input", p, Promised(p))
<1>2. /\ current = Target(p) /\ i \in DOMAIN local
      /\ owner' = [h EXCEPT !.sent = TRUE, !.runObserved = running, !.awaitingRun = TRUE]
      /\ \/ sending' = p /\ Ask(steer)
         \/ sending' = sending /\ Ask(input)
      /\ RecordOpen /\ ~HoldsTurn /\ ~clearing /\ sending.id = 0 /\ p \in Records /\ p.rec = p.id
  BY <1>0, <1>1, NextIs DEF Current, SentOwner, Deliver
<1>p. /\ p \in PromptLike /\ p.id \in 1..MaxPrompts /\ p.id \in 1..submitted
      /\ p.id \notin RanIds /\ p.id \notin returned
      /\ h \in OwnerType /\ h.id = p.id /\ h.prompt = p.id /\ ~h.sent
      /\ h = owner \/ FreshOwner(h, p)
  BY <1>1, NextRecord
<1>o. /\ Quiet /\ ~Out /\ ~Waiting /\ ~Busy /\ ~owner.snapshot /\ current = piRoute
      /\ temp.phase \in {"none", "ready", "active"}
      /\ ~In(toAgent, OtherAsks) /\ ~In(toAgent, SteerAsks)
      /\ ~In(toTui, Changes) /\ ~In(toTui, Reads) /\ ~In(toTui, Listings) /\ ~In(toTui, Answers)
      /\ ~In(toTui, Submitteds) /\ ~In(toTui, Bars) /\ ~In(toTui, Handleds) /\ ~In(toTui, Refusals)
      /\ \A to : ~In(toTui, AwayCatalogs(to)) /\ ~In(toTui, AwayCaptures(to))
      /\ \A q, to : ~In(toAgent, StrayAsks(q, to))
      /\ Unlisted /\ ~In(toTui, Ends)
  BY <1>2, OpenIs
<1>g. Promised(p) = piRoute /\ piRoute \in Routes
  BY <1>0, <1>1, <1>2, <1>o DEF Promised, Target, Staged, TypeOK
<1>3. /\ steer \in RequestType /\ steer.kind = "steer" /\ steer.p = p /\ steer.to = piRoute
      /\ input \in RequestType /\ input.kind = "input" /\ input.p = p /\ input.to = piRoute
  BY <1>g, <1>p, RequestTyped
<1>q. /\ RemoveAt(local, i) \in Seq(Records) /\ Distinct(RemoveAt(local, i))
      /\ Ids(RemoveAt(local, i)) \subseteq Ids(local) \ {p.id}
  BY <1>0, <1>2, RemovedIds DEF TypeOK, Placed
<1> HIDE DEF p, h, steer, input
<1>4. PICK r \in RequestType :
         /\ r.kind \in {"steer", "input"} /\ r.p = p /\ r.to = piRoute
         /\ toAgent' \in Seq(RequestType) /\ Pushed(toAgent, toAgent', r)
         /\ r.kind = "steer" => sending' = p
         /\ sending' = p \/ sending' = sending
  BY <1>0, <1>2, <1>3, Asked
<1>c. /\ r \notin ModelAsks /\ r \in OtherAsks /\ r \notin CaptureAsks /\ r \in BodyAsks
      /\ r \in SteerAsks => r.kind = "steer"
      /\ r \notin ClearAsks /\ r \notin StrayAsks(p.id, piRoute)
  BY <1>4, SteerClass, InputClass
<1>5. /\ owner' \in OwnerType /\ owner'.id = p.id /\ owner'.prompt = p.id /\ owner'.sent
      /\ owner'.awaitingRun /\ ~owner'.snapshot /\ ~owner'.cancel
      /\ ~owner'.consumed /\ ~owner'.recovered /\ ~owner'.commandPending
  <2>1. ~h.snapshot /\ ~h.cancel /\ ~h.consumed /\ ~h.recovered /\ ~h.commandPending
    BY <1>0, <1>o, <1>p DEF OneOwner, FreshOwner
  <2>2. running \in BOOLEAN
    BY <1>0 DEF TypeOK
  <2> QED BY <1>2, <1>p, <2>1, <2>2 DEF OwnerType
<1>6. Waiting' /\ Busy'
  BY <1>5 DEF Waiting, Waits, Busy
<1>t. temp' \in TempType /\ temp'.phase = "active" /\ temp'.original = temp.original
  BY <1>0, <1>1 DEF TypeOK, TempType, Phases
<1>u. /\ UNCHANGED <<remote, failed, clearing, clearSent, running, current, toTui,
                     submitted, interrupts, returned, ran, dropped, piRoute, piRunning, piQueue, starting>>
  BY <1>1 DEF pi, history
<1>7. TypeOK'
  <2>1. sending' \in PromptLike /\ sending'.rec = sending'.id
    BY <1>0, <1>2, <1>4, <1>p DEF TypeOK
  <2>2. local' \in Seq(Records)
    BY <1>1, <1>q
  <2> QED BY <1>0, <1>4, <1>5, <1>t, <1>u, <2>1, <2>2 DEF TypeOK
<1>8. Unlisted'
  BY <1>4, <1>c, <1>o, <1>u DEF Unlisted, Pushed
<1>9. Working'
  <2>1. ~In(toAgent', CaptureAsks) /\ ~In(toAgent', ModelAsks) /\ ~Out /\ ~In(toTui, Settlements)
        /\ ~In(toTui, Captures) /\ ~In(toTui, ModelErrors) /\ ~In(toTui, News)
    BY <1>4, <1>c, <1>o DEF Quiet, Pushed
  <2>2. In(toAgent', SteerAsks) => sending'.id = owner'.prompt
    BY <1>4, <1>5, <1>c, <1>o DEF Pushed
  <2> QED BY <1>5, <1>6, <1>8, <1>o, <1>u, <2>1, <2>2, Nothing DEF Working
<1>10. Staged'
  <2>1. owner'.id # 0 /\ temp'.original = Base /\ current' = piRoute'
    BY <1>0, <1>1, <1>5, <1>o, <1>p, <1>t, <1>u DEF Staged
  <2>2. ~In(toTui', AwayCatalogs(piRoute'))
    BY <1>o, <1>u
  <2> QED BY <1>5, <1>6, <1>9, <1>t, <2>1, <2>2 DEF Staged
<1>11. OneBody'
  BY <1>0, <1>4, <1>5, <1>c, <1>o, <1>u DEF OneBody, Pushed, Out, Unanswered
<1>12. OneRequest'
  BY <1>0, <1>2, <1>4, <1>c, <1>o, <1>u DEF OneRequest, Pushed
<1>13. OneOwner'
  BY <1>5, <1>p DEF OneOwner
<1>14. Placed'
  <2>1. Ids(local)' = Ids(RemoveAt(local, i)) /\ Distinct(local)' = Distinct(RemoveAt(local, i))
    BY <1>1 DEF Ids, Distinct
  <2> QED BY <1>0, <1>5, <1>p, <1>q, <1>u, <2>1 DEF Placed, RanIds
<1> QED BY <1>0, <1>7, <1>10, <1>11, <1>12, <1>13, <1>14, <1>u, SameRuns DEF IInv

-----------------------------------------------------------------------------
(* The user, who submits Records and interrupts none *)

LEMMA SubmitRecordStep == ASSUME IInv, SubmitRecord PROVE IInv'
<1>0. TypeOK /\ Staged /\ OneBody /\ OneRequest /\ OneOwner /\ Placed /\ RightRoute /\ NotTwice
  BY DEF IInv
<1>1. PICK delivery \in {"asap", "after"}, route \in Routes :
         /\ submitted < MaxPrompts /\ submitted' = submitted + 1
         /\ local' = Append(local, Fresh(TRUE, delivery, None, route))
         /\ UNCHANGED <<remote, sending, failed, clearing, clearSent, composer, status, pendingSub,
                        current, temp, owner, toAgent, toTui, pi, interrupts, ran, returned, dropped>>
  BY DEF SubmitRecord, Submits
<1> DEFINE p == Fresh(TRUE, delivery, None, route)
<1>2. p \in Records /\ p.id = submitted + 1 /\ local' = Append(local, p)
  <2>1. submitted + 1 \in 0..MaxPrompts /\ submitted + 1 # 0
    BY <1>0, <1>1, ConstantsAssumption DEF TypeOK
  <2> QED BY <1>1, <2>1, Constants DEF Fresh, Records, PromptLike
<1> HIDE DEF p
<1>3. /\ submitted \in Nat /\ submitted + 1 \in Nat /\ submitted + 1 \notin 0..submitted
      /\ 0..submitted \subseteq 0..(submitted + 1) /\ 1..submitted \subseteq 0..submitted
      /\ 1..submitted \subseteq 1..(submitted + 1) /\ submitted + 1 \in 1..(submitted + 1)
      /\ submitted' \in 0..MaxPrompts
  BY <1>0, <1>1, ConstantsAssumption DEF TypeOK
<1>4. p.id \notin Ids(local) /\ p.id \notin RanIds /\ p.id \notin returned /\ p.id # owner.prompt
  BY <1>0, <1>2, <1>3 DEF Placed
<1>5. /\ local' \in Seq(Records) /\ Ids(Append(local, p)) = Ids(local) \cup {p.id}
      /\ Distinct(Append(local, p))
  BY <1>0, <1>2, <1>4, AppendedIds DEF TypeOK, Placed
<1>6. Ids(local)' = Ids(local) \cup {p.id} /\ Distinct(local)'
  BY <1>2, <1>5 DEF Ids, Distinct
<1>u. /\ UNCHANGED <<remote, sending, failed, clearing, clearSent, running, current, temp, owner, toAgent,
                     toTui, interrupts, ran, returned, dropped, piRoute, piRunning, piQueue, starting>>
  BY <1>1 DEF status, pi
<1>7. TypeOK'
  BY <1>0, <1>3, <1>5, <1>u DEF TypeOK
<1>8. Staged'
  BY <1>0, <1>u DEF Staged, Quiet, Capturing, Changing, Working, Out, Unanswered, Unlisted, Busy, Waiting
<1>9. OneBody' /\ OneRequest' /\ OneOwner'
  BY <1>0, <1>u DEF OneBody, OneRequest, OneOwner, Unanswered
<1>10. Placed'
  <2>1. RanIds' = RanIds /\ Waiting' = Waiting /\ Out' = Out
    BY <1>u DEF RanIds, Waiting, Out, Unanswered
  <2> QED BY <1>0, <1>1, <1>2, <1>3, <1>4, <1>6, <1>u, <2>1 DEF Placed
<1> QED BY <1>0, <1>7, <1>8, <1>9, <1>10, <1>u, SameRuns DEF IInv

\* The user takes prompts out of the queue, and may have Pi's queue emptied.
LEMMA CancelStep ==
  ASSUME IInv, local' \in Seq(Records), failed' \in Seq(PromptLike), Ids(local)' \subseteq Ids(local), Distinct(local)',
         dropped \subseteq dropped', toAgent' \in Seq(RequestType),
         clearing' \in BOOLEAN, clearSent' \in BOOLEAN,
         UNCHANGED <<remote, sending, running, current, temp, owner, toTui, piRoute, piRunning, piQueue,
                     starting, submitted, interrupts, ran, returned>>,
         \/ UNCHANGED <<toAgent, clearing, clearSent>>
         \/ ~clearing /\ UNCHANGED toAgent /\ (clearing' /\ ~clearSent' => sending.id # 0)
         \/ /\ ~clearing /\ clearing' /\ clearSent' /\ remote # {}
            /\ \E r \in RequestType : r.kind = "clear" /\ Pushed(toAgent, toAgent', r)
  PROVE  IInv'
<1>0. TypeOK /\ Staged /\ OneBody /\ OneRequest /\ OneOwner /\ Placed /\ RightRoute /\ NotTwice
  BY DEF IInv
<1>1. TypeOK'
  BY <1>0 DEF TypeOK
<1>2. Placed'
  <2>1. RanIds' = RanIds /\ Waiting' = Waiting /\ (Out' <=> Out)
    <3>1. In(toAgent', BodyAsks) <=> In(toAgent, BodyAsks)
      BY ClearAskClass DEF Pushed
    <3> QED BY <3>1 DEF RanIds, Waiting, Out, Unanswered
  <2> QED BY <1>0, <2>1 DEF Placed
<1>3. RightRoute' /\ NotTwice'
  BY <1>0, SameRuns
<1>4. CASE UNCHANGED toAgent
  <2>1. Staged'
    BY <1>0, <1>4 DEF Staged, Quiet, Capturing, Changing, Working, Out, Unanswered, Unlisted, Busy,
       Waiting
  <2>2. OneBody' /\ OneOwner'
    BY <1>0, <1>4 DEF OneBody, OneOwner, Unanswered
  <2>3. OneRequest'
    <3>1. \/ UNCHANGED <<clearing, clearSent>>
          \/ /\ ~In(toAgent, ClearAsks) /\ ~In(toTui, ClearedAny)
             /\ clearing' /\ ~clearSent' => sending.id # 0
          \/ \E r \in RequestType : r.kind = "clear" /\ Pushed(toAgent, toAgent', r) /\ ~In(toAgent, ClearAsks)
      BY <1>0 DEF OneRequest
    <3>2. ~\E r \in RequestType : r.kind = "clear" /\ Pushed(toAgent, toAgent', r) /\ ~In(toAgent, ClearAsks)
      BY <1>4, ClearAskClass DEF Pushed
    <3> QED BY <1>0, <1>4, <3>1, <3>2 DEF OneRequest
  <2> QED BY <1>1, <1>2, <1>3, <2>1, <2>2, <2>3 DEF IInv
<1>5. CASE /\ ~clearing /\ clearing' /\ clearSent' /\ remote # {}
           /\ \E r \in RequestType : r.kind = "clear" /\ Pushed(toAgent, toAgent', r)
  <2>1. PICK r \in RequestType : r.kind = "clear" /\ Pushed(toAgent, toAgent', r)
    BY <1>5
  <2>2. /\ r \notin CaptureAsks /\ r \notin ModelAsks /\ r \notin BodyAsks /\ r \notin SteerAsks
        /\ r \in ClearAsks /\ r \notin OtherAsks /\ (\A to : r \notin AwayAsks(to))
        /\ (\A p, to : r \notin StrayAsks(p, to))
    BY <2>1, ClearAskClass
  <2>3. ~In(toAgent, ClearAsks) /\ ~In(toTui, ClearedAny) /\ ~Unlisted
    BY <1>0, <1>5 DEF OneRequest, Unlisted
  <2>4. ~Unlisted'
    BY <1>5 DEF Unlisted
  <2>5. Waiting' = Waiting /\ Busy' = Busy
    BY DEF Waiting, Busy
  <2>6. Staged'
    BY <1>0, <2>1, <2>2, <2>3, <2>4, <2>5
    DEF Staged, Quiet, Capturing, Changing, Working, Out, Unanswered, Pushed
  <2>7. OneBody' /\ OneOwner'
    BY <1>0, <2>1, <2>2 DEF OneBody, OneOwner, Unanswered, Pushed
  <2>8. OneRequest'
    BY <1>0, <1>5, <2>1, <2>2, <2>3 DEF OneRequest, Pushed
  <2> QED BY <1>1, <1>2, <1>3, <2>6, <2>7, <2>8 DEF IInv
<1> QED BY <1>4, <1>5

LEMMA CancelAsapStep == ASSUME IInv, CancelAsap PROVE IInv'
<1> DEFINE r == Request("clear", NoPrompt, None)
<1>0. TypeOK /\ Placed
  BY DEF IInv
<1>1. /\ ~clearing /\ local' = Afters(local) /\ failed' = Afters(failed) /\ dropped \subseteq dropped'
      /\ clearing' = HasBackend
      /\ clearSent' = (HasBackend /\ sending.id = 0)
      /\ toAgent' = IF HasBackend /\ sending.id = 0 THEN Append(toAgent, r) ELSE toAgent
      /\ UNCHANGED <<remote, sending, composer, status, pendingSub, current, temp, owner, toTui, pi,
                     submitted, interrupts, ran, returned>>
  BY DEF CancelAsap
<1>2. r \in RequestType /\ r.kind = "clear"
  BY RequestTyped, Constants
<1> HIDE DEF r
<1>3. /\ local' \in Seq(Records) /\ Ids(Afters(local)) \subseteq Ids(local) /\ Distinct(Afters(local))
      /\ failed' \in Seq(PromptLike)
  BY <1>0, <1>1, AftersIds DEF TypeOK, Placed
<1>4. Ids(local)' \subseteq Ids(local) /\ Distinct(local)'
  BY <1>1, <1>3 DEF Ids, Distinct
<1>5. CASE HasBackend /\ sending.id = 0
  <2>1. toAgent' \in Seq(RequestType) /\ Pushed(toAgent, toAgent', r)
    BY <1>0, <1>1, <1>2, <1>5, Asked DEF Ask
  <2>2. remote # {} /\ clearing' /\ clearSent' /\ clearing' \in BOOLEAN /\ clearSent' \in BOOLEAN
    BY <1>1, <1>5 DEF HasBackend
  <2> QED BY <1>1, <1>2, <1>3, <1>4, <2>1, <2>2, CancelStep DEF status, pi
<1>6. CASE ~(HasBackend /\ sending.id = 0)
  <2>1. /\ clearing' \in BOOLEAN /\ clearSent' \in BOOLEAN
        /\ toAgent' = toAgent /\ (clearing' /\ ~clearSent' => sending.id # 0)
    BY <1>1, <1>6 DEF HasBackend
  <2>2. toAgent' \in Seq(RequestType)
    BY <1>0, <2>1 DEF TypeOK
  <2> QED BY <1>1, <1>3, <1>4, <2>1, <2>2, CancelStep DEF status, pi
<1> QED BY <1>5, <1>6

LEMMA CancelLatestStep == ASSUME IInv, CancelLatest PROVE IInv'
<1>0. TypeOK /\ Placed
  BY DEF IInv
<1>1. /\ ~QueueEmpty /\ ~HasAsap
      /\ \/ local # <<>> /\ local' = Front(local) /\ dropped \subseteq dropped' /\ UNCHANGED failed
         \/ local = <<>> /\ failed' = Front(failed) /\ UNCHANGED <<local, dropped>>
      /\ UNCHANGED <<remote, sending, clearing, clearSent, composer, status, pendingSub, current,
                     temp, owner, toAgent, toTui, pi, submitted, interrupts, ran, returned>>
  BY DEF CancelLatest
<1>2. /\ local' \in Seq(Records) /\ Ids(local)' \subseteq Ids(local) /\ Distinct(local)'
      /\ failed' \in Seq(PromptLike) /\ dropped \subseteq dropped'
  <2>1. CASE local # <<>> /\ local' = Front(local) /\ dropped \subseteq dropped' /\ UNCHANGED failed
    <3>1. Front(local) \in Seq(Records) /\ Ids(Front(local)) \subseteq Ids(local) /\ Distinct(Front(local))
      BY <1>0, <2>1, FrontIds DEF TypeOK, Placed
    <3> QED BY <1>0, <2>1, <3>1 DEF Ids, Distinct, TypeOK
  <2>2. CASE local = <<>> /\ failed' = Front(failed) /\ UNCHANGED <<local, dropped>>
    <3>1. failed # <<>>
      BY <1>1, <2>2 DEF QueueEmpty, HasAsap
    <3>2. Front(failed) \in Seq(PromptLike)
      BY <1>0, <3>1, FrontIds DEF TypeOK
    <3> QED BY <1>0, <2>2, <3>2 DEF Ids, Distinct, TypeOK, Placed
  <2> QED BY <1>1, <2>1, <2>2
<1>3. /\ toAgent' \in Seq(RequestType) /\ clearing' \in BOOLEAN /\ clearSent' \in BOOLEAN
  BY <1>0, <1>1 DEF TypeOK
<1> QED BY <1>1, <1>2, <1>3, CancelStep DEF status, pi

LEMMA SameStep ==
  ASSUME IInv, UNCHANGED <<pending, status, pendingSub, current, temp, owner, toAgent, toTui, pi, history>>
  PROVE  IInv'
<1>0. TypeOK /\ Staged /\ OneBody /\ OneRequest /\ OneOwner /\ Placed /\ RightRoute /\ NotTwice
  BY DEF IInv
<1>1. TypeOK'
  BY <1>0 DEF TypeOK, pending, status, pi, history
<1>2. Staged'
  BY <1>0 DEF Staged, Quiet, Capturing, Changing, Working, Out, Unanswered, Unlisted, Busy, Waiting,
     pending, pi
<1>3. OneBody' /\ OneRequest' /\ OneOwner'
  BY <1>0 DEF OneBody, OneRequest, OneOwner, Unanswered, pending, pi
<1>4. Placed'
  BY <1>0 DEF Placed, Ids, Distinct, RanIds, Waiting, Out, Unanswered, pending, pi, history
<1> QED BY <1>0, <1>1, <1>2, <1>3, <1>4, SameRuns DEF IInv, history

\* What only other prompts or an interrupt bring about does not happen.
LEMMA NoOthers ==
  ASSUME IInv, RecordsOnly
  PROVE  /\ ~SubmitPlain /\ ~Interrupt /\ ~TakeInterrupt
         /\ ~PlainRestore /\ ~PlainSelect /\ ~PlainSend
<1>0. TypeOK /\ Staged
  BY DEF IInv
<1>1. ~SubmitPlain
  BY DEF SubmitPlain, RecordsOnly
<1>2. ~Interrupt
  BY <1>0 DEF Interrupt, RecordsOnly, TypeOK
<1>3. ~TakeInterrupt
  <2>1. \A i \in DOMAIN toAgent : toAgent[i] \in RequestType
    BY <1>0 DEF TypeOK
  <2>2. \A i \in DOMAIN toAgent : toAgent[i].kind # "interrupt"
    BY <2>1 DEF RequestType
  <2> QED BY <2>2 DEF TakeInterrupt
<1>4. ~PlainRestore
  BY <1>0 DEF PlainRestore, PlainOpen, ShouldRestore, RecordPath, Owned, Staged
<1>5. ~\E i \in NextIndex : PlainCurrent(i)
  BY <1>0, NextIs DEF PlainCurrent, PlainOpen, RecordPath
<1> QED BY <1>1, <1>2, <1>3, <1>4, <1>5 DEF PlainSelect, PlainSend

-----------------------------------------------------------------------------
(* The theorem *)

LEMMA InitIInv == Init => IInv
<1> SUFFICES ASSUME Init PROVE IInv
  OBVIOUS
<1>1. /\ local = <<>> /\ failed = <<>> /\ toAgent = <<>> /\ toTui = <<>> /\ piQueue = <<>>
      /\ DOMAIN local = {} /\ DOMAIN toAgent = {} /\ DOMAIN toTui = {} /\ DOMAIN piQueue = {}
      /\ Len(piQueue) = 0
      /\ local \in Seq(Records) /\ failed \in Seq(PromptLike) /\ toAgent \in Seq(RequestType)
      /\ toTui \in Seq(EventType) /\ piQueue \in Seq(BodyType)
  BY DEF Init
<1>2. /\ remote = {} /\ sending = NoPrompt /\ clearing = FALSE /\ clearSent = FALSE /\ running = FALSE
      /\ current = Base /\ temp = NoTemp /\ owner = NoOwner /\ piRoute = Base /\ piRunning = FALSE
      /\ starting = {} /\ submitted = 0 /\ interrupts = 0 /\ ran = {} /\ returned = {} /\ dropped = {}
  BY DEF Init
<1>3. /\ NoPrompt.id = 0 /\ NoPrompt.rec = 0 /\ NoTemp.phase = "none"
      /\ owner.id = 0 /\ owner.prompt = 0 /\ ~owner.snapshot /\ ~owner.cancel /\ ~owner.sent
      /\ ~owner.consumed /\ ~owner.recovered /\ ~owner.commandPending /\ ~owner.admitted
  BY <1>2 DEF NoPrompt, NoTemp, NoOwner, NewOwner
<1>4. (\A S : ~In(toAgent, S)) /\ (\A S : ~In(toTui, S))
  BY <1>1 DEF In
<1>5. (\A S, T : Behind(toAgent, S, T)) /\ (\A S, T : Behind(toTui, S, T))
  BY <1>4, Nothing
<1>6. TypeOK
  BY <1>1, <1>2, <1>3, Constants DEF TypeOK
<1>7. ~Out /\ ~Unanswered /\ ~Waiting /\ ~Busy
  BY <1>1, <1>2, <1>3, <1>4 DEF Out, Unanswered, Waiting, Waits, Busy
<1>8. Staged
  BY <1>2, <1>3, <1>4, <1>7 DEF Staged, Quiet
<1>9. OneBody /\ OneRequest /\ OneOwner
  BY <1>1, <1>2, <1>3, <1>4, <1>5, <1>7 DEF OneBody, OneRequest, OneOwner
<1>10. Placed
  <2>1. Ids(local) = {} /\ RanIds = {} /\ Distinct(local)
    BY <1>1, <1>2 DEF Ids, RanIds, Distinct
  <2> QED BY <1>2, <1>3, <1>4, <1>7, <2>1 DEF Placed
<1>11. RightRoute /\ NotTwice
  BY <1>2 DEF RightRoute, NotTwice
<1> QED BY <1>6, <1>8, <1>9, <1>10, <1>11 DEF IInv

LEMMA NextIInv == ASSUME RecordsOnly, IInv, [Next]_vars PROVE IInv'
<1>1. CASE User
  BY <1>1, NoOthers, SubmitRecordStep, CancelAsapStep, CancelLatestStep, SameStep DEF User, EmptyComposer
<1>2. CASE Dispatch
  BY <1>2, NoOthers, DispatchRestoreStep, DispatchCaptureStep, DispatchFailStep, DispatchSelectStep,
     DispatchSendStep DEF Dispatch
<1>3. CASE Receive
  BY <1>3, StatusStep, CatalogStep, CapturedStep, DispatchedStep, AdmissionStep, SettlementStep,
     AsapQueueStep, UserStep, PromptErrorStep, ModelErrorStep DEF Receive
<1>4. CASE Take
  BY <1>4, NoOthers, TakeModelStep, TakeCaptureStep, TakeInputStep, TakeSteerStep, TakeClearStep DEF Take
<1>5. CASE Answer
  BY <1>5, PiAcceptStep, PiRefuseStep, PiHandleStep DEF Answer
<1>6. CASE Run
  BY <1>6, PiConsumeStep, PiSettleStep DEF Run
<1>7. CASE UNCHANGED vars
  BY <1>7, SameStep DEF vars
<1> QED BY <1>1, <1>2, <1>3, <1>4, <1>5, <1>6, <1>7 DEF Next

\* When the user submits Records only and interrupts none, every Record runs
\* under the route it was promised, whatever is refused and whatever the user
\* takes back (record.rs, model.rs); and the frontend knows of a borrowed route
\* as long as Pi uses it.
THEOREM RoutesHold == ASSUME RecordsOnly PROVE Spec => []RoutesKept
<1>1. IInv => RoutesKept
  BY DEF IInv, Staged, RoutesKept, LoanKnown
<1> QED BY <1>1, InitIInv, NextIInv, PTL DEF Spec

\* ... and none that was given back to the user runs as well.
THEOREM NotTwiceHolds == ASSUME RecordsOnly PROVE Spec => []NotTwice
<1>1. IInv => NotTwice
  BY DEF IInv
<1> QED BY <1>1, InitIInv, NextIInv, PTL DEF Spec
=============================================================================
