---------------------------- MODULE PiAuthProofs ----------------------------
(***************************************************************************)
(* What the login page is told of a flow is true, and a flow the worker    *)
(* holds can be reached and is owed its outcome, for all bounds.           *)
(*                                                                         *)
(* The invariant has seven parts: the types; a helper without a flow asks  *)
(* nothing (Resting); helper, manager and credential agree on one flow, of *)
(* which an outcome is still to come (Mutation); the outcomes the helper   *)
(* wrote, and what it does, tell what became of the credential             *)
(* (Outstanding); nothing was reported of a flow that is held or queued    *)
(* (Truth); no event follows the outcome of its flow to the page, and each *)
(* opening of the page is sent one start (OnTheWay); the page has the flow *)
(* of the helper, or waits for the one start that names it (Reached).      *)
(* For each action a lemma, <Action>Does, first says what it does to the   *)
(* fields these parts are about.                                           *)
(***************************************************************************)
EXTENDS PiAuth, TLAPS

\* What the fields hold.
Verdicts  == {"succeeded", "changed", "cancelled", "failed", "unchanged", "unknown"}
Notes     == [kind : {"started", "catalog", "prompt", "withdrawn"}, flow : Int, arg : Nat]
Finishes  == [kind : {"finished"}, flow : Int, arg : Verdicts]
Events    == Notes \cup Finishes
Outcomes  == [kind : {"outcome"}, flow : Nat, arg : {"succeeded", "cancelled", "failed"}, committed : BOOLEAN]
Words     == [kind : {"catalog", "prompt", "withdrawn", "eof"}, flow : Nat, arg : Nat]
Records   == Outcomes \cup Words
Contexts  == [session : Nat, trusted : BOOLEAN]
Pages     == [kind : {"closed", "providers", "waiting", "prompt", "outcome"}, flow : Int, prompt : Nat,
              listed : BOOLEAN]
Managers  == [active : Nat, pending : Nat, refreshDue : BOOLEAN, catalog : Nat, catalogDue : BOOLEAN,
              last : BOOLEAN, next : Nat, helper : BOOLEAN, context : Contexts]
Helpers   == [alive : BOOLEAN, flow : Nat, asking : Nat, aborted : BOOLEAN, stored : BOOLEAN]

Types ==
  /\ page \in Pages
  /\ auth \in Managers
  /\ helper \in Helpers
  /\ pi \in Contexts
  /\ opens \in Nat /\ prompts \in Nat /\ flows \in 0..MaxFlows
  /\ reported \in [Flows -> Seq(Verdicts)]
  /\ toPage \in Seq(Events)
  /\ queued \in Seq(Finishes)
  /\ outbox \in Seq(Records)
  /\ refreshing \subseteq Nat

-----------------------------------------------------------------------------
\* Reading and writing a channel.
Items(s) == {s[i] : i \in DOMAIN s}

LEMMA TailOf ==
  ASSUME NEW S, NEW s \in Seq(S), s # <<>>
  PROVE  /\ Tail(s) \in Seq(S) /\ Head(s) \in S /\ Head(s) = s[1]
         /\ Len(s) \in Nat \ {0} /\ Len(Tail(s)) = Len(s) - 1
         /\ DOMAIN s = 1..Len(s) /\ DOMAIN Tail(s) = 1..(Len(s) - 1)
         /\ \A i \in 1..(Len(s) - 1) : Tail(s)[i] = s[i + 1]
OBVIOUS

LEMMA AppendOf ==
  ASSUME NEW S, NEW s \in Seq(S), NEW e \in S
  PROVE  /\ Append(s, e) \in Seq(S) /\ Append(s, e) # <<>>
         /\ Len(s) \in Nat /\ Len(Append(s, e)) = Len(s) + 1
         /\ DOMAIN s = 1..Len(s) /\ DOMAIN Append(s, e) = 1..(Len(s) + 1)
         /\ \A i \in 1..Len(s) : Append(s, e)[i] = s[i]
         /\ Append(s, e)[Len(s) + 1] = e
OBVIOUS

LEMMA JoinOf ==
  ASSUME NEW S, NEW s \in Seq(S), NEW e \in S, NEW f \in S
  PROVE  /\ s \o << >> = s /\ s \o <<e>> = Append(s, e)
         /\ s \o <<e, f>> = Append(Append(s, e), f)
<1>1. s \o << >> = s /\ s \o <<e>> = Append(s, e)
  OBVIOUS
<1>2. <<e, f>> \in Seq(S) /\ <<e>> \in Seq(S) /\ <<e, f>> = Append(<<e>>, f)
  OBVIOUS
<1>3. \A t \in Seq(S) : s \o Append(t, f) = Append(s \o t, f)
  OBVIOUS
<1>4. s \o <<e, f>> = Append(s \o <<e>>, f)
  BY <1>2, <1>3
<1> QED
  BY <1>1, <1>4

LEMMA PrefixOf ==
  ASSUME NEW S, NEW s \in Seq(S), NEW n \in 0..Len(s)
  PROVE  SubSeq(s, 1, n) \in Seq(S) /\ Items(SubSeq(s, 1, n)) \subseteq Items(s)
<1> DEFINE t == SubSeq(s, 1, n)
<1>1. t \in Seq(S) /\ Len(t) = n /\ \A i \in 1..n : t[i] = s[i]
  OBVIOUS
<1>2. DOMAIN t = 1..n /\ DOMAIN s = 1..Len(s) /\ 1..n \subseteq 1..Len(s)
  BY <1>1
<1> HIDE DEF t
<1> QED
  BY <1>1, <1>2 DEF Items, t

LEMMA ItemsRead ==
  ASSUME NEW S, NEW s \in Seq(S), s # <<>>
  PROVE  Head(s) \in Items(s) /\ Items(s) = Items(Tail(s)) \cup {Head(s)}
<1> DEFINE t == Tail(s)
<1>1. /\ Head(s) = s[1] /\ 1 \in DOMAIN s
      /\ \A i \in DOMAIN t : i + 1 \in DOMAIN s /\ t[i] = s[i + 1]
      /\ \A i \in DOMAIN s : i = 1 \/ (i - 1 \in DOMAIN t /\ t[i - 1] = s[i])
  BY TailOf
<1> HIDE DEF t
<1>2. Items(s) \subseteq Items(t) \cup {s[1]}
  BY <1>1 DEF Items
<1>3. Items(t) \cup {s[1]} \subseteq Items(s)
  BY <1>1 DEF Items
<1> QED
  BY <1>1, <1>2, <1>3 DEF t

LEMMA ItemsWritten ==
  ASSUME NEW S, NEW s \in Seq(S), NEW e \in S
  PROVE  Items(Append(s, e)) = Items(s) \cup {e}
<1> DEFINE t == Append(s, e)
<1>1. /\ Len(s) \in Nat /\ DOMAIN s = 1..Len(s) /\ DOMAIN t = 1..(Len(s) + 1)
      /\ \A i \in 1..Len(s) : t[i] = s[i]
      /\ t[Len(s) + 1] = e
  BY AppendOf
<1>2. DOMAIN t = DOMAIN s \cup {Len(s) + 1}
  BY <1>1
<1> HIDE DEF t
<1> QED
  BY <1>1, <1>2 DEF Items, t

LEMMA ItemsAre == ASSUME NEW S, NEW s \in Seq(S) PROVE Items(s) \subseteq S
BY DEF Items

-----------------------------------------------------------------------------
\* The events and records there are.
LEMMA EventsAre ==
  /\ \A flow \in Int, arg \in Nat :
       /\ Message("catalog", flow, arg) \in Notes
       /\ Message("started", flow, arg) \in Notes
  /\ \A flow \in Int, v \in Verdicts : Finished(flow, v) \in Finishes
  /\ \A flow \in Nat, arg \in Nat :
       /\ Message("catalog", flow, arg) \in Words /\ Message("eof", flow, arg) \in Words
       /\ Message("prompt", flow, arg) \in Words /\ Message("withdrawn", flow, arg) \in Words
  /\ \A flow \in Nat, committed \in BOOLEAN, v \in {"succeeded", "cancelled", "failed"} :
       Outcome(flow, committed, v) \in Outcomes
  /\ Notes \subseteq Events /\ Finishes \subseteq Events /\ Words \subseteq Records /\ Outcomes \subseteq Records
BY DEF Message, Finished, Outcome, Notes, Finishes, Words, Outcomes, Events, Records

LEMMA NoneIs == None \in Nat /\ None \in Int /\ None = 0 /\ Refused \in Int /\ Refused \notin Nat
BY DEF None, Refused

LEMMA TypesInit == Init => Types
<1> SUFFICES ASSUME Init PROVE Types
  OBVIOUS
<1>1. page \in Pages
  BY DEF Init, Closed, Pages, None
<1>2. auth \in Managers
  BY DEF Init, Managers, NoContext, Contexts, None
<1>3. helper \in Helpers
  BY DEF Init, Helpers, NoHelper, None
<1>4. pi \in Contexts
  BY DEF Init, Contexts
<1>5. flows \in 0..MaxFlows
  BY BoundsAssumption DEF Init
<1>6. reported \in [Flows -> Seq(Verdicts)]
  BY DEF Init
<1> QED
  BY <1>1, <1>2, <1>3, <1>4, <1>5, <1>6 DEF Init, Types

\* What a handler publishes: nothing, one event, or the two of a flow that does
\* not start.
LEMMA Published ==
  ASSUME Types
  PROVE  /\ Publish(<< >>) => UNCHANGED <<toPage, reported>>
         /\ \A e \in Notes : Publish(<<e>>) => toPage' = Append(toPage, e) /\ UNCHANGED reported
         /\ \A flow \in Int, v \in Verdicts :
              /\ Publish(<<Finished(flow, v)>>) =>
                   /\ toPage' = Append(toPage, Finished(flow, v))
                   /\ reported' = IF flow # Refused THEN [reported EXCEPT ![flow] = Append(@, v)] ELSE reported
              /\ \A e \in Notes :
                   Publish(<<e, Finished(flow, v)>>) =>
                     /\ toPage' = Append(Append(toPage, e), Finished(flow, v))
                     /\ reported' = IF flow # Refused THEN [reported EXCEPT ![flow] = Append(@, v)]
                                    ELSE reported
<1>1. toPage \in Seq(Events)
  BY DEF Types
<1>2. \A e \in Events : << >> # <<e>> /\ <<e>>[Len(<<e>>)] = e
  OBVIOUS
<1>3. \A e, f \in Events : << >> # <<e, f>> /\ <<e, f>>[Len(<<e, f>>)] = f
  OBVIOUS
<1>4. Publish(<< >>) => UNCHANGED <<toPage, reported>>
  BY <1>1 DEF Publish
<1>5. ASSUME NEW e \in Notes, Publish(<<e>>) PROVE toPage' = Append(toPage, e) /\ UNCHANGED reported
  <2>1. e \in Events /\ e.kind # "finished"
    BY DEF Notes, Events
  <2>2. toPage' = toPage \o <<e>> /\ reported' = Report(e)
    BY <1>2, <1>5, <2>1 DEF Publish
  <2>3. Report(e) = reported
    BY <2>1 DEF Report
  <2> QED
    BY <1>1, <2>1, <2>2, <2>3, JoinOf
<1>6. ASSUME NEW flow \in Int, NEW v \in Verdicts
      PROVE  /\ Finished(flow, v) \in Events
             /\ Report(Finished(flow, v)) =
                  IF flow # Refused THEN [reported EXCEPT ![flow] = Append(@, v)] ELSE reported
  <2>1. Finished(flow, v).kind = "finished" /\ Finished(flow, v).flow = flow /\ Finished(flow, v).arg = v
    BY DEF Finished
  <2>2. Finished(flow, v) \in Events
    BY EventsAre
  <2> QED
    BY <2>1, <2>2 DEF Report
<1>7. ASSUME NEW flow \in Int, NEW v \in Verdicts, Publish(<<Finished(flow, v)>>)
      PROVE  toPage' = Append(toPage, Finished(flow, v)) /\ reported' = Report(Finished(flow, v))
  <2> DEFINE f == Finished(flow, v)
  <2>1. f \in Events
    BY <1>6
  <2>2. Publish(<<f>>)
    BY <1>7
  <2> HIDE DEF f
  <2>3. toPage' = toPage \o <<f>> /\ reported' = Report(f)
    BY <1>2, <2>1, <2>2 DEF Publish
  <2>4. toPage' = Append(toPage, f)
    BY <1>1, <2>1, <2>3, JoinOf
  <2> QED
    BY <2>3, <2>4 DEF f
<1>8. ASSUME NEW e \in Notes, NEW flow \in Int, NEW v \in Verdicts, Publish(<<e, Finished(flow, v)>>)
      PROVE  /\ toPage' = Append(Append(toPage, e), Finished(flow, v))
             /\ reported' = Report(Finished(flow, v))
  <2> DEFINE f == Finished(flow, v)
  <2>1. f \in Events /\ e \in Events
    BY <1>6 DEF Events
  <2>2. Publish(<<e, f>>)
    BY <1>8
  <2> HIDE DEF f
  <2>3. toPage' = toPage \o <<e, f>> /\ reported' = Report(f)
    BY <1>3, <2>1, <2>2 DEF Publish
  <2>4. toPage' = Append(Append(toPage, e), f)
    BY <1>1, <2>1, <2>3, JoinOf
  <2> QED
    BY <2>3, <2>4 DEF f
<1> QED
  BY <1>4, <1>5, <1>6, <1>7, <1>8


-----------------------------------------------------------------------------
\* What the handlers do to the fields the invariant is about.
Quiet        == UNCHANGED <<toPage, reported>>
Ends(flow, v) ==
  /\ toPage' = Append(toPage, Finished(flow, v))
  /\ reported' = [reported EXCEPT ![flow] = Append(@, v)]
SameFlow   == auth'.active = auth.active /\ auth'.pending = auth.pending /\ auth'.refreshDue = auth.refreshDue
Idle       == auth'.active = None /\ auth'.pending = None /\ auth'.refreshDue = FALSE
Dropped    == helper' = NoHelper /\ outbox' = << >> /\ ~auth'.helper
Says(r)    == outbox' = outbox \/ outbox' = Append(outbox, r)

LEMMA HelpersAre ==
  ASSUME Types
  PROVE  /\ NoHelper \in Helpers /\ NewHelper \in Helpers
         /\ ~NoHelper.alive /\ NoHelper.flow = None /\ ~NoHelper.stored /\ NoHelper.asking = None
         /\ NewHelper.alive /\ NewHelper.flow = None /\ ~NewHelper.stored /\ NewHelper.asking = None
         /\ helper.flow \in Nat /\ helper.asking \in Nat /\ auth.active \in Nat /\ auth.pending \in Nat
         /\ auth.next \in Nat
         /\ Withdrawn \in Words /\ Withdrawn.kind = "withdrawn" /\ Withdrawn.flow = helper.flow
<1>1. NoHelper \in Helpers /\ ~NoHelper.alive /\ NoHelper.flow = None /\ ~NoHelper.stored /\ NoHelper.asking = None
  BY DEF NoHelper, Helpers, None
<1>2. NewHelper \in Helpers /\ NewHelper.alive /\ NewHelper.flow = None /\ ~NewHelper.stored /\ NewHelper.asking = None
  BY DEF NoHelper, NewHelper, Helpers, None
<1>3. helper.flow \in Nat /\ helper.asking \in Nat /\ auth.active \in Nat /\ auth.pending \in Nat /\ auth.next \in Nat
  BY DEF Types, Helpers, Managers
<1>4. Withdrawn \in Words /\ Withdrawn.kind = "withdrawn" /\ Withdrawn.flow = helper.flow
  BY <1>3 DEF Withdrawn, Message, Words
<1> QED
  BY <1>1, <1>2, <1>3, <1>4

LEMMA OpenDoes ==
  ASSUME Types, Open
  PROVE  /\ page.kind = "closed" /\ page' = Providers(FALSE) /\ opens' = opens + 1
         /\ UNCHANGED <<queued, companion, flows, prompts, crashes, stored, refreshed, reported>>
         /\ auth' \in Managers /\ SameFlow
         /\ \/ /\ auth.helper /\ auth'.helper /\ UNCHANGED <<helper, toPage, lapses>>
               /\ Says(Message("catalog", None, auth.next))
            \/ /\ Dropped /\ toPage' = Append(toPage, Message("catalog", None, 0))
               /\ (auth.active = None /\ UNCHANGED lapses) \/ lapses' # {}
<1>1. /\ page.kind = "closed" /\ page' = Providers(FALSE) /\ opens' = opens + 1
      /\ UNCHANGED <<queued, companion, flows, prompts, crashes, stored, refreshed>>
      /\ GetCatalog
  BY DEF Open
<1>2. auth \in Managers /\ outbox \in Seq(Records)
  BY DEF Types
<1>3. Message("catalog", None, auth.next) \in Records /\ Message("catalog", None, 0) \in Notes
  BY EventsAre, NoneIs, HelpersAre
<1>4. PICK ok \in BOOLEAN :
        /\ Sends(ok)
        /\ IF ok
           THEN /\ auth' = [auth EXCEPT !.last = TRUE, !.next = auth.next + 1, !.catalog = auth.next,
                                        !.catalogDue = TRUE]
                /\ Tell(helper, <<Message("catalog", None, auth.next)>>)
                /\ Publish(<< >>)
                /\ UNCHANGED lapses
           ELSE /\ auth' = [auth EXCEPT !.last = TRUE, !.next = auth.next + 1, !.catalog = None,
                                        !.catalogDue = FALSE, !.helper = FALSE]
                /\ DropHelper
                /\ Publish(<<Message("catalog", None, 0)>>)
                /\ lapses' = IF auth.active # None THEN lapses \cup {"helper"} ELSE lapses
  BY <1>1 DEF GetCatalog
<1>5. CASE ok
  <2>1. auth' \in Managers /\ SameFlow /\ auth'.helper = auth.helper
    <3>1. auth' = [auth EXCEPT !.last = TRUE, !.next = auth.next + 1, !.catalog = auth.next, !.catalogDue = TRUE]
      BY <1>4, <1>5
    <3>2. auth.next + 1 \in Nat /\ auth.next \in Nat
      BY HelpersAre
    <3> QED
      BY <1>2, <3>1, <3>2 DEF Managers, SameFlow
  <2>2. auth.helper
    BY <1>4, <1>5 DEF Sends
  <2>3. helper' = helper /\ Says(Message("catalog", None, auth.next))
    <3>1. outbox \o <<Message("catalog", None, auth.next)>> = Append(outbox, Message("catalog", None, auth.next))
      BY <1>2, <1>3, JoinOf
    <3> QED
      BY <1>4, <1>5, <3>1 DEF Tell, machine, Says
  <2>4. UNCHANGED <<toPage, reported, lapses>>
    BY <1>4, <1>5, Published
  <2> QED
    BY <1>1, <2>1, <2>2, <2>3, <2>4
<1>6. CASE ~ok
  <2>1. auth' \in Managers /\ SameFlow /\ ~auth'.helper
    <3>1. auth' = [auth EXCEPT !.last = TRUE, !.next = auth.next + 1, !.catalog = None, !.catalogDue = FALSE,
                               !.helper = FALSE]
      BY <1>4, <1>6
    <3>2. auth.next + 1 \in Nat /\ None \in Nat
      BY HelpersAre, NoneIs
    <3> QED
      BY <1>2, <3>1, <3>2 DEF Managers, SameFlow
  <2>2. toPage' = Append(toPage, Message("catalog", None, 0)) /\ UNCHANGED reported
    BY <1>3, <1>4, <1>6, Published
  <2> QED
    BY <1>1, <1>4, <1>6, <2>1, <2>2 DEF Dropped, DropHelper
<1> QED
  BY <1>5, <1>6

LEMMA ChooseDoes ==
  ASSUME Types, Choose
  PROVE  /\ page.kind = "providers" /\ page' = Waiting(None)
         /\ UNCHANGED <<queued, companion, opens, prompts, crashes, stored, refreshed, lapses>>
         /\ \/ /\ toPage' = Append(Append(toPage, Started(Refused)), Finished(Refused, "failed"))
               /\ UNCHANGED <<reported, auth, machine, flows>>
            \/ /\ auth.active = None /\ flows' = flows + 1 /\ flows' \in Flows
               /\ auth' \in Managers /\ auth'.pending = auth.pending /\ auth'.refreshDue = auth.refreshDue
               /\ \/ /\ auth.helper /\ auth'.helper /\ auth'.active = flows'
                     /\ toPage' = Append(toPage, Started(flows')) /\ UNCHANGED reported
                     /\ \/ ~helper.alive /\ UNCHANGED machine
                        \/ /\ helper.alive /\ helper.flow = None /\ UNCHANGED outbox
                           /\ helper' = [helper EXCEPT !.flow = flows']
                        \/ /\ helper.flow # None /\ UNCHANGED helper
                           /\ outbox' = Append(outbox, Outcome(flows', FALSE, "failed"))
                  \/ /\ Dropped /\ auth'.active = None
                     /\ toPage' = Append(Append(toPage, Started(flows')), Finished(flows', "failed"))
                     /\ reported' = [reported EXCEPT ![flows'] = Append(@, "failed")]
<1> DEFINE flow == flows + 1
<1>1. /\ page.kind = "providers" /\ page' = Waiting(None)
      /\ UNCHANGED <<queued, companion, opens, prompts, crashes, stored, refreshed>>
      /\ StartFlow
  BY DEF Choose
<1>2. /\ auth \in Managers /\ outbox \in Seq(Records) /\ opens \in Nat /\ flows \in Nat
  BY BoundsAssumption DEF Types
<1>3. flow \in Nat /\ flow # Refused /\ flow \in Int
  BY <1>2 DEF Refused
<1>4. Started(Refused) \in Notes /\ Started(flow) \in Notes
  BY <1>2, <1>3, EventsAre, NoneIs DEF Started
<1>5. CASE /\ Publish(<<Started(Refused), Finished(Refused, "failed")>>)
           /\ UNCHANGED <<auth, machine, flows, lapses>>
  <2>1. "failed" \in Verdicts
    BY DEF Verdicts
  <2>2. /\ toPage' = Append(Append(toPage, Started(Refused)), Finished(Refused, "failed"))
        /\ reported' = reported
    BY <1>4, <1>5, <2>1, Published, NoneIs
  <2> QED
    BY <1>1, <1>5, <2>2
<1>6. CASE /\ Free /\ flows < MaxFlows
           /\ flows' = flow
           /\ \E ok \in BOOLEAN :
                /\ Sends(ok)
                /\ IF ok
                   THEN /\ auth' = [auth EXCEPT !.active = flow]
                        /\ Begun(flow)
                        /\ Publish(<<Started(flow)>>)
                   ELSE /\ auth' = [auth EXCEPT !.helper = FALSE]
                        /\ DropHelper
                        /\ Publish(<<Started(flow), Finished(flow, "failed")>>)
           /\ UNCHANGED lapses
  <2>1. auth.active = None /\ flow \in Flows
    BY <1>2, <1>6, BoundsAssumption DEF Free, Flows
  <2>2. PICK ok \in BOOLEAN :
                /\ Sends(ok)
                /\ IF ok
                   THEN /\ auth' = [auth EXCEPT !.active = flow]
                        /\ Begun(flow)
                        /\ Publish(<<Started(flow)>>)
                   ELSE /\ auth' = [auth EXCEPT !.helper = FALSE]
                        /\ DropHelper
                        /\ Publish(<<Started(flow), Finished(flow, "failed")>>)
    BY <1>6
  <2> HIDE DEF flow
  <2>3. CASE ok
    <3>1. auth' \in Managers /\ auth'.active = flow /\ auth'.pending = auth.pending
          /\ auth'.refreshDue = auth.refreshDue /\ auth'.helper = auth.helper
      BY <1>2, <1>3, <2>2, <2>3 DEF Managers
    <3>2. auth.helper
      BY <2>2, <2>3 DEF Sends
    <3>3. toPage' = Append(toPage, Started(flow)) /\ UNCHANGED reported
      BY <1>4, <2>2, <2>3, Published
    <3>4. \/ ~helper.alive /\ UNCHANGED machine
          \/ helper.alive /\ helper.flow = None /\ UNCHANGED outbox /\ helper' = [helper EXCEPT !.flow = flow]
          \/ /\ helper.flow # None /\ UNCHANGED helper
             /\ outbox' = Append(outbox, Outcome(flow, FALSE, "failed"))
      <4>1. Outcome(flow, FALSE, "failed") \in Records
        BY <1>3, EventsAre
      <4>2. outbox \o << >> = outbox
            /\ outbox \o <<Outcome(flow, FALSE, "failed")>> = Append(outbox, Outcome(flow, FALSE, "failed"))
        BY <1>2, <4>1, JoinOf
      <4> QED
        BY <2>2, <2>3, <4>2 DEF Begun, Tell
    <3> QED
      BY <1>1, <1>6, <2>1, <3>1, <3>2, <3>3, <3>4 DEF flow
  <2>4. CASE ~ok
    <3>1. auth' \in Managers /\ auth'.active = auth.active /\ auth'.pending = auth.pending
          /\ auth'.refreshDue = auth.refreshDue /\ ~auth'.helper
      BY <1>2, <2>2, <2>4 DEF Managers
    <3>2. /\ toPage' = Append(Append(toPage, Started(flow)), Finished(flow, "failed"))
          /\ reported' = [reported EXCEPT ![flow] = Append(@, "failed")]
      <4>1. "failed" \in Verdicts
        BY DEF Verdicts
      <4> QED
        BY <1>3, <1>4, <2>2, <2>4, <4>1, Published
    <3> QED
      BY <1>1, <1>6, <2>1, <2>2, <2>4, <3>1, <3>2 DEF flow, Dropped, DropHelper
  <2> QED
    BY <2>3, <2>4
<1> QED
  BY <1>1, <1>5, <1>6 DEF StartFlow


\* A request that cannot be sent ends the flow.
GivenUp ==
  /\ auth.active # None /\ auth' \in Managers /\ auth'.active = None /\ auth'.pending = auth.pending
  /\ auth'.refreshDue = auth.refreshDue /\ Dropped /\ Ends(auth.active, "unknown")
  /\ (auth.pending = None /\ UNCHANGED lapses) \/ lapses' # {}

LEMMA GiveUp ==
  ASSUME Types, ~auth.helper \/ ~helper.alive, auth.active # None, auth' = [auth EXCEPT !.helper = FALSE, !.active = None],
         DropHelper, Publish(<<Finished(auth.active, "unknown")>>),
         lapses' = IF auth.pending # None THEN lapses \cup {"helper"} ELSE lapses
  PROVE  GivenUp
<1>1. auth \in Managers /\ auth.active \in Nat /\ auth.active # Refused /\ "unknown" \in Verdicts
  BY HelpersAre, NoneIs DEF Types, Verdicts
<1>2. auth' \in Managers /\ auth'.active = None /\ auth'.pending = auth.pending /\ auth'.refreshDue = auth.refreshDue
      /\ ~auth'.helper
  BY <1>1, NoneIs DEF Managers
<1>3. Ends(auth.active, "unknown")
  BY <1>1, Published DEF Ends
<1> QED
  BY <1>2, <1>3 DEF GivenUp, Dropped, DropHelper

LEMMA AnswerDoes ==
  ASSUME Types, Answer
  PROVE  /\ page.kind = "prompt" /\ page' = Waiting(page.flow)
         /\ UNCHANGED <<queued, companion, opens, flows, prompts, crashes, stored, refreshed>>
         /\ \/ GivenUp
            \/ /\ UNCHANGED <<auth, toPage, reported, lapses, outbox>> /\ helper' \in Helpers
               /\ helper'.alive = helper.alive /\ helper'.flow = helper.flow
               /\ helper'.aborted = helper.aborted /\ helper'.stored = helper.stored
               /\ helper'.asking \in {helper.asking, None}
<1>1. /\ page.kind = "prompt" /\ page' = Waiting(page.flow)
      /\ UNCHANGED <<queued, companion, opens, flows, prompts, crashes, stored, refreshed>>
      /\ \/ PassOn(Answered(page.prompt))
         \/ UNCHANGED <<toPage, auth, machine, reported, lapses>>
  BY DEF Answer
<1>2. auth \in Managers /\ outbox \in Seq(Records) /\ helper \in Helpers
  BY DEF Types
<1>3. CASE UNCHANGED <<toPage, auth, machine, reported, lapses>>
  BY <1>1, <1>2, <1>3 DEF machine
<1>4. CASE PassOn(Answered(page.prompt))
  <2>1. PICK ok \in BOOLEAN :
    /\ Sends(ok)
    /\ IF ok
       THEN /\ Answered(page.prompt)
            /\ Publish(<< >>)
            /\ UNCHANGED <<auth, lapses>>
       ELSE IF auth.active # None
       THEN /\ auth' = [auth EXCEPT !.helper = FALSE, !.active = None]
            /\ DropHelper
            /\ Publish(<<Finished(auth.active, "unknown")>>)
            /\ lapses' = IF auth.pending # None THEN lapses \cup {"helper"} ELSE lapses
       ELSE /\ Publish(<< >>)
            /\ UNCHANGED <<auth, machine, lapses>>
    BY <1>4 DEF PassOn
  <2>2. CASE ok
    <3>1. UNCHANGED <<toPage, reported, auth, lapses>>
      BY <2>1, <2>2, Published
    <3>2. outbox \o << >> = outbox
      BY <1>2
    <3>3. UNCHANGED outbox /\ helper' \in {helper, [helper EXCEPT !.asking = None]}
      BY <2>1, <2>2, <3>2 DEF Answered, Tell, machine
    <3> QED
      BY <1>1, <1>2, <3>1, <3>3, NoneIs DEF Helpers
  <2>3. CASE ~ok /\ auth.active # None
    <3>1. ~auth.helper \/ ~helper.alive
      BY <2>1, <2>3 DEF Sends
    <3> QED
      BY <1>1, <2>1, <2>3, <3>1, GiveUp
  <2>4. CASE ~ok /\ auth.active = None
    BY <1>1, <1>2, <2>1, <2>4, Published DEF machine
  <2> QED
    BY <2>2, <2>3, <2>4
<1> QED
  BY <1>1, <1>3, <1>4

LEMMA LeaveDoes ==
  ASSUME Types, Leave
  PROVE  /\ \/ page.kind = "prompt" /\ page' = Waiting(page.flow)
            \/ page.kind = "waiting" /\ page' = Closed
         /\ UNCHANGED <<queued, companion, opens, flows, prompts, crashes, stored, refreshed>>
         /\ \/ GivenUp
            \/ /\ UNCHANGED <<auth, toPage, reported, lapses, machine>>
               /\ helper.flow = None \/ ~helper.alive \/ auth.active = None
            \/ /\ UNCHANGED <<auth, toPage, reported, lapses>> /\ helper.flow # None /\ helper.alive
               /\ helper' \in Helpers /\ helper'.alive /\ helper'.flow = helper.flow
               /\ helper'.aborted /\ helper'.stored = helper.stored /\ Says(Withdrawn)
<1>1. /\ \/ page.kind = "prompt" /\ page' = Waiting(page.flow)
         \/ page.kind = "waiting" /\ page' = Closed
      /\ UNCHANGED <<queued, companion, opens, flows, prompts, crashes, stored, refreshed>>
      /\ PassOn(Aborted)
  BY DEF Leave
<1>2. auth \in Managers /\ outbox \in Seq(Records) /\ helper \in Helpers
  BY DEF Types
<1>3. PICK ok \in BOOLEAN :
    /\ Sends(ok)
    /\ IF ok
       THEN /\ Aborted
            /\ Publish(<< >>)
            /\ UNCHANGED <<auth, lapses>>
       ELSE IF auth.active # None
       THEN /\ auth' = [auth EXCEPT !.helper = FALSE, !.active = None]
            /\ DropHelper
            /\ Publish(<<Finished(auth.active, "unknown")>>)
            /\ lapses' = IF auth.pending # None THEN lapses \cup {"helper"} ELSE lapses
       ELSE /\ Publish(<< >>)
            /\ UNCHANGED <<auth, machine, lapses>>
  BY <1>1 DEF PassOn
<1>4. CASE ok
  <2>1. UNCHANGED <<toPage, reported, auth, lapses>>
    BY <1>3, <1>4, Published
  <2>2. \/ UNCHANGED machine /\ (helper.flow = None \/ ~helper.alive)
        \/ /\ helper.flow # None /\ helper.alive
           /\ helper' = [helper EXCEPT !.aborted = TRUE, !.asking = None]
           /\ Says(Withdrawn)
    <3>1. outbox \o << >> = outbox /\ outbox \o <<Withdrawn>> = Append(outbox, Withdrawn)
      BY <1>2, JoinOf, HelpersAre, EventsAre
    <3> QED
      BY <1>3, <1>4, <3>1 DEF Aborted, Tell, Says
  <2>3. CASE UNCHANGED machine /\ (helper.flow = None \/ ~helper.alive)
    BY <1>1, <2>1, <2>3
  <2>4. CASE /\ helper.flow # None /\ helper.alive
             /\ helper' = [helper EXCEPT !.aborted = TRUE, !.asking = None]
             /\ Says(Withdrawn)
    <3>1. helper' \in Helpers /\ helper'.alive /\ helper'.flow = helper.flow /\ helper'.aborted
          /\ helper'.stored = helper.stored
      BY <1>2, <2>4, NoneIs DEF Helpers
    <3> QED
      BY <1>1, <2>1, <2>4, <3>1
  <2> QED
    BY <2>2, <2>3, <2>4
<1>5. CASE ~ok /\ auth.active # None
  <2>1. ~auth.helper \/ ~helper.alive
    BY <1>3, <1>5 DEF Sends
  <2> QED
    BY <1>1, <1>3, <1>5, <2>1, GiveUp
<1>6. CASE ~ok /\ auth.active = None
  BY <1>1, <1>3, <1>6, Published
<1> QED
  BY <1>4, <1>5, <1>6

LEMMA TakeRecordDoes ==
  ASSUME Types, TakeRecord
  PROVE  LET r == Head(outbox) IN
         /\ outbox # << >> /\ r \in Records /\ auth.helper /\ queued = << >> /\ auth' \in Managers
         /\ UNCHANGED <<page, queued, pi, contexts, opens, flows, prompts, crashes, stored, refreshed, lapses>>
         /\ \/ /\ r.kind = "eof" /\ Dropped /\ Idle /\ UNCHANGED refreshing
               /\ \/ auth.active = None /\ Quiet
                  \/ auth.active # None /\ Ends(auth.active, "unknown")
            \/ /\ r.kind # "eof" /\ outbox' = Tail(outbox) /\ UNCHANGED helper /\ auth'.helper
               /\ \/ r.kind = "outcome" /\ r.flow # auth.active /\ UNCHANGED <<auth, refreshing>> /\ Quiet
                  \/ /\ r.kind = "outcome" /\ r.flow = auth.active /\ r.committed
                     /\ auth'.active = auth.active /\ auth'.pending = r.flow /\ auth'.refreshDue
                     /\ refreshing' = refreshing \cup {r.flow} /\ Quiet
                  \/ /\ r.kind = "outcome" /\ r.flow = auth.active /\ ~r.committed
                     /\ auth'.active = None /\ auth'.pending = auth.pending /\ auth'.refreshDue = auth.refreshDue
                     /\ UNCHANGED refreshing
                     /\ toPage' = Append(toPage, Finished(r.flow, r.arg))
                     /\ reported' = [reported EXCEPT ![r.flow] = Append(@, r.arg)]
                  \/ /\ r.kind = "catalog" /\ SameFlow /\ UNCHANGED refreshing
                     /\ \/ Quiet
                        \/ \E n \in Nat : toPage' = Append(toPage, Message("catalog", None, n)) /\ UNCHANGED reported
                  \/ /\ r.kind \in {"prompt", "withdrawn"} /\ UNCHANGED <<auth, refreshing>>
                     /\ \/ Quiet
                        \/ r.flow = auth.active /\ r \in Notes /\ toPage' = Append(toPage, r) /\ UNCHANGED reported
<1> DEFINE r == Head(outbox)
<1>1. /\ auth.helper /\ outbox # << >> /\ queued = << >>
      /\ UNCHANGED <<page, queued, pi, contexts, opens, flows, prompts, crashes, stored, refreshed, lapses>>
      /\ \/ r.kind = "eof" /\ LoseHelper
         \/ r.kind # "eof" /\ outbox' = Tail(outbox) /\ UNCHANGED helper /\ r.kind = "outcome" /\ Conclude(r)
         \/ /\ r.kind # "eof" /\ outbox' = Tail(outbox) /\ UNCHANGED helper /\ r.kind = "catalog" /\ List(r)
            /\ UNCHANGED refreshing
         \/ /\ r.kind # "eof" /\ outbox' = Tail(outbox) /\ UNCHANGED helper /\ r.kind \in {"prompt", "withdrawn"}
            /\ Publish(IF Ours(r) THEN <<r>> ELSE << >>)
            /\ UNCHANGED <<auth, refreshing>>
  BY DEF TakeRecord
<1>2. auth \in Managers /\ r \in Records
  BY <1>1, TailOf DEF Types
<1>3. auth.active \in Nat /\ auth.active # Refused /\ "unknown" \in Verdicts
  BY HelpersAre, NoneIs DEF Verdicts
<1> HIDE DEF r
<1>4. CASE r.kind = "eof" /\ LoseHelper
  <2>1. auth' \in Managers /\ Idle /\ ~auth'.helper
    <3>1. auth' = [auth EXCEPT !.active = None, !.pending = None, !.refreshDue = FALSE, !.helper = FALSE]
      BY <1>4 DEF LoseHelper
    <3> QED
      BY <1>2, <3>1, NoneIs DEF Managers, Idle
  <2>2. Dropped /\ UNCHANGED refreshing
    BY <1>4, <2>1 DEF LoseHelper, Dropped, DropHelper
  <2>3. \/ auth.active = None /\ Quiet
        \/ auth.active # None /\ Ends(auth.active, "unknown")
    <3>1. \/ auth.active = None /\ Publish(<< >>)
          \/ auth.active # None /\ Publish(<<Finished(auth.active, "unknown")>>)
      BY <1>4 DEF LoseHelper
    <3> QED
      BY <1>3, <3>1, Published DEF Quiet, Ends
  <2> QED
    BY <1>1, <1>2, <1>4, <2>1, <2>2, <2>3 DEF r
<1>5. CASE r.kind # "eof" /\ outbox' = Tail(outbox) /\ UNCHANGED helper /\ r.kind = "outcome" /\ Conclude(r)
  <2>1. r \in Outcomes /\ r.arg \in Verdicts /\ r.flow \in Nat
    BY <1>2, <1>5 DEF Records, Outcomes, Words, Verdicts
  <2>2. CASE ~Ours(r)
    BY <1>1, <1>2, <1>5, <2>2, Published DEF Conclude, Ours, Quiet, r
  <2>3. CASE Ours(r) /\ r.committed
    <3>1. auth' = [auth EXCEPT !.pending = r.flow, !.refreshDue = TRUE] /\ refreshing' = refreshing \cup {r.flow}
          /\ Publish(<< >>)
      BY <1>5, <2>3 DEF Conclude
    <3>2. auth' \in Managers /\ auth'.active = auth.active /\ auth'.pending = r.flow /\ auth'.refreshDue
          /\ auth'.helper = auth.helper
      BY <1>2, <2>1, <3>1 DEF Managers
    <3> QED
      BY <1>1, <1>2, <1>5, <2>3, <3>1, <3>2, Published DEF Ours, Quiet, r
  <2>4. CASE Ours(r) /\ ~r.committed
    <3>1. auth' = [auth EXCEPT !.active = None] /\ UNCHANGED refreshing /\ Publish(<<Finished(r.flow, r.arg)>>)
      BY <1>5, <2>4 DEF Conclude
    <3>2. auth' \in Managers /\ auth'.active = None /\ auth'.pending = auth.pending
          /\ auth'.refreshDue = auth.refreshDue /\ auth'.helper = auth.helper
      BY <1>2, <3>1, NoneIs DEF Managers
    <3>3. /\ toPage' = Append(toPage, Finished(r.flow, r.arg))
          /\ reported' = [reported EXCEPT ![r.flow] = Append(@, r.arg)]
      BY <2>1, <3>1, Published, NoneIs
    <3> QED
      BY <1>1, <1>2, <1>5, <2>4, <3>1, <3>2, <3>3 DEF Ours, r
  <2> QED
    BY <2>2, <2>3, <2>4
<1>6. CASE /\ r.kind # "eof" /\ outbox' = Tail(outbox) /\ UNCHANGED helper /\ r.kind = "catalog" /\ List(r)
           /\ UNCHANGED refreshing
  <2>1. auth' \in Managers /\ SameFlow /\ auth'.helper = auth.helper
    <3>1. auth' = auth \/ auth' = [auth EXCEPT !.catalog = None, !.catalogDue = FALSE]
      BY <1>6 DEF List
    <3> QED
      BY <1>2, <3>1, NoneIs DEF Managers, SameFlow
  <2>2. \/ Quiet
        \/ \E n \in Nat : toPage' = Append(toPage, Message("catalog", None, n)) /\ UNCHANGED reported
    <3>1. Publish(<< >>) \/ \E n \in {0, 1} : Publish(<<Message("catalog", None, n)>>)
      BY <1>6 DEF List
    <3>2. \A n \in {0, 1} : n \in Nat /\ Message("catalog", None, n) \in Notes
      BY EventsAre, NoneIs
    <3> QED
      BY <3>1, <3>2, Published DEF Quiet
  <2> QED
    BY <1>1, <1>2, <1>6, <2>1, <2>2 DEF r
<1>7. CASE /\ r.kind # "eof" /\ outbox' = Tail(outbox) /\ UNCHANGED helper /\ r.kind \in {"prompt", "withdrawn"}
           /\ Publish(IF Ours(r) THEN <<r>> ELSE << >>)
           /\ UNCHANGED <<auth, refreshing>>
  <2>1. r \in Notes
    BY <1>2, <1>7 DEF Records, Outcomes, Words, Notes
  <2>2. CASE ~Ours(r)
    BY <1>1, <1>2, <1>7, <2>2, Published DEF Quiet, r
  <2>3. CASE Ours(r)
    <3>1. toPage' = Append(toPage, r) /\ UNCHANGED reported
      BY <1>7, <2>1, <2>3, Published
    <3> QED
      BY <1>1, <1>2, <1>7, <2>1, <2>3, <3>1 DEF Ours, r
  <2> QED
    BY <2>2, <2>3
<1> QED
  BY <1>1, <1>4, <1>5, <1>6, <1>7


LEMMA TakeQueuedDoes ==
  ASSUME Types, TakeQueued
  PROVE  LET q == Head(queued) IN
         /\ queued # << >> /\ queued' = Tail(queued) /\ q \in Finishes
         /\ UNCHANGED <<page, auth, machine, companion, opens, flows, prompts, crashes, stored, refreshed, lapses>>
         /\ toPage' = Append(toPage, Finished(q.flow, q.arg))
         /\ reported' = IF q.flow # Refused THEN [reported EXCEPT ![q.flow] = Append(@, q.arg)] ELSE reported
<1> DEFINE q == Head(queued)
<1>1. /\ queued # << >> /\ queued' = Tail(queued) /\ Publish(<<q>>)
      /\ UNCHANGED <<page, auth, machine, companion, opens, flows, prompts, crashes, stored, refreshed, lapses>>
  BY DEF TakeQueued
<1>2. q \in Finishes
  BY <1>1, TailOf DEF Types
<1> HIDE DEF q
<1>3. q = Finished(q.flow, q.arg) /\ q.flow \in Int /\ q.arg \in Verdicts
  BY <1>2 DEF Finishes, Finished
<1>4. Publish(<<Finished(q.flow, q.arg)>>)
  BY <1>1, <1>3
<1> QED
  BY <1>1, <1>2, <1>3, <1>4, Published DEF q

LEMMA OverdueDoes ==
  ASSUME Types, RefreshOverdue \/ CatalogOverdue
  PROVE  /\ UNCHANGED <<page, queued, machine, companion, opens, flows, prompts, crashes, stored, refreshed, lapses>>
         /\ auth' \in Managers /\ auth'.helper = auth.helper
         /\ \/ /\ auth.pending = None /\ auth'.pending = None /\ auth'.active = auth.active /\ auth'.refreshDue = FALSE
               /\ Quiet
            \/ /\ auth.pending # None /\ auth.refreshDue /\ Idle /\ Ends(auth.pending, "changed")
            \/ /\ SameFlow /\ UNCHANGED reported
               /\ toPage' = toPage \/ toPage' = Append(toPage, Message("catalog", None, 0))
<1>1. auth \in Managers /\ auth.pending \in Nat /\ auth.pending # Refused /\ "changed" \in Verdicts
  BY HelpersAre, NoneIs DEF Types, Verdicts
<1>2. UNCHANGED <<page, queued, machine, companion, opens, flows, prompts, crashes, stored, refreshed, lapses>>
  BY DEF RefreshOverdue, CatalogOverdue
<1>3. CASE RefreshOverdue /\ auth.pending = None
  <2>1. auth' = [auth EXCEPT !.refreshDue = FALSE] /\ Publish(<< >>)
    BY <1>3 DEF RefreshOverdue
  <2>2. auth' \in Managers /\ auth'.helper = auth.helper /\ auth'.pending = None /\ auth'.active = auth.active
        /\ auth'.refreshDue = FALSE
    BY <1>1, <1>3, <2>1 DEF Managers
  <2> QED
    BY <1>2, <1>3, <2>1, <2>2, Published DEF Quiet
<1>4. CASE RefreshOverdue /\ auth.pending # None
  <2>1. /\ auth' = [auth EXCEPT !.refreshDue = FALSE, !.pending = None, !.active = None] /\ auth.refreshDue
        /\ Publish(<<Finished(auth.pending, "changed")>>)
    BY <1>4 DEF RefreshOverdue
  <2>2. auth' \in Managers /\ auth'.helper = auth.helper /\ Idle
    BY <1>1, <2>1, NoneIs DEF Managers, Idle
  <2>3. Ends(auth.pending, "changed")
    BY <1>1, <2>1, Published DEF Ends
  <2> QED
    BY <1>2, <1>4, <2>1, <2>2, <2>3
<1>5. CASE CatalogOverdue
  <2>1. auth' = [auth EXCEPT !.catalogDue = FALSE, !.catalog = None]
    BY <1>5 DEF CatalogOverdue
  <2>2. auth' \in Managers /\ auth'.helper = auth.helper /\ SameFlow
    BY <1>1, <2>1, NoneIs DEF Managers, SameFlow
  <2>3. Publish(<< >>) \/ Publish(<<Message("catalog", None, 0)>>)
    BY <1>5 DEF CatalogOverdue
  <2>4. Message("catalog", None, 0) \in Notes
    BY EventsAre, NoneIs
  <2> QED
    BY <1>2, <2>2, <2>3, <2>4, Published
<1> QED
  BY <1>3, <1>4, <1>5

LEMMA TakeRefreshDoes ==
  ASSUME Types, TakeRefresh
  PROVE  /\ UNCHANGED <<page, queued, machine, pi, contexts, opens, flows, prompts, crashes, stored>>
         /\ refreshing' \subseteq refreshing /\ refreshed \subseteq refreshed'
         /\ auth' \in Managers /\ auth'.helper = auth.helper
         /\ \/ UNCHANGED <<auth, lapses>> /\ Quiet
            \/ /\ auth.pending \in refreshing /\ Idle /\ UNCHANGED lapses
               /\ \/ Ends(auth.pending, "succeeded") /\ auth.pending \in refreshed'
                  \/ Ends(auth.pending, "changed")
            \/ /\ auth.pending = None /\ SameFlow /\ UNCHANGED lapses /\ Quiet
            \/ /\ auth.pending # None /\ auth'.pending = None /\ auth'.active = auth.active /\ lapses' # {} /\ Quiet
<1>1. auth \in Managers /\ auth.pending \in Nat /\ refreshing \subseteq Nat
      /\ "changed" \in Verdicts /\ "succeeded" \in Verdicts
  BY HelpersAre DEF Types, Verdicts
<1>2. UNCHANGED <<page, queued, machine, pi, contexts, opens, flows, prompts, crashes, stored>>
  BY DEF TakeRefresh
<1>3. PICK flow \in refreshing, answer \in {"done", "failed", "none"} :
        /\ refreshing' = refreshing \ {flow}
        /\ refreshed' = IF answer = "done" THEN refreshed \cup {flow} ELSE refreshed
        /\ IF answer = "none"
           THEN Publish(<< >>) /\ UNCHANGED <<auth, lapses>>
           ELSE IF auth.pending = flow
           THEN /\ auth' = [auth EXCEPT !.pending = None, !.active = None, !.refreshDue = FALSE]
                /\ Publish(<<Finished(flow, IF answer = "done" THEN "succeeded" ELSE "changed")>>)
                /\ UNCHANGED lapses
           ELSE /\ auth' = [auth EXCEPT !.pending = None]
                /\ Publish(<< >>)
                /\ lapses' = IF auth.pending = None THEN lapses ELSE lapses \cup {"refresh"}
  BY DEF TakeRefresh
<1>4. refreshing' \subseteq refreshing /\ refreshed \subseteq refreshed'
  BY <1>3
<1>5. CASE answer = "none"
  BY <1>1, <1>2, <1>3, <1>4, <1>5, Published DEF Quiet
<1>6. CASE answer # "none" /\ auth.pending = flow
  <2>1. auth' = [auth EXCEPT !.pending = None, !.active = None, !.refreshDue = FALSE] /\ UNCHANGED lapses
    BY <1>3, <1>6
  <2>2. auth' \in Managers /\ auth'.helper = auth.helper /\ Idle
    BY <1>1, <2>1, NoneIs DEF Managers, Idle
  <2>3. \/ Publish(<<Finished(flow, "succeeded")>>) /\ flow \in refreshed'
        \/ Publish(<<Finished(flow, "changed")>>)
    BY <1>3, <1>6
  <2>4. \/ Ends(flow, "succeeded") /\ flow \in refreshed'
        \/ Ends(flow, "changed")
    <3>1. flow \in Int /\ flow # Refused
      BY <1>1, NoneIs
    <3> QED
      BY <1>1, <2>3, <3>1, Published DEF Ends
  <2> QED
    BY <1>2, <1>4, <1>6, <2>1, <2>2, <2>4
<1>7. CASE answer # "none" /\ auth.pending # flow
  <2>1. auth' = [auth EXCEPT !.pending = None] /\ Publish(<< >>)
        /\ lapses' = IF auth.pending = None THEN lapses ELSE lapses \cup {"refresh"}
    BY <1>3, <1>7
  <2>2. auth' \in Managers /\ auth'.helper = auth.helper /\ auth'.pending = None /\ auth'.active = auth.active
        /\ auth'.refreshDue = auth.refreshDue
    BY <1>1, <2>1, NoneIs DEF Managers
  <2> QED
    BY <1>2, <1>4, <2>1, <2>2, Published DEF Quiet, SameFlow
<1> QED
  BY <1>5, <1>6, <1>7

LEMMA TakeContextDoes ==
  ASSUME Types, TakeContext
  PROVE  /\ UNCHANGED <<page, toPage, refreshing, opens, flows, prompts, crashes, refreshed, reported>>
         /\ pi' \in Contexts /\ auth' \in Managers
         /\ \/ UNCHANGED <<auth, queued, machine, stored, lapses>>
            \/ /\ Idle
               /\ UNCHANGED lapses \/ lapses' # {}
               /\ stored' = stored \/ (helper.flow # None /\ stored' = stored \cup {helper.flow})
               /\ \E base \in {queued, << >>}, v \in {"unchanged", "unknown"} :
                    \/ auth.active = None /\ queued' = base
                    \/ auth.active # None /\ queued' = Append(base, Finished(auth.active, v))
               /\ \/ /\ helper' = NewHelper /\ auth'.helper
                     /\ outbox' \in {<< >>, <<Message("catalog", None, auth.next)>>}
                  \/ /\ helper' = NoHelper /\ auth'.helper = auth.helper
                     /\ \/ helper.alive /\ outbox' = Append(outbox, Message("eof", None, None))
                        \/ ~helper.alive /\ UNCHANGED outbox
<1>1. auth \in Managers /\ pi \in Contexts /\ auth.active \in Nat /\ queued \in Seq(Finishes)
  BY HelpersAre DEF Types
<1>2. PICK context \in {pi, [pi EXCEPT !.session = @ + 1], [pi EXCEPT !.trusted = ~@]} :
       /\ pi' = context
       /\ IF auth.context = context /\ auth.helper
          THEN UNCHANGED <<auth, queued, machine, stored, lapses>>
          ELSE Configure(context)
  BY DEF TakeContext
<1>3. context \in Contexts
  <2>1. pi.session + 1 \in Nat /\ (~pi.trusted) \in BOOLEAN
    BY <1>1 DEF Contexts
  <2>2. [pi EXCEPT !.session = @ + 1] \in Contexts
    BY <1>1, <2>1 DEF Contexts
  <2>3. [pi EXCEPT !.trusted = ~@] \in Contexts
    BY <1>1, <2>1 DEF Contexts
  <2> QED
    BY <1>1, <1>2, <2>2, <2>3
<1>4. UNCHANGED <<page, toPage, refreshing, opens, flows, prompts, crashes, refreshed, reported>>
  BY DEF TakeContext
<1>5. CASE UNCHANGED <<auth, queued, machine, stored, lapses>>
  BY <1>1, <1>2, <1>3, <1>4, <1>5
<1>6. CASE Configure(context)
  <2> DEFINE moved == Moved(context)
             base  == [auth EXCEPT !.active = None, !.pending = None, !.refreshDue = FALSE,
                                   !.last = IF moved THEN FALSE ELSE @,
                                   !.catalog = IF moved THEN None ELSE @,
                                   !.catalogDue = IF moved THEN FALSE ELSE @]
             older == IF moved THEN << >> ELSE queued
             v     == IF moved THEN "unchanged" ELSE "unknown"
  <2>1. /\ queued' = older \o (IF auth.active = None THEN << >> ELSE <<Finished(auth.active, v)>>)
        /\ lapses' = IF moved /\ queued # << >> THEN lapses \cup {"queued"} ELSE lapses
        /\ \E late \in SUBSET ({helper.flow} \ {None}) : stored' = stored \cup late
        /\ \/ /\ helper' = NewHelper
              /\ outbox' = IF base.last THEN <<Message("catalog", None, auth.next)>> ELSE << >>
              /\ auth' = [base EXCEPT !.helper = TRUE, !.context = context,
                                      !.next = IF base.last THEN @ + 1 ELSE @,
                                      !.catalog = IF base.last THEN auth.next ELSE @,
                                      !.catalogDue = base.last \/ @]
           \/ /\ helper' = NoHelper
              /\ outbox' = IF helper.alive THEN Append(outbox, Message("eof", None, None)) ELSE outbox
              /\ auth' = base
    BY <1>6 DEF Configure
  <2>2. moved \in BOOLEAN
    BY DEF Moved
  <2> HIDE DEF moved
  <2>3. /\ base \in Managers /\ base.active = None /\ base.pending = None /\ base.refreshDue = FALSE
        /\ base.helper = auth.helper
    BY <1>1, <2>2, NoneIs DEF Managers
  <2> HIDE DEF base
  <2>4. stored' = stored \/ (helper.flow # None /\ stored' = stored \cup {helper.flow})
    <3>1. PICK late \in SUBSET ({helper.flow} \ {None}) : stored' = stored \cup late
      BY <2>1
    <3>2. CASE late = {}
      <4>1. \A f : f \in stored' <=> f \in stored
        BY <3>1, <3>2
      <4>2. stored' = stored
        BY <3>1, <3>2
      <4> QED
        BY <4>2
    <3>3. CASE late # {}
      <4>1. helper.flow \in late /\ late = {helper.flow} /\ helper.flow # None
        BY <3>3
      <4> QED
        BY <3>1, <4>1
    <3> QED
      BY <3>2, <3>3
  <2>5. UNCHANGED lapses \/ lapses' # {}
    BY <2>1
  <2>6. older \in {queued, << >>} /\ older \in Seq(Finishes) /\ v \in {"unchanged", "unknown"} /\ v \in Verdicts
    BY <1>1 DEF Verdicts
  <2> HIDE DEF older, v
  <2>7. \/ auth.active = None /\ queued' = older
        \/ auth.active # None /\ queued' = Append(older, Finished(auth.active, v))
    <3>1. Finished(auth.active, v) \in Finishes
      BY <1>1, <2>6, EventsAre
    <3> QED
      BY <2>1, <2>6, <3>1, JoinOf
  <2>8. CASE /\ helper' = NewHelper
             /\ outbox' = IF base.last THEN <<Message("catalog", None, auth.next)>> ELSE << >>
             /\ auth' = [base EXCEPT !.helper = TRUE, !.context = context,
                                     !.next = IF base.last THEN @ + 1 ELSE @,
                                     !.catalog = IF base.last THEN auth.next ELSE @,
                                     !.catalogDue = base.last \/ @]
    <3>1. auth' \in Managers /\ Idle /\ auth'.helper
      <4> DEFINE next == IF base.last THEN base.next + 1 ELSE base.next
                 catalog == IF base.last THEN auth.next ELSE base.catalog
                 due == base.last \/ base.catalogDue
      <4>1. next \in Nat /\ catalog \in Nat /\ due \in BOOLEAN
        BY <1>1, <2>3 DEF Managers
      <4>2. auth' = [base EXCEPT !.helper = TRUE, !.context = context, !.next = next, !.catalog = catalog,
                                 !.catalogDue = due]
        BY <2>8
      <4> HIDE DEF next, catalog, due
      <4> QED
        BY <1>3, <2>3, <4>1, <4>2 DEF Managers, Idle
    <3> QED
      BY <1>2, <1>3, <1>4, <2>4, <2>5, <2>6, <2>7, <2>8, <3>1
  <2>9. CASE /\ helper' = NoHelper
             /\ outbox' = IF helper.alive THEN Append(outbox, Message("eof", None, None)) ELSE outbox
             /\ auth' = base
    <3>1. auth' \in Managers /\ Idle /\ auth'.helper = auth.helper
      BY <2>3, <2>9 DEF Idle
    <3> QED
      BY <1>2, <1>3, <1>4, <2>4, <2>5, <2>6, <2>7, <2>9, <3>1
  <2> QED
    BY <2>1, <2>8, <2>9
<1> QED
  BY <1>2, <1>5, <1>6


\* What the helper's own steps do.
LEMMA HelperDoes ==
  ASSUME Types, HelperAsks \/ HelperWithdraws \/ HelperStores \/ HelperEnds
  PROVE  /\ UNCHANGED <<page, toPage, auth, queued, companion, opens, flows, crashes, refreshed, reported, lapses>>
         /\ prompts' \in Nat /\ helper' \in Helpers /\ helper'.alive = helper.alive
         /\ \/ /\ helper'.flow = helper.flow /\ helper'.aborted = helper.aborted /\ helper'.stored = helper.stored
               /\ UNCHANGED stored /\ (helper.flow # None \/ (helper.asking # None /\ helper'.asking = None))
               /\ outbox' \in Seq(Records) /\ Items(outbox) \subseteq Items(outbox')
               /\ \A r \in Items(outbox') \ Items(outbox) : r.kind \in {"prompt", "withdrawn"} /\ r.flow = helper.flow
            \/ /\ helper.flow # None /\ helper'.flow = helper.flow /\ helper'.aborted = helper.aborted
               /\ helper'.stored /\ stored' = stored \cup {helper.flow} /\ UNCHANGED outbox
            \/ /\ helper.flow # None /\ helper'.flow = None /\ ~helper'.stored /\ helper'.asking = None
               /\ UNCHANGED stored
               /\ \E v \in {"succeeded", "cancelled", "failed"} :
                    /\ v = "succeeded" => helper.stored
                    /\ outbox' = Append(outbox, Outcome(helper.flow, helper.stored, v))
<1>1. helper \in Helpers /\ outbox \in Seq(Records) /\ prompts \in Nat /\ helper.flow \in Nat /\ helper.stored \in BOOLEAN
  BY DEF Types, Helpers
<1>2. UNCHANGED <<page, toPage, auth, queued, companion, opens, flows, crashes, refreshed, reported, lapses>>
  BY DEF HelperAsks, HelperWithdraws, HelperStores, HelperEnds, history
<1>3. CASE HelperAsks
  <2> DEFINE id == prompts + 1
             p  == Message("prompt", helper.flow, id)
             w  == Message("withdrawn", helper.flow, id)
  <2>1. id \in Nat /\ prompts' = id /\ UNCHANGED stored /\ helper.flow # None
    BY <1>1, <1>3 DEF HelperAsks, history
  <2>2. helper' \in {helper, [helper EXCEPT !.asking = id]}
    BY <1>3 DEF HelperAsks
  <2>3. /\ helper' \in Helpers /\ helper'.alive = helper.alive /\ helper'.flow = helper.flow
        /\ helper'.aborted = helper.aborted /\ helper'.stored = helper.stored
    BY <1>1, <2>1, <2>2 DEF Helpers
  <2>4. /\ p \in Records /\ p.kind = "prompt" /\ p.flow = helper.flow
        /\ w \in Records /\ w.kind = "withdrawn" /\ w.flow = helper.flow
    BY <1>1, <2>1, EventsAre DEF Message
  <2>5. outbox' = outbox \o (<<p>> \o (IF helper.aborted THEN <<w>> ELSE << >>))
    BY <1>3 DEF HelperAsks, Write
  <2> HIDE DEF p, w, id
  <2>6. outbox' = Append(outbox, p) \/ outbox' = Append(Append(outbox, p), w)
    <3>1. <<p>> \in Seq(Records) /\ <<p, w>> = Append(<<p>>, w)
      BY <2>4
    <3>2. <<p>> \o << >> = <<p>> /\ <<p>> \o <<w>> = <<p, w>>
      BY <2>4, <3>1, JoinOf
    <3>3. outbox' = outbox \o <<p>> \/ outbox' = outbox \o <<p, w>>
      BY <2>5, <3>2
    <3> QED
      BY <1>1, <2>4, <3>3, JoinOf
  <2>7. /\ outbox' \in Seq(Records) /\ Items(outbox) \subseteq Items(outbox')
        /\ \A r \in Items(outbox') \ Items(outbox) : r \in {p, w}
    <3>1. Append(outbox, p) \in Seq(Records) /\ Append(Append(outbox, p), w) \in Seq(Records)
      BY <1>1, <2>4
    <3>2. Items(Append(outbox, p)) = Items(outbox) \cup {p}
      BY <1>1, <2>4, ItemsWritten
    <3>3. Items(Append(Append(outbox, p), w)) = Items(Append(outbox, p)) \cup {w}
      <4> DEFINE s == Append(outbox, p)
      <4>1. s \in Seq(Records)
        BY <3>1
      <4> HIDE DEF s
      <4>2. Items(Append(s, w)) = Items(s) \cup {w}
        BY <2>4, <4>1, ItemsWritten
      <4> QED
        BY <4>2 DEF s
    <3> QED
      BY <2>6, <3>1, <3>2, <3>3
  <2> QED
    BY <1>2, <2>1, <2>3, <2>4, <2>7
<1>4. CASE HelperWithdraws
  <2>1. /\ helper.asking # None /\ helper' = [helper EXCEPT !.asking = None] /\ UNCHANGED <<prompts, stored>>
        /\ outbox' = outbox \o <<Withdrawn>>
    BY <1>4 DEF HelperWithdraws, Write, history
  <2>2. /\ helper' \in Helpers /\ helper'.alive = helper.alive /\ helper'.flow = helper.flow
        /\ helper'.aborted = helper.aborted /\ helper'.stored = helper.stored /\ helper'.asking = None
    BY <1>1, <2>1, NoneIs DEF Helpers
  <2>3. Withdrawn \in Records /\ Withdrawn.kind = "withdrawn" /\ Withdrawn.flow = helper.flow
    BY HelpersAre, EventsAre
  <2>4. outbox' = Append(outbox, Withdrawn)
    BY <1>1, <2>1, <2>3, JoinOf
  <2>5. outbox' \in Seq(Records) /\ Items(outbox') = Items(outbox) \cup {Withdrawn}
    BY <1>1, <2>3, <2>4, ItemsWritten, AppendOf
  <2> QED
    BY <1>1, <1>2, <2>1, <2>2, <2>3, <2>5
<1>5. CASE HelperStores
  <2>1. /\ helper.flow # None /\ helper' = [helper EXCEPT !.stored = TRUE] /\ UNCHANGED <<prompts, outbox>>
        /\ stored' = stored \cup {helper.flow}
    BY <1>5 DEF HelperStores
  <2>2. /\ helper' \in Helpers /\ helper'.alive = helper.alive /\ helper'.flow = helper.flow
        /\ helper'.aborted = helper.aborted /\ helper'.stored
    BY <1>1, <2>1 DEF Helpers
  <2> QED
    BY <1>1, <1>2, <2>1, <2>2
<1>6. CASE HelperEnds
  <2>1. /\ helper.flow # None /\ helper.asking = None /\ helper' = [helper EXCEPT !.flow = None, !.stored = FALSE, !.aborted = FALSE]
        /\ UNCHANGED <<prompts, stored>>
    BY <1>6 DEF HelperEnds, history
  <2>2. helper' \in Helpers /\ helper'.alive = helper.alive /\ helper'.flow = None /\ ~helper'.stored /\ helper'.asking = None
    BY <1>1, <2>1, NoneIs DEF Helpers
  <2>3. PICK v \in {"succeeded", "cancelled", "failed"} :
          /\ v = "succeeded" => helper.stored
          /\ outbox' = outbox \o <<Outcome(helper.flow, helper.stored, v)>>
    BY <1>6 DEF HelperEnds, Write
  <2>4. Outcome(helper.flow, helper.stored, v) \in Records
    BY <1>1, EventsAre
  <2>5. outbox' = Append(outbox, Outcome(helper.flow, helper.stored, v))
    BY <1>1, <2>3, <2>4, JoinOf
  <2> QED
    BY <1>1, <1>2, <2>1, <2>2, <2>3, <2>5
<1> QED
  BY <1>3, <1>4, <1>5, <1>6

LEMMA HelperCrashesDoes ==
  ASSUME Types, HelperCrashes
  PROVE  /\ UNCHANGED <<page, toPage, auth, queued, companion, opens, flows, prompts, stored, refreshed, reported,
                        lapses>>
         /\ helper' = NoHelper /\ outbox' \in Seq(Records)
         /\ Message("eof", None, None) \in Items(outbox')
         /\ Items(outbox') \subseteq Items(outbox) \cup {Message("eof", None, None)}
<1>1. outbox \in Seq(Records) /\ Message("eof", None, None) \in Records
  BY EventsAre, NoneIs DEF Types
<1>2. PICK n \in 0..Len(outbox) : outbox' = Append(SubSeq(outbox, 1, n), Message("eof", None, None))
  BY DEF HelperCrashes
<1>3. SubSeq(outbox, 1, n) \in Seq(Records) /\ Items(SubSeq(outbox, 1, n)) \subseteq Items(outbox)
  BY <1>1, PrefixOf
<1>4. outbox' \in Seq(Records) /\ Items(outbox') = Items(SubSeq(outbox, 1, n)) \cup {Message("eof", None, None)}
  <2> DEFINE s == SubSeq(outbox, 1, n)
             r == Message("eof", None, None)
  <2>1. s \in Seq(Records) /\ r \in Records /\ outbox' = Append(s, r)
    BY <1>1, <1>2, <1>3
  <2> HIDE DEF s, r
  <2>2. Append(s, r) \in Seq(Records) /\ Items(Append(s, r)) = Items(s) \cup {r}
    BY <2>1, ItemsWritten, AppendOf
  <2> QED
    BY <2>1, <2>2 DEF s, r
<1> QED
  BY <1>3, <1>4 DEF HelperCrashes, history

-----------------------------------------------------------------------------
LEMMA TypesStep == Types /\ [Next]_vars => Types'
<1> SUFFICES ASSUME Types, [Next]_vars PROVE Types'
  OBVIOUS
<1>1. /\ page \in Pages /\ auth \in Managers /\ helper \in Helpers /\ pi \in Contexts
      /\ opens \in Nat /\ prompts \in Nat /\ flows \in 0..MaxFlows
      /\ reported \in [Flows -> Seq(Verdicts)]
      /\ toPage \in Seq(Events) /\ queued \in Seq(Finishes) /\ outbox \in Seq(Records)
      /\ refreshing \subseteq Nat
  BY DEF Types
<1>2. /\ NoHelper \in Helpers /\ NewHelper \in Helpers /\ << >> \in Seq(Records)
      /\ helper.flow \in Nat /\ auth.active \in Nat /\ auth.pending \in Nat /\ auth.next \in Nat
  BY HelpersAre
<1>3. /\ Message("catalog", None, 0) \in Events /\ Message("catalog", None, auth.next) \in Records
      /\ Message("eof", None, None) \in Records /\ \A n \in Nat : Message("catalog", None, n) \in Events
      /\ Withdrawn \in Records
  BY <1>2, EventsAre, NoneIs, HelpersAre
<1>4. ASSUME NEW e \in Events PROVE Append(toPage, e) \in Seq(Events)
  BY <1>1, <1>4
<1>5. ASSUME NEW r \in Records PROVE Append(outbox, r) \in Seq(Records) /\ (Says(r) => outbox' \in Seq(Records))
  <2>1. Append(outbox, r) \in Seq(Records)
    BY <1>1, <1>5, AppendOf
  <2> QED
    BY <1>1, <2>1 DEF Says
<1>6. \A flow \in Int, v \in Verdicts :
        /\ Finished(flow, v) \in Events /\ Finished(flow, v) \in Finishes
        /\ [reported EXCEPT ![flow] = Append(@, v)] \in [Flows -> Seq(Verdicts)]
  <2> SUFFICES ASSUME NEW flow \in Int, NEW v \in Verdicts
               PROVE  /\ Finished(flow, v) \in Events /\ Finished(flow, v) \in Finishes
                      /\ [reported EXCEPT ![flow] = Append(@, v)] \in [Flows -> Seq(Verdicts)]
    OBVIOUS
  <2>1. Finished(flow, v) \in Finishes /\ Finished(flow, v) \in Events
    BY EventsAre DEF Events
  <2>2. \A s \in Seq(Verdicts) : Append(s, v) \in Seq(Verdicts)
    OBVIOUS
  <2> QED
    BY <1>1, <2>1, <2>2
<1>7. ASSUME NEW flow \in Int, NEW v \in Verdicts, Ends(flow, v)
      PROVE  toPage' \in Seq(Events) /\ reported' \in [Flows -> Seq(Verdicts)]
  BY <1>4, <1>6, <1>7 DEF Ends
<1>8. {"unknown", "failed", "changed", "succeeded", "unchanged", "cancelled"} = Verdicts
  BY DEF Verdicts
<1>9. Dropped => helper' \in Helpers /\ outbox' \in Seq(Records)
  BY <1>2 DEF Dropped
<1>10. GivenUp => auth' \in Managers /\ helper' \in Helpers /\ outbox' \in Seq(Records) /\ toPage' \in Seq(Events)
                  /\ reported' \in [Flows -> Seq(Verdicts)]
  BY <1>2, <1>7, <1>8, <1>9 DEF GivenUp
<1>11. /\ Closed \in Pages /\ Waiting(None) \in Pages /\ Providers(FALSE) \in Pages /\ Ended \in Pages
       /\ \A flow \in Int : Waiting(flow) \in Pages
       /\ \A flow \in Int, p \in Nat : Asking(flow, p) \in Pages
       /\ \A list \in BOOLEAN : Providers(list) \in Pages
  BY NoneIs DEF Closed, Waiting, Providers, Ended, Asking, Pages
<1>12. CASE Open
  <2>1. /\ page' = Providers(FALSE) /\ opens' = opens + 1 /\ auth' \in Managers
        /\ UNCHANGED <<queued, companion, flows, prompts, reported>>
    BY <1>12, OpenDoes
  <2>2. \/ UNCHANGED <<helper, toPage>> /\ Says(Message("catalog", None, auth.next))
        \/ Dropped /\ toPage' = Append(toPage, Message("catalog", None, 0))
    BY <1>12, OpenDoes
  <2>3. helper' \in Helpers /\ outbox' \in Seq(Records) /\ toPage' \in Seq(Events)
    BY <1>1, <1>3, <1>4, <1>5, <1>9, <2>2
  <2>4. page' \in Pages /\ opens' \in Nat
    <3>1. opens + 1 \in Nat
      BY <1>1
    <3> QED
      BY <1>11, <2>1, <3>1
  <2> QED
    BY <1>1, <2>1, <2>3, <2>4 DEF Types, companion
<1>13. CASE Choose
  <2>1. /\ page' \in Pages /\ UNCHANGED <<queued, companion, opens, prompts>>
    BY <1>11, <1>13, ChooseDoes
  <2>2. flows' \in 0..MaxFlows /\ flows + 1 \in Nat /\ (flows' = flows + 1 \/ flows' = flows)
    <3>1. MaxFlows \in Nat
      BY BoundsAssumption
    <3>2. flows' = flows \/ (flows' = flows + 1 /\ flows' \in 1..MaxFlows)
      BY <1>13, ChooseDoes DEF Flows
    <3> QED
      BY <1>1, <3>1, <3>2
  <2>3. /\ Started(Refused) \in Events /\ Started(flows + 1) \in Events /\ Finished(Refused, "failed") \in Events
        /\ Finished(flows + 1, "failed") \in Events /\ "failed" \in Verdicts
    BY <1>1, <1>6, <1>8, <2>2, EventsAre, NoneIs DEF Started
  <2>4. toPage' \in Seq(Events)
    <3>1. \A e, f \in Events : Append(Append(toPage, e), f) \in Seq(Events)
      BY <1>1
    <3>2. \/ toPage' = Append(Append(toPage, Started(Refused)), Finished(Refused, "failed"))
          \/ toPage' = Append(toPage, Started(flows + 1))
          \/ toPage' = Append(Append(toPage, Started(flows + 1)), Finished(flows + 1, "failed"))
      BY <1>13, ChooseDoes
    <3> QED
      BY <1>4, <2>3, <3>1, <3>2
  <2>5. reported' \in [Flows -> Seq(Verdicts)] /\ auth' \in Managers
    <3>1. reported' = reported \/ reported' = [reported EXCEPT ![flows + 1] = Append(@, "failed")]
      BY <1>13, ChooseDoes
    <3> QED
      <4>1. auth' \in Managers
        <5>1. auth' = auth \/ auth' \in Managers
          BY <1>13, ChooseDoes
        <5> QED
          BY <1>1, <5>1
      <4>2. flows + 1 \in Int
        BY <2>2
      <4> QED
        <5>1. [reported EXCEPT ![flows + 1] = Append(@, "failed")] \in [Flows -> Seq(Verdicts)]
          BY <1>6, <2>3, <4>2
        <5> QED
          BY <1>1, <3>1, <4>1, <5>1
  <2>6. helper' \in Helpers /\ outbox' \in Seq(Records)
    <3>1. [helper EXCEPT !.flow = flows + 1] \in Helpers
      BY <1>1, <2>2 DEF Helpers
    <3>2. Outcome(flows + 1, FALSE, "failed") \in Records
      BY <2>2, EventsAre
    <3>3. \/ UNCHANGED machine
          \/ UNCHANGED outbox /\ helper' = [helper EXCEPT !.flow = flows + 1]
          \/ UNCHANGED helper /\ outbox' = Append(outbox, Outcome(flows + 1, FALSE, "failed"))
          \/ Dropped
      BY <1>13, ChooseDoes
    <3> QED
      BY <1>1, <1>5, <1>9, <3>1, <3>2, <3>3 DEF machine
  <2> QED
    BY <1>1, <2>1, <2>2, <2>4, <2>5, <2>6 DEF Types, companion
<1>14. CASE Answer
  <2>1. page' \in Pages
    <3>1. page' = Waiting(page.flow)
      BY <1>14, AnswerDoes
    <3>2. page.flow \in Int
      BY <1>1 DEF Pages
    <3> QED
      BY <1>11, <3>1, <3>2
  <2> QED
    BY <1>1, <1>10, <1>14, <2>1, AnswerDoes DEF Types, companion
<1>15. CASE Leave
  <2>1. page' \in Pages
    <3>1. page' = Waiting(page.flow) \/ page' = Closed
      BY <1>15, LeaveDoes
    <3>2. page.flow \in Int
      BY <1>1 DEF Pages
    <3> QED
      BY <1>11, <3>1, <3>2
  <2> QED
    BY <1>1, <1>3, <1>5, <1>10, <1>15, <2>1, LeaveDoes DEF Types, companion, machine
<1>16. CASE Exit \/ Replaced
  BY <1>1, <1>11, <1>16 DEF Exit, Replaced, Types, machine, companion, history
<1>17. CASE PageApplies
  <2> DEFINE e == Head(toPage)
  <2>1. toPage # << >> /\ page' = Shown(e) /\ toPage' = Tail(toPage)
        /\ UNCHANGED <<auth, queued, machine, companion, opens, flows, prompts, reported>>
    BY <1>17 DEF PageApplies
  <2>2. toPage' \in Seq(Events) /\ e \in Events
    BY <1>1, <2>1, TailOf
  <2> HIDE DEF e
  <2>3. Shown(e) \in Pages
    <3>1. e.flow \in Int /\ (e.kind = "prompt" => e.arg \in Nat)
          /\ e.kind \in {"started", "catalog", "prompt", "withdrawn", "finished"}
      BY <2>2 DEF Events, Notes, Finishes
    <3>2. (e.arg = 1) \in BOOLEAN
      OBVIOUS
    <3>3. \/ e.kind = "started" /\ Shown(e) \in {page, Waiting(e.flow)}
          \/ e.kind = "prompt" /\ Shown(e) \in {page, Asking(e.flow, e.arg)}
          \/ Shown(e) \in {page, Waiting(e.flow), Ended, Providers(e.arg = 1)}
      BY <3>1 DEF Shown
    <3> QED
      BY <1>1, <1>11, <3>1, <3>2, <3>3
  <2> QED
    BY <1>1, <2>1, <2>2, <2>3 DEF Types, machine, companion
<1>18. CASE TakeQueued
  <2> DEFINE q == Head(queued)
  <2>1. q.flow \in Int /\ q.arg \in Verdicts
    BY <1>18, TakeQueuedDoes DEF Finishes
  <2>2. queued' \in Seq(Finishes)
    BY <1>1, <1>18, TakeQueuedDoes, TailOf
  <2>3. toPage' \in Seq(Events) /\ reported' \in [Flows -> Seq(Verdicts)]
    <3>1. /\ toPage' = Append(toPage, Finished(q.flow, q.arg))
          /\ reported' = reported \/ reported' = [reported EXCEPT ![q.flow] = Append(@, q.arg)]
      BY <1>18, TakeQueuedDoes
    <3> HIDE DEF q
    <3>2. Finished(q.flow, q.arg) \in Events
      BY <1>6, <2>1
    <3> QED
      <4>1. [reported EXCEPT ![q.flow] = Append(@, q.arg)] \in [Flows -> Seq(Verdicts)]
        BY <1>6, <2>1
      <4>2. Append(toPage, Finished(q.flow, q.arg)) \in Seq(Events)
        BY <1>4, <3>2
      <4> QED
        BY <1>1, <3>1, <4>1, <4>2
  <2> QED
    BY <1>1, <1>18, <2>2, <2>3, TakeQueuedDoes DEF Types, machine, companion
<1>19. CASE TakeRecord
  <2> DEFINE r == Head(outbox)
  <2>1. /\ outbox # << >> /\ r \in Records /\ auth' \in Managers
        /\ UNCHANGED <<page, queued, pi, opens, flows, prompts>>
    BY <1>19, TakeRecordDoes
  <2>2. helper' \in Helpers /\ outbox' \in Seq(Records)
    <3>1. \/ Dropped
          \/ outbox' = Tail(outbox) /\ UNCHANGED helper
      BY <1>19, TakeRecordDoes
    <3> QED
      <4>1. Tail(outbox) \in Seq(Records)
        BY <1>1, <2>1, TailOf
      <4> QED
        BY <1>1, <1>9, <3>1, <4>1
  <2>3. refreshing' \subseteq Nat
    <3>1. \/ refreshing' = refreshing
          \/ r.flow = auth.active /\ refreshing' = refreshing \cup {r.flow}
      BY <1>19, TakeRecordDoes
    <3> QED
      BY <1>1, <1>2, <3>1
  <2>4. toPage' \in Seq(Events) /\ reported' \in [Flows -> Seq(Verdicts)]
    <3>1. \/ Quiet
          \/ Ends(auth.active, "unknown")
          \/ r.kind = "outcome" /\ Ends(r.flow, r.arg)
          \/ \E e \in Events : toPage' = Append(toPage, e) /\ UNCHANGED reported
      BY <1>3, <1>19, TakeRecordDoes DEF Ends, Events
    <3>2. r.kind = "outcome" => r.flow \in Int /\ r.arg \in Verdicts
      BY <2>1 DEF Records, Outcomes, Words, Verdicts
    <3> HIDE DEF r
    <3> QED
      <4>1. CASE Quiet
        BY <1>1, <4>1 DEF Quiet
      <4>2. CASE Ends(auth.active, "unknown")
        BY <1>2, <1>7, <1>8, <4>2
      <4>3. CASE r.kind = "outcome" /\ Ends(r.flow, r.arg)
        BY <1>7, <3>2, <4>3
      <4>4. CASE \E e \in Events : toPage' = Append(toPage, e) /\ UNCHANGED reported
        BY <1>1, <1>4, <4>4
      <4> QED
        BY <3>1, <4>1, <4>2, <4>3, <4>4
  <2> QED
    BY <1>1, <2>1, <2>2, <2>3, <2>4 DEF Types
<1>20. CASE RefreshOverdue \/ CatalogOverdue
  <2>1. \/ Quiet
        \/ Ends(auth.pending, "changed")
        \/ UNCHANGED reported /\ toPage' = Append(toPage, Message("catalog", None, 0))
    BY <1>20, OverdueDoes DEF Quiet
  <2>2. toPage' \in Seq(Events) /\ reported' \in [Flows -> Seq(Verdicts)]
    <3>1. CASE Quiet
      BY <1>1, <3>1 DEF Quiet
    <3>2. CASE Ends(auth.pending, "changed")
      BY <1>2, <1>7, <1>8, <3>2
    <3>3. CASE UNCHANGED reported /\ toPage' = Append(toPage, Message("catalog", None, 0))
      BY <1>1, <1>3, <1>4, <3>3
    <3> QED
      BY <2>1, <3>1, <3>2, <3>3
  <2> QED
    BY <1>1, <1>20, <2>2, OverdueDoes DEF Types, machine, companion
<1>21. CASE TakeRefresh
  <2>1. Quiet \/ Ends(auth.pending, "succeeded") \/ Ends(auth.pending, "changed")
    BY <1>21, TakeRefreshDoes
  <2>2. toPage' \in Seq(Events) /\ reported' \in [Flows -> Seq(Verdicts)]
    BY <1>1, <1>2, <1>7, <1>8, <2>1 DEF Quiet
  <2> QED
    BY <1>1, <1>21, <2>2, TakeRefreshDoes DEF Types, machine
<1>22. CASE TakeContext
  <2>1. queued' \in Seq(Finishes)
    <3>1. \/ queued' = queued
          \/ \E base \in {queued, << >>}, v \in {"unchanged", "unknown"} :
               queued' = base \/ queued' = Append(base, Finished(auth.active, v))
      BY <1>22, TakeContextDoes
    <3>2. \A v \in {"unchanged", "unknown"} : Finished(auth.active, v) \in Finishes
      BY <1>2, <1>6, <1>8
    <3>3. \A base \in Seq(Finishes), f \in Finishes : Append(base, f) \in Seq(Finishes)
      OBVIOUS
    <3>4. << >> \in Seq(Finishes)
      OBVIOUS
    <3> QED
      BY <1>1, <3>1, <3>2, <3>3, <3>4
  <2>2. helper' \in Helpers /\ outbox' \in Seq(Records)
    <3>1. \/ UNCHANGED machine
          \/ helper' \in {NewHelper, NoHelper} /\
             outbox' \in {<< >>, <<Message("catalog", None, auth.next)>>, outbox,
                          Append(outbox, Message("eof", None, None))}
      BY <1>22, TakeContextDoes
    <3>2. <<Message("catalog", None, auth.next)>> \in Seq(Records)
      BY <1>3
    <3> QED
      BY <1>1, <1>2, <1>3, <1>5, <3>1, <3>2 DEF machine
  <2> QED
    BY <1>1, <1>22, <2>1, <2>2, TakeContextDoes DEF Types
<1>23. CASE HelperAsks \/ HelperWithdraws \/ HelperStores \/ HelperEnds
  <2>1. outbox' \in Seq(Records)
    <3>1. \/ outbox' \in Seq(Records) \/ outbox' = outbox
          \/ \E v \in {"succeeded", "cancelled", "failed"} :
               outbox' = Append(outbox, Outcome(helper.flow, helper.stored, v))
      BY <1>23, HelperDoes
    <3>2. helper.stored \in BOOLEAN
      BY <1>1 DEF Helpers
    <3>3. \A v \in {"succeeded", "cancelled", "failed"} : Outcome(helper.flow, helper.stored, v) \in Records
      BY <1>2, <3>2, EventsAre
    <3> QED
      BY <1>1, <1>5, <3>1, <3>3
  <2> QED
    BY <1>1, <1>23, <2>1, HelperDoes DEF Types, companion
<1>24. CASE HelperCrashes
  BY <1>1, <1>2, <1>24, HelperCrashesDoes DEF Types, companion
<1>25. CASE UNCHANGED vars
  BY <1>1, <1>25 DEF vars, Types
<1> QED
  BY <1>12, <1>13, <1>14, <1>15, <1>16, <1>17, <1>18, <1>19, <1>20, <1>21, <1>22, <1>23, <1>24, <1>25 DEF Next, Step


-----------------------------------------------------------------------------
\* One flow at a time, and what stands between it and its outcome.
Ending(s, flow) ==
  \E r \in Items(s) : r.kind = "eof" \/ (r.kind = "outcome" /\ r.flow = flow)

Mutation ==
  /\ helper.flow # None => helper.flow = auth.active /\ helper.alive
  /\ lapses = {} /\ auth.pending # None =>
       auth.pending = auth.active /\ helper.flow = None /\ auth.refreshDue
  /\ auth.pending # None => auth.pending \in stored
  /\ helper.alive => auth.helper
  /\ auth.helper /\ ~helper.alive => \E r \in Items(outbox) : r.kind = "eof"
  /\ lapses = {} /\ auth.active # None =>
       \/ helper.flow = auth.active
       \/ Ending(outbox, auth.active)
       \/ auth.pending = auth.active /\ auth.refreshDue

\* What was reported of a flow, and what is still to be.
Silent(flow) == flow \in 1..flows /\ reported[flow] = << >>

Outstanding ==
  /\ stored \subseteq 1..flows /\ refreshing \subseteq 1..flows
  /\ \A r \in Items(outbox) :
       /\ r.kind = "outcome" => /\ r.flow \in 1..flows /\ r.flow # helper.flow
                                /\ r.committed <=> r.flow \in stored
                                /\ r.arg = "succeeded" => r.committed
       /\ r.kind \in {"prompt", "withdrawn"} => r.flow \in 1..flows
  /\ helper.stored <=> helper.flow \in stored

Truth ==
  /\ VerdictTrue
  /\ \A flow \in Flows : flow > flows => reported[flow] = << >>
  /\ auth.active # None => Silent(auth.active)
  /\ \A q \in Items(queued) : /\ Silent(q.flow) /\ q.flow # auth.active
                              /\ q.arg \in {"unchanged", "unknown"}
  /\ \A i, j \in DOMAIN queued : i # j => queued[i].flow # queued[j].flow

LEMMA ItemsNone == Items(<< >>) = {}
BY DEF Items

LEMMA SaysIs ==
  ASSUME Types, NEW r \in Records, Says(r)
  PROVE  Items(outbox') \in {Items(outbox), Items(outbox) \cup {r}}
<1>1. outbox \in Seq(Records)
  BY DEF Types
<1>2. Items(Append(outbox, r)) = Items(outbox) \cup {r}
  BY <1>1, ItemsWritten
<1> QED
  BY <1>2 DEF Says

\* A helper that runs nothing asks nothing.
Resting == helper.flow = None => helper.asking = None

LEMMA RestingInit == Init => Resting
BY DEF Init, Resting, NoHelper, None

LEMMA RestingStep ==
  ASSUME Types, Resting, Step
  PROVE  Resting'
<1>1. NoHelper.asking = None /\ NewHelper.asking = None
  BY HelpersAre
<1>2. helper' = helper => Resting'
  BY DEF Resting
<1>3. Dropped => Resting'
  BY <1>1 DEF Resting, Dropped
<1>4. GivenUp => Resting'
  BY <1>3 DEF GivenUp
<1>5. CASE Open
  BY <1>2, <1>3, <1>5, OpenDoes
<1>6. CASE Choose
  <2>1. \/ helper' = helper
        \/ Dropped
        \/ helper.flow = None /\ helper' = [helper EXCEPT !.flow = flows']
    BY <1>6, ChooseDoes DEF machine
  <2>2. CASE helper.flow = None /\ helper' = [helper EXCEPT !.flow = flows']
    <3>1. helper'.asking = helper.asking
      BY <2>2 DEF Types, Helpers
    <3> QED
      BY <2>2, <3>1 DEF Resting
  <2> QED
    BY <1>2, <1>3, <2>1, <2>2
<1>7. CASE Answer
  BY <1>4, <1>7, AnswerDoes DEF Resting
<1>8. CASE Leave
  BY <1>2, <1>4, <1>8, LeaveDoes DEF Resting, machine
<1>9. CASE Exit \/ Replaced \/ PageApplies
  BY <1>2, <1>9 DEF Exit, Replaced, PageApplies, machine
<1>10. CASE TakeQueued
  BY <1>2, <1>10, TakeQueuedDoes DEF machine
<1>11. CASE TakeRecord
  BY <1>2, <1>3, <1>11, TakeRecordDoes
<1>12. CASE RefreshOverdue \/ CatalogOverdue
  BY <1>2, <1>12, OverdueDoes DEF machine
<1>13. CASE TakeRefresh
  BY <1>2, <1>13, TakeRefreshDoes DEF machine
<1>14. CASE TakeContext
  <2>1. helper' = helper \/ helper' = NewHelper \/ helper' = NoHelper
    BY <1>14, TakeContextDoes DEF machine
  <2> QED
    BY <1>1, <1>2, <2>1 DEF Resting
<1>15. CASE HelperAsks \/ HelperWithdraws \/ HelperStores \/ HelperEnds
  BY <1>15, HelperDoes DEF Resting
<1>16. CASE HelperCrashes
  BY <1>1, <1>16, HelperCrashesDoes DEF Resting
<1> QED
  BY <1>5, <1>6, <1>7, <1>8, <1>9, <1>10, <1>11, <1>12, <1>13, <1>14, <1>15, <1>16 DEF Step

LEMMA MutationInit == Init => Mutation
BY DEF Init, Mutation, NoHelper, None

\* What another step leaves of the records of the helper.
LEMMA MutationKept ==
  ASSUME Mutation, lapses = {},
         helper'.flow \in {helper.flow, None}, helper'.alive = helper.alive,
         UNCHANGED stored, SameFlow, auth'.helper = auth.helper,
         Items(outbox) \subseteq Items(outbox'),
         helper'.flow = helper.flow \/ Ending(outbox', auth.active)
  PROVE  Mutation'
BY DEF Mutation, SameFlow, Ending

\* The flow is over, the helper as it was.
LEMMA MutationOver ==
  ASSUME Mutation, auth'.active = None, auth'.pending = None, helper'.flow = None,
         helper'.alive => auth'.helper,
         auth'.helper /\ ~helper'.alive => \E r \in Items(outbox') : r.kind = "eof"
  PROVE  Mutation'
BY DEF Mutation

LEMMA MutationStep ==
  ASSUME Types, Mutation, Outstanding, lapses = {}, Step
  PROVE  Mutation'
<1>1. outbox \in Seq(Records) /\ auth.active \in Nat /\ helper.flow \in Nat
  BY HelpersAre DEF Types
<1>2. /\ NoHelper.flow = None /\ ~NoHelper.alive /\ NewHelper.flow = None
      /\ Withdrawn.kind = "withdrawn"
  BY HelpersAre
<1>3. ASSUME NEW r \in Records, Says(r)
      PROVE  Items(outbox) \subseteq Items(outbox')
  BY <1>3, SaysIs
<1>4. ASSUME GivenUp, UNCHANGED stored PROVE Mutation'
  <2>1. lapses' = {} => auth'.pending = None
    BY <1>4 DEF GivenUp
  <2>2. /\ auth'.active = None /\ auth'.pending = auth.pending /\ helper'.flow = None /\ ~helper'.alive
        /\ ~auth'.helper /\ UNCHANGED stored
    BY <1>2, <1>4 DEF GivenUp, Dropped
  <2> QED
    BY <2>1, <2>2 DEF Mutation
<1>5. CASE Open
  <2>1. SameFlow /\ UNCHANGED stored
    BY <1>5, OpenDoes
  <2>2. CASE /\ auth.helper /\ auth'.helper /\ UNCHANGED <<helper, toPage, lapses>>
             /\ Says(Message("catalog", None, auth.next))
    <3>1. Items(outbox) \subseteq Items(outbox')
      BY <1>3, <2>2, EventsAre, NoneIs, HelpersAre
    <3>2. helper' = helper /\ auth'.helper = TRUE /\ auth.helper = TRUE
      BY <2>2
    <3> QED
      BY <2>1, <3>1, <3>2 DEF Mutation, SameFlow, Ending
  <2>3. CASE /\ Dropped
             /\ (auth.active = None /\ UNCHANGED lapses) \/ lapses' # {}
    <3>1. helper'.flow = None /\ ~helper'.alive /\ ~auth'.helper
      BY <1>2, <2>3 DEF Dropped
    <3> QED
      BY <2>1, <2>3, <3>1 DEF Mutation, SameFlow
  <2> QED
    BY <1>5, <2>2, <2>3, OpenDoes
<1>6. CASE Choose
  <2>1. UNCHANGED <<stored, lapses>>
    BY <1>6, ChooseDoes
  <2>2. CASE UNCHANGED <<auth, machine>>
    BY <2>1, <2>2 DEF Mutation, machine
  <2>3. CASE /\ auth.active = None /\ flows' \in Flows /\ auth'.pending = auth.pending
             /\ auth.helper /\ auth'.helper /\ auth'.active = flows'
             /\ \/ ~helper.alive /\ UNCHANGED machine
                \/ helper.alive /\ helper.flow = None /\ UNCHANGED outbox /\ helper' = [helper EXCEPT !.flow = flows']
                \/ helper.flow # None
    <3>1. auth.pending = None /\ helper.flow = None
      BY <2>3 DEF Mutation
    <3>2. CASE ~helper.alive /\ UNCHANGED machine
      <4>1. \E r \in Items(outbox') : r.kind = "eof"
        BY <2>3, <3>2 DEF Mutation, machine
      <4>2. helper' = helper
        BY <3>2 DEF machine
      <4> QED
        BY <2>3, <3>1, <3>2, <4>1, <4>2 DEF Mutation, Ending
    <3>3. CASE helper.alive /\ UNCHANGED outbox /\ helper' = [helper EXCEPT !.flow = flows']
      <4>1. helper'.flow = flows' /\ helper'.alive
        BY <3>3 DEF Types, Helpers
      <4> QED
        BY <2>3, <3>1, <4>1 DEF Mutation
    <3> QED
      BY <2>3, <3>1, <3>2, <3>3
  <2>4. CASE /\ auth.active = None /\ auth'.pending = auth.pending /\ Dropped /\ auth'.active = None
    <3>1. auth.pending = None
      BY <2>4 DEF Mutation
    <3>2. helper'.flow = None /\ ~helper'.alive /\ ~auth'.helper
      BY <1>2, <2>4 DEF Dropped
    <3> QED
      BY <2>4, <3>1, <3>2, MutationOver
  <2> QED
    BY <1>6, <2>2, <2>3, <2>4, ChooseDoes
<1>7. CASE Answer
  <2>1. CASE /\ UNCHANGED <<auth, lapses, outbox>> /\ helper'.alive = helper.alive /\ helper'.flow = helper.flow
             /\ UNCHANGED stored
    BY <2>1, MutationKept DEF SameFlow
  <2> QED
    BY <1>4, <1>7, <2>1, AnswerDoes
<1>8. CASE Leave
  <2>1. UNCHANGED stored
    BY <1>8, LeaveDoes
  <2>2. CASE UNCHANGED <<auth, lapses, machine>>
    BY <2>1, <2>2 DEF Mutation, machine
  <2>3. CASE /\ UNCHANGED <<auth, lapses>> /\ helper.alive /\ helper'.alive
             /\ helper'.flow = helper.flow /\ Says(Withdrawn)
    <3>1. Items(outbox) \subseteq Items(outbox')
      BY <1>3, <2>3, HelpersAre, EventsAre
    <3> QED
      BY <2>1, <2>3, <3>1 DEF Mutation, Ending
  <2> QED
    BY <1>4, <1>8, <2>2, <2>3, LeaveDoes
<1>9. CASE Exit
  BY <1>9 DEF Exit, Mutation, machine, history
<1>10. CASE Replaced \/ PageApplies
  BY <1>10 DEF Replaced, PageApplies, Mutation, machine
<1>11. CASE TakeQueued
  BY <1>11, TakeQueuedDoes DEF Mutation, machine
<1>12. CASE TakeRecord
  <2> DEFINE r == Head(outbox)
  <2>1. /\ outbox # << >> /\ auth.helper /\ UNCHANGED <<stored, lapses>>
    BY <1>12, TakeRecordDoes
  <2>2. r \in Items(outbox) /\ Items(outbox) = Items(Tail(outbox)) \cup {r}
    BY <1>1, <2>1, ItemsRead
  <2>3. \/ Dropped /\ Idle
        \/ /\ r.kind # "eof" /\ outbox' = Tail(outbox) /\ UNCHANGED helper /\ auth'.helper
           /\ \/ r.kind = "outcome" /\ r.flow # auth.active /\ UNCHANGED auth
              \/ /\ r.kind = "outcome" /\ r.flow = auth.active /\ r.committed
                 /\ auth'.active = auth.active /\ auth'.pending = r.flow /\ auth'.refreshDue
              \/ /\ r.kind = "outcome" /\ r.flow = auth.active /\ ~r.committed
                 /\ auth'.active = None /\ auth'.pending = auth.pending
              \/ r.kind # "outcome" /\ SameFlow
    <3>1. auth' = auth => SameFlow
      BY DEF SameFlow
    <3> QED
      BY <1>12, <3>1, TakeRecordDoes
  <2> HIDE DEF r
  <2>4. CASE Dropped /\ Idle
    BY <1>2, <2>4, MutationOver DEF Dropped, Idle
  <2>5. CASE r.kind # "eof" /\ outbox' = Tail(outbox) /\ UNCHANGED helper /\ auth'.helper
    <3>1. \A e \in Items(outbox) : e = r \/ e \in Items(outbox')
      BY <2>2, <2>5
    <3>2. auth'.helper /\ ~helper'.alive => \E e \in Items(outbox') : e.kind = "eof"
      BY <2>1, <2>5, <3>1 DEF Mutation
    <3>3. helper'.alive => auth'.helper
      BY <2>5
    <3>4. CASE \/ r.kind = "outcome" /\ r.flow # auth.active /\ UNCHANGED auth
               \/ r.kind # "outcome" /\ SameFlow
      <4>1. SameFlow
        BY <3>4 DEF SameFlow
      <4>2. Ending(outbox, auth.active) => Ending(outbox', auth.active)
        BY <2>5, <3>1, <3>4 DEF Ending
      <4> QED
        BY <2>1, <2>5, <3>2, <3>3, <4>1, <4>2 DEF Mutation, SameFlow
    <3>5. CASE /\ r.kind = "outcome" /\ r.flow = auth.active /\ r.committed
               /\ auth'.active = auth.active /\ auth'.pending = r.flow /\ auth'.refreshDue
      <4>1. r.flow \in stored /\ helper.flow # r.flow
        BY <2>2, <3>5 DEF Outstanding
      <4>2. helper'.flow = None
        BY <2>5, <3>5, <4>1 DEF Mutation
      <4> QED
        BY <2>1, <3>2, <3>3, <3>5, <4>1, <4>2 DEF Mutation
    <3>6. CASE /\ r.kind = "outcome" /\ r.flow = auth.active /\ ~r.committed
               /\ auth'.active = None /\ auth'.pending = auth.pending
      <4>1. r.flow \notin stored /\ helper.flow # r.flow
        BY <2>2, <3>6 DEF Outstanding
      <4>2. helper'.flow = None
        BY <2>5, <3>6, <4>1 DEF Mutation
      <4>3. auth.pending = None
        BY <3>6, <4>1 DEF Mutation
      <4> QED
        BY <3>2, <3>3, <3>6, <4>2, <4>3, MutationOver
    <3> QED
      BY <2>3, <2>4, <2>5, <3>4, <3>5, <3>6
  <2> QED
    BY <2>3, <2>4, <2>5
<1>13. CASE RefreshOverdue \/ CatalogOverdue
  <2>1. UNCHANGED <<machine, stored, lapses>> /\ auth'.helper = auth.helper
    BY <1>13, OverdueDoes
  <2>2. \/ /\ auth.pending = None /\ auth'.pending = None /\ auth'.active = auth.active
        \/ auth.pending # None /\ Idle
        \/ SameFlow
    BY <1>13, OverdueDoes
  <2>3. helper' = helper /\ outbox' = outbox /\ stored' = stored /\ lapses' = lapses
    BY <2>1 DEF machine
  <2> QED
    BY <2>1, <2>2, <2>3 DEF Mutation, Idle, SameFlow
<1>14. CASE TakeRefresh
  <2>1. UNCHANGED <<machine, stored>> /\ auth'.helper = auth.helper
    BY <1>14, TakeRefreshDoes
  <2>2. \/ UNCHANGED <<auth, lapses>>
        \/ auth.pending \in refreshing /\ Idle
        \/ auth.pending = None /\ SameFlow /\ UNCHANGED lapses
        \/ auth'.pending = None /\ auth'.active = auth.active /\ lapses' # {}
    BY <1>14, TakeRefreshDoes
  <2>3. helper' = helper /\ outbox' = outbox /\ stored' = stored
    BY <2>1 DEF machine
  <2>4. auth.pending \in refreshing => auth.pending # None
    BY NoneIs DEF Outstanding, Types
  <2> QED
    BY <2>1, <2>2, <2>3, <2>4 DEF Mutation, Idle, SameFlow
<1>15. CASE TakeContext
  <2>1. CASE UNCHANGED <<auth, queued, machine, stored, lapses>>
    BY <2>1 DEF Mutation, machine
  <2>2. CASE /\ Idle
             /\ \/ helper' = NewHelper /\ auth'.helper
                \/ /\ helper' = NoHelper /\ auth'.helper = auth.helper
                   /\ \/ helper.alive /\ outbox' = Append(outbox, Message("eof", None, None))
                      \/ ~helper.alive /\ UNCHANGED outbox
    <3>1. Message("eof", None, None).kind = "eof"
      BY DEF Message
    <3>2. Items(Append(outbox, Message("eof", None, None))) = Items(outbox) \cup {Message("eof", None, None)}
      BY <1>1, ItemsWritten, EventsAre, NoneIs
    <3>3. auth'.helper /\ ~helper'.alive => \E r \in Items(outbox') : r.kind = "eof"
      <4>1. CASE helper.alive /\ outbox' = Append(outbox, Message("eof", None, None))
        BY <3>1, <3>2, <4>1
      <4>2. CASE ~helper.alive /\ UNCHANGED outbox /\ auth'.helper = auth.helper
        BY <4>2 DEF Mutation
      <4> QED
        BY <2>2, <4>1, <4>2, HelpersAre
    <3>4. helper'.alive => auth'.helper
      BY <1>2, <2>2
    <3> QED
      BY <1>2, <2>2, <3>3, <3>4, MutationOver DEF Idle
  <2> QED
    BY <1>15, <2>1, <2>2, TakeContextDoes
<1>16. CASE HelperAsks \/ HelperWithdraws \/ HelperStores \/ HelperEnds
  <2>1. UNCHANGED <<auth, lapses>> /\ helper'.alive = helper.alive
    BY <1>16, HelperDoes
  <2>2. CASE helper'.flow = helper.flow /\ UNCHANGED stored /\ Items(outbox) \subseteq Items(outbox')
    BY <2>1, <2>2, MutationKept DEF SameFlow
  <2>3. CASE helper'.flow = helper.flow /\ stored' = stored \cup {helper.flow} /\ UNCHANGED outbox
    BY <2>1, <2>3 DEF Mutation
  <2>4. CASE /\ helper.flow # None /\ helper'.flow = None /\ UNCHANGED stored
             /\ \E v \in {"succeeded", "cancelled", "failed"} :
                  outbox' = Append(outbox, Outcome(helper.flow, helper.stored, v))
    <3>1. PICK v \in {"succeeded", "cancelled", "failed"} :
            outbox' = Append(outbox, Outcome(helper.flow, helper.stored, v))
      BY <2>4
    <3> DEFINE r == Outcome(helper.flow, helper.stored, v)
    <3>2. r \in Records
      <4>1. helper.stored \in BOOLEAN
        BY DEF Types, Helpers
      <4> QED
        BY <1>1, <4>1, EventsAre
    <3>3. r.kind = "outcome" /\ r.flow = helper.flow
      BY DEF Outcome
    <3> HIDE DEF r
    <3>4. Items(outbox') = Items(outbox) \cup {r}
      BY <1>1, <3>1, <3>2, ItemsWritten DEF r
    <3>5. Ending(outbox', auth.active)
      BY <2>4, <3>3, <3>4 DEF Ending, Mutation
    <3> QED
      BY <2>1, <2>4, <3>4, <3>5, MutationKept DEF SameFlow
  <2> QED
    BY <1>16, <2>2, <2>3, <2>4, HelperDoes
<1>17. CASE HelperCrashes
  <2>1. /\ UNCHANGED <<auth, lapses, stored>> /\ helper' = NoHelper
        /\ Message("eof", None, None) \in Items(outbox')
    BY <1>17, HelperCrashesDoes
  <2>2. Message("eof", None, None).kind = "eof"
    BY DEF Message
  <2>3. \E r \in Items(outbox') : r.kind = "eof"
    BY <2>1, <2>2
  <2>4. helper'.flow = None /\ ~helper'.alive
    BY <1>2, <2>1
  <2>5. Ending(outbox', auth'.active)
    BY <2>3 DEF Ending
  <2> QED
    BY <2>1, <2>3, <2>4, <2>5 DEF Mutation
<1> QED
  BY <1>5, <1>6, <1>7, <1>8, <1>9, <1>10, <1>11, <1>12, <1>13, <1>14, <1>15, <1>16, <1>17 DEF Step


LEMMA FlowsAre ==
  ASSUME Types
  PROVE  /\ flows \in Nat /\ flows + 1 \in Nat /\ MaxFlows \in Nat /\ 1..flows \subseteq Flows
         /\ None \notin 1..flows /\ Refused \notin 1..flows
         /\ 1..flows \subseteq 1..(flows + 1) /\ flows + 1 \notin 1..flows /\ flows + 1 \in 1..(flows + 1)
         /\ flows + 1 # None
<1>1. MaxFlows \in Nat
  BY BoundsAssumption
<1>2. flows \in 0..MaxFlows
  BY DEF Types
<1> QED
  BY <1>1, <1>2 DEF Flows, None, Refused

-----------------------------------------------------------------------------
LEMMA OutstandingInit == Init => Outstanding
BY ItemsNone DEF Init, Outstanding, NoHelper, None

\* Nothing of the credential moves, and the records are those there were.
LEMMA OutstandingKept ==
  ASSUME Outstanding, UNCHANGED <<stored, flows>>, refreshing' \subseteq refreshing \cup 1..flows,
         \A r \in Items(outbox') \ Items(outbox) :
            r.kind # "outcome" /\ (r.kind \in {"prompt", "withdrawn"} => r.flow \in 1..flows),
         \/ helper'.flow = helper.flow /\ helper'.stored = helper.stored
         \/ helper'.flow = None /\ ~helper'.stored,
         None \notin 1..flows
  PROVE  Outstanding'
BY DEF Outstanding

LEMMA OutstandingStep ==
  ASSUME Types, Resting, Mutation, Truth, Outstanding, lapses = {}, Step
  PROVE  Outstanding'
<1>1. outbox \in Seq(Records) /\ auth.active \in Nat /\ helper.flow \in Nat
  BY HelpersAre DEF Types
<1>2. /\ NoHelper.flow = None /\ ~NoHelper.stored /\ NewHelper.flow = None /\ ~NewHelper.stored
      /\ Withdrawn.kind = "withdrawn" /\ Withdrawn.flow = helper.flow /\ Withdrawn \in Records
  BY HelpersAre, EventsAre
<1>3. None \notin 1..flows
  BY FlowsAre
<1>4. /\ auth.active # None => auth.active \in 1..flows
      /\ helper.flow # None => helper.flow \in 1..flows /\ helper.flow = auth.active
  BY DEF Truth, Silent, Mutation
<1>5. Dropped => helper'.flow = None /\ ~helper'.stored /\ Items(outbox') = {}
  BY <1>2, ItemsNone DEF Dropped
<1>6. ASSUME GivenUp, UNCHANGED <<stored, flows, refreshing>> PROVE Outstanding'
  BY <1>3, <1>5, <1>6, OutstandingKept DEF GivenUp
<1>7. CASE Open
  <2>1. UNCHANGED <<stored, flows, refreshing>>
    BY <1>7, OpenDoes DEF companion
  <2>2. CASE helper' = helper /\ Says(Message("catalog", None, auth.next))
    <3> DEFINE r == Message("catalog", None, auth.next)
    <3>1. r \in Records /\ r.kind = "catalog"
      BY EventsAre, NoneIs, HelpersAre DEF Message
    <3>2. Items(outbox') = Items(outbox) \/ Items(outbox') = Items(outbox) \cup {r}
      BY <2>2, <3>1, SaysIs
    <3> HIDE DEF r
    <3> QED
      BY <1>3, <2>1, <2>2, <3>1, <3>2, OutstandingKept
  <2>3. CASE Dropped
    BY <1>3, <1>5, <2>1, <2>3, OutstandingKept
  <2> QED
    BY <1>7, <2>2, <2>3, OpenDoes
<1>8. CASE Choose
  <2>1. UNCHANGED <<stored, refreshing>>
    BY <1>8, ChooseDoes DEF companion
  <2>2. CASE UNCHANGED <<machine, flows>>
    BY <1>3, <2>1, <2>2, OutstandingKept DEF machine
  <2>3. CASE /\ auth.active = None /\ flows' = flows + 1 /\ UNCHANGED outbox
             /\ helper' = helper \/ helper' = [helper EXCEPT !.flow = flows']
    <3>1. helper.flow = None
      BY <1>4, <2>3
    <3>2. helper'.flow \in {None, flows + 1} /\ helper'.stored = helper.stored
      BY <2>3, <3>1 DEF Types, Helpers
    <3>3. ~helper.stored
      BY <1>3, <3>1 DEF Outstanding
    <3>4. helper'.flow \notin 1..flows /\ helper'.flow \notin stored
      BY <3>2, FlowsAre DEF Outstanding
    <3>5. 1..flows \subseteq 1..flows'
      BY <2>3, FlowsAre
    <3> QED
      BY <2>1, <2>3, <3>2, <3>3, <3>4, <3>5 DEF Outstanding
  <2>4. CASE flows' = flows + 1 /\ Dropped
    <3>1. 1..flows \subseteq 1..flows'
      BY <2>4, FlowsAre
    <3>2. None \notin stored
      BY <1>3 DEF Outstanding
    <3> QED
      BY <1>5, <2>1, <2>4, <3>1, <3>2 DEF Outstanding
  <2>5. helper.flow # None => auth.active # None
    BY <1>4
  <2> QED
    BY <1>8, <2>2, <2>3, <2>4, <2>5, ChooseDoes DEF machine
<1>9. CASE Answer
  <2>1. UNCHANGED <<stored, flows, refreshing>>
    BY <1>9, AnswerDoes DEF companion
  <2>2. CASE UNCHANGED outbox /\ helper'.flow = helper.flow /\ helper'.stored = helper.stored
    BY <1>3, <2>1, <2>2, OutstandingKept
  <2> QED
    BY <1>6, <1>9, <2>1, <2>2, AnswerDoes
<1>10. CASE Leave
  <2>1. UNCHANGED <<stored, flows, refreshing>>
    BY <1>10, LeaveDoes DEF companion
  <2>2. CASE UNCHANGED machine
    BY <1>3, <2>1, <2>2, OutstandingKept DEF machine
  <2>3. CASE /\ helper.flow # None /\ helper'.flow = helper.flow /\ helper'.stored = helper.stored
             /\ Says(Withdrawn)
    <3>1. Items(outbox') = Items(outbox) \/ Items(outbox') = Items(outbox) \cup {Withdrawn}
      BY <1>2, <2>3, SaysIs
    <3> QED
      BY <1>2, <1>3, <1>4, <2>1, <2>3, <3>1, OutstandingKept
  <2> QED
    BY <1>6, <1>10, <2>1, <2>2, <2>3, LeaveDoes
<1>11. CASE Exit
  BY <1>3, <1>11, OutstandingKept DEF Exit, machine, history, companion
<1>12. CASE Replaced \/ PageApplies
  BY <1>3, <1>12, OutstandingKept DEF Replaced, PageApplies, machine, companion
<1>13. CASE TakeQueued
  BY <1>3, <1>13, TakeQueuedDoes, OutstandingKept DEF machine, companion
<1>14. CASE TakeRecord
  <2> DEFINE r == Head(outbox)
  <2>1. /\ outbox # << >> /\ UNCHANGED <<stored, flows>>
        /\ \/ Dropped
           \/ outbox' = Tail(outbox) /\ UNCHANGED helper
        /\ \/ refreshing' = refreshing
           \/ r.kind = "outcome" /\ refreshing' = refreshing \cup {r.flow}
    BY <1>14, TakeRecordDoes
  <2>2. r \in Items(outbox) /\ Items(outbox) = Items(Tail(outbox)) \cup {r}
    BY <1>1, <2>1, ItemsRead
  <2> HIDE DEF r
  <2>3. refreshing' \subseteq refreshing \cup 1..flows
    BY <2>1, <2>2 DEF Outstanding
  <2>4. CASE Dropped
    BY <1>3, <1>5, <2>1, <2>3, <2>4, OutstandingKept
  <2>5. CASE outbox' = Tail(outbox) /\ UNCHANGED helper
    BY <1>3, <2>1, <2>2, <2>3, <2>5, OutstandingKept
  <2> QED
    BY <2>1, <2>4, <2>5
<1>15. CASE RefreshOverdue \/ CatalogOverdue
  BY <1>3, <1>15, OverdueDoes, OutstandingKept DEF machine, companion
<1>16. CASE TakeRefresh
  <2>1. UNCHANGED <<machine, stored, flows>> /\ refreshing' \subseteq refreshing
    BY <1>16, TakeRefreshDoes
  <2> QED
    BY <1>3, <2>1, OutstandingKept DEF machine
<1>17. CASE TakeContext
  <2>1. UNCHANGED <<refreshing, flows>>
    BY <1>17, TakeContextDoes
  <2>2. CASE UNCHANGED <<machine, stored>>
    BY <1>3, <2>1, <2>2, OutstandingKept DEF machine
  <2>3. CASE /\ stored' = stored \/ (helper.flow # None /\ stored' = stored \cup {helper.flow})
             /\ helper' \in {NewHelper, NoHelper}
             /\ outbox' \in {<< >>, <<Message("catalog", None, auth.next)>>, outbox,
                             Append(outbox, Message("eof", None, None))}
    <3>1. /\ Message("catalog", None, auth.next) \in Records /\ Message("eof", None, None) \in Records
          /\ Message("catalog", None, auth.next).kind = "catalog" /\ Message("eof", None, None).kind = "eof"
      BY EventsAre, NoneIs, HelpersAre DEF Message
    <3>2. Items(<<Message("catalog", None, auth.next)>>) = {Message("catalog", None, auth.next)}
      BY DEF Items
    <3>3. Items(Append(outbox, Message("eof", None, None))) = Items(outbox) \cup {Message("eof", None, None)}
      BY <1>1, <3>1, ItemsWritten
    <3>4. \A e \in Items(outbox') : e \in Items(outbox) \/ e.kind \in {"catalog", "eof"}
      BY <2>3, <3>1, <3>2, <3>3, ItemsNone
    <3>5. helper'.flow = None /\ ~helper'.stored /\ None \notin stored'
      BY <1>2, <1>3, <2>3 DEF Outstanding
    <3>6. stored' \subseteq 1..flows
      BY <1>4, <2>3 DEF Outstanding
    <3>7. \A e \in Items(outbox') :
            /\ e.kind = "outcome" => /\ e.flow \in 1..flows
                                     /\ e.committed <=> e.flow \in stored'
                                     /\ e.arg = "succeeded" => e.committed
            /\ e.kind \in {"prompt", "withdrawn"} => e.flow \in 1..flows
      <4> SUFFICES ASSUME NEW e \in Items(outbox')
                   PROVE  /\ e.kind = "outcome" => /\ e.flow \in 1..flows
                                                   /\ e.committed <=> e.flow \in stored'
                                                   /\ e.arg = "succeeded" => e.committed
                          /\ e.kind \in {"prompt", "withdrawn"} => e.flow \in 1..flows
        OBVIOUS
      <4>1. CASE e \in Items(outbox)
        BY <2>3, <4>1 DEF Outstanding
      <4>2. CASE e.kind \in {"catalog", "eof"}
        BY <4>2
      <4> QED
        BY <3>4, <4>1, <4>2
    <3> QED
      BY <1>3, <2>1, <3>5, <3>6, <3>7 DEF Outstanding
  <2> QED
    BY <1>17, <2>2, <2>3, TakeContextDoes
<1>18. CASE HelperAsks \/ HelperWithdraws \/ HelperStores \/ HelperEnds
  <2>1. UNCHANGED <<refreshing, flows, auth>>
    BY <1>18, HelperDoes DEF companion
  <2>2. CASE /\ helper'.flow = helper.flow /\ helper'.stored = helper.stored /\ UNCHANGED stored
             /\ helper.flow # None \/ helper.asking # None
             /\ \A r \in Items(outbox') \ Items(outbox) : r.kind \in {"prompt", "withdrawn"} /\ r.flow = helper.flow
    <3>1. helper.flow \in 1..flows
      BY <1>4, <2>2 DEF Resting
    <3> QED
      BY <1>3, <2>1, <2>2, <3>1, OutstandingKept
  <2>3. CASE /\ helper.flow # None /\ helper'.flow = helper.flow /\ helper'.stored
             /\ stored' = stored \cup {helper.flow} /\ UNCHANGED outbox
    BY <1>4, <2>1, <2>3 DEF Outstanding
  <2>4. CASE /\ helper.flow # None /\ helper'.flow = None /\ ~helper'.stored /\ UNCHANGED stored
             /\ \E v \in {"succeeded", "cancelled", "failed"} :
                  /\ v = "succeeded" => helper.stored
                  /\ outbox' = Append(outbox, Outcome(helper.flow, helper.stored, v))
    <3>1. PICK v \in {"succeeded", "cancelled", "failed"} :
                  /\ v = "succeeded" => helper.stored
                  /\ outbox' = Append(outbox, Outcome(helper.flow, helper.stored, v))
      BY <2>4
    <3> DEFINE r == Outcome(helper.flow, helper.stored, v)
    <3>2. r \in Records
      <4>1. helper.stored \in BOOLEAN
        BY DEF Types, Helpers
      <4> QED
        BY <1>1, <4>1, EventsAre
    <3>3. r.kind = "outcome" /\ r.flow = helper.flow /\ r.committed = helper.stored /\ r.arg = v
      BY DEF Outcome
    <3> HIDE DEF r
    <3>4. Items(outbox') = Items(outbox) \cup {r}
      BY <1>1, <3>1, <3>2, ItemsWritten DEF r
    <3>5. \A e \in Items(outbox) :
            /\ e.kind = "outcome" => /\ e.flow \in 1..flows
                                     /\ e.committed <=> e.flow \in stored
                                     /\ e.arg = "succeeded" => e.committed
            /\ e.kind \in {"prompt", "withdrawn"} => e.flow \in 1..flows
      BY DEF Outstanding
    <3>6. r.flow \in 1..flows /\ (r.committed <=> r.flow \in stored) /\ (r.arg = "succeeded" => r.committed)
      BY <1>4, <2>4, <3>1, <3>3 DEF Outstanding
    <3>7. None \notin stored /\ stored \subseteq 1..flows /\ refreshing \subseteq 1..flows
      BY <1>3 DEF Outstanding
    <3> QED
      BY <1>3, <2>1, <2>4, <3>3, <3>4, <3>5, <3>6, <3>7 DEF Outstanding
  <2> QED
    BY <1>18, <2>2, <2>3, <2>4, HelperDoes
<1>19. CASE HelperCrashes
  <2>1. /\ UNCHANGED <<stored, flows, refreshing>> /\ helper' = NoHelper
        /\ Items(outbox') \subseteq Items(outbox) \cup {Message("eof", None, None)}
    BY <1>19, HelperCrashesDoes DEF HelperCrashes, companion
  <2>2. Message("eof", None, None).kind = "eof"
    BY DEF Message
  <2> QED
    BY <1>2, <1>3, <2>1, <2>2, OutstandingKept
<1> QED
  BY <1>7, <1>8, <1>9, <1>10, <1>11, <1>12, <1>13, <1>14, <1>15, <1>16, <1>17, <1>18, <1>19 DEF Step


LEMMA TruthInit == Init => Truth
<1> SUFFICES ASSUME Init PROVE Truth
  OBVIOUS
<1>1. \A flow \in Flows : reported[flow] = << >>
  BY DEF Init
<1>2. VerdictTrue
  BY <1>1 DEF VerdictTrue
<1> QED
  BY <1>1, <1>2, ItemsNone DEF Init, Truth

\* Nothing is reported; the credential changes only of a flow of which nothing was.
LEMMA VerdictsKept ==
  ASSUME VerdictTrue, UNCHANGED reported, refreshed \subseteq refreshed', stored \subseteq stored',
         \A flow \in stored' \ stored : reported[flow] = << >>
  PROVE  VerdictTrue'
<1> SUFFICES ASSUME NEW flow \in Flows
             PROVE  /\ Len(reported[flow]) <= 1
                    /\ \A i \in DOMAIN reported[flow] :
                         /\ reported[flow][i] = "succeeded" => flow \in stored' \cap refreshed'
                         /\ reported[flow][i] = "changed" => flow \in stored'
                         /\ reported[flow][i] \in {"cancelled", "failed"} => flow \notin stored'
  BY DEF VerdictTrue
<1>1. /\ Len(reported[flow]) <= 1
      /\ \A i \in DOMAIN reported[flow] :
           /\ reported[flow][i] = "succeeded" => flow \in stored \cap refreshed
           /\ reported[flow][i] = "changed" => flow \in stored
           /\ reported[flow][i] \in {"cancelled", "failed"} => flow \notin stored
  BY DEF VerdictTrue
<1>2. CASE flow \in stored' \ stored
  <2>1. reported[flow] = << >>
    BY <1>2
  <2> QED
    BY <2>1
<1>3. CASE flow \notin stored' \ stored
  BY <1>1, <1>3
<1> QED
  BY <1>2, <1>3

\* The verdict of a flow agrees with what became of the credential.
Agrees(flow, v) ==
  /\ v = "succeeded" => flow \in stored /\ flow \in refreshed'
  /\ v = "changed" => flow \in stored
  /\ v \in {"cancelled", "failed"} => flow \notin stored

LEMMA VerdictAdded ==
  ASSUME Types, VerdictTrue, NEW flow \in Flows, NEW v, reported[flow] = << >>,
         reported' = [reported EXCEPT ![flow] = Append(@, v)],
         UNCHANGED stored, refreshed \subseteq refreshed', Agrees(flow, v)
  PROVE  /\ VerdictTrue' /\ reported'[flow] # << >>
         /\ \A g \in Flows : g # flow => reported'[g] = reported[g]
<1>1. reported \in [Flows -> Seq(Verdicts)]
  BY DEF Types
<1>2. Append(<< >>, v) = <<v>>
  OBVIOUS
<1>3. reported'[flow] = <<v>> /\ \A g \in Flows : g # flow => reported'[g] = reported[g]
  BY <1>1, <1>2
<1>4. VerdictTrue'
  <2> SUFFICES ASSUME NEW g \in Flows
               PROVE  /\ Len(reported'[g]) <= 1
                      /\ \A i \in DOMAIN reported'[g] :
                           /\ reported'[g][i] = "succeeded" => g \in stored' \cap refreshed'
                           /\ reported'[g][i] = "changed" => g \in stored'
                           /\ reported'[g][i] \in {"cancelled", "failed"} => g \notin stored'
    BY DEF VerdictTrue
  <2>1. CASE g = flow
    <3>1. Len(<<v>>) = 1 /\ DOMAIN <<v>> = {1} /\ <<v>>[1] = v
      OBVIOUS
    <3> QED
      BY <1>3, <2>1, <3>1 DEF Agrees
  <2>2. CASE g # flow
    <3>1. reported'[g] = reported[g]
      BY <1>3, <2>2
    <3> QED
      BY <3>1 DEF VerdictTrue
  <2> QED
    BY <2>1, <2>2
<1>5. <<v>> # << >>
  OBVIOUS
<1> QED
  BY <1>3, <1>4, <1>5

\* Nothing is reported and nothing is queued.
LEMMA TruthQuiet ==
  ASSUME Types, Truth, UNCHANGED <<reported, flows, queued>>, refreshed \subseteq refreshed',
         auth'.active \in {auth.active, None},
         stored' = stored \/ (stored' = stored \cup {helper.flow} /\ Silent(helper.flow))
  PROVE  Truth'
<1>1. VerdictTrue'
  BY VerdictsKept DEF Truth, Silent
<1>2. None \notin 1..flows
  BY FlowsAre
<1> QED
  BY <1>1, <1>2 DEF Truth, Silent

\* The flow the worker holds ends.
LEMMA TruthEnds ==
  ASSUME Types, Truth, auth.active # None, NEW v, Ends(auth.active, v),
         UNCHANGED <<flows, queued, stored>>, refreshed \subseteq refreshed',
         auth'.active = None, Agrees(auth.active, v)
  PROVE  Truth'
<1>1. auth.active \in 1..flows /\ reported[auth.active] = << >>
  BY DEF Truth, Silent
<1>2. auth.active \in Flows /\ 1..flows \subseteq Flows /\ None \notin 1..flows /\ ~(auth.active > flows)
  BY <1>1, FlowsAre
<1>3. VerdictTrue' /\ \A g \in Flows : g # auth.active => reported'[g] = reported[g]
  BY <1>1, <1>2, VerdictAdded DEF Ends, Truth
<1>4. \A g \in Flows : g > flows => reported'[g] = << >>
  BY <1>2, <1>3 DEF Truth
<1>5. \A q \in Items(queued) : q.flow \in 1..flows /\ reported'[q.flow] = << >>
  BY <1>2, <1>3 DEF Truth, Silent
<1>6. \A q \in Items(queued) : q.flow # None
  BY <1>2, <1>5
<1> QED
  BY <1>3, <1>4, <1>5, <1>6 DEF Truth, Silent

LEMMA TruthStep ==
  ASSUME Types, Mutation, Outstanding, Truth, lapses = {}, Step
  PROVE  Truth'
<1>1. /\ outbox \in Seq(Records) /\ queued \in Seq(Finishes) /\ reported \in [Flows -> Seq(Verdicts)]
  BY DEF Types
<1>2. \A flow : Agrees(flow, "unknown")
  BY DEF Agrees
<1>3. helper.flow # None => Silent(helper.flow)
  BY DEF Truth, Mutation
<1>4. ASSUME GivenUp, UNCHANGED <<queued, companion, flows, stored, refreshed>> PROVE Truth'
  BY <1>2, <1>4, TruthEnds DEF GivenUp
<1>5. CASE Open
  <2>1. UNCHANGED <<queued, flows, stored, refreshed, reported>> /\ auth'.active = auth.active
    BY <1>5, OpenDoes DEF SameFlow
  <2> QED
    BY <2>1, TruthQuiet
<1>6. CASE Choose
  <2>1. UNCHANGED <<queued, stored, refreshed>>
    BY <1>6, ChooseDoes
  <2>2. CASE UNCHANGED <<reported, auth, flows>>
    BY <2>1, <2>2, TruthQuiet
  <2>3. CASE flows' = flows + 1 /\ flows' \in Flows /\ auth'.active = flows' /\ UNCHANGED reported
    <3>1. VerdictTrue'
      BY <2>1, <2>3, VerdictsKept DEF Truth
    <3>2. /\ 1..flows \subseteq 1..flows' /\ flows' \notin 1..flows /\ flows' \in 1..flows'
          /\ \A g \in Flows : g > flows' => g > flows
          /\ flows' > flows
      BY <2>3, FlowsAre DEF Flows
    <3>3. reported[flows'] = << >>
      BY <2>3, <3>2 DEF Truth
    <3> QED
      BY <2>1, <2>3, <3>1, <3>2, <3>3 DEF Truth, Silent
  <2>4. CASE /\ flows' = flows + 1 /\ flows' \in Flows /\ auth'.active = None
             /\ reported' = [reported EXCEPT ![flows'] = Append(@, "failed")]
    <3>1. /\ 1..flows \subseteq 1..flows' /\ flows' \notin 1..flows /\ flows' \in 1..flows'
          /\ \A g \in Flows : g > flows' => g > flows /\ g # flows'
          /\ flows' > flows /\ 1..flows \subseteq Flows /\ None \notin 1..flows
      BY <2>4, FlowsAre DEF Flows
    <3>2. reported[flows'] = << >> /\ flows' \notin stored
      BY <2>4, <3>1 DEF Truth, Outstanding
    <3>3. VerdictTrue' /\ \A g \in Flows : g # flows' => reported'[g] = reported[g]
      <4> DEFINE f == flows'
      <4>1. f \in Flows /\ reported[f] = << >> /\ reported' = [reported EXCEPT ![f] = Append(@, "failed")]
            /\ Agrees(f, "failed")
        BY <2>4, <3>2 DEF Agrees
      <4> HIDE DEF f
      <4>2. VerdictTrue' /\ \A g \in Flows : g # f => reported'[g] = reported[g]
        BY <2>1, <4>1, VerdictAdded DEF Truth
      <4> QED
        BY <4>2 DEF f
    <3>4. \A g \in Flows : g > flows' => reported'[g] = << >>
      BY <3>1, <3>3 DEF Truth
    <3>5. \A q \in Items(queued) : q.flow \in 1..flows' /\ reported'[q.flow] = << >> /\ q.flow # None
      BY <3>1, <3>3 DEF Truth, Silent
    <3> QED
      BY <2>1, <2>4, <3>3, <3>4, <3>5 DEF Truth, Silent
  <2> QED
    BY <1>6, <2>2, <2>3, <2>4, ChooseDoes
<1>7. CASE Answer
  <2>1. CASE UNCHANGED <<auth, reported>>
    BY <1>7, <2>1, AnswerDoes, TruthQuiet
  <2> QED
    BY <1>4, <1>7, <2>1, AnswerDoes
<1>8. CASE Leave
  <2>1. CASE UNCHANGED <<auth, reported>>
    BY <1>8, <2>1, LeaveDoes, TruthQuiet
  <2> QED
    BY <1>4, <1>8, <2>1, LeaveDoes
<1>9. CASE Exit \/ Replaced \/ PageApplies
  <2>1. UNCHANGED <<auth, reported, flows, queued, stored, refreshed>>
    BY <1>9 DEF Exit, Replaced, PageApplies, history
  <2> QED
    BY <2>1, TruthQuiet
<1>10. CASE TakeQueued
  <2> DEFINE q == Head(queued)
             t == Tail(queued)
  <2>1. /\ queued # << >> /\ queued' = t /\ UNCHANGED <<auth, flows, stored, refreshed>>
        /\ reported' = IF q.flow # Refused THEN [reported EXCEPT ![q.flow] = Append(@, q.arg)] ELSE reported
    BY <1>10, TakeQueuedDoes
  <2>2. q \in Items(queued) /\ Items(queued) = Items(t) \cup {q}
    BY <1>1, <2>1, ItemsRead
  <2>3. /\ q = queued[1] /\ 1 \in DOMAIN queued
        /\ \A i \in DOMAIN t : i + 1 \in DOMAIN queued /\ t[i] = queued[i + 1] /\ i + 1 # 1
        /\ \A i, j \in DOMAIN t : i # j => i + 1 # j + 1
    BY <1>1, <2>1, TailOf
  <2> HIDE DEF q, t
  <2>4. q.flow \in 1..flows /\ reported[q.flow] = << >> /\ q.arg \in {"unchanged", "unknown"} /\ q.flow # auth.active
    BY <2>2 DEF Truth, Silent
  <2>5. q.flow \in Flows /\ q.flow # Refused /\ ~(q.flow > flows) /\ Agrees(q.flow, q.arg) /\ 1..flows \subseteq Flows
    BY <2>4, FlowsAre DEF Agrees
  <2>6. VerdictTrue' /\ \A g \in Flows : g # q.flow => reported'[g] = reported[g]
    BY <2>1, <2>4, <2>5, VerdictAdded DEF Truth
  <2>7. \A e \in Items(t) : e.flow # q.flow
    <3> SUFFICES ASSUME NEW i \in DOMAIN t PROVE t[i].flow # q.flow
      BY DEF Items
    <3> QED
      BY <2>3 DEF Truth
  <2>8. \A i, j \in DOMAIN t : i # j => t[i].flow # t[j].flow
    BY <2>3 DEF Truth
  <2>9. \A g \in Flows : g > flows => reported'[g] = << >>
    BY <2>5, <2>6 DEF Truth
  <2>10. \A e \in Items(t) : /\ e.flow \in 1..flows /\ reported'[e.flow] = << >> /\ e.flow # auth.active
                             /\ e.arg \in {"unchanged", "unknown"}
    BY <2>2, <2>5, <2>6, <2>7 DEF Truth, Silent
  <2>11. auth.active # None => auth.active \in 1..flows /\ reported'[auth.active] = << >>
    BY <2>4, <2>5, <2>6 DEF Truth, Silent
  <2> QED
    BY <2>1, <2>6, <2>8, <2>9, <2>10, <2>11 DEF Truth, Silent
<1>11. CASE TakeRecord
  <2> DEFINE r == Head(outbox)
  <2>1. /\ outbox # << >> /\ UNCHANGED <<queued, flows, stored, refreshed>>
        /\ \/ Idle /\ auth.active = None /\ Quiet
           \/ Idle /\ auth.active # None /\ Ends(auth.active, "unknown")
           \/ auth'.active = auth.active /\ UNCHANGED reported
           \/ /\ r.kind = "outcome" /\ r.flow = auth.active /\ ~r.committed /\ auth'.active = None
              /\ Ends(r.flow, r.arg)
    <3>1. SameFlow => auth'.active = auth.active
      BY DEF SameFlow
    <3> QED
      BY <1>11, <3>1, TakeRecordDoes DEF Quiet, Ends
  <2>2. r \in Items(outbox)
    BY <1>1, <2>1, ItemsRead
  <2> HIDE DEF r
  <2>3. CASE Idle /\ auth.active = None /\ Quiet
    BY <2>1, <2>3, TruthQuiet DEF Idle, Quiet
  <2>4. CASE Idle /\ auth.active # None /\ Ends(auth.active, "unknown")
    BY <1>2, <2>1, <2>4, TruthEnds DEF Idle
  <2>5. CASE auth'.active = auth.active /\ UNCHANGED reported
    BY <2>1, <2>5, TruthQuiet
  <2>6. CASE /\ r.kind = "outcome" /\ r.flow = auth.active /\ ~r.committed /\ auth'.active = None
             /\ Ends(r.flow, r.arg)
    <3>1. r \in Records
      BY <1>1, <2>2, ItemsAre
    <3>2. r.arg \in {"succeeded", "cancelled", "failed"}
      BY <2>6, <3>1 DEF Records, Outcomes, Words
    <3>3. r.flow \in 1..flows /\ r.flow \notin stored /\ r.arg # "succeeded"
      BY <2>2, <2>6 DEF Outstanding
    <3>4. Agrees(auth.active, r.arg) /\ auth.active # None /\ Ends(auth.active, r.arg)
      BY <2>6, <3>2, <3>3, FlowsAre DEF Agrees
    <3> QED
      BY <2>1, <2>6, <3>4, TruthEnds
  <2> QED
    BY <2>1, <2>3, <2>4, <2>5, <2>6
<1>12. CASE RefreshOverdue \/ CatalogOverdue
  <2>1. UNCHANGED <<queued, flows, stored, refreshed>>
    BY <1>12, OverdueDoes
  <2>2. \/ auth.pending # None /\ Idle /\ Ends(auth.pending, "changed")
        \/ auth'.active = auth.active /\ UNCHANGED reported
    BY <1>12, OverdueDoes DEF SameFlow, Quiet
  <2>3. CASE auth.pending # None /\ Idle /\ Ends(auth.pending, "changed")
    <3>1. auth.pending = auth.active /\ auth.active # None /\ Agrees(auth.active, "changed")
      BY <2>3 DEF Mutation, Agrees
    <3> QED
      BY <2>1, <2>3, <3>1, TruthEnds DEF Idle
  <2> QED
    BY <2>1, <2>2, <2>3, TruthQuiet
<1>13. CASE TakeRefresh
  <2>1. UNCHANGED <<queued, flows, stored>> /\ refreshed \subseteq refreshed'
    BY <1>13, TakeRefreshDoes
  <2>2. \/ /\ auth.pending \in refreshing /\ Idle
           /\ \/ Ends(auth.pending, "succeeded") /\ auth.pending \in refreshed'
              \/ Ends(auth.pending, "changed")
        \/ auth'.active = auth.active /\ UNCHANGED reported
    BY <1>13, TakeRefreshDoes DEF SameFlow, Quiet
  <2>3. CASE /\ auth.pending \in refreshing /\ Idle
             /\ \/ Ends(auth.pending, "succeeded") /\ auth.pending \in refreshed'
                \/ Ends(auth.pending, "changed")
    <3>1. auth.pending # None
      BY <2>3, FlowsAre DEF Outstanding
    <3>2. auth.pending = auth.active /\ auth.active \in stored
      BY <3>1 DEF Mutation
    <3>3. PICK v \in {"succeeded", "changed"} :
            Ends(auth.active, v) /\ (v = "succeeded" => auth.active \in refreshed')
      BY <2>3, <3>2
    <3>4. Agrees(auth.active, v)
      BY <3>2, <3>3 DEF Agrees
    <3> QED
      BY <2>1, <2>3, <3>1, <3>2, <3>3, <3>4, TruthEnds DEF Idle
  <2> QED
    BY <2>1, <2>2, <2>3, TruthQuiet
<1>14. CASE TakeContext
  <2>1. UNCHANGED <<flows, refreshed, reported>>
    BY <1>14, TakeContextDoes
  <2>2. CASE UNCHANGED <<auth, queued, stored>>
    BY <2>1, <2>2, TruthQuiet
  <2>3. CASE /\ Idle
             /\ stored' = stored \/ (helper.flow # None /\ stored' = stored \cup {helper.flow})
             /\ \E base \in {queued, << >>}, v \in {"unchanged", "unknown"} :
                  \/ auth.active = None /\ queued' = base
                  \/ auth.active # None /\ queued' = Append(base, Finished(auth.active, v))
    <3>1. VerdictTrue'
      BY <1>3, <2>1, <2>3, VerdictsKept DEF Truth, Silent
    <3>2. PICK base \in {queued, << >>}, v \in {"unchanged", "unknown"} :
                  \/ auth.active = None /\ queued' = base
                  \/ auth.active # None /\ queued' = Append(base, Finished(auth.active, v))
      BY <2>3
    <3>3. /\ base \in Seq(Finishes)
          /\ \A e \in Items(base) : e \in Items(queued)
          /\ \A i, j \in DOMAIN base : i # j => base[i].flow # base[j].flow
      <4>1. CASE base = queued
        BY <1>1, <4>1 DEF Truth
      <4>2. CASE base = << >>
        <5>1. base \in Seq(Finishes) /\ DOMAIN base = {}
          BY <4>2
        <5> QED
          BY <4>2, <5>1, ItemsNone
      <4> QED
        BY <4>1, <4>2
    <3>4. \A e \in Items(base) : /\ Silent(e.flow) /\ e.flow # None /\ e.flow # auth.active
                                 /\ e.arg \in {"unchanged", "unknown"}
      BY <3>3, FlowsAre DEF Truth, Silent
    <3>5. auth'.active = None
      BY <2>3 DEF Idle
    <3>6. CASE auth.active = None /\ queued' = base
      BY <2>1, <3>1, <3>3, <3>4, <3>5, <3>6 DEF Truth, Silent
    <3>7. CASE auth.active # None /\ queued' = Append(base, Finished(auth.active, v))
      <4> DEFINE e == Finished(auth.active, v)
      <4>1. Silent(auth.active)
        BY <3>7 DEF Truth
      <4>2. e \in Finishes /\ e.flow = auth.active /\ e.arg = v
        <5>1. auth.active \in Int /\ v \in Verdicts
          BY HelpersAre DEF Verdicts
        <5> QED
          BY <5>1, EventsAre DEF Finished
      <4> HIDE DEF e
      <4>3. Items(queued') = Items(base) \cup {e}
        BY <3>3, <3>7, <4>2, ItemsWritten DEF e
      <4>4. \A i, j \in DOMAIN queued' : i # j => queued'[i].flow # queued'[j].flow
        <5>1. queued' = Append(base, e)
          BY <3>7 DEF e
        <5>2. /\ Len(base) \in Nat /\ DOMAIN base = 1..Len(base) /\ DOMAIN queued' = 1..(Len(base) + 1)
              /\ \A i \in 1..Len(base) : queued'[i] = base[i]
              /\ queued'[Len(base) + 1] = e
          BY <3>3, <4>2, <5>1, AppendOf
        <5>3. \A i \in DOMAIN queued' : i \in DOMAIN base \/ i = Len(base) + 1
          BY <5>2
        <5>4. \A i \in DOMAIN base : base[i].flow # e.flow
          BY <3>4, <4>2 DEF Items
        <5> QED
          BY <3>3, <5>2, <5>3, <5>4
      <4>5. \A q \in Items(queued') : /\ Silent(q.flow) /\ q.flow # None
                                      /\ q.arg \in {"unchanged", "unknown"}
        BY <3>4, <3>7, <4>1, <4>2, <4>3
      <4> QED
        BY <2>1, <3>1, <3>5, <4>4, <4>5 DEF Truth, Silent
    <3> QED
      BY <3>2, <3>6, <3>7
  <2> QED
    BY <1>14, <2>2, <2>3, TakeContextDoes
<1>15. CASE HelperAsks \/ HelperWithdraws \/ HelperStores \/ HelperEnds
  <2>1. UNCHANGED <<auth, queued, flows, refreshed, reported>>
    BY <1>15, HelperDoes
  <2>2. stored' = stored \/ (helper.flow # None /\ stored' = stored \cup {helper.flow})
    BY <1>15, HelperDoes
  <2> QED
    BY <1>3, <2>1, <2>2, TruthQuiet
<1>16. CASE HelperCrashes
  <2>1. UNCHANGED <<auth, queued, flows, stored, refreshed, reported>>
    BY <1>16, HelperCrashesDoes DEF HelperCrashes, history
  <2> QED
    BY <2>1, TruthQuiet
<1> QED
  BY <1>5, <1>6, <1>7, <1>8, <1>9, <1>10, <1>11, <1>12, <1>13, <1>14, <1>15, <1>16 DEF Step


-----------------------------------------------------------------------------
\* The events on their way to a page opened `n` times, `ended` being the flows
\* whose outcome was sent.
Settled(s) ==
  \A i, j \in DOMAIN s :
    i < j /\ s[i].kind = "finished" /\ s[i].flow # Refused => s[j].flow # s[i].flow

Current(e, n) == e.kind = "started" /\ e.arg = n

Way(s, n, ended) ==
  /\ \A e \in Items(s) :
       /\ e.kind = "finished" /\ e.flow # Refused => e.flow \in ended
       /\ e.kind = "started" => e.arg <= n /\ e.flow # None
  /\ Settled(s)
  /\ \A i, j \in DOMAIN s : Current(s[i], n) /\ Current(s[j], n) => i = j

Reported == {flow \in 1..flows : reported[flow] # << >>}
OnTheWay == Way(toPage, opens, Reported)

LEMMA WayAppend ==
  ASSUME NEW s \in Seq(Events), NEW e \in Events, NEW n \in Nat, NEW ended, NEW now,
         Way(s, n, ended), ended \subseteq now, e.flow \notin ended,
         e.kind = "finished" /\ e.flow # Refused => e.flow \in now,
         e.kind = "started" => /\ e.arg <= n /\ e.flow # None
                               /\ \A x \in Items(s) : ~Current(x, n)
  PROVE  Way(Append(s, e), n, now)
<1> DEFINE t == Append(s, e)
<1>1. /\ Len(s) \in Nat /\ DOMAIN s = 1..Len(s) /\ DOMAIN t = 1..(Len(s) + 1)
      /\ \A i \in 1..Len(s) : t[i] = s[i]
      /\ t[Len(s) + 1] = e
  BY AppendOf
<1>2. Items(t) = Items(s) \cup {e}
  BY ItemsWritten
<1> HIDE DEF t
<1>3. \A i \in DOMAIN t : (i \in DOMAIN s /\ t[i] = s[i]) \/ (i = Len(s) + 1 /\ t[i] = e)
  BY <1>1
<1>4. \A i, j \in DOMAIN t : i < j => i \in DOMAIN s
  BY <1>1
<1>5. \A i \in DOMAIN s : s[i] \in Items(s)
  BY DEF Items
<1>6. Settled(t)
  <2> SUFFICES ASSUME NEW i \in DOMAIN t, NEW j \in DOMAIN t, i < j, t[i].kind = "finished", t[i].flow # Refused
               PROVE  t[j].flow # t[i].flow
    BY DEF Settled
  <2>1. i \in DOMAIN s /\ t[i] = s[i] /\ s[i].flow \in ended
    BY <1>1, <1>3, <1>4, <1>5 DEF Way
  <2>2. CASE j \in DOMAIN s /\ t[j] = s[j]
    BY <2>1, <2>2 DEF Way, Settled
  <2>3. CASE t[j] = e
    BY <2>1, <2>3
  <2> QED
    BY <1>3, <2>2, <2>3
<1>7. \A i, j \in DOMAIN t : Current(t[i], n) /\ Current(t[j], n) => i = j
  <2> SUFFICES ASSUME NEW i \in DOMAIN t, NEW j \in DOMAIN t, Current(t[i], n), Current(t[j], n)
               PROVE  i = j
    OBVIOUS
  <2>1. CASE i \in DOMAIN s /\ t[i] = s[i] /\ j \in DOMAIN s /\ t[j] = s[j]
    BY <2>1 DEF Way
  <2>2. CASE t[i] = e \/ t[j] = e
    <3>1. \A x \in Items(s) : ~Current(x, n)
      BY <2>2 DEF Current
    <3>2. i = Len(s) + 1 /\ j = Len(s) + 1
      BY <1>3, <1>5, <3>1
    <3> QED
      BY <3>2
  <2> QED
    BY <1>3, <2>1, <2>2
<1>8. \A x \in Items(t) :
       /\ x.kind = "finished" /\ x.flow # Refused => x.flow \in now
       /\ x.kind = "started" => x.arg <= n /\ x.flow # None
  BY <1>2 DEF Way
<1>9. Way(t, n, now)
  BY <1>6, <1>7, <1>8 DEF Way
<1> QED
  BY <1>9 DEF t

LEMMA WayTail ==
  ASSUME NEW s \in Seq(Events), s # << >>, NEW n \in Nat, NEW ended, Way(s, n, ended)
  PROVE  /\ Way(Tail(s), n, ended)
         /\ Current(Head(s), n) => \A x \in Items(Tail(s)) : ~Current(x, n)
<1> DEFINE t == Tail(s)
<1>1. /\ Head(s) = s[1] /\ 1 \in DOMAIN s
      /\ \A i \in DOMAIN t : i \in Int /\ i + 1 \in DOMAIN s /\ t[i] = s[i + 1] /\ i + 1 # 1
  BY TailOf
<1>2. Items(t) \subseteq Items(s)
  BY ItemsRead
<1> HIDE DEF t
<1>3. Settled(t)
  <2> SUFFICES ASSUME NEW i \in DOMAIN t, NEW j \in DOMAIN t, i < j, t[i].kind = "finished", t[i].flow # Refused
               PROVE  t[j].flow # t[i].flow
    BY DEF Settled
  <2>1. i + 1 < j + 1 /\ i + 1 \in DOMAIN s /\ j + 1 \in DOMAIN s /\ t[i] = s[i + 1] /\ t[j] = s[j + 1]
    BY <1>1
  <2> QED
    BY <2>1 DEF Way, Settled
<1>4. \A i, j \in DOMAIN t : Current(t[i], n) /\ Current(t[j], n) => i = j
  <2> SUFFICES ASSUME NEW i \in DOMAIN t, NEW j \in DOMAIN t, Current(t[i], n), Current(t[j], n)
               PROVE  i = j
    OBVIOUS
  <2>1. i + 1 = j + 1
    BY <1>1 DEF Way
  <2> QED
    BY <1>1, <2>1
<1>5. Way(t, n, ended)
  BY <1>2, <1>3, <1>4 DEF Way
<1>6. ASSUME Current(s[1], n), NEW i \in DOMAIN t PROVE ~Current(t[i], n)
  BY <1>1, <1>6 DEF Way
<1>7. Current(Head(s), n) => \A x \in Items(t) : ~Current(x, n)
  BY <1>1, <1>6 DEF Items
<1> QED
  BY <1>5, <1>7 DEF t

\* The page is opened once more.
LEMMA WayOpened ==
  ASSUME NEW s \in Seq(Events), NEW n \in Nat, NEW ended, Way(s, n, ended)
  PROVE  Way(s, n + 1, ended) /\ \A x \in Items(s) : ~Current(x, n + 1)
<1>1. \A x \in Items(s) : x.kind = "started" => x.arg <= n /\ x.arg \in Nat
  <2>1. \A x \in Events : x.kind = "started" => x.arg \in Nat
    BY DEF Events, Notes, Finishes
  <2> QED
    BY <2>1, ItemsAre DEF Way
<1>2. \A x \in Items(s) : ~Current(x, n + 1) /\ (x.kind = "started" => x.arg <= n + 1)
  BY <1>1 DEF Current
<1>3. \A i \in DOMAIN s : ~Current(s[i], n + 1)
  BY <1>2 DEF Items
<1> QED
  BY <1>2, <1>3 DEF Way

LEMMA ReportedIs ==
  ASSUME Types
  PROVE  /\ Reported \subseteq 1..flows /\ None \notin Reported /\ Refused \notin Reported
         /\ \A flow : Silent(flow) => flow \notin Reported
         /\ flows + 1 \notin Reported
         /\ UNCHANGED <<flows, reported>> => Reported' = Reported
         /\ UNCHANGED reported /\ flows' = flows + 1 => Reported \subseteq Reported'
         /\ \A flow \in Flows, v \in Verdicts :
              reported' = [reported EXCEPT ![flow] = Append(@, v)] =>
                /\ UNCHANGED flows /\ flow \in 1..flows => Reported \cup {flow} \subseteq Reported'
                /\ flows' = flows + 1 /\ flow = flows' => Reported \cup {flow} \subseteq Reported'
<1>1. Reported \subseteq 1..flows
  BY DEF Reported
<1>2. \A flow : Silent(flow) => flow \notin Reported
  BY DEF Reported, Silent
<1>3. UNCHANGED <<flows, reported>> => Reported' = Reported
  BY DEF Reported
<1>4. UNCHANGED reported /\ flows' = flows + 1 => Reported \subseteq Reported'
  BY FlowsAre DEF Reported
<1>5. ASSUME NEW flow \in Flows, NEW v \in Verdicts, reported' = [reported EXCEPT ![flow] = Append(@, v)],
             \/ UNCHANGED flows /\ flow \in 1..flows
             \/ flows' = flows + 1 /\ flow = flows'
      PROVE  Reported \cup {flow} \subseteq Reported'
  <2>1. \A s \in Seq(Verdicts) : Append(s, v) # << >>
    BY AppendOf
  <2>2. reported \in [Flows -> Seq(Verdicts)]
    BY DEF Types
  <2>3. reported'[flow] # << >> /\ \A g \in Flows : g # flow => reported'[g] = reported[g]
    BY <1>5, <2>1, <2>2
  <2>4. flow \in 1..flows' /\ 1..flows \subseteq 1..flows' /\ 1..flows \subseteq Flows
    BY <1>5, FlowsAre
  <2> QED
    BY <2>3, <2>4 DEF Reported
<1> QED
  BY <1>1, <1>2, <1>3, <1>4, <1>5, FlowsAre

LEMMA OnTheWayInit == Init => OnTheWay
<1> SUFFICES ASSUME Init PROVE OnTheWay
  OBVIOUS
<1>1. toPage = << >> /\ DOMAIN toPage = {}
  BY DEF Init
<1> QED
  BY <1>1, ItemsNone DEF OnTheWay, Way, Settled

\* One more event is on its way.
LEMMA OnTheWayOne ==
  ASSUME Types, OnTheWay, NEW e \in Events, toPage' = Append(toPage, e), UNCHANGED opens,
         Reported \subseteq Reported', e.flow \notin Reported, e.kind # "started",
         e.kind = "finished" => e.flow \in Reported'
  PROVE  OnTheWay'
<1>1. toPage \in Seq(Events) /\ opens \in Nat
  BY DEF Types
<1>2. Way(toPage, opens, Reported)
  BY DEF OnTheWay
<1> DEFINE now == Reported'
<1>3. Reported \subseteq now /\ (e.kind = "finished" => e.flow \in now)
  OBVIOUS
<1> HIDE DEF now
<1>4. Way(Append(toPage, e), opens, now)
  BY <1>1, <1>2, <1>3, WayAppend
<1> QED
  BY <1>4 DEF OnTheWay, now

LEMMA OnTheWayEnds ==
  ASSUME Types, OnTheWay, NEW flow, Silent(flow), NEW v \in Verdicts, Ends(flow, v), UNCHANGED <<opens, flows>>
  PROVE  OnTheWay'
<1>1. flow \in 1..flows /\ flow \in Flows /\ flow \in Int
  BY FlowsAre DEF Silent, Flows
<1>2. Reported \cup {flow} \subseteq Reported' /\ flow \notin Reported
  BY <1>1, ReportedIs DEF Ends
<1> DEFINE e == Finished(flow, v)
<1>3. e \in Events /\ e.kind = "finished" /\ e.flow = flow
  BY <1>1, EventsAre DEF Finished
<1>4. toPage' = Append(toPage, e)
  BY DEF Ends
<1> HIDE DEF e
<1> QED
  BY <1>2, <1>3, <1>4, OnTheWayOne

LEMMA OnTheWaySaid ==
  ASSUME Types, OnTheWay, NEW e \in Notes, toPage' = Append(toPage, e),
         UNCHANGED <<opens, flows, reported>>, e.flow = None \/ Silent(e.flow), e.kind # "started"
  PROVE  OnTheWay'
<1>1. e \in Events /\ e.kind # "finished"
  BY DEF Notes, Events
<1>2. Reported' = Reported /\ e.flow \notin Reported
  BY ReportedIs
<1> QED
  BY <1>1, <1>2, OnTheWayOne

LEMMA OnTheWayKept ==
  ASSUME Types, OnTheWay, UNCHANGED <<toPage, opens, flows, reported>>
  PROVE  OnTheWay'
<1>1. Reported' = Reported
  BY ReportedIs
<1> QED
  BY <1>1 DEF OnTheWay


\* A page that waits for its flow gets it once; another has it, and the flow
\* the helper runs is on the page or about to be.
Expects == page.kind = "waiting" /\ page.flow = None

Reached ==
  /\ lapses = {} => page.kind = "closed" \/ Expects \/ \A e \in Items(toPage) : ~Current(e, opens)
  /\ lapses = {} /\ helper.flow # None /\ ~helper.aborted =>
       \/ Accepts(helper.flow)
       \/ Expects /\ \E e \in Items(toPage) : Current(e, opens) /\ e.flow = helper.flow

LEMMA OnTheWayStep ==
  ASSUME Types, Mutation, Outstanding, Truth, OnTheWay, Reached, lapses = {}, Step
  PROVE  OnTheWay'
<1>1. toPage \in Seq(Events) /\ opens \in Nat /\ outbox \in Seq(Records) /\ queued \in Seq(Finishes)
  BY DEF Types
<1>2. Way(toPage, opens, Reported)
  BY DEF OnTheWay
<1>3. auth.active # None => Silent(auth.active)
  BY DEF Truth
<1>4. \A n \in Nat : /\ Message("catalog", None, n) \in Notes /\ Message("catalog", None, n).flow = None
                     /\ Message("catalog", None, n).kind = "catalog"
  BY EventsAre, NoneIs DEF Message
<1>5. Verdicts = {"unknown", "failed", "changed", "succeeded", "unchanged", "cancelled"}
  BY DEF Verdicts
<1>6. ASSUME GivenUp, UNCHANGED <<opens, flows>> PROVE OnTheWay'
  BY <1>3, <1>5, <1>6, OnTheWayEnds DEF GivenUp
<1>7. CASE Open
  <2>1. /\ opens' = opens + 1 /\ UNCHANGED <<flows, reported>>
        /\ toPage' = toPage \/ toPage' = Append(toPage, Message("catalog", None, 0))
    BY <1>7, OpenDoes
  <2>2. Reported' = Reported /\ None \notin Reported
    BY <2>1, ReportedIs
  <2>3. Way(toPage, opens + 1, Reported)
    BY <1>1, <1>2, WayOpened
  <2>4. Way(Append(toPage, Message("catalog", None, 0)), opens + 1, Reported)
    <3> DEFINE e == Message("catalog", None, 0)
    <3>1. e \in Events /\ e.kind = "catalog" /\ e.flow = None
      BY <1>4 DEF Events
    <3> HIDE DEF e
    <3>2. opens + 1 \in Nat
      BY <1>1
    <3>3. Way(Append(toPage, e), opens + 1, Reported)
      BY <1>1, <2>2, <2>3, <3>1, <3>2, WayAppend
    <3> QED
      BY <3>3 DEF e
  <2> QED
    BY <2>1, <2>2, <2>3, <2>4 DEF OnTheWay
<1>8. CASE Choose
  <2>1. UNCHANGED opens /\ \A e \in Items(toPage) : ~Current(e, opens)
    BY <1>8, ChooseDoes DEF Reached, Expects
  <2>2. flows \in Nat /\ flows + 1 \in Int /\ flows + 1 # None /\ None # Refused
    BY FlowsAre, NoneIs
  <2>3. ASSUME NEW f \in {Refused, flows + 1}
        PROVE  /\ Started(f) \in Events /\ Started(f).kind = "started" /\ Started(f).flow = f /\ Started(f).arg = opens
               /\ Finished(f, "failed") \in Events /\ Finished(f, "failed").kind = "finished"
               /\ Finished(f, "failed").flow = f
               /\ f \notin Reported /\ f # None
    <3>1. f \in Int /\ f # None
      BY <2>2, NoneIs
    <3>2. Started(f) \in Events /\ Finished(f, "failed") \in Events
      BY <1>1, <1>5, <3>1, EventsAre DEF Started
    <3> QED
      BY <3>1, <3>2, ReportedIs DEF Started, Message, Finished
  <2>4. ASSUME NEW f \in {Refused, flows + 1} PROVE Way(Append(toPage, Started(f)), opens, Reported)
    <3> DEFINE e == Started(f)
    <3>1. e \in Events /\ e.kind = "started" /\ e.flow = f /\ e.arg = opens
      BY <2>3
    <3> HIDE DEF e
    <3>2. f \notin Reported /\ f # None /\ opens <= opens
      BY <1>1, <2>3
    <3>3. Way(Append(toPage, e), opens, Reported)
      BY <1>1, <1>2, <2>1, <3>1, <3>2, WayAppend
    <3> QED
      BY <3>3 DEF e
  <2>5. ASSUME NEW f \in {Refused, flows + 1}, NEW now, Reported \subseteq now, f = Refused \/ f \in now
        PROVE  Way(Append(Append(toPage, Started(f)), Finished(f, "failed")), opens, now)
    <3> DEFINE e == Finished(f, "failed")
               s == Append(toPage, Started(f))
    <3>1. e \in Events /\ e.kind = "finished" /\ e.flow = f
      BY <2>3
    <3>2. s \in Seq(Events)
      BY <1>1, <2>3, AppendOf
    <3>3. Way(s, opens, Reported)
      BY <2>4
    <3>4. f \notin Reported
      BY <2>3
    <3> HIDE DEF e, s
    <3>5. Way(Append(s, e), opens, now)
      BY <1>1, <2>5, <3>1, <3>2, <3>3, <3>4, WayAppend
    <3> QED
      BY <3>5 DEF e, s
  <2>6. CASE /\ toPage' = Append(Append(toPage, Started(Refused)), Finished(Refused, "failed"))
             /\ UNCHANGED <<reported, flows>>
    <3>1. Reported' = Reported
      BY <2>6, ReportedIs
    <3>2. Way(Append(Append(toPage, Started(Refused)), Finished(Refused, "failed")), opens, Reported)
      BY <2>5
    <3> QED
      BY <2>1, <2>6, <3>1, <3>2 DEF OnTheWay
  <2>7. CASE flows' = flows + 1 /\ toPage' = Append(toPage, Started(flows')) /\ UNCHANGED reported
    <3> DEFINE e == Started(flows + 1)
               now == Reported'
    <3>1. Reported \subseteq now
      BY <2>7, ReportedIs
    <3>2. e \in Events /\ e.kind = "started" /\ e.flow = flows + 1 /\ e.arg = opens /\ flows + 1 \notin Reported
      BY <2>3
    <3> HIDE DEF e, now
    <3>3. opens <= opens
      BY <1>1
    <3>4. Way(Append(toPage, e), opens, now)
      BY <1>1, <1>2, <2>1, <2>2, <3>1, <3>2, <3>3, WayAppend
    <3> QED
      BY <2>1, <2>7, <3>4 DEF OnTheWay, e, now
  <2>8. CASE /\ flows' = flows + 1 /\ flows' \in Flows
             /\ toPage' = Append(Append(toPage, Started(flows')), Finished(flows', "failed"))
             /\ reported' = [reported EXCEPT ![flows'] = Append(@, "failed")]
    <3> DEFINE now == Reported'
               f == flows + 1
    <3>1. f \in Flows /\ flows' = f /\ reported' = [reported EXCEPT ![f] = Append(@, "failed")]
      BY <2>8
    <3>2. Reported \cup {f} \subseteq now
      <4> HIDE DEF f, now
      <4>1. "failed" \in Verdicts
        BY <1>5
      <4>2. flows' = flows + 1
        BY <3>1 DEF f
      <4>3. Reported \cup {f} \subseteq Reported'
        BY <3>1, <4>1, <4>2, ReportedIs
      <4> QED
        BY <4>3 DEF now
    <3> HIDE DEF now
    <3>3. Way(Append(Append(toPage, Started(f)), Finished(f, "failed")), opens, now)
      BY <2>5, <3>2
    <3> QED
      BY <2>1, <2>8, <3>3 DEF OnTheWay, now
  <2> QED
    BY <1>8, <2>6, <2>7, <2>8, ChooseDoes
<1>9. CASE Answer
  <2>1. CASE UNCHANGED <<toPage, reported>>
    BY <1>9, <2>1, AnswerDoes, OnTheWayKept
  <2> QED
    BY <1>6, <1>9, <2>1, AnswerDoes
<1>10. CASE Leave
  <2>1. CASE UNCHANGED <<toPage, reported>>
    BY <1>10, <2>1, LeaveDoes, OnTheWayKept
  <2> QED
    BY <1>6, <1>10, <2>1, LeaveDoes
<1>11. CASE Exit \/ Replaced
  <2>1. UNCHANGED <<toPage, reported, opens, flows>>
    BY <1>11 DEF Exit, Replaced, history
  <2> QED
    BY <2>1, OnTheWayKept
<1>12. CASE PageApplies
  <2>1. toPage # << >> /\ toPage' = Tail(toPage) /\ UNCHANGED <<reported, opens, flows>>
    BY <1>12 DEF PageApplies
  <2>2. Reported' = Reported
    BY <2>1, ReportedIs
  <2>3. Way(Tail(toPage), opens, Reported)
    BY <1>1, <1>2, <2>1, WayTail
  <2> QED
    BY <2>1, <2>2, <2>3 DEF OnTheWay
<1>13. CASE TakeQueued
  <2> DEFINE q == Head(queued)
  <2>1. /\ queued # << >> /\ UNCHANGED <<opens, flows>> /\ q \in Finishes
        /\ toPage' = Append(toPage, Finished(q.flow, q.arg))
        /\ reported' = IF q.flow # Refused THEN [reported EXCEPT ![q.flow] = Append(@, q.arg)] ELSE reported
    BY <1>13, TakeQueuedDoes
  <2>2. q \in Items(queued)
    BY <1>1, <2>1, ItemsRead
  <2> HIDE DEF q
  <2>3. Silent(q.flow) /\ q.arg \in Verdicts
    BY <2>1, <2>2 DEF Truth, Finishes
  <2>4. q.flow # Refused
    BY <2>3, FlowsAre DEF Silent
  <2>5. Ends(q.flow, q.arg)
    BY <2>1, <2>4 DEF Ends
  <2> QED
    BY <2>1, <2>3, <2>5, OnTheWayEnds
<1>14. CASE TakeRecord
  <2> DEFINE r == Head(outbox)
  <2>1. outbox # << >> /\ UNCHANGED <<opens, flows>> /\ r \in Records
    BY <1>14, TakeRecordDoes
  <2>2. \/ Quiet
        \/ auth.active # None /\ Ends(auth.active, "unknown")
        \/ r.kind = "outcome" /\ r.flow = auth.active /\ Ends(r.flow, r.arg)
        \/ \E n \in Nat : toPage' = Append(toPage, Message("catalog", None, n)) /\ UNCHANGED reported
        \/ /\ r.kind \in {"prompt", "withdrawn"} /\ r.flow = auth.active /\ r \in Notes
           /\ toPage' = Append(toPage, r) /\ UNCHANGED reported
    BY <1>14, TakeRecordDoes DEF Ends
  <2>3. r \in Items(outbox)
    BY <1>1, <2>1, ItemsRead
  <2> HIDE DEF r
  <2>4. CASE Quiet
    BY <2>1, <2>4, OnTheWayKept DEF Quiet
  <2>5. CASE auth.active # None /\ Ends(auth.active, "unknown")
    BY <1>3, <1>5, <2>1, <2>5, OnTheWayEnds
  <2>6. CASE r.kind = "outcome" /\ r.flow = auth.active /\ Ends(r.flow, r.arg)
    <3>1. r.arg \in Verdicts
      BY <2>1, <2>6 DEF Records, Outcomes, Words, Verdicts
    <3>2. r.flow \in 1..flows
      BY <2>3, <2>6 DEF Outstanding
    <3>3. Silent(r.flow)
      BY <1>3, <2>6, <3>2, FlowsAre
    <3> QED
      BY <2>1, <2>6, <3>1, <3>3, OnTheWayEnds
  <2>7. CASE \E n \in Nat : toPage' = Append(toPage, Message("catalog", None, n)) /\ UNCHANGED reported
    <3>1. PICK n \in Nat : toPage' = Append(toPage, Message("catalog", None, n)) /\ UNCHANGED reported
      BY <2>7
    <3> DEFINE e == Message("catalog", None, n)
    <3>2. e \in Notes /\ e.flow = None /\ e.kind = "catalog"
      BY <1>4
    <3>3. toPage' = Append(toPage, e)
      BY <3>1
    <3> HIDE DEF e
    <3> QED
      BY <2>1, <3>1, <3>2, <3>3, OnTheWaySaid
  <2>8. CASE /\ r.kind \in {"prompt", "withdrawn"} /\ r.flow = auth.active /\ r \in Notes
             /\ toPage' = Append(toPage, r) /\ UNCHANGED reported
    <3>1. Silent(r.flow)
      BY <1>3, <2>3, <2>8, FlowsAre DEF Outstanding
    <3> QED
      BY <2>1, <2>8, <3>1, OnTheWaySaid
  <2> QED
    BY <2>2, <2>4, <2>5, <2>6, <2>7, <2>8
<1>15. CASE RefreshOverdue \/ CatalogOverdue
  <2>1. UNCHANGED <<opens, flows>>
    BY <1>15, OverdueDoes
  <2>2. \/ Quiet
        \/ auth.pending # None /\ Ends(auth.pending, "changed")
        \/ toPage' = Append(toPage, Message("catalog", None, 0)) /\ UNCHANGED reported
    BY <1>15, OverdueDoes DEF Quiet
  <2>3. auth.pending # None => Silent(auth.pending)
    BY <1>3 DEF Mutation
  <2>4. CASE toPage' = Append(toPage, Message("catalog", None, 0)) /\ UNCHANGED reported
    <3> DEFINE e == Message("catalog", None, 0)
    <3>1. e \in Notes /\ e.flow = None /\ e.kind = "catalog" /\ toPage' = Append(toPage, e)
      BY <1>4, <2>4
    <3> HIDE DEF e
    <3> QED
      BY <2>1, <2>4, <3>1, OnTheWaySaid
  <2>5. CASE auth.pending # None /\ Ends(auth.pending, "changed")
    BY <1>5, <2>1, <2>3, <2>5, OnTheWayEnds
  <2> QED
    BY <2>1, <2>2, <2>4, <2>5, OnTheWayKept DEF Quiet
<1>16. CASE TakeRefresh
  <2>1. UNCHANGED <<opens, flows>>
    BY <1>16, TakeRefreshDoes
  <2>2. \/ Quiet
        \/ auth.pending \in refreshing /\ \E v \in {"succeeded", "changed"} : Ends(auth.pending, v)
    BY <1>16, TakeRefreshDoes
  <2>3. CASE auth.pending \in refreshing /\ \E v \in {"succeeded", "changed"} : Ends(auth.pending, v)
    <3>1. PICK v \in {"succeeded", "changed"} : Ends(auth.pending, v)
      BY <2>3
    <3>2. auth.pending # None
      BY <2>3, FlowsAre DEF Outstanding
    <3>3. Silent(auth.pending) /\ v \in Verdicts
      BY <1>3, <1>5, <3>2 DEF Mutation
    <3> QED
      BY <2>1, <3>1, <3>3, OnTheWayEnds
  <2> QED
    BY <2>1, <2>2, <2>3, OnTheWayKept DEF Quiet
<1>17. CASE TakeContext
  BY <1>17, TakeContextDoes, OnTheWayKept
<1>18. CASE HelperAsks \/ HelperWithdraws \/ HelperStores \/ HelperEnds
  BY <1>18, HelperDoes, OnTheWayKept
<1>19. CASE HelperCrashes
  <2>1. UNCHANGED <<toPage, opens, flows, reported>>
    BY <1>19, HelperCrashesDoes
  <2> QED
    BY <2>1, OnTheWayKept
<1> QED
  BY <1>7, <1>8, <1>9, <1>10, <1>11, <1>12, <1>13, <1>14, <1>15, <1>16, <1>17, <1>18, <1>19 DEF Step


LEMMA ReachedInit == Init => Reached
BY DEF Init, Reached, Closed, NoHelper, None

\* The page is as it was, and no flow starts.
LEMMA ReachedKept ==
  ASSUME Reached, lapses = {}, UNCHANGED <<page, opens>>,
         \/ helper'.flow = None
         \/ helper'.flow = helper.flow /\ helper'.aborted = helper.aborted,
         Items(toPage) \subseteq Items(toPage'),
         \A e \in Items(toPage') \ Items(toPage) : e.kind # "started"
  PROVE  Reached'
BY DEF Reached, Expects, Accepts, Current

LEMMA ReachedStep ==
  ASSUME Types, Mutation, Outstanding, Truth, OnTheWay, Reached, lapses = {}, Step
  PROVE  Reached'
<1>1. toPage \in Seq(Events) /\ opens \in Nat /\ outbox \in Seq(Records)
  BY DEF Types
<1>2. Way(toPage, opens, Reported)
  BY DEF OnTheWay
<1>3. NoHelper.flow = None /\ NewHelper.flow = None /\ (helper.flow # None => helper.flow \notin Reported)
  BY HelpersAre, ReportedIs DEF Mutation, Truth
<1>4. ASSUME NEW e \in Events, toPage' = Append(toPage, e)
      PROVE  Items(toPage') = Items(toPage) \cup {e}
  BY <1>1, <1>4, ItemsWritten
<1>5. ASSUME NEW flow \in Int, NEW v \in Verdicts, toPage' = Append(toPage, Finished(flow, v))
      PROVE  /\ Items(toPage) \subseteq Items(toPage')
             /\ \A e \in Items(toPage') \ Items(toPage) : e.kind # "started"
  <2> DEFINE e == Finished(flow, v)
  <2>1. e \in Events /\ e.kind = "finished"
    BY EventsAre DEF Finished
  <2> HIDE DEF e
  <2>2. Items(toPage') = Items(toPage) \cup {e}
    BY <1>4, <1>5, <2>1 DEF e
  <2> QED
    BY <2>1, <2>2
<1>6. ASSUME NEW n \in Nat, toPage' = Append(toPage, Message("catalog", None, n))
      PROVE  /\ Items(toPage) \subseteq Items(toPage')
             /\ \A e \in Items(toPage') \ Items(toPage) : e.kind # "started"
  <2> DEFINE e == Message("catalog", None, n)
  <2>1. e \in Events /\ e.kind = "catalog"
    BY EventsAre, NoneIs DEF Message
  <2> HIDE DEF e
  <2>2. Items(toPage') = Items(toPage) \cup {e}
    BY <1>4, <1>6, <2>1 DEF e
  <2> QED
    BY <2>1, <2>2
<1>7. /\ auth.active \in Int /\ auth.pending \in Int
      /\ Verdicts = {"unknown", "failed", "changed", "succeeded", "unchanged", "cancelled"}
  BY HelpersAre DEF Verdicts
<1>8. CASE Open
  <2>1. /\ page.kind = "closed" /\ page' = Providers(FALSE) /\ opens' = opens + 1
        /\ \/ UNCHANGED <<helper, toPage>>
           \/ Dropped /\ toPage' = Append(toPage, Message("catalog", None, 0))
    BY <1>8, OpenDoes
  <2>2. \A e \in Items(toPage) : ~Current(e, opens')
    BY <1>1, <1>2, <2>1, WayOpened
  <2>3. \A e \in Items(toPage') \ Items(toPage) : e.kind # "started"
    BY <1>6, <2>1
  <2>4. \A e \in Items(toPage') : ~Current(e, opens')
    BY <2>2, <2>3 DEF Current
  <2>5. helper'.flow = None \/ helper' = helper
    BY <1>3, <2>1 DEF Dropped
  <2>6. helper.flow = None \/ helper.aborted
    BY <2>1 DEF Reached, Accepts, Expects
  <2> QED
    BY <2>4, <2>5, <2>6 DEF Reached
<1>9. CASE Choose
  <2>1. /\ page.kind = "providers" /\ page' = Waiting(None) /\ UNCHANGED <<opens, lapses>>
    BY <1>9, ChooseDoes
  <2>2. Expects'
    BY <2>1 DEF Expects, Waiting
  <2>3. helper.flow = None \/ helper.aborted
    BY <2>1 DEF Reached, Accepts, Expects
  <2>4. \/ helper'.flow = None \/ helper' = helper
        \/ helper'.flow = flows + 1 /\ toPage' = Append(toPage, Started(flows + 1))
    <3>1. \/ UNCHANGED machine
          \/ UNCHANGED helper
          \/ Dropped
          \/ helper' = [helper EXCEPT !.flow = flows'] /\ flows' = flows + 1 /\ toPage' = Append(toPage, Started(flows'))
      BY <1>9, ChooseDoes
    <3>2. helper' = [helper EXCEPT !.flow = flows'] => helper'.flow = flows'
      BY DEF Types, Helpers
    <3> QED
      BY <1>3, <3>1, <3>2 DEF Dropped, machine
  <2>5. CASE helper'.flow = flows + 1 /\ toPage' = Append(toPage, Started(flows + 1))
    <3> DEFINE e == Started(flows + 1)
    <3>1. e \in Events /\ e.kind = "started" /\ e.arg = opens /\ e.flow = flows + 1
      <4>1. e \in Notes
        BY <1>1, FlowsAre, EventsAre DEF Started
      <4> QED
        BY <4>1, EventsAre DEF Started, Message
    <3> HIDE DEF e
    <3>2. e \in Items(toPage')
      BY <1>4, <2>5, <3>1 DEF e
    <3>3. Current(e, opens')
      BY <2>1, <3>1 DEF Current
    <3>4. \E x \in Items(toPage') : Current(x, opens') /\ x.flow = helper'.flow
      BY <2>5, <3>1, <3>2, <3>3
    <3> QED
      BY <2>2, <3>4 DEF Reached
  <2> QED
    BY <2>2, <2>3, <2>4, <2>5 DEF Reached
<1>10. CASE Answer
  <2>1. page.kind = "prompt" /\ page' = Waiting(page.flow) /\ UNCHANGED opens
    BY <1>10, AnswerDoes
  <2>2. \/ GivenUp
        \/ UNCHANGED <<toPage, lapses>> /\ helper'.flow = helper.flow /\ helper'.aborted = helper.aborted
    BY <1>10, AnswerDoes
  <2>3. \A e \in Items(toPage') : ~Current(e, opens')
    <3>1. \A e \in Items(toPage) : ~Current(e, opens)
      BY <2>1 DEF Reached, Expects
    <3>2. \A e \in Items(toPage') \ Items(toPage) : e.kind # "started"
      BY <1>5, <1>7, <2>2 DEF GivenUp, Ends
    <3> QED
      BY <2>1, <3>1, <3>2 DEF Current
  <2>4. helper'.flow = None \/ (helper'.flow = helper.flow /\ helper'.aborted = helper.aborted)
    BY <1>3, <2>2 DEF GivenUp, Dropped
  <2>5. helper.flow # None /\ ~helper.aborted => Accepts(helper.flow)
    BY <2>1 DEF Reached, Expects
  <2>6. helper.flow # None /\ ~helper.aborted => page'.kind = "waiting" /\ page'.flow = helper.flow
    BY <2>1, <2>5 DEF Accepts, Waiting
  <2> QED
    BY <2>3, <2>4, <2>6 DEF Reached, Accepts
<1>11. CASE Leave
  <2>1. /\ \/ page.kind = "prompt" /\ page' = Waiting(page.flow)
           \/ page.kind = "waiting" /\ page' = Closed
        /\ UNCHANGED opens
    BY <1>11, LeaveDoes
  <2>2. \/ GivenUp
        \/ /\ UNCHANGED <<auth, toPage, lapses, machine>>
           /\ helper.flow = None \/ ~helper.alive \/ auth.active = None
        \/ UNCHANGED <<toPage, lapses>> /\ helper'.aborted
    BY <1>11, LeaveDoes
  <2>3. helper'.flow = None \/ helper'.aborted
    BY <1>3, <2>2 DEF GivenUp, Dropped, Mutation, machine
  <2>4. page'.kind = "closed" \/ \A e \in Items(toPage') : ~Current(e, opens')
    <3>1. CASE page' = Closed
      BY <3>1 DEF Closed
    <3>2. CASE page.kind = "prompt"
      <4>1. \A e \in Items(toPage) : ~Current(e, opens)
        BY <3>2 DEF Reached, Expects
      <4>2. \A e \in Items(toPage') \ Items(toPage) : e.kind # "started"
        BY <1>5, <1>7, <2>2 DEF GivenUp, Ends
      <4> QED
        BY <2>1, <4>1, <4>2 DEF Current
    <3> QED
      BY <2>1, <3>1, <3>2
  <2> QED
    BY <2>3, <2>4 DEF Reached
<1>12. CASE Exit
  <2>1. page.kind \in {"providers", "outcome"} /\ page' = Closed /\ UNCHANGED <<helper, opens>>
    BY <1>12 DEF Exit, machine
  <2>2. helper.flow = None \/ helper.aborted
    BY <2>1 DEF Reached, Accepts, Expects
  <2> QED
    BY <2>1, <2>2 DEF Reached, Closed
<1>13. CASE Replaced
  <2>1. /\ page' = Closed /\ UNCHANGED <<helper, opens>>
        /\ page.kind \in {"prompt", "waiting"} => lapses' # {}
    BY <1>13 DEF Replaced, machine
  <2>2. page.kind \notin {"prompt", "waiting"} => helper.flow = None \/ helper.aborted
    BY DEF Reached, Accepts, Expects
  <2> QED
    BY <2>1, <2>2 DEF Reached, Closed
<1>14. CASE PageApplies
  <2> DEFINE e == Head(toPage)
  <2>1. /\ toPage # << >> /\ page' = Shown(e) /\ toPage' = Tail(toPage) /\ UNCHANGED <<helper, opens>>
        /\ lapses' = {} => ~Misplaced(e)
    BY <1>14 DEF PageApplies, machine
  <2>2. e \in Items(toPage) /\ Items(toPage) = Items(toPage') \cup {e} /\ e \in Events
    BY <1>1, <2>1, ItemsRead, TailOf
  <2>3. Current(e, opens) => \A x \in Items(toPage') : ~Current(x, opens)
    BY <1>1, <1>2, <2>1, WayTail
  <2> HIDE DEF e
  <2>4. CASE lapses' # {}
    BY <2>4 DEF Reached
  <2>5. CASE ~Misplaced(e)
    <3>1. e.kind \in {"started", "prompt", "withdrawn", "finished", "catalog"}
      BY <2>2 DEF Events, Notes, Finishes
    <3>2. CASE e.kind = "started" /\ page.kind # "closed"
      <4>1. Current(e, opens) /\ page' = Waiting(e.flow)
        BY <2>1, <2>5, <3>2 DEF Shown, Misplaced, Current
      <4>2. Expects
        BY <2>2, <3>2, <4>1 DEF Reached
      <4>3. e.flow # None
        BY <1>2, <2>2, <3>2 DEF Way
      <4>4. helper.flow # None /\ ~helper.aborted => e.flow = helper.flow
        <5> SUFFICES ASSUME helper.flow # None, ~helper.aborted PROVE e.flow = helper.flow
          OBVIOUS
        <5>1. PICK x \in Items(toPage) : Current(x, opens) /\ x.flow = helper.flow
          BY <4>2 DEF Reached, Expects, Accepts
        <5>2. x = e
          BY <2>2, <2>3, <4>1, <5>1
        <5> QED
          BY <5>1, <5>2
      <4>5. \A x \in Items(toPage') : ~Current(x, opens')
        BY <2>1, <2>3, <4>1
      <4>6. page'.kind = "waiting" /\ page'.flow = e.flow
        BY <4>1 DEF Waiting
      <4> QED
        BY <2>1, <4>4, <4>5, <4>6 DEF Reached, Accepts
    <3>3. CASE e.kind # "started" \/ page.kind = "closed"
      <4>1. e.kind = "catalog" => page.kind \notin {"waiting", "prompt"}
        BY <2>5 DEF Misplaced
      <4>2. \/ page' = page
            \/ /\ page.kind # "closed" /\ ~Expects /\ page'.kind # "closed"
               /\ ~Accepts(helper.flow) \/ (page'.kind \in {"waiting", "prompt"} /\ page'.flow = page.flow)
        <5>1. CASE e.kind = "started"
          BY <2>1, <3>3, <5>1 DEF Shown
        <5>2. CASE e.kind = "prompt"
          BY <2>1, <5>2 DEF Shown, Accepts, Asking, Expects
        <5>3. CASE e.kind = "withdrawn"
          BY <2>1, <5>3 DEF Shown, Waiting, Expects
        <5>4. CASE e.kind = "finished"
          <6>1. CASE Accepts(e.flow)
            <7>1. page' = Ended
              BY <2>1, <5>4, <6>1 DEF Shown
            <7>2. e.flow \in Reported \/ e.flow = Refused
              BY <1>2, <2>2, <5>4 DEF Way
            <7>3. helper.flow # Refused
              BY HelpersAre, NoneIs
            <7>4. ~Accepts(helper.flow)
              BY <1>3, <6>1, <7>2, <7>3 DEF Accepts
            <7> QED
              BY <6>1, <7>1, <7>4 DEF Accepts, Expects, Ended
          <6>2. CASE ~Accepts(e.flow)
            BY <2>1, <5>4, <6>2 DEF Shown
          <6> QED
            BY <6>1, <6>2
        <5>5. CASE e.kind = "catalog"
          <6>1. page' = page \/ (page.kind # "closed" /\ page' = Providers(e.arg = 1))
            BY <2>1, <5>5 DEF Shown
          <6> QED
            BY <4>1, <5>5, <6>1 DEF Accepts, Expects, Providers
        <5> QED
          BY <3>1, <5>1, <5>2, <5>3, <5>4, <5>5
      <4>3. CASE page' = page
        <5>1. page.kind = "closed" \/ Expects \/ \A x \in Items(toPage') : ~Current(x, opens)
          BY <2>2 DEF Reached
        <5>2. helper.flow # None /\ ~helper.aborted /\ ~Accepts(helper.flow) =>
                Expects /\ \E x \in Items(toPage') : Current(x, opens) /\ x.flow = helper.flow
          <6> SUFFICES ASSUME helper.flow # None, ~helper.aborted, ~Accepts(helper.flow)
                       PROVE  Expects /\ \E x \in Items(toPage') : Current(x, opens) /\ x.flow = helper.flow
            OBVIOUS
          <6>1. Expects /\ \E x \in Items(toPage) : Current(x, opens) /\ x.flow = helper.flow
            BY DEF Reached
          <6>2. ~Current(e, opens)
            BY <3>3, <6>1 DEF Current, Expects
          <6> QED
            BY <2>2, <6>1, <6>2
        <5> QED
          BY <2>1, <4>3, <5>1, <5>2 DEF Reached, Expects, Accepts
      <4>4. CASE /\ page.kind # "closed" /\ ~Expects /\ page'.kind # "closed"
                 /\ ~Accepts(helper.flow) \/ (page'.kind \in {"waiting", "prompt"} /\ page'.flow = page.flow)
        <5>1. \A x \in Items(toPage') : ~Current(x, opens')
          BY <2>1, <2>2, <4>4 DEF Reached
        <5>2. helper.flow # None /\ ~helper.aborted => Accepts(helper.flow)
          BY <4>4 DEF Reached
        <5>3. Accepts(helper.flow) => page'.kind \in {"waiting", "prompt"} /\ page'.flow = helper.flow /\ helper.flow # None
          BY <4>4 DEF Accepts
        <5> QED
          BY <2>1, <5>1, <5>2, <5>3 DEF Reached, Accepts
      <4> QED
        BY <4>2, <4>3, <4>4
    <3> QED
      BY <3>2, <3>3
  <2> QED
    BY <2>1, <2>4, <2>5
<1>15. CASE TakeQueued
  <2> DEFINE q == Head(queued)
  <2>1. UNCHANGED <<page, helper, opens>> /\ q \in Finishes /\ toPage' = Append(toPage, Finished(q.flow, q.arg))
    BY <1>15, TakeQueuedDoes DEF machine
  <2> HIDE DEF q
  <2>2. q.flow \in Int /\ q.arg \in Verdicts
    BY <2>1 DEF Finishes
  <2> QED
    BY <1>5, <2>1, <2>2, ReachedKept
<1>16. CASE TakeRecord
  <2> DEFINE r == Head(outbox)
  <2>1. /\ UNCHANGED <<page, opens>> /\ r \in Records
        /\ \/ Dropped
           \/ UNCHANGED helper
    BY <1>16, TakeRecordDoes
  <2>2. \/ Quiet
        \/ Ends(auth.active, "unknown")
        \/ r.kind = "outcome" /\ toPage' = Append(toPage, Finished(r.flow, r.arg))
        \/ \E n \in Nat : toPage' = Append(toPage, Message("catalog", None, n))
        \/ r.kind \in {"prompt", "withdrawn"} /\ r \in Notes /\ toPage' = Append(toPage, r)
    BY <1>16, TakeRecordDoes
  <2> HIDE DEF r
  <2>3. /\ Items(toPage) \subseteq Items(toPage')
        /\ \A e \in Items(toPage') \ Items(toPage) : e.kind # "started"
    <3>1. CASE Quiet
      BY <3>1 DEF Quiet
    <3>2. CASE Ends(auth.active, "unknown")
      BY <1>5, <1>7, <3>2 DEF Ends
    <3>3. CASE r.kind = "outcome" /\ toPage' = Append(toPage, Finished(r.flow, r.arg))
      <4>1. r.flow \in Int /\ r.arg \in Verdicts
        BY <2>1, <3>3 DEF Records, Outcomes, Words, Verdicts
      <4> QED
        BY <1>5, <3>3, <4>1
    <3>4. CASE \E n \in Nat : toPage' = Append(toPage, Message("catalog", None, n))
      BY <1>6, <3>4
    <3>5. CASE r.kind \in {"prompt", "withdrawn"} /\ r \in Notes /\ toPage' = Append(toPage, r)
      BY <1>4, <3>5, EventsAre
    <3> QED
      BY <2>2, <3>1, <3>2, <3>3, <3>4, <3>5
  <2>4. helper'.flow = None \/ (helper'.flow = helper.flow /\ helper'.aborted = helper.aborted)
    BY <1>3, <2>1 DEF Dropped
  <2> QED
    BY <2>1, <2>3, <2>4, ReachedKept
<1>17. CASE RefreshOverdue \/ CatalogOverdue \/ TakeRefresh
  <2>1. UNCHANGED <<page, helper, opens>>
    BY <1>17, OverdueDoes, TakeRefreshDoes DEF machine
  <2>2. \/ toPage' = toPage
        \/ \E v \in {"succeeded", "changed"} : toPage' = Append(toPage, Finished(auth.pending, v))
        \/ toPage' = Append(toPage, Message("catalog", None, 0))
    BY <1>17, OverdueDoes, TakeRefreshDoes DEF Quiet, Ends
  <2>3. /\ Items(toPage) \subseteq Items(toPage')
        /\ \A e \in Items(toPage') \ Items(toPage) : e.kind # "started"
    BY <1>5, <1>6, <1>7, <2>2
  <2> QED
    BY <2>1, <2>3, ReachedKept
<1>18. CASE TakeContext
  <2>1. UNCHANGED <<page, opens, toPage>>
    BY <1>18, TakeContextDoes
  <2>2. helper' = helper \/ helper' = NewHelper \/ helper' = NoHelper
    BY <1>18, TakeContextDoes DEF machine
  <2> QED
    BY <1>3, <2>1, <2>2, ReachedKept
<1>19. CASE HelperAsks \/ HelperWithdraws \/ HelperStores \/ HelperEnds
  <2>1. UNCHANGED <<page, opens, toPage>>
    BY <1>19, HelperDoes
  <2>2. helper'.flow = None \/ (helper'.flow = helper.flow /\ helper'.aborted = helper.aborted)
    BY <1>19, HelperDoes
  <2> QED
    BY <2>1, <2>2, ReachedKept
<1>20. CASE HelperCrashes
  <2>1. UNCHANGED <<page, opens, toPage>> /\ helper' = NoHelper
    BY <1>20, HelperCrashesDoes
  <2> QED
    BY <1>3, <2>1, ReachedKept
<1> QED
  BY <1>8, <1>9, <1>10, <1>11, <1>12, <1>13, <1>14, <1>15, <1>16, <1>17, <1>18, <1>19, <1>20 DEF Step

-----------------------------------------------------------------------------
\* The inductive invariant.
AuthInv == Types /\ Resting /\ Mutation /\ Outstanding /\ Truth /\ OnTheWay /\ Reached

LEMMA InvInit == Init => AuthInv
BY TypesInit, RestingInit, MutationInit, OutstandingInit, TruthInit, OnTheWayInit, ReachedInit DEF AuthInv

LEMMA InvStep == AuthInv /\ [Next]_vars => AuthInv'
<1> SUFFICES ASSUME AuthInv, [Next]_vars PROVE AuthInv'
  OBVIOUS
<1>1. Types /\ Resting /\ Mutation /\ Outstanding /\ Truth /\ OnTheWay /\ Reached
  BY DEF AuthInv
<1>2. Types'
  BY <1>1, TypesStep
<1>3. CASE Next
  <2>1. lapses = {} /\ Step
    BY <1>3 DEF Next
  <2>2. Resting' /\ Mutation' /\ Outstanding' /\ Truth'
    BY <1>1, <2>1, RestingStep, MutationStep, OutstandingStep, TruthStep
  <2>3. OnTheWay' /\ Reached'
    BY <1>1, <2>1, OnTheWayStep, ReachedStep
  <2> QED
    BY <1>2, <2>2, <2>3 DEF AuthInv
<1>4. CASE UNCHANGED vars
  <2>1. Resting' /\ Mutation' /\ Outstanding'
    BY <1>1, <1>4 DEF vars, Resting, Mutation, Outstanding, Ending, Items
  <2>2. Truth'
    BY <1>1, <1>4 DEF vars, Truth, VerdictTrue, Silent, Items
  <2>3. OnTheWay'
    BY <1>1, <1>4, OnTheWayKept DEF vars
  <2>4. Reached'
    BY <1>1, <1>4 DEF vars, Reached, Expects, Accepts, Items
  <2> QED
    BY <1>2, <2>1, <2>2, <2>3, <2>4 DEF AuthInv
<1> QED
  BY <1>3, <1>4

LEMMA InvHolds == Spec => []AuthInv
BY InvInit, InvStep, PTL DEF Spec

\* An outcome is reported once for a flow and says what became of the stored
\* credential: AuthManager of e-pi/src/auth.rs, its queue over a change of
\* session, its deadlines, and the helper that may be lost while it stores
\* (auth_helper.mjs).
THEOREM VerdictTrueHolds == Spec => []VerdictTrue
<1>1. AuthInv => VerdictTrue
  BY DEF AuthInv, Truth
<1> QED
  BY <1>1, InvHolds, PTL

\* There is one flow; until it is lost to one of the known lapses, it can be
\* answered and cancelled from the page, and the worker still holds what will end
\* it; its outcome is the last the page hears of it: AuthManager of
\* e-pi/src/auth.rs, mutate of auth_helper.mjs, LoginState of e-tui/src/login.rs.
THEOREM FlowSoundHolds == Spec => []FlowSound
<1>1. AuthInv => FlowSound
  <2> SUFFICES ASSUME AuthInv PROVE FlowSound
    OBVIOUS
  <2>1. Mutation /\ OnTheWay /\ Reached
    BY DEF AuthInv
  <2>2. FlowOwed
    <3> SUFFICES ASSUME auth.active # None, lapses = {} PROVE Owed(auth.active)
      BY DEF FlowOwed
    <3>1. CASE Ending(outbox, auth.active)
      BY <3>1 DEF Ending, Items, Owed
    <3> QED
      BY <2>1, <3>1 DEF Mutation, Owed
  <2>3. NothingAfter
    BY <2>1 DEF OnTheWay, Way, Settled, NothingAfter
  <2>4. OneMutation
    BY <2>1 DEF Mutation, OneMutation
  <2>5. FlowReachable
    <3> SUFFICES ASSUME helper.flow # None, lapses = {}, ~helper.aborted, ~Accepts(helper.flow)
                 PROVE  \E i \in DOMAIN toPage : toPage[i].kind = "started" /\ toPage[i].flow = helper.flow
      BY DEF FlowReachable, Reachable
    <3>1. \E e \in Items(toPage) : Current(e, opens) /\ e.flow = helper.flow
      BY <2>1 DEF Reached
    <3> QED
      BY <3>1 DEF Items, Current
  <2> QED
    BY <2>2, <2>3, <2>4, <2>5 DEF FlowSound
<1> QED
  BY <1>1, InvHolds, PTL
=============================================================================
