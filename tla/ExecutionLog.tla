---------------------------- MODULE ExecutionLog ----------------------------
(***************************************************************************)
(* What the execution history of a session promises, whatever crashes: a   *)
(* log that one opening at a time writes, each its own records in the      *)
(* order they were offered and without a gap, and none once it has been    *)
(* closed.  HistoryStore implements it.                                    *)
(***************************************************************************)
EXTENDS Integers, Sequences, FiniteSets

VARIABLES
  log,      \* the records, of all openings
  current,  \* the opening that may write, or 0
  last,     \* the latest opening
  done      \* openings whose records were reported as saved

logVars == <<log, current, last, done>>

Written == Cardinality({i \in DOMAIN log : log[i].opening = current})

Init == log = <<>> /\ current = 0 /\ last = 0 /\ done = {}

Begin ==
  /\ current = 0
  /\ last' = last + 1
  /\ current' = last'
  /\ UNCHANGED <<log, done>>

Write ==
  /\ current # 0 /\ current \notin done
  /\ log' = Append(log, [opening |-> current, n |-> Written + 1])
  /\ UNCHANGED <<current, last, done>>

Close ==
  /\ current # 0
  /\ done' = done \cup {current}
  /\ UNCHANGED <<log, current, last>>

\* The writer ends, by itself or with its process.
End ==
  /\ current # 0
  /\ current' = 0
  /\ UNCHANGED <<log, last, done>>

Next == Begin \/ Write \/ Close \/ End

Spec == Init /\ [][Next]_logVars
=============================================================================
