----------------------------- MODULE LaneService -----------------------------
(***************************************************************************)
(* What daemon/lanes.ts and daemon/drain.ts promise whoever offers a task, *)
(* with neither generations nor active sets nor a pump: a lane with a free *)
(* place starts a task at once, a full one lets it wait, and whoever has   *)
(* waited longest starts in the very step in which a task of the lane      *)
(* ends.  Nothing is taken or cleared except on the right side of a gate,  *)
(* and the gate is opened again only when nothing waits and nothing runs   *)
(* but the tasks a clearing forgot.  Those may run on, hold no place, and  *)
(* are answered with a rejection.                                          *)
(***************************************************************************)
EXTENDS Naturals, Sequences, FiniteSets

CONSTANTS Lanes, Tasks, LaneOf, MaxConcurrent

VARIABLES
  state,  \* task -> new, waiting, running, forgotten, resolved or rejected
  line,   \* lane -> the tasks that wait, the longest waiting first
  open    \* the gate lets tasks in

serviceVars == <<state, line, open>>

Init ==
  /\ state = [t \in Tasks |-> "new"]
  /\ line = [k \in Lanes |-> <<>>]
  /\ open = TRUE

RunningIn(k) == {t \in Tasks : LaneOf[t] = k /\ state[t] = "running"}
IsFull(k) == Cardinality(RunningIn(k)) >= MaxConcurrent[k]

\* enqueue() lets a task in.
Start(t) ==
  /\ state[t] = "new" /\ open /\ ~IsFull(LaneOf[t])
  /\ state' = [state EXCEPT ![t] = "running"]
  /\ UNCHANGED <<line, open>>

Wait(t) ==
  /\ state[t] = "new" /\ open /\ IsFull(LaneOf[t])
  /\ state' = [state EXCEPT ![t] = "waiting"]
  /\ line' = [line EXCEPT ![LaneOf[t]] = Append(@, t)]
  /\ UNCHANGED open

\* enqueue() refuses one.
Refuse(t) ==
  /\ state[t] = "new" /\ ~open
  /\ state' = [state EXCEPT ![t] = "rejected"]
  /\ UNCHANGED <<line, open>>

\* A task ends with an outcome; one that waits takes its place.
End(t, outcome) ==
  /\ state[t] = "running" /\ line[LaneOf[t]] = <<>>
  /\ state' = [state EXCEPT ![t] = outcome]
  /\ UNCHANGED <<line, open>>

HandOver(t, outcome) ==
  /\ state[t] = "running" /\ line[LaneOf[t]] # <<>>
  /\ state' = [state EXCEPT ![t] = outcome, ![Head(line[LaneOf[t]])] = "running"]
  /\ line' = [line EXCEPT ![LaneOf[t]] = Tail(@)]
  /\ UNCHANGED open

EndForgotten(t) ==
  /\ state[t] = "forgotten"
  /\ state' = [state EXCEPT ![t] = "rejected"]
  /\ UNCHANGED <<line, open>>

\* The drain begins; resetAll() behind the closed gate; the restart is over.
Close == open /\ open' = FALSE /\ UNCHANGED <<state, line>>

Clear ==
  /\ ~open
  /\ state' = [t \in Tasks |-> IF state[t] = "waiting" THEN "rejected"
                               ELSE IF state[t] = "running" THEN "forgotten" ELSE state[t]]
  /\ line' = [k \in Lanes |-> <<>>]
  /\ UNCHANGED open

Reopen ==
  /\ ~open /\ \A t \in Tasks : state[t] \notin {"waiting", "running"}
  /\ open' = TRUE
  /\ UNCHANGED <<state, line>>

Next ==
  \/ Close \/ Clear \/ Reopen
  \/ \E t \in Tasks : Start(t) \/ Wait(t) \/ Refuse(t) \/ EndForgotten(t)
  \/ \E t \in Tasks, outcome \in {"resolved", "rejected"} : End(t, outcome) \/ HandOver(t, outcome)

Spec == Init /\ [][Next]_serviceVars
=============================================================================
