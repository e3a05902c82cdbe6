------------------------------ MODULE RunQueue ------------------------------
(***************************************************************************)
(* The run queue of session/queue.ts as one session sees it: one file per  *)
(* lane and one file under the legacy key.  Every operation is a sequence  *)
(* of file operations with awaits in between; the four unlinks of remove() *)
(* are issued together and are one step here.  An entry is reduced to its  *)
(* trigger.  Nothing is ever put in the background lane.                   *)
(* This module has no Next of its own: WorkflowSupervisor composes it.     *)
(***************************************************************************)
VARIABLES
  lane,    \* lane -> trigger of the session's entry, or "none"
  legacy   \* the legacy key has an entry, which names no trigger

queueVars == <<lane, legacy>>

LANES == {"critical", "normal"}
Triggers == {"continuation", "completion"}

QueueTypeOK ==
  /\ lane \in [LANES -> Triggers \cup {"none"}]
  /\ legacy \in BOOLEAN

QueueInit ==
  /\ lane = [l \in LANES |-> "none"]
  /\ legacy = FALSE

remove ==
  /\ lane' = [l \in LANES |-> "none"]
  /\ legacy' = FALSE

writeLane(l, t) == lane' = [lane EXCEPT ![l] = t] /\ UNCHANGED legacy

writeLegacy == legacy' = TRUE /\ UNCHANGED lane

\* peek(): the lanes in their order of priority, never the legacy key.
peek == IF lane["critical"] # "none" THEN lane["critical"] ELSE lane["normal"]

\* What listPendingContinuations() finds of this session.  The legacy keys are
\* read only if no session at all has an entry in a lane.
listPending(othersQueued) ==
  LET entries == {lane[l] : l \in LANES} \ {"none"}
  IN  IF entries # {} THEN entries
      ELSE IF legacy /\ ~othersQueued THEN {"continuation"} ELSE {}
=============================================================================
