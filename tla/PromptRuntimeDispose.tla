------------------------ MODULE PromptRuntimeDispose ------------------------
(***************************************************************************)
(* The run slot of PromptRuntime when its Instance is disposed (a config   *)
(* update, the dispose route, a workspace operation) and used again.       *)
(* State.dispose() of project/state.ts aborts the registered run, awaits   *)
(* the disposal of every other state, and only then drops the records; a   *)
(* later access creates them afresh.  The callers go on meanwhile; the     *)
(* requests for permission are dropped without an answer.                  *)
(***************************************************************************)
EXTENDS PromptRuntime

VARIABLES
  disposing,   \* State.dispose() awaits the disposal of the other states
  forgotten    \* runs that wait for a request which was dropped

disposeVars == <<vars, disposing, forgotten>>

\* cleanupState() of the runtime entries.
DisposeAbort ==
  /\ ~disposing
  /\ disposing' = TRUE
  /\ aborted' = aborted \cup ({entry} \ {NoRun})
  /\ UNCHANGED <<slotVars, status, child, pc, forgotten>>

\* entries.clear(): the runtime entry with its waiters, the status, the active
\* child and the pending requests are forgotten.
DisposeDrop ==
  /\ disposing
  /\ disposing' = FALSE
  /\ entry' = NoRun
  /\ slotWaiters' = <<>>
  /\ status' = "idle"
  /\ child' = FALSE
  /\ forgotten' = Asking
  /\ UNCHANGED <<aborted, pc, target, waits, ready>>

\* What the callers and the rest do; reply() does not find a dropped request.
Go ==
  /\ Next
  /\ \A c \in forgotten : pc'[c] = "asking"
  /\ UNCHANGED <<disposing, forgotten>>

DisposeInit == Init /\ disposing = FALSE /\ forgotten = {}

DisposeNext == Go \/ DisposeAbort \/ DisposeDrop

DisposeSpec == DisposeInit /\ [][DisposeNext]_disposeVars

DisposeFairSpec == DisposeSpec /\ Fairness /\ WF_disposeVars(DisposeDrop)

\* The user answers every request that is still known.
KnownReplies == \A c \in Callers : WF_disposeVars(c \notin forgotten /\ Reply({c}) /\ Go)

-----------------------------------------------------------------------------
(* Properties                                                              *)

\* Disposals leave no other run behind than those that wait for an answer to a
\* dropped request: an aborted one ends.
OthersEnd ==
  KnownReplies => \A c \in Callers : c \in aborted ~> c \notin aborted \/ c \in forgotten

\* A disposal leaves no trace that outlives the runs: once they are gone, or wait
\* for what was dropped, and no subagent is attached, the session is idle and
\* its slot is free.
SettlesFree ==
  (\A c \in Callers \ forgotten : ~Live(c)) => entry = NoRun /\ (~child => status = "idle")
=============================================================================
