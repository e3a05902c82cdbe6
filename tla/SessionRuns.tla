----------------------------- MODULE SessionRuns -----------------------------
(***************************************************************************)
(* What session/prompt-runtime.ts promises a session, with neither an      *)
(* entry nor queues, rounds or statuses: one run at a time writes to it.   *)
(* A run is the writer from its begin until it ends, is told to stop or is *)
(* taken over, which tells it to stop.  A run that was told to stop never  *)
(* writes again, and when it ends, however late, the writer of that time   *)
(* does not notice.  A prompt asks first; a shell command only begins when *)
(* nobody writes.                                                          *)
(***************************************************************************)
CONSTANTS
  Callers,
  NoRun     \* nobody writes

VARIABLES
  writer,    \* the run that writes to the session, or NoRun
  stopping,  \* runs that were told to stop and have not ended
  asking     \* prompts without a run yet

sessionVars == <<writer, stopping, asking>>

Init == writer = NoRun /\ stopping = {} /\ asking = {}

IsIdle(c) == c # writer /\ c \notin stopping \cup asking

\* A prompt arrives.
Ask(c) ==
  /\ IsIdle(c)
  /\ asking' = asking \cup {c}
  /\ UNCHANGED <<writer, stopping>>

\* A prompt gets its run: the slot is free, it interrupts, or it has waited for
\* too long.
Begin(c) ==
  /\ c \in asking
  /\ asking' = asking \ {c}
  /\ writer' = c
  /\ stopping' = stopping \cup ({writer} \ {NoRun})

\* A shell command is refused while a run writes.
BeginShell(c) ==
  /\ IsIdle(c) /\ writer = NoRun
  /\ writer' = c
  /\ UNCHANGED <<stopping, asking>>

\* cancel()
Stop ==
  /\ writer # NoRun
  /\ stopping' = stopping \cup {writer}
  /\ writer' = NoRun
  /\ UNCHANGED asking

\* finish()
End(c) ==
  \/ c = writer /\ writer' = NoRun /\ UNCHANGED <<stopping, asking>>
  \/ c \in stopping /\ stopping' = stopping \ {c} /\ UNCHANGED <<writer, asking>>

Next == Stop \/ \E c \in Callers : Ask(c) \/ Begin(c) \/ BeginShell(c) \/ End(c)

Spec == Init /\ [][Next]_sessionVars
=============================================================================
