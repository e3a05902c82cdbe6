---------------------------- MODULE PromptRuntime ----------------------------
(***************************************************************************)
(* One session's run slot: session/prompt-runtime.ts with the run loop     *)
(* that uses it (session/prompt.ts), the session status it drives          *)
(* (session/status.ts, session/processor.ts), the attached subagent        *)
(* (bus/subscribers/subagent-busy-indicator.ts) and the permissions that a *)
(* run itself waits for (permission/next.ts).                              *)
(*                                                                         *)
(* A caller is one call of prompt(), loop() or shell(); it starts at most  *)
(* one run, so the caller also stands for the runID.  A caller that has    *)
(* returned may call again.  Code between two awaits is one action; every  *)
(* await is a place where the other callers move.                          *)
(*                                                                         *)
(* The state of one Instance that lives on: PromptRuntimeDispose adds its  *)
(* disposal.                                                               *)
(***************************************************************************)
EXTENDS Naturals, Sequences, Functions

CONSTANTS
  Callers,     \* calls of prompt(), loop() and shell()
  NoRun,       \* no runtime entry is registered; nothing to interrupt
  MaxWaits     \* rounds of waitForSlot() before a start is forced

ASSUME NoRunFresh == NoRun \notin Callers
ASSUME MaxWaitsPositive == MaxWaits \in Nat \ {0}

VARIABLES
  entry,        \* run that owns the session's runtime entry
  slotWaiters,  \* the entry's queue of callers to wake
  aborted,      \* live runs whose signal is aborted
  status,       \* SessionStatus
  child,        \* SessionActiveChild has a subagent for this session
  pc,           \* where each caller stands
  target,       \* run a prompt saw when it decided to interrupt, or NoRun
  waits,        \* times a caller has waited for the slot
  ready         \* woken callers, in the order their promises were resolved

vars == <<entry, slotWaiters, aborted, status, child, pc, target, waits, ready>>
slotVars == <<entry, slotWaiters, target, waits, ready>>

Running == {"head", "body", "starting", "asking", "shell", "exit"}
Live(c) == pc[c] \in Running

\* State every variable has its type.
TypeOK ==
  /\ entry \in Callers \cup {NoRun}
  /\ slotWaiters \in Seq(Callers)
  /\ aborted \subseteq Callers
  /\ status \in {"idle", "busy", "retry"}
  /\ child \in BOOLEAN
  /\ pc \in [Callers -> {"idle", "arriving", "waiting", "ready"} \cup Running]
  /\ target \in [Callers -> Callers \cup {NoRun}]
  /\ waits \in [Callers -> 0..MaxWaits]
  /\ ready \in Seq(Callers)

Init ==
  /\ entry = NoRun
  /\ slotWaiters = <<>>
  /\ aborted = {}
  /\ status = "idle"
  /\ child = FALSE
  /\ pc = [c \in Callers |-> "idle"]
  /\ target = [c \in Callers |-> NoRun]
  /\ waits = [c \in Callers |-> 0]
  /\ ready = <<>>

GoTo(c, place) == pc' = [pc EXCEPT ![c] = place]

-----------------------------------------------------------------------------
(* Arrival and the slot                                                    *)

\* prompt(): the user message is stored, then shouldInterruptForIncomingPrompt
\* looks at the status and the entry and decides; the run loop is entered some
\* awaits later.  loop() never decides to interrupt.
Arrive(c) ==
  /\ pc[c] = "idle"
  /\ GoTo(c, "arriving")
  /\ \E t \in {NoRun} \cup (IF status = "busy" THEN {entry} ELSE {}) :
       target' = [target EXCEPT ![c] = t]
  /\ UNCHANGED <<entry, slotWaiters, aborted, status, child, waits, ready>>

SlotIsFree == entry = NoRun

InstallWith(c, place, stopped, waiters) ==
  /\ entry' = c
  /\ aborted' = aborted \cup stopped
  /\ slotWaiters' = waiters
  /\ GoTo(c, place)
  /\ target' = [target EXCEPT ![c] = NoRun]
  /\ waits' = [waits EXCEPT ![c] = 0]
  /\ UNCHANGED <<status, child>>

\* Mutants: the replaced run is not told; its waiters are not carried over.
InstallSilently(c, place) == InstallWith(c, place, {}, slotWaiters)
InstallWithoutWaiters(c, place) == InstallWith(c, place, {entry} \ {NoRun}, <<>>)

\* start(): an entry that is in the way is aborted, its waiters are carried over.
Install(c, place) == InstallWith(c, place, {entry} \ {NoRun}, slotWaiters)

\* Mutant: the attempts are not counted.
WaitUncounted(c) ==
  /\ slotWaiters' = Append(slotWaiters, c)
  /\ GoTo(c, "waiting")
  /\ UNCHANGED <<entry, aborted, status, child, target, waits>>

\* waitForSlot() of a registered entry.
Wait(c) ==
  /\ slotWaiters' = Append(slotWaiters, c)
  /\ GoTo(c, "waiting")
  /\ waits' = [waits EXCEPT ![c] = @ + 1]
  /\ UNCHANGED <<entry, aborted, status, child, target>>

Enter(c) ==
  /\ pc[c] = "arriving"
  /\ \/ (SlotIsFree \/ target[c] # NoRun) /\ Install(c, "head")
     \/ ~SlotIsFree /\ target[c] = NoRun /\ Wait(c)
  /\ UNCHANGED ready

MayWaitAgain(c) == waits[c] < MaxWaits

\* A woken caller calls start() again; after the last round it forces its way.
Retry(c) ==
  /\ ready # <<>> /\ c = Head(ready)
  /\ ready' = Tail(ready)
  /\ \/ SlotIsFree /\ Install(c, "head")
     \/ ~SlotIsFree /\ MayWaitAgain(c) /\ Wait(c)
     \/ ~SlotIsFree /\ ~MayWaitAgain(c) /\ Install(c, "head")

\* shell(): starts or throws BusyError, which changes nothing.
ShellStart(c) ==
  /\ pc[c] = "idle"
  /\ SlotIsFree
  /\ Install(c, "shell")
  /\ UNCHANGED ready

-----------------------------------------------------------------------------
(* The run                                                                 *)

\* Mutant: the signal is not looked at.
LoopHeadBlind(c) ==
  /\ pc[c] = "head"
  /\ status' = "busy"
  /\ GoTo(c, "body")
  /\ UNCHANGED <<slotVars, aborted, child>>

\* while (true): the status is set before the signal is looked at.
LoopHead(c) ==
  /\ pc[c] = "head"
  /\ status' = "busy"
  /\ GoTo(c, IF c \in aborted THEN "exit" ELSE "body")
  /\ UNCHANGED <<slotVars, aborted, child>>

\* The processor sees the stream's "start" part: the signal is checked, then
\* the pending continuation is cleared, and only then the status is set.
StreamStart(c) ==
  /\ pc[c] = "body"
  /\ c \notin aborted
  /\ GoTo(c, "starting")
  /\ UNCHANGED <<slotVars, aborted, status, child>>

StreamBusy(c) ==
  /\ pc[c] = "starting"
  /\ GoTo(c, "body")
  /\ status' = "busy"
  /\ UNCHANGED <<slotVars, aborted, child>>

\* A retryable stream error: sleep and stream again, unless aborted.
StreamRetry(c) ==
  /\ pc[c] = "body"
  /\ GoTo(c, IF c \in aborted THEN "head" ELSE "body")
  /\ status' = "retry"
  /\ UNCHANGED <<slotVars, aborted, child>>

\* Any other stream error shows idle; the loop stops or takes another turn.
StreamError(c) ==
  /\ pc[c] \in {"body", "starting"}
  /\ \E place \in {"head", "exit"} : GoTo(c, place)
  /\ status' = "idle"
  /\ UNCHANGED <<slotVars, aborted, child>>

\* The turn is over and the loop goes on (tool calls, a continuation).
Continue(c) ==
  /\ pc[c] = "body"
  /\ GoTo(c, "head")
  /\ UNCHANGED <<slotVars, aborted, status, child>>

\* The same tool call for the third time: the processor asks the user, and this
\* wait does not look at the signal.  An abort between the last look and the
\* request is as one after it.
Ask(c) ==
  /\ pc[c] = "body"
  /\ c \notin aborted
  /\ GoTo(c, "asking")
  /\ UNCHANGED <<slotVars, aborted, status, child>>

\* break, or an exception anywhere in the loop or before it.
Exit(c) ==
  /\ pc[c] \in {"head", "body", "shell"}
  /\ GoTo(c, "exit")
  /\ UNCHANGED <<slotVars, aborted, status, child>>

Turn(c) ==
  \/ LoopHead(c)
  \/ StreamStart(c) \/ StreamBusy(c) \/ StreamRetry(c) \/ StreamError(c)
  \/ Continue(c) \/ Ask(c) \/ Exit(c)

-----------------------------------------------------------------------------
(* finish(), run by the scope's disposal after the post-loop work          *)

\* Mutant: a run whose entry is gone returns at once.
FinishUnregisteredEarly(c) ==
  /\ entry = NoRun
  /\ GoTo(c, "idle")
  /\ UNCHANGED <<slotVars, status>>

FinishUnregistered(c) ==
  /\ entry = NoRun
  /\ status' = "idle"
  /\ GoTo(c, "idle")
  /\ UNCHANGED slotVars

\* Mutant: the entry is removed although a newer run owns it.
FinishSupersededDeletes(c) ==
  /\ entry \notin {c, NoRun}
  /\ entry' = NoRun
  /\ GoTo(c, "idle")
  /\ UNCHANGED <<slotWaiters, target, waits, ready, status>>

FinishSuperseded(c) ==
  /\ entry \notin {c, NoRun}
  /\ GoTo(c, "idle")
  /\ UNCHANGED <<slotVars, status>>

\* Mutant: the entry is not deleted.
FinishOwnerKeepsEntry(c) ==
  /\ entry = c
  /\ status' = IF child THEN status ELSE "idle"
  /\ slotWaiters' = <<>>
  /\ ready' = ready \o slotWaiters
  /\ pc' = [d \in Callers |-> IF d = c THEN "idle"
                              ELSE IF d \in Range(slotWaiters) THEN "ready" ELSE pc[d]]
  /\ UNCHANGED <<entry, target, waits>>

FinishOwner(c) ==
  /\ entry = c
  /\ entry' = NoRun
  /\ status' = IF child THEN status ELSE "idle"
  /\ slotWaiters' = <<>>
  /\ ready' = ready \o slotWaiters
  /\ pc' = [d \in Callers |-> IF d = c THEN "idle"
                              ELSE IF d \in Range(slotWaiters) THEN "ready" ELSE pc[d]]
  /\ UNCHANGED <<target, waits>>

Finish(c) ==
  /\ pc[c] = "exit"
  /\ FinishUnregistered(c) \/ FinishSuperseded(c) \/ FinishOwner(c)
  /\ aborted' = aborted \ {c}
  /\ UNCHANGED child

-----------------------------------------------------------------------------
(* The rest of the program                                                 *)

\* cancel(): stop button, kill-switch, watchdogs, parent's abort.
Cancel ==
  /\ \/ SlotIsFree /\ status' = "idle" /\ UNCHANGED aborted
     \/ ~SlotIsFree /\ aborted' = aborted \cup {entry} /\ UNCHANGED status
  /\ UNCHANGED <<slotVars, child, pc>>

\* SessionActiveChild.set(): the task tool attaches a subagent, also when the
\* run that dispatched it is already unwinding.  The subscriber runs inside.
ChildSet ==
  /\ child' = TRUE
  /\ status' = "busy"
  /\ UNCHANGED <<slotVars, aborted, pc>>

ChildClear ==
  /\ child' = FALSE
  /\ status' = IF SlotIsFree THEN "idle" ELSE status
  /\ UNCHANGED <<slotVars, aborted, pc>>

\* The runs whose requests are pending.
Asking == {c \in Callers : pc[c] = "asking"}

\* reply(): "once" answers one request, "always" those that it covers as well,
\* "reject" all of the session.
Reply(cs) ==
  /\ cs # {} /\ cs \subseteq Asking
  /\ pc' = [d \in Callers |-> IF d \in cs THEN "body" ELSE pc[d]]
  /\ UNCHANGED <<slotVars, aborted, status, child>>

Next ==
  \/ \E c \in Callers :
       \/ Arrive(c) \/ Enter(c) \/ Retry(c) \/ ShellStart(c)
       \/ Turn(c) \/ Finish(c)
  \/ Cancel \/ ChildSet \/ ChildClear
  \/ \E cs \in SUBSET Asking : Reply(cs)

Spec == Init /\ [][Next]_vars

\* The event loop runs every continuation that is due, and a run whose signal
\* is aborted stops what it is doing, unless it waits for the user.  A run that
\* is not aborted may go on for ever: an autonomous one is kept going by its
\* continuations.
Fairness ==
  \A c \in Callers :
    /\ WF_vars(Enter(c)) /\ WF_vars(Retry(c))
    /\ WF_vars(LoopHead(c)) /\ WF_vars(StreamBusy(c)) /\ WF_vars(Finish(c))
    /\ WF_vars(c \in aborted /\ Turn(c))

FairSpec == Spec /\ Fairness

\* Every run ends by itself: the model stops calling tools, the todo list is
\* done, the shell command exits.
RunsEnd == \A c \in Callers : SF_vars(Exit(c))

\* The user answers every request.
UserReplies == \A c \in Callers : WF_vars(Reply({c}))

-----------------------------------------------------------------------------
(* Properties *)

\* A run that nobody told to stop owns the slot, so at most one run writes to
\* the session at a time ("a newer runtime has taken over, don't touch it").
SlotOwner == \A c \in Callers : Live(c) /\ c \notin aborted => entry = c

\* The slot is never left to a run that is gone, which would block the session.
NoLeakedSlot == entry # NoRun => Live(entry)

\* No waiter is stranded: whoever waits is queued once, at a registered entry,
\* and whoever was woken still has its turn to come.
NoStrandedWaiter ==
  /\ {c \in Callers : pc[c] = "waiting"} = Range(slotWaiters)
  /\ IsInjective(slotWaiters)
  /\ slotWaiters # <<>> => entry # NoRun
  /\ {c \in Callers : pc[c] = "ready"} = Range(ready)
  /\ IsInjective(ready)

\* The status never sticks: with no run and no subagent the session is idle,
\* whatever order cancels, replacements, child events and late finishes take.
QuiescentIsIdle == (\A c \in Callers : ~Live(c)) /\ ~child => status = "idle"

\* A run that is told to stop gets out of the way, if need be once the user has
\* answered what it asked: only the answer ends that wait.
AbortedRunEnds == UserReplies => \A c \in Callers : c \in aborted ~> c \notin aborted

EveryWaiterRuns == \A c \in Callers : pc[c] = "waiting" ~> pc[c] = "head"

\* If runs end, a prompt that waits for the slot gets a run of its own, unless
\* interrupting prompts keep taking the run and its waiters over without end.
WaiterRuns == RunsEnd /\ UserReplies /\ <>[](\A c \in Callers : target[c] = NoRun) => EveryWaiterRuns

CountInv == \A c \in Callers : pc[c] \notin {"waiting", "ready"} => waits[c] = 0

\* The slot, its waiters and the status agree with the callers, and a caller
\* that is not waiting has its rounds ahead: together with TypeOK inductive.
RuntimeInv == SlotOwner /\ NoLeakedSlot /\ NoStrandedWaiter /\ QuiescentIsIdle /\ CountInv

-----------------------------------------------------------------------------
(* The abstract session, which has no entry, no queues and no rounds.      *)

Session == INSTANCE SessionRuns WITH
  writer <- IF entry \in aborted THEN NoRun ELSE entry,
  stopping <- aborted,
  asking <- {c \in Callers : pc[c] \in {"arriving", "waiting", "ready"}}

\* Entries, queues, rounds and statuses are invisible: to the session, there is
\* one writer at a time, being told to stop is final, and a run that ends late
\* takes nothing from the one that took over from it.
ImplementsSession == Session!Spec
=============================================================================
