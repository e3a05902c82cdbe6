----------------------------- MODULE KillSwitch -----------------------------
(***************************************************************************)
(* The kill-switch (server/killswitch/service.ts, routes/killswitch.ts)    *)
(* with the gate it puts before new runs.  A request is one call of        *)
(* /trigger whose second factor is verified; cooldown and idempotency keys *)
(* are read before they are written and exclude no two requests that come  *)
(* at once, so the model admits any.  All requests have the same id.  The  *)
(* switch is one file, and one workspace may be named as its scope.  The   *)
(* status and the runtime of a run are Instance.state: they exist in the   *)
(* instance of the directory the run was asked for with, and whoever looks *)
(* for busy sessions finds those of its own directory.                     *)
(***************************************************************************)
EXTENDS Naturals, FiniteSets

CONSTANTS
  Sessions,
  Directories, \* the instances, each as the sessions that are asked for with it
  Elsewhere,   \* the sessions of other workspaces
  Requests,
  NoSwitch, NoSession,
  MaxEvents    \* bound: cancels, emergency stops, failing lookups and writes

ASSUME DirectoriesAssumption ==
  /\ UNION Directories = Sessions
  /\ \A d, e \in Directories : d # e => d \cap e = {}
ASSUME ElsewhereAssumption == Elsewhere \subseteq Sessions
ASSUME MarksDiffer == NoSession \notin Sessions
ASSUME BoundAssumption == MaxEvents \in Nat

VARIABLES
  switch,   \* the file: the active state, or none
  run,      \* session -> its run: "idle", "clearing", "admitted", "busy"
  at,       \* where a request stands
  scope,    \* request -> "global" or "workspace"
  left,     \* request -> the listed sessions it has not come to
  session,  \* request -> the session it tells to stop
  late,     \* sessions of handleControl() calls that go on after their deadline
  counted,  \* sessions for which a sequence number is stored
  stopping, \* emergency stops that have yet to clear the file
  listed,   \* history: request -> listed sessions whose run goes on untold
  early,    \* history: session -> requests that its gate did not see
  events

requestVars == <<at, scope, left, session>>
vars == <<switch, run, requestVars, late, counted, stopping, listed, early, events>>

Work == {"read", "write", "ack"}
Scopes == {"global", "workspace"}

\* State every variable has its type.
TypeOK ==
  /\ switch \in [by : Requests, scope : Scopes, expired : BOOLEAN] \cup {NoSwitch}
  /\ run \in [Sessions -> {"idle", "clearing", "admitted", "busy"}]
  /\ at \in [Requests -> {"new", "list", "next", "force", "answered", "failed"} \cup Work]
  /\ scope \in [Requests -> Scopes]
  /\ left \in [Requests -> SUBSET Sessions]
  /\ session \in [Requests -> Sessions \cup {NoSession}]
  /\ late \subseteq Sessions
  /\ counted \subseteq Sessions /\ stopping \in BOOLEAN
  /\ listed \in [Requests -> SUBSET Sessions] /\ early \in [Sessions -> SUBSET Requests]
  /\ events \in 0 .. MaxEvents

Init ==
  /\ switch = NoSwitch
  /\ run = [s \in Sessions |-> "idle"]
  /\ at = [r \in Requests |-> "new"] /\ scope = [r \in Requests |-> "global"]
  /\ left = [r \in Requests |-> {}] /\ session = [r \in Requests |-> NoSession]
  /\ late = {} /\ counted = {} /\ stopping = FALSE
  /\ listed = [r \in Requests |-> {}] /\ early = [s \in Sessions |-> {}]
  /\ events = 0

Event == events < MaxEvents /\ events' = events + 1

Goto(r, from, to) == at[r] = from /\ at' = [at EXCEPT ![r] = to]

\* SessionStatus.list() in one instance: the sessions that run there.
Busy(d) == {s \in d : run[s] = "busy"}

InScope(r) == IF scope[r] = "global" THEN Sessions ELSE Sessions \ Elsewhere

\* cancelSessionExecution(): the runs of these sessions are told to stop, which
\* is as good as their end here (PromptRuntime.AbortedRunEnds).
Stop(ended) ==
  /\ run' = [s \in Sessions |-> IF s \in ended /\ run[s] = "busy" THEN "idle" ELSE run[s]]
  /\ early' = [s \in Sessions |-> IF s \in ended /\ run[s] = "busy" THEN {} ELSE early[s]]
  /\ listed' = [r \in Requests |-> listed[r] \ ended]

-----------------------------------------------------------------------------
(* The gate and the runs behind it.                                        *)

\* Mutant: a switch with a scope lets callers through that name no workspace.
BlockedGlobally == switch # NoSwitch /\ ~switch.expired /\ switch.scope = "global"

\* getState() and assertSchedulingAllowed() without a workspace, as its callers
\* ask at first: any active state that has not expired refuses.
Blocked == switch # NoSwitch /\ ~switch.expired

Gate(s) ==
  /\ run[s] = "idle" /\ ~Blocked
  /\ run' = [run EXCEPT ![s] = IF switch = NoSwitch THEN "admitted" ELSE "clearing"]
  /\ early' = [early EXCEPT ![s] = {r \in Requests : at[r] = "new"}]
  /\ UNCHANGED <<switch, requestVars, late, counted, stopping, listed, events>>

\* Mutant: an expired state is not removed.
GateLeaves(s) ==
  /\ run[s] = "clearing"
  /\ run' = [run EXCEPT ![s] = "admitted"]
  /\ UNCHANGED <<switch, requestVars, late, counted, stopping, listed, early, events>>

\* The expired state is removed, or what is there by now.
GateClears(s) ==
  /\ run[s] = "clearing"
  /\ run' = [run EXCEPT ![s] = "admitted"]
  /\ switch' = NoSwitch
  /\ UNCHANGED <<requestVars, late, counted, stopping, listed, early, events>>

Begin(s) ==
  /\ run[s] = "admitted"
  /\ run' = [run EXCEPT ![s] = "busy"]
  /\ UNCHANGED <<switch, requestVars, late, counted, stopping, listed, early, events>>

End(s) ==
  /\ run[s] = "busy"
  /\ Stop({s})
  /\ UNCHANGED <<switch, requestVars, late, counted, stopping, events>>

SessionStep(s) == Gate(s) \/ GateClears(s) \/ Begin(s) \/ End(s)

-----------------------------------------------------------------------------
(* /trigger.                                                               *)

\* The request is admitted and a snapshot made; nothing shows before this write.
SetState(r) ==
  /\ Goto(r, "new", "list")
  /\ \E sc \in Scopes :
       /\ scope' = [scope EXCEPT ![r] = sc]
       /\ switch' = [by |-> r, scope |-> sc, expired |-> FALSE]
  /\ UNCHANGED <<run, left, session, late, counted, stopping, listed, early, events>>

\* The statuses are those of one instance, the request's.  With a workspace
\* each session is looked up, and one whose lookup fails is left out silently.
listBusySessionIDs(r) ==
  /\ Goto(r, "list", "next")
  /\ \E d \in Directories, lost \in SUBSET Sessions :
       LET found == (Busy(d) \cap InScope(r)) \ lost
       IN  /\ \/ lost = {} /\ UNCHANGED events
              \/ lost # {} /\ scope[r] = "workspace" /\ Event
           /\ left' = [left EXCEPT ![r] = found]
           /\ listed' = [listed EXCEPT ![r] = found]
  /\ scope' = [scope EXCEPT ![r] = "global"]
  /\ UNCHANGED <<switch, run, session, late, counted, stopping, early>>

\* publishControl(): the audit is written, then handleControl() races its
\* deadline.
publishControl(r) ==
  /\ Goto(r, "next", "read")
  /\ \E s \in left[r] : left' = [left EXCEPT ![r] = @ \ {s}] /\ session' = [session EXCEPT ![r] = s]
  /\ UNCHANGED <<switch, run, scope, late, counted, stopping, listed, early, events>>

Answer(r) ==
  /\ left[r] = {}
  /\ Goto(r, "next", "answered")
  /\ UNCHANGED <<switch, run, scope, left, session, late, counted, stopping, listed, early, events>>

\* handleControl(): the stored number is read; the new one is written and the
\* run told to stop.
handleControl(r) ==
  /\ \/ Goto(r, "read", "write") /\ UNCHANGED <<run, listed, early, counted>>
     \/ /\ Goto(r, "write", "ack")
        /\ counted' = counted \cup {session[r]}
        /\ Stop({session[r]})
  /\ UNCHANGED <<switch, scope, left, session, late, stopping, events>>

Accepted(r) ==
  /\ Goto(r, "ack", "next")
  /\ session' = [session EXCEPT ![r] = NoSession]
  /\ UNCHANGED <<switch, run, scope, left, late, counted, stopping, listed, early, events>>

\* Mutant: a rejected control message is not followed by a forced kill.
RejectedIgnored(r) ==
  /\ Goto(r, "read", "next") /\ session[r] \in counted
  /\ session' = [session EXCEPT ![r] = NoSession]
  /\ UNCHANGED <<switch, run, scope, left, late, counted, stopping, listed, early, events>>

\* The sequence number, which is the time, is not higher than the stored one.
Rejected(r) ==
  /\ Goto(r, "read", "force") /\ session[r] \in counted
  /\ UNCHANGED <<switch, run, scope, left, session, late, counted, stopping, listed, early, events>>

\* The deadline has passed; handleControl() goes on by itself.
Timeout(r) ==
  /\ at[r] \in Work /\ at' = [at EXCEPT ![r] = "force"]
  /\ late' = IF at[r] = "ack" THEN late ELSE late \cup {session[r]}
  /\ UNCHANGED <<switch, run, scope, left, session, counted, stopping, listed, early, events>>

\* A write fails: handleControl() rejects.
WriteFails(r) ==
  /\ Event
  /\ at[r] \in {"write", "ack"} /\ at' = [at EXCEPT ![r] = "force"]
  /\ UNCHANGED <<switch, run, scope, left, session, late, counted, stopping, listed, early>>

\* The session is told to stop whatever the control channel says; if the audit
\* that follows fails, so does the request.
forceKill(r) ==
  /\ \/ Goto(r, "force", "next") /\ UNCHANGED events
     \/ Goto(r, "force", "failed") /\ Event
  /\ session' = [session EXCEPT ![r] = NoSession]
  /\ Stop({session[r]})
  /\ UNCHANGED <<switch, scope, left, late, counted, stopping>>

\* What goes on after its deadline does the rest at some time, or never.
LateControl ==
  /\ \E s \in late : late' = late \ {s} /\ counted' = counted \cup {s} /\ Stop({s})
  /\ UNCHANGED <<switch, requestVars, stopping, events>>

RequestStep(r) ==
  \/ listBusySessionIDs(r) \/ publishControl(r) \/ Answer(r)
  \/ Rejected(r) \/ Timeout(r) \/ forceKill(r)

-----------------------------------------------------------------------------
(* Everything else that touches the file.                                  *)

\* The time to live of the state has passed.
Expire ==
  /\ switch # NoSwitch /\ ~switch.expired
  /\ switch' = [switch EXCEPT !.expired = TRUE]
  /\ UNCHANGED <<run, requestVars, late, counted, stopping, listed, early, events>>

\* /cancel.
Cancel ==
  /\ Event
  /\ switch # NoSwitch /\ switch' = NoSwitch
  /\ UNCHANGED <<run, requestVars, late, counted, stopping, listed, early>>

\* /abort-all: every busy session of its instance is told, then the file is
\* removed.
AbortAll ==
  /\ Event
  /\ ~stopping /\ stopping' = TRUE
  /\ \E d \in Directories : Stop(Busy(d))
  /\ UNCHANGED <<switch, requestVars, late, counted>>

AbortAllClears ==
  /\ stopping /\ stopping' = FALSE
  /\ switch' = NoSwitch
  /\ UNCHANGED <<run, requestVars, late, counted, listed, early, events>>

-----------------------------------------------------------------------------
Next ==
  \/ \E s \in Sessions : SessionStep(s)
  \/ \E r \in Requests : RequestStep(r) \/ SetState(r) \/ handleControl(r) \/ Accepted(r) \/ WriteFails(r)
  \/ LateControl \/ Expire \/ Cancel \/ AbortAll \/ AbortAllClears

Spec == Init /\ [][Next]_vars

\* Requests go on by their own steps and their deadline; what they wait for
\* need not.  Sessions ask for the gate again and again.
FairSpec ==
  /\ Spec
  /\ WF_vars(\E r \in Requests : RequestStep(r))
  /\ WF_vars(Expire)
  /\ WF_vars(\E s \in Sessions : SessionStep(s))

-----------------------------------------------------------------------------
(* Properties *)

\* When a request is answered, every run that it found busy in its instance and
\* scope has ended or was told to stop, whether the control channel accepted,
\* rejected, failed or was late.  Runs of other instances it neither finds nor
\* stops, whatever its scope.
NoListedRunSurvives == \A r \in Requests : at[r] = "answered" => listed[r] = {}

\* While the switch of a request is in force, a run that goes on or begins was
\* admitted by a gate that was read before the switch was written.
OnlyEarlierAdmissionsRun ==
  switch # NoSwitch /\ ~switch.expired =>
    \A s \in Sessions : run[s] # "idle" => switch.by \in early[s]

\* The switch does not stay for ever, although nobody lifts it and its expiry
\* is only noticed by the next caller of the gate.
SwitchIsLifted == []<>(switch = NoSwitch)
=============================================================================
