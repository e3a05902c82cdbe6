--------------------------- MODULE KillSwitchProofs ---------------------------
(***************************************************************************)
(* Safety of the kill-switch for any sessions, instances and requests.     *)
(***************************************************************************)
EXTENDS KillSwitch, TLAPS

\* Where the sessions are that a request has listed and that still run: before
\* it, or the one it is about to stop.
ListsKept ==
  \A r \in Requests :
    /\ at[r] \in {"next", "ack"} => listed[r] \subseteq left[r]
    /\ at[r] \in {"read", "write", "force"} => listed[r] \subseteq left[r] \cup {session[r]}
    /\ at[r] = "answered" => listed[r] = {}

\* A run passed its gate before every request that is still to come.
GatesAreEarlier ==
  \A s \in Sessions, r \in Requests : run[s] # "idle" /\ at[r] = "new" => r \in early[s]

KillInv == ListsKept /\ GatesAreEarlier /\ OnlyEarlierAdmissionsRun

\* A control message is for a session.
MessageInv == \A r \in Requests : at[r] \in Work => session[r] \in Sessions

\* Sequence numbers and late messages are of sessions because messages are.
LEMMA TypeStep == TypeOK /\ MessageInv /\ [Next]_vars => TypeOK'
<1> SUFFICES ASSUME TypeOK, MessageInv, [Next]_vars PROVE TypeOK'
  OBVIOUS
<1> USE DEF TypeOK
<1>1. ASSUME NEW ended, Stop(ended)
      PROVE  /\ run' \in [Sessions -> {"idle", "clearing", "admitted", "busy"}]
             /\ early' \in [Sessions -> SUBSET Requests]
             /\ listed' \in [Requests -> SUBSET Sessions]
  BY <1>1 DEF Stop
<1>2. ASSUME Event PROVE events' \in 0 .. MaxEvents
  BY <1>2, BoundAssumption DEF Event
<1>3. ASSUME NEW s \in Sessions, SessionStep(s) PROVE TypeOK'
  <2>1. CASE Gate(s)
    BY <2>1 DEF Gate, requestVars
  <2>2. CASE GateClears(s)
    BY <2>2 DEF GateClears, requestVars
  <2>3. CASE Begin(s)
    BY <2>3 DEF Begin, requestVars
  <2>4. CASE End(s)
    BY <2>4, <1>1 DEF End, requestVars
  <2> QED BY <1>3, <2>1, <2>2, <2>3, <2>4 DEF SessionStep
<1>4. ASSUME NEW r \in Requests, RequestStep(r) PROVE TypeOK'
  <2>1. CASE listBusySessionIDs(r)
    <3>1. PICK found \in SUBSET Sessions :
                 left' = [left EXCEPT ![r] = found] /\ listed' = [listed EXCEPT ![r] = found]
      BY <2>1 DEF listBusySessionIDs, InScope
    <3>2. events' \in 0 .. MaxEvents
      BY <2>1, <1>2 DEF listBusySessionIDs
    <3>3. at' \in [Requests -> {"new", "list", "next", "force", "answered", "failed"} \cup Work]
      BY <2>1 DEF listBusySessionIDs, Goto
    <3>4. /\ scope' \in [Requests -> Scopes]
          /\ UNCHANGED <<switch, run, session, late, counted, stopping, early>>
      BY <2>1 DEF listBusySessionIDs, Scopes
    <3> QED BY <3>1, <3>2, <3>3, <3>4
  <2>2. CASE publishControl(r)
    BY <2>2 DEF publishControl, Goto, Work
  <2>3. CASE Answer(r)
    BY <2>3 DEF Answer, Goto
  <2>4. CASE Rejected(r)
    BY <2>4 DEF Rejected, Goto
  <2>5. CASE Timeout(r)
    BY <2>5 DEF Timeout, MessageInv
  <2>6. CASE forceKill(r)
    BY <2>6, <1>1, <1>2 DEF forceKill, Goto
  <2> QED BY <1>4, <2>1, <2>2, <2>3, <2>4, <2>5, <2>6 DEF RequestStep
<1>5. ASSUME NEW r \in Requests,
             SetState(r) \/ handleControl(r) \/ Accepted(r) \/ WriteFails(r)
      PROVE  TypeOK'
  <2>1. CASE SetState(r)
    BY <2>1 DEF SetState, Goto, Scopes
  <2>2. CASE handleControl(r)
    <3>1. session[r] \in Sessions
      BY <2>2 DEF handleControl, Goto, Work, MessageInv
    <3> QED BY <2>2, <3>1, <1>1 DEF handleControl, Goto, Work
  <2>3. CASE Accepted(r)
    BY <2>3 DEF Accepted, Goto
  <2>4. CASE WriteFails(r)
    BY <2>4, <1>2 DEF WriteFails
  <2> QED BY <1>5, <2>1, <2>2, <2>3, <2>4
<1>6. CASE LateControl
  BY <1>6, <1>1 DEF LateControl, requestVars
<1>7. CASE Expire \/ Cancel \/ AbortAllClears
  BY <1>7, <1>2 DEF Expire, Cancel, AbortAllClears, requestVars
<1>8. CASE AbortAll
  <2>1. PICK d \in Directories : Stop(Busy(d))
    BY <1>8 DEF AbortAll
  <2> QED BY <1>8, <2>1, <1>1, <1>2 DEF AbortAll, requestVars
<1>9. CASE UNCHANGED vars
  BY <1>9 DEF vars, requestVars
<1> QED BY <1>3, <1>4, <1>5, <1>6, <1>7, <1>8, <1>9 DEF Next

LEMMA MessageStep == TypeOK /\ MessageInv /\ [Next]_vars => MessageInv'
<1> SUFFICES ASSUME TypeOK, MessageInv, [Next]_vars PROVE MessageInv'
  OBVIOUS
<1> USE DEF MessageInv
<1>1. ASSUME NEW r \in Requests,
             \/ RequestStep(r) \/ SetState(r) \/ handleControl(r)
             \/ Accepted(r) \/ WriteFails(r)
      PROVE  MessageInv'
  <2>1. \A q \in Requests \ {r} : at'[q] = at[q] /\ session'[q] = session[q]
    BY <1>1 DEF RequestStep, listBusySessionIDs, publishControl, Answer, Rejected, Timeout,
                forceKill, SetState, handleControl, Accepted, WriteFails, Goto, TypeOK
  <2>2. CASE publishControl(r)
    BY <2>1, <2>2 DEF publishControl, TypeOK
  <2>3. CASE handleControl(r)
    BY <2>1, <2>3 DEF handleControl, Goto, Work, TypeOK
  <2>4. CASE \/ listBusySessionIDs(r) \/ Answer(r) \/ Rejected(r) \/ Timeout(r)
             \/ forceKill(r) \/ SetState(r) \/ Accepted(r) \/ WriteFails(r)
    <3>1. at'[r] \notin Work
      BY <2>4 DEF listBusySessionIDs, Answer, Rejected, Timeout, forceKill, SetState,
                  Accepted, WriteFails, Goto, Work, TypeOK
    <3> QED BY <2>1, <3>1
  <2> QED BY <1>1, <2>2, <2>3, <2>4 DEF RequestStep
<1>2. CASE UNCHANGED <<at, session>>
  BY <1>2
<1>3. ASSUME \/ \E s \in Sessions : SessionStep(s)
             \/ LateControl \/ Expire \/ Cancel \/ AbortAll \/ AbortAllClears
             \/ UNCHANGED vars
      PROVE  UNCHANGED <<at, session>>
  BY <1>3 DEF SessionStep, Gate, GateClears, Begin, End, LateControl, Expire, Cancel,
              AbortAll, AbortAllClears, requestVars, vars
<1> QED BY <1>1, <1>2, <1>3 DEF Next

\* Being told to stop takes a session out of every list and ends its run.
LEMMA StopFacts ==
  ASSUME TypeOK, NEW ended, Stop(ended)
  PROVE  /\ \A r \in Requests : listed'[r] = listed[r] \ ended
         /\ \A s \in Sessions : run'[s] # "idle" => run[s] # "idle" /\ early'[s] = early[s]
BY DEF Stop, TypeOK

\* A step that begins no run and brings in no request or switch.
LEMMA NothingBegins ==
  ASSUME TypeOK, GatesAreEarlier, OnlyEarlierAdmissionsRun,
         \A s \in Sessions : run'[s] # "idle" => run[s] # "idle" /\ early'[s] = early[s],
         \A r \in Requests : at'[r] = "new" => at[r] = "new",
         switch' \in {switch, NoSwitch}
  PROVE  GatesAreEarlier' /\ OnlyEarlierAdmissionsRun'
BY DEF GatesAreEarlier, OnlyEarlierAdmissionsRun

\* A step of one request moves it as its list allows; others are left alone.
LEMMA OthersKept ==
  ASSUME TypeOK, ListsKept, NEW r \in Requests,
         \A q \in Requests \ {r} :
           /\ at'[q] = at[q] /\ left'[q] = left[q] /\ session'[q] = session[q]
           /\ listed'[q] \subseteq listed[q],
         /\ at'[r] \in {"next", "ack"} => listed'[r] \subseteq left'[r]
         /\ at'[r] \in {"read", "write", "force"} => listed'[r] \subseteq left'[r] \cup {session'[r]}
         /\ at'[r] = "answered" => listed'[r] = {}
  PROVE  ListsKept'
BY DEF ListsKept

\* A step that stops sessions and else moves no request.
LEMMA ListsShrink ==
  ASSUME TypeOK, ListsKept, UNCHANGED <<at, left, session>>,
         \A q \in Requests : listed'[q] \subseteq listed[q]
  PROVE  ListsKept'
BY DEF ListsKept

LEMMA SessionStepKeeps ==
  ASSUME TypeOK, KillInv, NEW s \in Sessions, SessionStep(s)
  PROVE  KillInv'
<1> USE DEF KillInv
<1>1. CASE Gate(s)
  <2>1. ListsKept'
    BY <1>1, ListsShrink DEF Gate, requestVars
  <2>2. /\ run' = [run EXCEPT ![s] = run'[s]] /\ early' = [early EXCEPT ![s] = {r \in Requests : at[r] = "new"}]
        /\ at' = at /\ switch' = switch /\ ~Blocked
    BY <1>1 DEF Gate, requestVars, TypeOK
  <2>3. GatesAreEarlier'
    BY <2>2 DEF GatesAreEarlier, TypeOK
  <2>4. OnlyEarlierAdmissionsRun'
    BY <2>2 DEF OnlyEarlierAdmissionsRun, Blocked
  <2> QED BY <2>1, <2>3, <2>4
<1>2. CASE GateClears(s) \/ Begin(s)
  <2>1. /\ UNCHANGED <<requestVars, listed, early>> /\ switch' \in {switch, NoSwitch}
        /\ run[s] # "idle" /\ run' = [run EXCEPT ![s] = run'[s]]
    BY <1>2 DEF GateClears, Begin, TypeOK
  <2>2. ListsKept'
    BY <2>1, ListsShrink DEF requestVars
  <2>3. \A t \in Sessions : run'[t] # "idle" => run[t] # "idle" /\ early'[t] = early[t]
    BY <2>1 DEF TypeOK
  <2>4. \A r \in Requests : at'[r] = "new" => at[r] = "new"
    BY <2>1 DEF requestVars
  <2> QED BY <2>1, <2>2, <2>3, <2>4, NothingBegins
<1>3. CASE End(s)
  <2>1. Stop({s}) /\ UNCHANGED <<switch, at, left, session>>
    BY <1>3 DEF End, requestVars
  <2> QED BY <2>1, StopFacts, ListsShrink, NothingBegins
<1> QED BY <1>1, <1>2, <1>3 DEF SessionStep

\* A request comes in: its switch lies over runs that have all passed their gate.
LEMMA SetStateKeeps ==
  ASSUME TypeOK, KillInv, NEW r \in Requests, SetState(r)
  PROVE  KillInv'
<1> USE DEF KillInv
<1>1. /\ at[r] = "new" /\ at' = [at EXCEPT ![r] = "list"]
      /\ UNCHANGED <<run, left, session, listed, early>>
      /\ switch'.by = r
  BY DEF SetState, Goto
<1>2. ListsKept'
  BY <1>1, OthersKept DEF TypeOK
<1>3. GatesAreEarlier' /\ OnlyEarlierAdmissionsRun'
  BY <1>1 DEF GatesAreEarlier, OnlyEarlierAdmissionsRun, TypeOK
<1> QED BY <1>2, <1>3

\* The steps in which a request deals with its list.
LEMMA RequestKeeps ==
  ASSUME TypeOK, KillInv, NEW r \in Requests,
         RequestStep(r) \/ handleControl(r) \/ Accepted(r) \/ WriteFails(r)
  PROVE  KillInv'
<1> USE DEF KillInv
<1>1. /\ switch' = switch /\ at[r] # "new" /\ at'[r] # "new"
      /\ \A q \in Requests \ {r} :
           at'[q] = at[q] /\ left'[q] = left[q] /\ session'[q] = session[q]
  BY DEF RequestStep, listBusySessionIDs, publishControl, Answer, Rejected, Timeout,
         forceKill, handleControl, Accepted, WriteFails, Goto, Work, TypeOK
<1>2. \A q \in Requests : at'[q] = "new" => at[q] = "new"
  BY <1>1
<1>3. CASE listBusySessionIDs(r)
  <2>1. PICK found \in SUBSET Sessions :
               left' = [left EXCEPT ![r] = found] /\ listed' = [listed EXCEPT ![r] = found]
    BY <1>3 DEF listBusySessionIDs, InScope
  <2>2. /\ at'[r] = "next" /\ listed'[r] = left'[r]
        /\ \A q \in Requests \ {r} : listed'[q] = listed[q]
        /\ UNCHANGED <<run, early>>
    BY <1>3, <2>1 DEF listBusySessionIDs, Goto, TypeOK
  <2> QED BY <1>1, <1>2, <2>2, OthersKept, NothingBegins
<1>4. CASE publishControl(r)
  <2>1. PICK s \in left[r] : left' = [left EXCEPT ![r] = @ \ {s}] /\ session' = [session EXCEPT ![r] = s]
    BY <1>4 DEF publishControl
  <2>2. at[r] = "next" /\ at'[r] = "read" /\ UNCHANGED <<run, listed, early>>
    BY <1>4 DEF publishControl, Goto, TypeOK
  <2>3. listed'[r] \subseteq left'[r] \cup {session'[r]}
    BY <2>1, <2>2 DEF ListsKept, TypeOK
  <2> QED BY <1>1, <1>2, <2>2, <2>3, OthersKept, NothingBegins
<1>5. CASE Answer(r) \/ Rejected(r) \/ Timeout(r) \/ Accepted(r) \/ WriteFails(r)
  <2>1. UNCHANGED <<run, listed, early, left>>
    BY <1>5 DEF Answer, Rejected, Timeout, Accepted, WriteFails
  <2>2. CASE Answer(r)
    <3>1. at[r] = "next" /\ left[r] = {} /\ at'[r] = "answered"
      BY <2>2 DEF Answer, Goto, TypeOK
    <3> QED BY <1>1, <1>2, <2>1, <3>1, OthersKept, NothingBegins DEF ListsKept
  <2>3. CASE Accepted(r)
    <3>1. at[r] = "ack" /\ at'[r] = "next"
      BY <2>3 DEF Accepted, Goto, TypeOK
    <3> QED BY <1>1, <1>2, <2>1, <3>1, OthersKept, NothingBegins DEF ListsKept
  <2>4. CASE Rejected(r) \/ Timeout(r) \/ WriteFails(r)
    <3>1. at[r] \in {"read", "write", "ack"} /\ at'[r] = "force" /\ session' = session
      BY <2>4 DEF Rejected, Timeout, WriteFails, Goto, Work, TypeOK
    <3>2. listed'[r] \subseteq left'[r] \cup {session'[r]}
      BY <2>1, <3>1 DEF ListsKept
    <3> QED BY <1>1, <1>2, <2>1, <3>1, <3>2, OthersKept, NothingBegins
  <2> QED BY <1>5, <2>2, <2>3, <2>4
<1>6. CASE handleControl(r) /\ Goto(r, "read", "write")
  <2>1. /\ at[r] = "read" /\ at'[r] = "write"
        /\ UNCHANGED <<run, listed, early, left, session>>
    BY <1>6 DEF handleControl, Goto, TypeOK
  <2> QED BY <1>1, <1>2, <2>1, OthersKept, NothingBegins DEF ListsKept
<1>7. CASE \/ handleControl(r) /\ Goto(r, "write", "ack")
           \/ forceKill(r)
  <2>1. /\ at[r] \in {"write", "force"} /\ at'[r] \in {"ack", "next", "failed"}
        /\ Stop({session[r]}) /\ left' = left
    BY <1>7 DEF handleControl, forceKill, Goto, TypeOK
  <2>2. /\ \A q \in Requests : listed'[q] = listed[q] \ {session[r]}
        /\ \A s \in Sessions : run'[s] # "idle" => run[s] # "idle" /\ early'[s] = early[s]
    BY <2>1, StopFacts
  <2>3. listed'[r] \subseteq left'[r]
    BY <2>1, <2>2 DEF ListsKept
  <2> QED BY <1>1, <1>2, <2>1, <2>2, <2>3, OthersKept, NothingBegins
<1> QED BY <1>3, <1>4, <1>5, <1>6, <1>7 DEF RequestStep, handleControl

\* Late messages, the expiry, the lifting of the switch, the emergency stop.
LEMMA OthersStep ==
  ASSUME TypeOK, KillInv,
         LateControl \/ Expire \/ Cancel \/ AbortAll \/ AbortAllClears
  PROVE  KillInv'
<1> USE DEF KillInv
<1>1. UNCHANGED <<at, left, session>>
  BY DEF LateControl, Expire, Cancel, AbortAll, AbortAllClears, requestVars
<1>2. CASE LateControl \/ AbortAll
  <2>1. PICK ended : Stop(ended) /\ switch' = switch
    BY <1>2 DEF LateControl, AbortAll
  <2> QED BY <1>1, <2>1, StopFacts, ListsShrink, NothingBegins
<1>3. CASE Cancel \/ AbortAllClears
  BY <1>1, <1>3, ListsShrink, NothingBegins DEF Cancel, AbortAllClears
<1>4. CASE Expire
  <2>1. switch'.expired /\ UNCHANGED <<run, listed, early>>
    BY <1>4 DEF Expire, TypeOK
  <2> QED BY <1>1, <2>1, ListsShrink DEF GatesAreEarlier, OnlyEarlierAdmissionsRun
<1> QED BY <1>2, <1>3, <1>4

\* The types, and where listed and admitted runs stand, for any number of
\* sessions, instances and requests.
THEOREM KillSwitchCorrect == Spec => [](TypeOK /\ KillInv)
<1>1. Init => TypeOK /\ MessageInv /\ KillInv
  <2> SUFFICES ASSUME Init PROVE TypeOK /\ MessageInv /\ KillInv
    OBVIOUS
  <2>1. TypeOK
    <3>1. events \in 0 .. MaxEvents
      BY BoundAssumption DEF Init
    <3>2. /\ run \in [Sessions -> {"idle", "clearing", "admitted", "busy"}]
          /\ early \in [Sessions -> SUBSET Requests]
      BY DEF Init
    <3>3. /\ scope \in [Requests -> Scopes] /\ left \in [Requests -> SUBSET Sessions]
          /\ session \in [Requests -> Sessions \cup {NoSession}]
          /\ listed \in [Requests -> SUBSET Sessions]
      BY DEF Init, Scopes
    <3>4. at \in [Requests -> {"new", "list", "next", "force", "answered", "failed"} \cup Work]
      BY DEF Init
    <3>5. switch = NoSwitch /\ late = {} /\ counted = {} /\ stopping = FALSE
      BY DEF Init
    <3> QED BY <3>1, <3>2, <3>3, <3>4, <3>5 DEF TypeOK
  <2>2. /\ \A r \in Requests : at[r] = "new"
        /\ \A s \in Sessions : run[s] = "idle"
        /\ switch = NoSwitch
    BY DEF Init
  <2> QED
    BY <2>1, <2>2
       DEF MessageInv, KillInv, ListsKept, GatesAreEarlier, OnlyEarlierAdmissionsRun, Work
<1>2. TypeOK /\ MessageInv /\ KillInv /\ [Next]_vars => TypeOK' /\ MessageInv' /\ KillInv'
  <2>1. ASSUME TypeOK, KillInv, UNCHANGED vars PROVE KillInv'
    BY <2>1 DEF vars, requestVars, KillInv, ListsKept, GatesAreEarlier, OnlyEarlierAdmissionsRun
  <2> QED
    BY <2>1, TypeStep, MessageStep, SessionStepKeeps, SetStateKeeps, RequestKeeps, OthersStep
       DEF Next
<1> QED BY <1>1, <1>2, PTL DEF Spec

\* An answered kill request has stopped every run that it found busy in its own
\* instance and scope.
THEOREM ListedRunsStop == Spec => []NoListedRunSurvives
<1>1. KillInv => NoListedRunSurvives
  BY DEF KillInv, ListsKept, NoListedRunSurvives
<1> QED BY <1>1, KillSwitchCorrect, PTL

\* While the switch is in force nothing runs that its gate did not see before.
THEOREM NothingNewRuns == Spec => []OnlyEarlierAdmissionsRun
<1>1. KillInv => OnlyEarlierAdmissionsRun
  BY DEF KillInv
<1> QED BY <1>1, KillSwitchCorrect, PTL
=============================================================================
