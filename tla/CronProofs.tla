------------------------------ MODULE CronProofs ------------------------------
(***************************************************************************)
(* What a heartbeat does not run, for any jobs and any number of           *)
(* heartbeats at once.                                                     *)
(***************************************************************************)
EXTENDS CronHeartbeat, TLAPS

\* Heartbeats live while the daemon is up, the recovery's lists while it goes on.
LifeInv ==
  /\ daemon # "up" => \A t \in Ticks : tick[t] = Idle
  /\ daemon # "recover" => expire = {} /\ reset = {}

\* A job whose missed time was dealt with: disabled, or waiting for its next.
Dealt(j) == status[j] # "enabled" \/ (j \notin OneShots /\ next[j] = "future")

\* A job that is owed is dealt with by the recovery before any heartbeat can
\* list it, and no heartbeat has it in hand.
OwedInv ==
  \A j \in owed :
    /\ daemon = "recover" => j \in expire \/ (j \in reset /\ j \notin OneShots) \/ Dealt(j)
    /\ daemon = "up" =>
         Dealt(j) /\ \A t \in Ticks : j \notin tick[t].fires \cup tick[t].skips \cup {tick[t].job}

CronInv == TypeOK /\ LifeInv /\ OwedInv

\* What is computed for a job has the type of its next time.
LEMMA ComputeFacts ==
  ASSUME TypeOK, NEW j \in Jobs, NEW ahead, NEW old,
         NEW time \in computeNextRunAtMs(j, ahead, old)
  PROVE  /\ time \in {"none", "due", "stale", IF j \in OneShots THEN "time" ELSE "future"}
         /\ j \notin OneShots /\ ~old => time \in {"future", "none"}
BY DEF computeNextRunAtMs, computeCron, Classes

LEMMA UpdateFacts ==
  ASSUME TypeOK, NEW j \in Jobs, updateState(j, "due") \/ \E a, o, time :
           time \in computeNextRunAtMs(j, a, o) /\ updateState(j, time)
  PROVE  /\ \A i \in Jobs : next'[i] \in {"none", "due", "stale", IF i \in OneShots THEN "time" ELSE "future"}
         /\ next' \in [Jobs -> Classes \cup {"none", "time"}]
         /\ \A i \in Jobs : i # j => next'[i] = next[i]
         /\ UNCHANGED <<status, wakeNow>>
<1>1. PICK time : updateState(j, time) /\ time \in {"none", "due", "stale", IF j \in OneShots THEN "time" ELSE "future"}
  BY ComputeFacts
<1>2. \A i \in Jobs : next'[i] \in {next[i], IF i = j THEN time ELSE next[i]}
  BY <1>1 DEF updateState, TypeOK
<1>3. next' \in [Jobs -> Classes \cup {"none", "time"}]
  BY <1>1 DEF TypeOK, updateState, Classes
<1> QED BY <1>1, <1>2, <1>3 DEF TypeOK, updateState, Classes

-----------------------------------------------------------------------------
(* Types                                                                   *)

\* The types of the parts, under names of their own.
Times(j) == {"none", "due", "stale", IF j \in OneShots THEN "time" ELSE "future"}
Heartbeats == [fires : SUBSET Jobs, skips : SUBSET Jobs, ahead : SUBSET OneShots,
               old : BOOLEAN, job : Jobs \cup {NoJob}]

StoreTyped ==
  /\ status \in [Jobs -> {"unborn", "removed"} \cup Stored]
  /\ wakeNow \subseteq Jobs
  /\ next \in [Jobs -> Classes \cup {"none", "time"}]
  /\ \A j \in Jobs : next[j] \in Times(j)
  /\ fire \in [OneShots -> Classes]

BootTyped ==
  /\ daemon \in {"down", "recover", "up"}
  /\ expire \subseteq OneShots /\ reset \subseteq Jobs

TicksTyped == tick \in [Ticks -> Heartbeats]

HistoryTyped ==
  /\ owed \subseteq Jobs /\ ran \subseteq OneShots
  /\ events \in 0 .. MaxEvents

LEMMA TypeParts ==
  /\ TypeOK <=> StoreTyped /\ BootTyped /\ TicksTyped /\ HistoryTyped
  /\ TypeOK' <=> StoreTyped' /\ BootTyped' /\ TicksTyped' /\ HistoryTyped'
BY DEF TypeOK, StoreTyped, BootTyped, TicksTyped, HistoryTyped, Times, Heartbeats, Classes

\* An update of one heartbeat by a typed one leaves all typed; Settled() does.
LEMMA TickTyped ==
  ASSUME TicksTyped, NEW t \in Ticks, NEW h \in Heartbeats, tick' = [tick EXCEPT ![t] = h]
  PROVE  TicksTyped'
BY DEF TicksTyped

LEMMA SettledTyped ==
  ASSUME NEW h \in Heartbeats
  PROVE  Settled(h) \in Heartbeats
<1>1. Idle \in Heartbeats
  BY DEF Idle, Heartbeats
<1> QED BY <1>1 DEF Settled

LEMMA UpdateTyped ==
  ASSUME TypeOK, NEW j \in Jobs, updateState(j, "due") \/ \E a, o, time :
           time \in computeNextRunAtMs(j, a, o) /\ updateState(j, time), UNCHANGED fire
  PROVE  StoreTyped'
<1>1. StoreTyped
  BY TypeParts
<1>2. next' \in [Jobs -> Classes \cup {"none", "time"}] /\ \A i \in Jobs : next'[i] \in Times(i)
  BY UpdateFacts DEF Times
<1>3. UNCHANGED <<status, wakeNow>>
  BY UpdateFacts
<1> QED BY <1>1, <1>2, <1>3 DEF StoreTyped

LEMMA AdvanceTyped ==
  ASSUME TypeOK, NEW j \in Jobs, UNCHANGED fire,
         \E a, o, time : time \in computeNextRunAtMs(j, a, o) /\ Advance(j, time)
  PROVE  StoreTyped'
<1>1. CASE UNCHANGED storeVars
  BY <1>1, TypeParts DEF storeVars, StoreTyped
<1>2. CASE \E a, o, time : time \in computeNextRunAtMs(j, a, o) /\ updateState(j, time)
  BY <1>2, UpdateTyped
<1> QED BY <1>1, <1>2 DEF Advance

LEMMA EventTyped ==
  ASSUME HistoryTyped, Event
  PROVE  events' \in 0 .. MaxEvents
BY BoundAssumption DEF HistoryTyped, Event

LEMMA InitTyped == Init => TypeOK
<1> SUFFICES ASSUME Init PROVE TypeOK
  OBVIOUS
<1>1. StoreTyped
  BY DEF Init, StoreTyped, Times, Classes, Stored
<1>2. BootTyped
  BY DEF Init, BootTyped
<1>3. TicksTyped
  BY DEF Init, TicksTyped, Idle, Heartbeats
<1>4. HistoryTyped
  BY BoundAssumption DEF Init, HistoryTyped
<1> QED BY <1>1, <1>2, <1>3, <1>4, TypeParts

\* The recovery's steps keep the types.
LEMMA BootTypes ==
  ASSUME TypeOK, BootStep \/ \E j \in Jobs : RecoveryFails(j)
  PROVE  TypeOK'
<1> USE TypeParts, OneShotsAssumption
<1>1. CASE Boot
  <2>1. StoreTyped' /\ TicksTyped'
    BY <1>1 DEF Boot, storeVars, StoreTyped, TicksTyped
  <2>2. BootTyped'
    BY <1>1 DEF Boot, BootTyped, listEnabled
  <2>3. HistoryTyped'
    BY <1>1 DEF Boot, HistoryTyped, listEnabled
  <2> QED BY <2>1, <2>2, <2>3
<1>2. CASE Booted
  BY <1>2 DEF Booted, storeVars, StoreTyped, TicksTyped, BootTyped, HistoryTyped
<1>3. ASSUME NEW j \in Jobs, Expire(j) PROVE TypeOK'
  <2>1. StoreTyped'
    <3>1. status' \in [Jobs -> {"unborn", "removed"} \cup Stored]
      BY <1>3 DEF Expire, StoreTyped, Stored
    <3>2. \A i \in Jobs : next'[i] \in {next[i], "none"}
      <4>1. next' = [next EXCEPT ![j] = "none"]
        BY <1>3 DEF Expire
      <4> QED BY <4>1
    <3> QED BY <1>3, <3>1, <3>2 DEF Expire, StoreTyped, Times
  <2>2. BootTyped' /\ TicksTyped' /\ HistoryTyped'
    BY <1>3 DEF Expire, BootTyped, TicksTyped, HistoryTyped
  <2> QED BY <2>1, <2>2
<1>4. ASSUME NEW j \in Jobs, Reset(j) PROVE TypeOK'
  <2>1. StoreTyped'
    BY <1>4, AdvanceTyped DEF Reset
  <2>2. BootTyped' /\ TicksTyped'
    BY <1>4 DEF Reset, BootTyped, TicksTyped
  <2>3. owed' \subseteq owed /\ UNCHANGED <<ran, events>>
    BY <1>4 DEF Reset
  <2>4. HistoryTyped'
    BY <2>3 DEF HistoryTyped
  <2> QED BY <2>1, <2>2, <2>4
<1>5. ASSUME NEW j \in Jobs, RecoveryFails(j) PROVE TypeOK'
  <2>1. StoreTyped' /\ TicksTyped' /\ BootTyped'
    BY <1>5 DEF RecoveryFails, storeVars, StoreTyped, TicksTyped, BootTyped
  <2>2. HistoryTyped'
    BY <1>5, EventTyped DEF RecoveryFails, HistoryTyped
  <2> QED BY <2>1, <2>2
<1> QED BY <1>1, <1>2, <1>3, <1>4, <1>5 DEF BootStep

\* So do those of heartbeats.
LEMMA TickTypes ==
  ASSUME TypeOK, NEW t \in Ticks, StartTick(t) \/ TickStep(t) \/ Age(t)
  PROVE  TypeOK'
<1> USE TypeParts, OneShotsAssumption
<1>1. tick[t] \in Heartbeats
  BY DEF TicksTyped
<1>2. CASE StartTick(t)
  <2>1. StoreTyped' /\ BootTyped' /\ HistoryTyped'
    BY <1>2 DEF StartTick, storeVars, bootVars, StoreTyped, BootTyped, HistoryTyped
  <2>2. PICK f \in SUBSET Jobs, s \in SUBSET Jobs, a \in SUBSET OneShots :
          tick' = [tick EXCEPT ![t] = [fires |-> f, skips |-> s, ahead |-> a,
                                       old |-> FALSE, job |-> NoJob]]
    BY <1>2 DEF StartTick, listEnabled, Ahead
  <2>3. [fires |-> f, skips |-> s, ahead |-> a, old |-> FALSE, job |-> NoJob] \in Heartbeats
    BY DEF Heartbeats
  <2>4. TicksTyped'
    BY <2>2, <2>3, TickTyped
  <2> QED BY <2>1, <2>4
<1>3. ASSUME NEW j \in Jobs, Skip(t, j) PROVE TypeOK'
  <2>1. StoreTyped'
    BY <1>3, AdvanceTyped DEF Skip
  <2>2. BootTyped' /\ HistoryTyped'
    BY <1>3 DEF Skip, bootVars, BootTyped, HistoryTyped
  <2>3. [tick[t] EXCEPT !.skips = tick[t].skips \ {j}] \in Heartbeats
    BY <1>1 DEF Heartbeats
  <2>4. tick' = [tick EXCEPT ![t] = Settled([tick[t] EXCEPT !.skips = tick[t].skips \ {j}])]
    BY <1>3 DEF Skip
  <2>5. TicksTyped'
    BY <2>3, <2>4, SettledTyped, TickTyped
  <2> QED BY <2>1, <2>2, <2>5
<1>4. ASSUME NEW j \in Jobs, RunJob(t, j) PROVE TypeOK'
  <2>1. StoreTyped' /\ BootTyped' /\ HistoryTyped'
    BY <1>4 DEF RunJob, storeVars, bootVars, StoreTyped, BootTyped, HistoryTyped
  <2>2. [tick[t] EXCEPT !.fires = tick[t].fires \ {j}, !.job = j] \in Heartbeats
    BY <1>1 DEF Heartbeats
  <2>3. tick' = [tick EXCEPT ![t] = [tick[t] EXCEPT !.fires = tick[t].fires \ {j}, !.job = j]]
    BY <1>4 DEF RunJob
  <2>4. TicksTyped'
    BY <2>2, <2>3, TickTyped
  <2> QED BY <2>1, <2>4
<1>5. CASE EndRun(t)
  <2>1. tick[t].job \in Jobs
    BY <1>1, <1>5 DEF EndRun, Heartbeats
  <2>2. StoreTyped'
    <3>1. UNCHANGED fire
      BY <1>5 DEF EndRun
    <3>2. CASE UNCHANGED storeVars
      BY <3>1, <3>2 DEF storeVars, StoreTyped
    <3>3. CASE \E a, o, time : time \in computeNextRunAtMs(tick[t].job, a, o)
                                 /\ updateState(tick[t].job, time)
      BY <2>1, <3>1, <3>3, UpdateTyped
    <3> QED BY <1>5, <3>2, <3>3 DEF EndRun
  <2>3. BootTyped' /\ HistoryTyped'
    BY <1>5 DEF EndRun, bootVars, BootTyped, HistoryTyped
  <2>4. [tick[t] EXCEPT !.job = NoJob] \in Heartbeats
    BY <1>1 DEF Heartbeats
  <2>5. tick' = [tick EXCEPT ![t] = Settled([tick[t] EXCEPT !.job = NoJob])]
    BY <1>5 DEF EndRun
  <2>6. TicksTyped'
    BY <2>4, <2>5, SettledTyped, TickTyped
  <2> QED BY <2>2, <2>3, <2>6
<1>6. CASE Age(t)
  <2>1. StoreTyped' /\ BootTyped' /\ HistoryTyped'
    BY <1>6 DEF Age, storeVars, bootVars, StoreTyped, BootTyped, HistoryTyped
  <2>2. [tick[t] EXCEPT !.old = TRUE] \in Heartbeats
    BY <1>1 DEF Heartbeats
  <2>3. tick' = [tick EXCEPT ![t] = [tick[t] EXCEPT !.old = TRUE]]
    BY <1>6 DEF Age, TicksTyped
  <2>4. TicksTyped'
    BY <2>2, <2>3, TickTyped
  <2> QED BY <2>1, <2>4
<1> QED BY <1>2, <1>3, <1>4, <1>5, <1>6 DEF TickStep

\* And those of users, of time and crashes.
UserStep == \E j \in Jobs : Create(j) \/ Update(j) \/ Remove(j) \/ Trigger(j)

LEMMA UserTypes ==
  ASSUME TypeOK, UserStep
  PROVE  TypeOK'
<1> USE TypeParts, OneShotsAssumption
<1>1. ASSUME NEW j \in Jobs, NEW from, NEW on \in BOOLEAN, NEW now \in BOOLEAN, Put(j, from, on, now)
      PROVE  TypeOK'
  <2>1. PICK time \in IF on THEN Seed(j, now) ELSE {"none"} : next' = [next EXCEPT ![j] = time]
    BY <1>1 DEF Put
  <2>2. time \in Times(j)
    BY ComputeFacts DEF Seed, Times
  <2>3. /\ next' \in [Jobs -> Classes \cup {"none", "time"}]
        /\ \A i \in Jobs : next'[i] \in {next[i], IF i = j THEN time ELSE next[i]}
    BY <2>1, <2>2 DEF StoreTyped, Times, Classes
  <2>4. status' \in [Jobs -> {"unborn", "removed"} \cup Stored]
    BY <1>1 DEF Put, StoreTyped, Stored
  <2>5. StoreTyped'
    BY <1>1, <2>2, <2>3, <2>4 DEF Put, StoreTyped
  <2>6. BootTyped' /\ TicksTyped'
    BY <1>1 DEF Put, bootVars, BootTyped, TicksTyped
  <2>7. HistoryTyped'
    BY <1>1, EventTyped DEF Put, Touched, HistoryTyped
  <2> QED BY <2>5, <2>6, <2>7
<1>2. ASSUME NEW j \in Jobs, Remove(j) PROVE TypeOK'
  <2>1. status' \in [Jobs -> {"unborn", "removed"} \cup Stored]
    BY <1>2 DEF Remove, StoreTyped, Stored
  <2>2. next' = [next EXCEPT ![j] = "none"]
    BY <1>2 DEF Remove
  <2>3. \A i \in Jobs : next'[i] \in {next[i], "none"}
    BY <2>2
  <2>4. StoreTyped'
    BY <1>2, <2>1, <2>3 DEF Remove, StoreTyped, Times
  <2>5. BootTyped' /\ TicksTyped'
    BY <1>2 DEF Remove, bootVars, BootTyped, TicksTyped
  <2>6. HistoryTyped'
    BY <1>2, EventTyped DEF Remove, Touched, HistoryTyped
  <2> QED BY <2>4, <2>5, <2>6
<1>3. ASSUME NEW j \in Jobs, Trigger(j) PROVE TypeOK'
  <2>1. StoreTyped'
    BY <1>3, UpdateTyped DEF Trigger
  <2>2. BootTyped' /\ TicksTyped'
    BY <1>3 DEF Trigger, bootVars, BootTyped, TicksTyped
  <2>3. HistoryTyped'
    BY <1>3, EventTyped DEF Trigger, Touched, HistoryTyped
  <2> QED BY <2>1, <2>2, <2>3
<1> QED BY <1>1, <1>2, <1>3 DEF UserStep, Create, Update

LEMMA PassTyped ==
  ASSUME TypeOK, NEW j \in Jobs, UNCHANGED <<status, wakeNow>>,
         Pass(j, "future", "due") \/ Pass(j, "due", "stale")
  PROVE  StoreTyped'
<1>1. StoreTyped
  BY TypeParts
<1>2. ASSUME NEW from \in {"future", "due"}, NEW to \in {"due", "stale"}, Pass(j, from, to)
      PROVE  StoreTyped'
  <2>1. CASE next[j] = from /\ next' = [next EXCEPT ![j] = to] /\ UNCHANGED fire
    <3>1. /\ next' \in [Jobs -> Classes \cup {"none", "time"}]
          /\ \A i \in Jobs : next'[i] \in {next[i], "due", "stale"}
      BY <1>1, <2>1 DEF StoreTyped, Classes
    <3> QED BY <1>1, <2>1, <3>1 DEF StoreTyped, Times
  <2>2. CASE j \in OneShots /\ fire' = [fire EXCEPT ![j] = to] /\ UNCHANGED next
    BY <1>1, <2>2 DEF StoreTyped, Classes
  <2> QED BY <1>2, <2>1, <2>2 DEF Pass
<1> QED BY <1>2

TimeStep == Crash \/ \E j \in Jobs : Due(j) \/ Late(j)

LEMMA TimeTypes ==
  ASSUME TypeOK, TimeStep
  PROVE  TypeOK'
<1> USE TypeParts, OneShotsAssumption
<1>1. ASSUME NEW j \in Jobs, Due(j) PROVE TypeOK'
  <2>1. StoreTyped'
    BY <1>1, PassTyped DEF Due
  <2>2. BootTyped' /\ TicksTyped' /\ HistoryTyped'
    BY <1>1 DEF Due, bootVars, BootTyped, TicksTyped, HistoryTyped
  <2> QED BY <2>1, <2>2
<1>2. ASSUME NEW j \in Jobs, Late(j) PROVE TypeOK'
  <2>1. StoreTyped'
    BY <1>2, PassTyped DEF Late
  <2>2. BootTyped' /\ TicksTyped'
    BY <1>2 DEF Late, bootVars, BootTyped, TicksTyped
  <2>3. HistoryTyped'
    BY <1>2, EventTyped DEF Late, HistoryTyped
  <2> QED BY <2>1, <2>2, <2>3
<1>3. CASE Crash
  <2>1. StoreTyped'
    <3>1. CASE UNCHANGED storeVars
      BY <1>3, <3>1 DEF Crash, storeVars, StoreTyped
    <3>2. CASE /\ status' = [j \in Jobs |-> IF status[j] \in Stored THEN "removed" ELSE status[j]]
               /\ next' = [j \in Jobs |-> "none"] /\ wakeNow' = {}
      BY <1>3, <3>2 DEF Crash, StoreTyped, Times
    <3> QED BY <1>3, <3>1, <3>2 DEF Crash
  <2>2. BootTyped'
    BY <1>3 DEF Crash, BootTyped
  <2>3. Idle \in Heartbeats
    BY DEF Idle, Heartbeats
  <2>4. TicksTyped'
    BY <1>3, <2>3 DEF Crash, TicksTyped
  <2>5. HistoryTyped'
    BY <1>3, EventTyped DEF Crash, HistoryTyped
  <2> QED BY <2>1, <2>2, <2>4, <2>5
<1> QED BY <1>1, <1>2, <1>3 DEF TimeStep

LEMMA NextSplit ==
  Next => \/ BootStep \/ \E j \in Jobs : RecoveryFails(j)
          \/ UserStep
          \/ \E t \in Ticks : StartTick(t) \/ TickStep(t) \/ Age(t)
          \/ TimeStep
BY DEF Next, UserStep, TimeStep

LEMMA TypeStep == TypeOK /\ [Next]_vars => TypeOK'
<1> SUFFICES ASSUME TypeOK, [Next]_vars PROVE TypeOK'
  OBVIOUS
<1>1. CASE UNCHANGED vars
  BY <1>1 DEF vars, storeVars, bootVars, TypeOK
<1>2. CASE Next
  BY <1>2, NextSplit, BootTypes, UserTypes, TickTypes, TimeTypes
<1> QED BY <1>1, <1>2

-----------------------------------------------------------------------------
(* What is owed                                                            *)

\* A heartbeat with something to do lives in a daemon that is up.
LEMMA BusyIsUp ==
  ASSUME TypeOK, LifeInv, NEW t \in Ticks, tick[t] # Idle
  PROVE  daemon = "up"
BY DEF LifeInv, TypeOK

\* In an up daemon, what was owed stays so if nothing but other jobs change.
LEMMA OthersChange ==
  ASSUME CronInv, daemon = "up", UNCHANGED bootVars, owed' \subseteq owed,
         \A j \in owed' : Dealt(j) => Dealt(j)',
         \A j \in owed', t \in Ticks :
           j \notin tick[t].fires \cup tick[t].skips \cup {tick[t].job} =>
             j \notin tick'[t].fires \cup tick'[t].skips \cup {tick'[t].job}
  PROVE  LifeInv' /\ OwedInv'
<1>1. daemon' = "up" /\ expire' = {} /\ reset' = {}
  BY DEF CronInv, LifeInv, bootVars
<1>2. LifeInv'
  BY <1>1 DEF LifeInv
<1>3. OwedInv'
  BY <1>1 DEF CronInv, OwedInv
<1> QED BY <1>2, <1>3

LEMMA BootOwed ==
  ASSUME CronInv, BootStep \/ \E j \in Jobs : RecoveryFails(j)
  PROVE  LifeInv' /\ OwedInv'
<1> USE OneShotsAssumption
<1>1. CASE Boot
  <2>1. daemon = "down" /\ daemon' = "recover" /\ UNCHANGED <<storeVars, fire, tick>>
    BY <1>1 DEF Boot
  <2>2. LifeInv'
    BY <2>1 DEF CronInv, LifeInv
  <2>3. ASSUME NEW j \in owed' PROVE j \in expire' \/ (j \in reset' /\ j \notin OneShots)
    BY <1>1, <2>3 DEF Boot, Class
  <2>4. OwedInv'
    BY <2>1, <2>3 DEF OwedInv
  <2> QED BY <2>2, <2>4
<1>2. CASE Booted
  <2>1. daemon' = "up" /\ expire' = {} /\ reset' = {} /\ UNCHANGED <<storeVars, tick, owed>>
    BY <1>2 DEF Booted
  <2>2. \A j \in owed : Dealt(j) /\ daemon = "recover" /\ expire = {} /\ reset = {}
    BY <1>2 DEF Booted, CronInv, OwedInv
  <2>3. ASSUME NEW j \in owed, NEW t \in Ticks
        PROVE  j \notin tick[t].fires \cup tick[t].skips \cup {tick[t].job}
    <3>1. tick[t] = Idle
      BY <1>2 DEF Booted, CronInv, LifeInv
    <3>2. j \in Jobs
      BY DEF CronInv, TypeOK
    <3> QED BY <3>1, <3>2, NoJobFresh DEF Idle
  <2>4. \A j \in owed : Dealt(j)'
    BY <2>1, <2>2 DEF Dealt, storeVars
  <2> QED BY <2>1, <2>3, <2>4 DEF LifeInv, OwedInv
<1>3. ASSUME NEW j \in Jobs, Expire(j) PROVE LifeInv' /\ OwedInv'
  <2>1. daemon = "recover" /\ daemon' = "recover"
    BY <1>3 DEF Expire, CronInv, LifeInv, TypeOK
  <2>2. LifeInv'
    BY <1>3, <2>1 DEF Expire, CronInv, LifeInv
  <2>3. ASSUME NEW i \in owed
        PROVE  i \in expire' \/ (i \in reset' /\ i \notin OneShots) \/ Dealt(i)'
    <3>1. i \in Jobs /\ status \in [Jobs -> {"unborn", "removed"} \cup Stored]
      BY DEF CronInv, TypeOK
    <3>2. i \in expire \/ (i \in reset /\ i \notin OneShots) \/ Dealt(i)
      BY <2>1 DEF CronInv, OwedInv
    <3>3. i = j => status'[i] = "disabled"
      BY <1>3, <3>1 DEF Expire
    <3>4. CASE i = j
      BY <3>3, <3>4 DEF Dealt
    <3>5. CASE i # j
      <4>1. next' = [next EXCEPT ![j] = "none"] /\ status' = [status EXCEPT ![j] = "disabled"]
        BY <1>3 DEF Expire
      <4>2. j \in OneShots
        BY <1>3 DEF Expire, CronInv, TypeOK
      <4>3. CASE i \notin OneShots /\ next[i] = "future"
        <5>1. next'[i] = "future"
          BY <3>5, <4>1, <4>3
        <5> QED BY <4>3, <5>1 DEF Dealt
      <4>4. CASE status[i] # "enabled"
        <5>1. status'[i] = status[i]
          BY <3>1, <3>5, <4>1
        <5> QED BY <4>4, <5>1 DEF Dealt
      <4>5. CASE i \in expire \/ (i \in reset /\ i \notin OneShots)
        BY <1>3, <3>5, <4>5 DEF Expire
      <4> QED BY <3>2, <4>3, <4>4, <4>5 DEF Dealt
    <3> QED BY <3>4, <3>5
  <2>4. owed' = owed
    BY <1>3 DEF Expire
  <2> QED BY <2>1, <2>2, <2>3, <2>4 DEF OwedInv
<1>4. ASSUME NEW j \in Jobs, Reset(j) PROVE LifeInv' /\ OwedInv'
  <2>1. daemon = "recover" /\ daemon' = "recover"
    BY <1>4 DEF Reset, CronInv, LifeInv, TypeOK
  <2>2. LifeInv'
    BY <1>4, <2>1 DEF Reset, CronInv, LifeInv
  <2>3. PICK time \in computeNextRunAtMs(j, OneShots, FALSE) :
               Advance(j, time) /\ owed' = IF time = "none" THEN owed \ {j} ELSE owed
    BY <1>4 DEF Reset
  <2>4. ASSUME NEW i \in owed'
        PROVE  i \in expire' \/ (i \in reset' /\ i \notin OneShots) \/ Dealt(i)'
    <3>1. i \in owed /\ i \in Jobs
      BY <2>3 DEF CronInv, TypeOK
    <3>2. i \in expire \/ (i \in reset /\ i \notin OneShots) \/ Dealt(i)
      BY <2>1, <3>1 DEF CronInv, OwedInv
    <3>3. expire' = expire /\ reset' = reset \ {j}
      BY <1>4 DEF Reset
    <3>4. CASE time = "none"
      <4>1. i # j /\ status' = status /\ next' = next
        BY <2>3, <3>4 DEF Advance, storeVars
      <4> QED BY <3>2, <3>3, <4>1 DEF Dealt
    <3>5. CASE time # "none"
      <4>1. updateState(j, time) /\ status' = status
        BY <2>3, <3>5 DEF Advance, updateState
      <4>2. CASE status[i] # "enabled" \/ i \in expire
        BY <3>3, <4>1, <4>2 DEF Dealt
      <4>3. CASE i = j /\ i \notin OneShots /\ status[i] = "enabled"
        <5>1. time = "future"
          BY <2>3, <3>5, <4>3, ComputeFacts DEF CronInv
        <5>2. next' = [next EXCEPT ![j] = time]
          BY <4>1, <4>3 DEF updateState, Stored
        <5>3. next'[i] = "future"
          BY <3>1, <4>3, <5>1, <5>2 DEF CronInv, TypeOK
        <5> QED BY <4>3, <5>3 DEF Dealt
      <4>4. CASE i # j /\ i \notin OneShots
        <5>1. next'[i] = next[i]
          BY <2>3, <3>1, <4>1, <4>4, UpdateFacts DEF CronInv
        <5> QED BY <3>2, <3>3, <4>1, <4>4, <5>1 DEF Dealt
      <4>5. CASE i \in OneShots
        BY <3>2, <3>3, <4>2, <4>5 DEF Dealt
      <4> QED BY <4>2, <4>3, <4>4, <4>5
    <3> QED BY <3>4, <3>5
  <2> QED BY <2>1, <2>2, <2>4 DEF OwedInv
<1>5. ASSUME NEW j \in Jobs, RecoveryFails(j) PROVE LifeInv' /\ OwedInv'
  <2>1. daemon = "recover" /\ daemon' = "recover"
    BY <1>5 DEF RecoveryFails, CronInv, LifeInv, TypeOK
  <2>2. \A i \in Jobs : Dealt(i)' <=> Dealt(i)
    BY <1>5 DEF RecoveryFails, storeVars, Dealt
  <2>3. LifeInv'
    BY <1>5, <2>1 DEF RecoveryFails, CronInv, LifeInv
  <2>4. owed \subseteq Jobs
    BY DEF CronInv, TypeOK
  <2>5. OwedInv'
    BY <1>5, <2>1, <2>2, <2>4 DEF RecoveryFails, CronInv, OwedInv
  <2> QED BY <2>3, <2>5
<1> QED BY <1>1, <1>2, <1>3, <1>4, <1>5 DEF BootStep

\* What a heartbeat has in hand; its steps add nothing but what it lists.
Hand(h) == h.fires \cup h.skips \cup {h.job}

LEMMA HandsShrink ==
  ASSUME CronInv, NEW t \in Ticks, NEW h \in Heartbeats,
         tick' = [tick EXCEPT ![t] = h], Hand(h) \subseteq Hand(tick[t]) \cup {NoJob}
  PROVE  \A j \in Jobs, u \in Ticks :
           j \notin tick[u].fires \cup tick[u].skips \cup {tick[u].job} =>
             j \notin tick'[u].fires \cup tick'[u].skips \cup {tick'[u].job}
<1>1. tick' = [u \in Ticks |-> IF u = t THEN h ELSE tick[u]]
  BY DEF CronInv, TypeOK
<1> QED BY <1>1, NoJobFresh DEF Hand

LEMMA SettledShrinks ==
  ASSUME NEW h \in Heartbeats
  PROVE  Hand(Settled(h)) \subseteq Hand(h) \cup {NoJob}
BY DEF Settled, Idle, Hand

LEMMA TickOwed ==
  ASSUME CronInv, NEW t \in Ticks, StartTick(t) \/ TickStep(t) \/ Age(t)
  PROVE  LifeInv' /\ OwedInv'
<1>1. TypeOK /\ LifeInv /\ OwedInv /\ owed \subseteq Jobs /\ tick[t] \in Heartbeats
  BY TypeParts DEF CronInv, TicksTyped, TypeOK
<1>2. daemon = "up"
  <2>1. CASE StartTick(t)
    BY <2>1 DEF StartTick
  <2>2. CASE tick[t] # Idle
    BY <1>1, <2>2, BusyIsUp
  <2>3. TickStep(t) \/ Age(t) => tick[t] # Idle
    <3>1. \A j \in Jobs : Skip(t, j) \/ RunJob(t, j) => tick[t] # Idle
      BY DEF Skip, RunJob, Idle
    <3>2. EndRun(t) \/ Age(t) => tick[t] # Idle
      BY DEF EndRun, Age, Idle
    <3> QED BY <3>1, <3>2 DEF TickStep
  <2> QED BY <2>1, <2>2, <2>3
<1>3. \A j \in owed : Dealt(j) /\ j \in Jobs /\ j \notin Hand(tick[t])
  BY <1>1, <1>2 DEF OwedInv, Hand
<1>4. UNCHANGED <<bootVars, owed>>
  <2>1. StartTick(t) \/ Age(t) => UNCHANGED <<bootVars, owed>>
    BY DEF StartTick, Age
  <2>2. EndRun(t) => UNCHANGED <<bootVars, owed>>
    BY DEF EndRun
  <2>3. \A j \in Jobs : Skip(t, j) \/ RunJob(t, j) => UNCHANGED <<bootVars, owed>>
    BY DEF Skip, RunJob
  <2> QED BY <2>1, <2>2, <2>3 DEF TickStep
<1>5. \A j \in owed : Dealt(j)'
  <2>1. CASE UNCHANGED storeVars
    BY <1>3, <2>1 DEF Dealt, storeVars
  <2>2. ASSUME NEW k \in Hand(tick[t]) \cap Jobs, NEW time, NEW a, NEW o,
               time \in computeNextRunAtMs(k, a, o), updateState(k, time)
        PROVE  \A j \in owed : Dealt(j)'
    <3>1. \A j \in owed : j # k /\ next'[j] = next[j] /\ status' = status
      BY <1>1, <1>3, <2>2, UpdateFacts
    <3> QED BY <1>3, <3>1 DEF Dealt
  <2>3. CASE StartTick(t) \/ Age(t)
    BY <2>1, <2>3 DEF StartTick, Age
  <2>4. ASSUME NEW j \in Jobs, RunJob(t, j) PROVE UNCHANGED storeVars
    BY <2>4 DEF RunJob
  <2>5. ASSUME NEW j \in Jobs, Skip(t, j) PROVE \A i \in owed : Dealt(i)'
    <3>1. j \in Hand(tick[t]) \cap Jobs
      BY <2>5 DEF Skip, Hand
    <3>2. PICK time \in computeNextRunAtMs(j, tick[t].ahead, tick[t].old) : Advance(j, time)
      BY <2>5 DEF Skip
    <3>3. CASE UNCHANGED storeVars
      BY <2>1, <3>3
    <3>4. CASE updateState(j, time)
      BY <2>2, <3>1, <3>2, <3>4
    <3> QED BY <3>2, <3>3, <3>4 DEF Advance
  <2>6. CASE EndRun(t)
    <3>1. tick[t].job \in Hand(tick[t]) \cap Jobs
      BY <1>1, <2>6 DEF EndRun, Hand, Heartbeats
    <3> QED BY <2>1, <2>2, <2>6, <3>1 DEF EndRun
  <2> QED BY <2>1, <2>3, <2>4, <2>5, <2>6 DEF TickStep
<1>6. \A j \in owed, u \in Ticks :
        j \notin tick[u].fires \cup tick[u].skips \cup {tick[u].job} =>
          j \notin tick'[u].fires \cup tick'[u].skips \cup {tick'[u].job}
  <2>1. ASSUME NEW h \in Heartbeats, tick' = [tick EXCEPT ![t] = h],
               Hand(h) \subseteq Hand(tick[t]) \cup {NoJob}
        PROVE  \A j \in owed, u \in Ticks :
                 j \notin tick[u].fires \cup tick[u].skips \cup {tick[u].job} =>
                   j \notin tick'[u].fires \cup tick'[u].skips \cup {tick'[u].job}
    BY <1>1, <2>1, HandsShrink
  <2>2. ASSUME NEW j \in Jobs, Skip(t, j)
        PROVE  \E h \in Heartbeats : /\ tick' = [tick EXCEPT ![t] = h]
                                     /\ Hand(h) \subseteq Hand(tick[t]) \cup {NoJob}
    <3> DEFINE g == [tick[t] EXCEPT !.skips = tick[t].skips \ {j}]
    <3>1. g \in Heartbeats /\ Hand(g) \subseteq Hand(tick[t])
      BY <1>1 DEF Heartbeats, Hand
    <3>2. tick' = [tick EXCEPT ![t] = Settled(g)]
      BY <2>2 DEF Skip
    <3> HIDE DEF g
    <3> QED BY <3>1, <3>2, SettledTyped, SettledShrinks
  <2>3. ASSUME NEW j \in Jobs, RunJob(t, j)
        PROVE  \E h \in Heartbeats : /\ tick' = [tick EXCEPT ![t] = h]
                                     /\ Hand(h) \subseteq Hand(tick[t]) \cup {NoJob}
    <3> DEFINE g == [tick[t] EXCEPT !.fires = tick[t].fires \ {j}, !.job = j]
    <3>1. g \in Heartbeats
      BY <1>1 DEF Heartbeats
    <3>2. Hand(g) \subseteq Hand(tick[t])
      BY <1>1, <2>3 DEF Heartbeats, Hand, RunJob
    <3>3. tick' = [tick EXCEPT ![t] = g]
      BY <2>3 DEF RunJob
    <3> HIDE DEF g
    <3> QED BY <3>1, <3>2, <3>3
  <2>4. CASE EndRun(t)
    <3> DEFINE g == [tick[t] EXCEPT !.job = NoJob]
    <3>1. g \in Heartbeats /\ Hand(g) \subseteq Hand(tick[t]) \cup {NoJob}
      BY <1>1 DEF Heartbeats, Hand
    <3>2. tick' = [tick EXCEPT ![t] = Settled(g)]
      BY <2>4 DEF EndRun
    <3> HIDE DEF g
    <3>3. Settled(g) \in Heartbeats /\ Hand(Settled(g)) \subseteq Hand(tick[t]) \cup {NoJob}
      BY <3>1, SettledTyped, SettledShrinks
    <3> QED BY <2>1, <3>2, <3>3
  <2>5. CASE Age(t)
    <3> DEFINE g == [tick[t] EXCEPT !.old = TRUE]
    <3>1. g \in Heartbeats /\ Hand(g) = Hand(tick[t])
      BY <1>1 DEF Heartbeats, Hand
    <3>2. tick' = [tick EXCEPT ![t] = g]
      BY <1>1, <2>5 DEF Age, TypeOK
    <3> HIDE DEF g
    <3> QED BY <2>1, <3>1, <3>2
  <2>6. CASE StartTick(t)
    <3> DEFINE due == {j \in listEnabled : Class(j) \in {"none", "due"}}
               late == {j \in listEnabled : Class(j) = "stale"}
               f == due \cap wakeNow
               s == {j \in late \cup (due \ wakeNow) : j \in OneShots => j \in Ahead}
               a == Ahead \cap (s \cup due)
    <3>1. /\ tick' = [tick EXCEPT ![t] = [fires |-> f, skips |-> s, ahead |-> a,
                                          old |-> FALSE, job |-> NoJob]]
          /\ \A j \in f \cup s : j \in listEnabled /\ Class(j) # "future"
      <4>1. tick' = [tick EXCEPT ![t] = [fires |-> f, skips |-> s, ahead |-> a,
                                         old |-> FALSE, job |-> NoJob]]
        BY <2>6 DEF StartTick
      <4>2. \A j \in f \cup s : j \in due \cup late
        OBVIOUS
      <4> QED BY <4>1, <4>2
    <3> HIDE DEF f, s, a
    <3>2. \A j \in owed : j \notin f \cup s
      BY <1>3, <3>1 DEF Dealt, listEnabled, Class
    <3>3. \A u \in Ticks : tick'[u] = IF u = t THEN [fires |-> f, skips |-> s, ahead |-> a,
                                                     old |-> FALSE, job |-> NoJob] ELSE tick[u]
      BY <1>1, <3>1 DEF TypeOK
    <3> QED BY <1>1, <3>2, <3>3, NoJobFresh
  <2> QED BY <2>1, <2>2, <2>3, <2>4, <2>5, <2>6 DEF TickStep
<1> QED BY <1>2, <1>4, <1>5, <1>6, OthersChange

LEMMA UserOwed ==
  ASSUME CronInv, UserStep
  PROVE  LifeInv' /\ OwedInv'
<1>1. PICK j \in Jobs : \/ \E from, on, now : Put(j, from, on, now)
                        \/ Remove(j) \/ Trigger(j)
  BY DEF UserStep, Create, Update
<1>2. daemon = "up" /\ UNCHANGED <<bootVars, tick>> /\ owed' = owed \ {j}
  BY <1>1 DEF Put, Remove, Trigger, Touched
<1>3. \A i \in Jobs : i # j => status'[i] = status[i] /\ next'[i] = next[i]
  <2>1. CASE \E from, on, now : Put(j, from, on, now)
    BY <2>1 DEF Put, CronInv, TypeOK
  <2>2. CASE Remove(j)
    BY <2>2 DEF Remove, CronInv, TypeOK
  <2>3. CASE Trigger(j)
    BY <2>3 DEF Trigger, updateState, CronInv, TypeOK
  <2> QED BY <1>1, <2>1, <2>2, <2>3
<1>4. owed \subseteq Jobs
  BY DEF CronInv, TypeOK
<1>5. \A i \in owed' : Dealt(i) => Dealt(i)'
  BY <1>2, <1>3, <1>4 DEF Dealt
<1> QED BY <1>2, <1>5, OthersChange

LEMMA TimeOwed ==
  ASSUME CronInv, TimeStep
  PROVE  LifeInv' /\ OwedInv'
<1>1. CASE Crash
  <2>1. daemon' = "down" /\ expire' = {} /\ reset' = {} /\ \A t \in Ticks : tick'[t] = Idle
    BY <1>1 DEF Crash
  <2> QED BY <2>1 DEF LifeInv, OwedInv
<1>2. ASSUME NEW j \in Jobs, Due(j) \/ Late(j) PROVE LifeInv' /\ OwedInv'
  <2>1. UNCHANGED <<status, bootVars, tick>> /\ owed' \subseteq owed
    BY <1>2 DEF Due, Late
  <2>2. owed \subseteq Jobs
    BY DEF CronInv, TypeOK
  <2>3. ASSUME NEW i \in owed', Dealt(i) PROVE Dealt(i)'
    <3>1. i \in Jobs
      BY <2>1, <2>2
    <3>2. CASE status[i] # "enabled"
      BY <2>1, <3>2 DEF Dealt
    <3>3. CASE i \notin OneShots /\ next[i] = "future"
      <4>1. CASE Due(j)
        <5>1. i # j
          BY <3>3, <4>1 DEF Due
        <5>2. next'[i] = next[i]
          BY <3>1, <4>1, <5>1 DEF Due, Pass, CronInv, TypeOK
        <5> QED BY <3>3, <5>2 DEF Dealt
      <4>2. CASE Late(j)
        <5>1. next'[i] = next[i]
          BY <3>1, <3>3, <4>2 DEF Late, Pass, CronInv, TypeOK
        <5> QED BY <3>3, <5>1 DEF Dealt
      <4> QED BY <1>2, <4>1, <4>2
    <3> QED BY <2>3, <3>2, <3>3 DEF Dealt
  <2>4. LifeInv'
    BY <2>1 DEF CronInv, LifeInv, bootVars
  <2>5. OwedInv'
    BY <2>1, <2>3 DEF CronInv, OwedInv, bootVars
  <2> QED BY <2>4, <2>5
<1> QED BY <1>1, <1>2 DEF TimeStep

-----------------------------------------------------------------------------
\* For any jobs and any number of overlapping heartbeats the types hold, and
\* what was missed in a downtime is dealt with before a heartbeat can list it,
\* unless its recovery failed or there is no next time.
THEOREM CronCorrect == Spec => []CronInv
<1>1. Init => CronInv
  <2>1. Init => LifeInv /\ OwedInv
    BY DEF Init, LifeInv, OwedInv
  <2> QED BY <2>1, InitTyped DEF CronInv
<1>2. CronInv /\ [Next]_vars => CronInv'
  <2> SUFFICES ASSUME CronInv, [Next]_vars PROVE CronInv'
    OBVIOUS
  <2>1. TypeOK'
    BY TypeStep DEF CronInv
  <2>2. CASE UNCHANGED vars
    BY <2>1, <2>2 DEF CronInv, vars, storeVars, bootVars, LifeInv, OwedInv, Dealt
  <2>3. CASE Next
    BY <2>1, <2>3, NextSplit, BootOwed, UserOwed, TickOwed, TimeOwed DEF CronInv
  <2> QED BY <2>2, <2>3
<1> QED BY <1>1, <1>2, PTL DEF Spec

\* The variables of the scheduler keep their types.
THEOREM CronTyped == Spec => []TypeOK
BY CronCorrect, PTL DEF CronInv

\* No catch-up: no heartbeat, however late or stale its list, runs a job for a
\* time that was missed while the daemon was down, if the recovery disabled the
\* job or found it a next time.
THEOREM MissedTimesAreSkipped == Spec => []DowntimeIsSkipped
<1>1. CronInv => DowntimeIsSkipped
  <2> SUFFICES ASSUME CronInv, NEW j \in owed, NEW t \in Ticks
               PROVE  j \notin tick[t].fires \cup {tick[t].job}
    BY DEF DowntimeIsSkipped
  <2>1. j \in Jobs
    BY DEF CronInv, TypeOK
  <2>2. CASE daemon = "up"
    BY <2>2 DEF CronInv, OwedInv
  <2>3. CASE daemon # "up"
    BY <2>1, <2>3, NoJobFresh DEF CronInv, LifeInv, Idle
  <2> QED BY <2>2, <2>3
<1> QED BY <1>1, CronCorrect, PTL

-----------------------------------------------------------------------------
\* Only a user enables a job: an update by a heartbeat or by the recovery goes
\* to the job as it is stored by then and leaves disabled what is disabled.
THEOREM UsersEnable == Spec => OnlyUsersEnable
<1>1. ASSUME TypeOK, [Next]_vars, NEW j \in Jobs, status'[j] = "enabled", status[j] # "enabled"
      PROVE  \E i \in Jobs : Create(i) \/ Update(i)
  <2>1. \A i \in Jobs : \A time : updateState(i, time) \/ Advance(i, time) => UNCHANGED status
    BY DEF updateState, Advance, storeVars
  <2>2. CASE UNCHANGED vars
    BY <1>1, <2>2 DEF vars, storeVars
  <2>3. CASE BootStep \/ \E i \in Jobs : RecoveryFails(i)
    <3>1. ASSUME NEW i \in Jobs, Expire(i) PROVE status' = [status EXCEPT ![i] = "disabled"]
      BY <3>1 DEF Expire
    <3>2. ASSUME NEW i \in Jobs, Reset(i) PROVE UNCHANGED status
      BY <2>1, <3>2 DEF Reset
    <3>3. Boot \/ Booted \/ (\E i \in Jobs : RecoveryFails(i)) => UNCHANGED status
      BY DEF Boot, Booted, RecoveryFails, storeVars
    <3>4. \A i \in Jobs : status' # [status EXCEPT ![i] = "disabled"]
      BY <1>1 DEF TypeOK
    <3> QED BY <1>1, <2>3, <3>1, <3>2, <3>3, <3>4 DEF BootStep
  <2>4. ASSUME NEW t \in Ticks, StartTick(t) \/ TickStep(t) \/ Age(t) PROVE UNCHANGED status
    <3>1. ASSUME NEW i \in Jobs, Skip(t, i) \/ RunJob(t, i) PROVE UNCHANGED status
      BY <2>1, <3>1 DEF Skip, RunJob, storeVars
    <3>2. ASSUME EndRun(t) PROVE UNCHANGED status
      <4>1. tick[t].job \in Jobs
        BY <1>1, <3>2 DEF EndRun, TypeOK
      <4> QED BY <2>1, <3>2, <4>1 DEF EndRun, storeVars
    <3>3. StartTick(t) \/ Age(t) => UNCHANGED status
      BY DEF StartTick, Age, storeVars
    <3> QED BY <2>4, <3>1, <3>2, <3>3 DEF TickStep
  <2>5. CASE UserStep
    <3>1. ASSUME NEW i \in Jobs, Remove(i) PROVE FALSE
      BY <1>1, <3>1 DEF Remove, TypeOK
    <3>2. ASSUME NEW i \in Jobs, Trigger(i) PROVE FALSE
      BY <1>1, <2>1, <3>2 DEF Trigger
    <3> QED BY <2>5, <3>1, <3>2 DEF UserStep
  <2>6. CASE TimeStep
    <3>1. ASSUME NEW i \in Jobs, Due(i) \/ Late(i) PROVE UNCHANGED status
      BY <3>1 DEF Due, Late
    <3>2. ASSUME Crash PROVE FALSE
      BY <1>1, <3>2 DEF Crash, storeVars
    <3> QED BY <1>1, <2>6, <3>1, <3>2 DEF TimeStep
  <2> QED BY <1>1, <2>2, <2>3, <2>4, <2>5, <2>6, NextSplit
<1>2. TypeOK /\ [Next]_vars =>
        [(\E j \in Jobs : status'[j] = "enabled" /\ status[j] # "enabled")
           => \E j \in Jobs : Create(j) \/ Update(j)]_vars
  BY <1>1
<1> QED BY <1>2, CronTyped, PTL DEF Spec, OnlyUsersEnable
=============================================================================
