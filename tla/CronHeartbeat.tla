---------------------------- MODULE CronHeartbeat ----------------------------
(***************************************************************************)
(* Scheduled jobs: the store (cron/store.ts), the recovery of schedules at *)
(* the start of the daemon and the heartbeat that runs what is due         *)
(* (cron/heartbeat.ts, scheduler/index.ts).  A heartbeat starts every      *)
(* minute whether or not earlier ones are over, and with each manual       *)
(* trigger.  Every operation of the store holds the lock of RWLock from    *)
(* its read to its write and is one step.  Times are classes relative to   *)
(* now: "stale" is more than STALE_THRESHOLD_MS ago.  System events have   *)
(* no producer, so none is ever drained; active hours, deleteAfterRun and  *)
(* error counts are never set.                                             *)
(***************************************************************************)
EXTENDS Naturals, FiniteSets

CONSTANTS
  Jobs,
  OneShots,   \* the jobs of kind "at"; the others recur
  Irregular,  \* recurring jobs whose schedule may have no next time: an
              \* expression or period that never matches, a tz west of the server
  Ticks,      \* heartbeats that may go on at once
  NoJob,
  MaxJobs,    \* bound: jobs that are made
  MaxEvents   \* bound: users, crashes, failing writes, suspensions

ASSUME OneShotsAssumption == OneShots \subseteq Jobs
ASSUME IrregularAssumption == Irregular \subseteq Jobs \ OneShots
ASSUME NoJobFresh == NoJob \notin Jobs
ASSUME BoundAssumption == MaxEvents \in Nat

VARIABLES
  daemon,    \* "down", "recover", "up"
  status,    \* job -> whether jobs.json has it and enabled
  wakeNow,   \* jobs with wakeMode "now"
  next,      \* job -> state.nextRunAtMs; "time" is the time of the one-shot
  fire,      \* job -> class of the time of a one-shot
  expire,    \* recovery: jobs still to be disabled
  reset,     \* recovery: jobs still to be given their next time
  tick,      \* heartbeat -> its copy of what it has listed
  owed,      \* history: jobs whose time was missed while the daemon was down
  ran,       \* history: one-shots started at their time, untouched by users since
  events

storeVars == <<status, wakeNow, next>>
bootVars == <<daemon, expire, reset>>
vars == <<storeVars, fire, bootVars, tick, owed, ran, events>>

Classes == {"future", "due", "stale"}
Stored == {"enabled", "disabled"}

\* State every variable has its type; only a one-shot has a time of its own.
TypeOK ==
  /\ daemon \in {"down", "recover", "up"}
  /\ status \in [Jobs -> {"unborn", "removed"} \cup Stored]
  /\ wakeNow \subseteq Jobs
  /\ next \in [Jobs -> Classes \cup {"none", "time"}]
  /\ \A j \in Jobs : next[j] # IF j \in OneShots THEN "future" ELSE "time"
  /\ fire \in [OneShots -> Classes]
  /\ expire \subseteq OneShots /\ reset \subseteq Jobs
  /\ tick \in [Ticks -> [fires : SUBSET Jobs, skips : SUBSET Jobs, ahead : SUBSET OneShots,
                         old : BOOLEAN, job : Jobs \cup {NoJob}]]
  /\ owed \subseteq Jobs /\ ran \subseteq OneShots
  /\ events \in 0 .. MaxEvents

Idle == [fires |-> {}, skips |-> {}, ahead |-> {}, old |-> FALSE, job |-> NoJob]

Init ==
  /\ daemon = "down"
  /\ status = [j \in Jobs |-> "unborn"] /\ wakeNow = {}
  /\ next = [j \in Jobs |-> "none"] /\ fire = [j \in OneShots |-> "future"]
  /\ expire = {} /\ reset = {}
  /\ tick = [t \in Ticks |-> Idle]
  /\ owed = {} /\ ran = {} /\ events = 0

Event == events < MaxEvents /\ events' = events + 1

Class(j) == IF next[j] = "time" THEN fire[j] ELSE next[j]

Ahead == {j \in OneShots : fire[j] = "future"}

\* computeCron() takes the clock of the job's zone for the server's: west of it
\* the match it finds may have passed, and there is none then.
computeCron(j) == IF j \in Irregular THEN {"none"} ELSE {}

\* computeNextRunAtMs() at a time when these one-shots were ahead; what was
\* computed from an old time may have passed by now.
computeNextRunAtMs(j, ahead, old) ==
  IF j \in OneShots THEN {IF j \in ahead THEN "time" ELSE "none"}
  ELSE (IF old THEN Classes ELSE {"future"}) \cup computeCron(j)

\* Mutant: the heartbeat's copy of the job is written back.
UpdateWithCopy(j, time) ==
  /\ next' = [next EXCEPT ![j] = IF status[j] \in Stored THEN time ELSE @]
  /\ status' = [status EXCEPT ![j] = IF @ \in Stored THEN "enabled" ELSE @]
  /\ UNCHANGED wakeNow

\* updateState(): merged into the job as it is stored by now, if it still is.
updateState(j, time) ==
  /\ next' = [next EXCEPT ![j] = IF status[j] \in Stored THEN time ELSE @]
  /\ UNCHANGED <<status, wakeNow>>

\* A next time is stored only if there is one.
Advance(j, time) ==
  IF time = "none" THEN UNCHANGED storeVars ELSE updateState(j, time)

\* Mutant: disabled jobs are listed too.
ListAll == {j \in Jobs : status[j] \in Stored}

listEnabled == {j \in Jobs : status[j] = "enabled"}

-----------------------------------------------------------------------------
(* recoverSchedules(), before the server listens.                          *)

Boot ==
  /\ daemon = "down" /\ daemon' = "recover"
  /\ LET past == {j \in listEnabled : Class(j) \in {"due", "stale"}}
         unset == {j \in listEnabled : next[j] = "none"}
     IN  /\ expire' = OneShots \cap (past \cup (unset \ Ahead))
         /\ reset' = (past \ OneShots) \cup (unset \ (OneShots \ Ahead))
         /\ owed' = (past \cup (unset \cap OneShots)) \ (unset \cap Ahead)
  /\ UNCHANGED <<storeVars, fire, tick, ran, events>>

\* Mutant: a one-shot without a next time is left enabled.
ExpireKeeps(j) ==
  /\ j \in expire /\ expire' = expire \ {j}
  /\ status' = [status EXCEPT ![j] = IF next[j] = "none" THEN @ ELSE "disabled"]
  /\ next' = [next EXCEPT ![j] = "none"]
  /\ UNCHANGED <<wakeNow, fire, daemon, reset, tick, owed, ran, events>>

Expire(j) ==
  /\ j \in expire /\ expire' = expire \ {j}
  /\ status' = [status EXCEPT ![j] = "disabled"]
  /\ next' = [next EXCEPT ![j] = "none"]
  /\ UNCHANGED <<wakeNow, fire, daemon, reset, tick, owed, ran, events>>

\* A recurring job without a next time is left as it is, its time passed.
Reset(j) ==
  /\ j \in reset /\ reset' = reset \ {j}
  /\ \E time \in computeNextRunAtMs(j, OneShots, FALSE) :
       /\ Advance(j, time)
       /\ owed' = IF time = "none" THEN owed \ {j} ELSE owed
  /\ UNCHANGED <<fire, daemon, expire, tick, ran, events>>

\* A failing update is logged and the job left as it is.
RecoveryFails(j) ==
  /\ Event
  /\ j \in expire \cup reset
  /\ expire' = expire \ {j} /\ reset' = reset \ {j}
  /\ owed' = owed \ {j}
  /\ UNCHANGED <<storeVars, fire, daemon, tick, ran>>

Booted ==
  /\ daemon = "recover" /\ expire = {} /\ reset = {}
  /\ daemon' = "up"
  /\ UNCHANGED <<storeVars, fire, expire, reset, tick, owed, ran, events>>

BootStep == Boot \/ Booted \/ \E j \in Jobs : Expire(j) \/ Reset(j)

-----------------------------------------------------------------------------
(* tick() and evaluateJob().                                               *)

\* A heartbeat lists the jobs.  It looks at the time once: what is due by it
\* will run, what is stale by it or waits for a system event is moved on.
StartTick(t) ==
  /\ daemon = "up" /\ tick[t] = Idle
  /\ LET due == {j \in listEnabled : Class(j) \in {"none", "due"}}
         late == {j \in listEnabled : Class(j) = "stale"}
         skips == {j \in late \cup (due \ wakeNow) : j \in OneShots => j \in Ahead}
     IN  /\ skips \cup (due \cap wakeNow) # {}
         /\ tick' = [tick EXCEPT ![t] = [fires |-> due \cap wakeNow, skips |-> skips,
                                         ahead |-> Ahead \cap (skips \cup due),
                                         old |-> FALSE, job |-> NoJob]]
  /\ UNCHANGED <<storeVars, fire, bootVars, owed, ran, events>>

\* A heartbeat that has nothing left to do is forgotten.
Settled(h) == IF h.fires \cup h.skips = {} /\ h.job = NoJob THEN Idle ELSE h

\* Mutant: a stale job is passed over without a new time.
SkipOnly(t, j) ==
  /\ j \in tick[t].skips /\ tick[t].job = NoJob
  /\ tick' = [tick EXCEPT ![t] = Settled([@ EXCEPT !.skips = tick[t].skips \ {j}])]
  /\ UNCHANGED <<storeVars, fire, bootVars, owed, ran, events>>

Skip(t, j) ==
  /\ j \in tick[t].skips /\ tick[t].job = NoJob
  /\ \E time \in computeNextRunAtMs(j, tick[t].ahead, tick[t].old) : Advance(j, time)
  /\ tick' = [tick EXCEPT ![t] = Settled([@ EXCEPT !.skips = tick[t].skips \ {j}])]
  /\ UNCHANGED <<fire, bootVars, owed, ran, events>>

\* The job of the copy is run, whatever became of it.
RunJob(t, j) ==
  /\ j \in tick[t].fires /\ tick[t].job = NoJob
  /\ tick' = [tick EXCEPT ![t] = [@ EXCEPT !.fires = tick[t].fires \ {j}, !.job = j]]
  /\ ran' = ran \cup ({j} \cap (OneShots \ Ahead))
  /\ UNCHANGED <<storeVars, fire, bootVars, owed, events>>

\* The run had something to deliver, or not, or threw: only in the first case
\* a time is stored when there is no next one.
EndRun(t) ==
  /\ tick[t].job # NoJob
  /\ \E time \in computeNextRunAtMs(tick[t].job, tick[t].ahead, tick[t].old) :
       \/ updateState(tick[t].job, time)
       \/ time = "none" /\ UNCHANGED storeVars
  /\ tick' = [tick EXCEPT ![t] = Settled([@ EXCEPT !.job = NoJob])]
  /\ UNCHANGED <<fire, bootVars, owed, ran, events>>

TickStep(t) == EndRun(t) \/ \E j \in Jobs : Skip(t, j) \/ RunJob(t, j)

-----------------------------------------------------------------------------
(* Users, while the server listens.                                        *)

\* seededNextRunAtMs() of an enabled job.
Seed(j, now) == IF now THEN {"due"} ELSE computeNextRunAtMs(j, Ahead, FALSE)

Touched(j) == owed' = owed \ {j} /\ ran' = ran \ {j}

\* Jobs are made, enabled and changed in their wakeMode through one schedule of
\* their own; another schedule is another job here.
Put(j, from, on, now) ==
  /\ Event
  /\ daemon = "up" /\ status[j] \in from
  /\ status' = [status EXCEPT ![j] = IF on THEN "enabled" ELSE "disabled"]
  /\ wakeNow' = IF now THEN wakeNow \cup {j} ELSE wakeNow \ {j}
  /\ \E time \in IF on THEN Seed(j, now) ELSE {"none"} : next' = [next EXCEPT ![j] = time]
  /\ Touched(j)
  /\ UNCHANGED <<fire, bootVars, tick>>

Create(j) ==
  /\ Cardinality({i \in Jobs : status[i] # "unborn"}) < MaxJobs
  /\ \E on, now \in BOOLEAN : Put(j, {"unborn"}, on, now)

Update(j) == \E on, now \in BOOLEAN : Put(j, Stored, on, now)

Remove(j) ==
  /\ Event
  /\ daemon = "up" /\ status[j] \in Stored
  /\ status' = [status EXCEPT ![j] = "removed"] /\ next' = [next EXCEPT ![j] = "none"]
  /\ wakeNow' = wakeNow \ {j}
  /\ Touched(j)
  /\ UNCHANGED <<fire, bootVars, tick>>

\* The manual trigger makes the job due; a heartbeat follows.
Trigger(j) ==
  /\ Event
  /\ daemon = "up" /\ status[j] \in Stored
  /\ updateState(j, "due")
  /\ Touched(j)
  /\ UNCHANGED <<fire, bootVars, tick>>

-----------------------------------------------------------------------------
(* Time and crashes.                                                       *)

Pass(j, from, to) ==
  \/ /\ next[j] = from /\ next' = [next EXCEPT ![j] = to]
     /\ UNCHANGED fire
  \/ /\ j \in OneShots /\ fire[j] = from /\ fire' = [fire EXCEPT ![j] = to]
     /\ UNCHANGED next

\* The time of a job comes.
Due(j) ==
  /\ Pass(j, "future", "due")
  /\ owed' = owed \ ({j} \ OneShots)
  /\ UNCHANGED <<status, wakeNow, bootVars, tick, ran, events>>

\* A heartbeat runs the job, or has it in its list behind another one that runs.
InHand(j) ==
  \E t \in Ticks : tick[t].job # NoJob /\ j \in tick[t].fires \cup tick[t].skips \cup {tick[t].job}

\* Five minutes more pass before a heartbeat comes to the job: it is in hand, or
\* the daemon was down or the machine asleep.
Late(j) ==
  /\ Pass(j, "due", "stale")
  /\ IF daemon = "up" /\ ~InHand(j) THEN Event ELSE UNCHANGED events
  /\ UNCHANGED <<status, wakeNow, bootVars, tick, owed, ran>>

\* A run lasts as long as a period of the jobs.
Age(t) ==
  /\ tick[t].job # NoJob /\ ~tick[t].old
  /\ tick' = [tick EXCEPT ![t].old = TRUE]
  /\ UNCHANGED <<storeVars, fire, bootVars, owed, ran, events>>

\* The file is written in place: a crash in a write leaves one that does not
\* parse, which is read as no jobs at all.
Crash ==
  /\ Event
  /\ daemon # "down" /\ daemon' = "down"
  /\ expire' = {} /\ reset' = {} /\ tick' = [t \in Ticks |-> Idle]
  /\ \/ UNCHANGED storeVars
     \/ /\ expire \cup reset # {} \/ \E t \in Ticks : tick[t] # Idle
        /\ status' = [j \in Jobs |-> IF status[j] \in Stored THEN "removed" ELSE status[j]]
        /\ next' = [j \in Jobs |-> "none"] /\ wakeNow' = {}
  /\ UNCHANGED <<fire, owed, ran>>

-----------------------------------------------------------------------------
Next ==
  \/ BootStep \/ Crash
  \/ \E j \in Jobs :
       RecoveryFails(j) \/ Create(j) \/ Update(j) \/ Remove(j) \/ Trigger(j) \/ Due(j) \/ Late(j)
  \/ \E t \in Ticks : StartTick(t) \/ TickStep(t) \/ Age(t)

Spec == Init /\ [][Next]_vars

\* The daemon is started again, heartbeats come and runs end (as the agent's
\* turns do), and time passes.
FairSpec ==
  /\ Spec
  /\ WF_vars(BootStep) /\ WF_vars(\E t \in Ticks : StartTick(t))
  /\ \A t \in Ticks : WF_vars(TickStep(t))
  /\ \A j \in Jobs : WF_vars(Due(j))

-----------------------------------------------------------------------------
(* Properties *)

\* No catch-up (DD-13): what was missed while the daemon was down is not run
\* afterwards: a recurring job waits for its next time, a one-shot for a user.
\* Exempt are jobs whose recovery failed or found no next time.
DowntimeIsSkipped ==
  \A j \in owed, t \in Ticks : j \notin tick[t].fires \cup {tick[t].job}

\* Only a user enables a job: heartbeats that end late, and recoveries, do not
\* bring back what was disabled or removed beside them.
OnlyUsersEnable ==
  [][(\E j \in Jobs : status'[j] = "enabled" /\ status[j] # "enabled")
       => \E j \in Jobs : Create(j) \/ Update(j)]_vars

\* A recurring job that stays enabled and whose schedule always has a next time
\* is run again and again, whatever ended late, crashed or was triggered, unless
\* runs of other jobs go on and on: those can hold it back until it is stale each
\* time.
RecurringRuns ==
  \A j \in Jobs \ (OneShots \cup Irregular) :
    <>[](/\ status[j] = "enabled" /\ j \in wakeNow
         /\ \A t \in Ticks : tick[t].job \in {j, NoJob})
      => []<>(\E t \in Ticks : tick[t].job = j)

\* A job that stays disabled or removed is not run any more.
DisabledJobStops ==
  \A j \in Jobs :
    <>[](status[j] # "enabled") => <>[](\A t \in Ticks : tick[t].job # j)

\* "at" is a "one-shot ISO timestamp" (cron/schedule.ts): at its time it is
\* started once, unless a user makes it due again.
OneShotRunsOnce ==
  [][\A t \in Ticks : tick'[t].job # tick[t].job => tick'[t].job \notin ran]_vars
=============================================================================
