--------------------------- MODULE DaemonLifecycle ---------------------------
(***************************************************************************)
(* The daemon of daemon/index.ts in its process: start, signals, shutdown  *)
(* and restart (daemon/restart.ts) over the command lanes, the drain state *)
(* and its own view of the lock file (daemon/gateway-lock.ts).  A process  *)
(* starts the daemon once (server/server.ts, listenUnix) and listens for   *)
(* signals itself once it serves (cli/cmd/serve.ts).                       *)
(*                                                                         *)
(* The only user of the lanes is executeResumeInLane of                    *)
(* session/workflow-runner.ts: a task is one resume, and when its promise  *)
(* is rejected the resume is run directly, beside the lanes.  A resume     *)
(* whose workspace is unknown never reaches the lanes and is left out.     *)
(***************************************************************************)
EXTENDS CommandLanes

VARIABLES
  daemon,    \* daemonState
  at,        \* the await at which start(), shutdown() or restart() stands
  proc,      \* how far the process that runs it has come
  lockFile,  \* whom daemon.lock names: no running process, this one, another
  signals,   \* the daemon's signal handlers are registered
  timedOut,  \* the last wait for the lanes ended by its timeout
  direct     \* tasks whose resume was begun directly as well

lifeVars == <<daemon, at, proc, lockFile, signals, timedOut>>
vars == <<laneVars, drain, lifeVars, direct>>

\* State every variable has its type.
DaemonTypeOK ==
  /\ TypeOK
  /\ daemon \in {"stopped", "starting", "running", "draining", "restarting"}
  /\ at \in {"rest", "lock", "recover", "waitShutdown", "release", "waitRestart", "reacquire"}
  /\ proc \in {"booting", "opening", "serving", "leaving", "exited"}
  /\ lockFile \in {"free", "own", "other"}
  /\ signals \in BOOLEAN
  /\ timedOut \in BOOLEAN
  /\ direct \subseteq Tasks

Init ==
  /\ LanesInit
  /\ daemon = "stopped"
  /\ at = "rest"
  /\ proc = "booting"
  /\ lockFile \in {"free", "other"}
  /\ signals = FALSE
  /\ timedOut = FALSE
  /\ direct = {}

Alive == proc # "exited"

\* The HTTP app, and with it the supervisor, is up.
AppIsUp == proc \in {"opening", "serving", "leaving"}

-----------------------------------------------------------------------------
(* start() *)

Start ==
  /\ proc = "booting" /\ daemon = "stopped"
  /\ daemon' = "starting"
  /\ at' = "lock"
  /\ UNCHANGED <<laneVars, drain, proc, lockFile, signals, timedOut, direct>>

\* acquire() of a file that names no running process; then the signals and the
\* default lanes, which nobody has used yet, are registered.
LockAcquired ==
  /\ Alive /\ at = "lock" /\ lockFile = "free"
  /\ lockFile' = "own"
  /\ signals' = TRUE
  /\ at' = "recover"
  /\ UNCHANGED <<laneVars, drain, daemon, proc, timedOut, direct>>

\* Another process holds the lock, or the file cannot be written: listenUnix
\* throws and the process exits.
LockRefused ==
  /\ Alive /\ at = "lock"
  /\ daemon' = "stopped"
  /\ at' = "rest"
  /\ proc' = "exited"
  /\ UNCHANGED <<laneVars, drain, lockFile, signals, timedOut, direct>>

\* The cron schedules are recovered; listenUnix goes on to create the app.
Started ==
  /\ Alive /\ at = "recover"
  /\ daemon' = "running"
  /\ at' = "rest"
  /\ proc' = "opening"
  /\ UNCHANGED <<laneVars, drain, lockFile, signals, timedOut, direct>>

\* Reading the cron store throws: start() leaves everything as it is.
StartFailed ==
  /\ Alive /\ at = "recover"
  /\ proc' = "exited"
  /\ UNCHANGED <<laneVars, drain, daemon, at, lockFile, signals, timedOut, direct>>

\* waitForShutdownSignal() of the serve command registers its own listener.
Serve ==
  /\ proc = "opening"
  /\ proc' = "serving"
  /\ UNCHANGED <<laneVars, drain, daemon, at, lockFile, signals, timedOut, direct>>

-----------------------------------------------------------------------------
(* shutdown() *)

\* Mutant: the gate stays open while the lanes are waited for.
EnterNoDrain == UNCHANGED drain

EnterDrain == drain' = "draining"

\* Drain.waitFor(isIdle) returns: the poll finds no active task, or gives up.
WaitOver == timedOut' \in {b \in BOOLEAN : b \/ IsIdle}

\* shutdown() up to its first await: ignored unless the daemon is running.
BeginShutdown ==
  IF daemon = "running"
  THEN /\ daemon' = "draining"
       /\ EnterDrain
       /\ at' = "waitShutdown"
  ELSE UNCHANGED <<daemon, drain, at>>

\* SIGTERM or SIGINT.  The daemon's handler is called first, then the listener
\* of the serve command; its server.stop() calls shutdown() again, which finds
\* the daemon not running and returns, and the process goes on to exit.
Terminate ==
  /\ Alive /\ (signals \/ proc = "serving")
  /\ BeginShutdown
  /\ proc' = IF proc = "serving" THEN "leaving" ELSE proc
  /\ UNCHANGED <<laneVars, lockFile, signals, timedOut, direct>>

\* Nobody listens, before the handlers are registered or after they are removed:
\* the signal ends the process.
Killed ==
  /\ Alive /\ ~signals /\ proc # "serving"
  /\ proc' = "exited"
  /\ UNCHANGED <<laneVars, drain, daemon, at, lockFile, signals, timedOut, direct>>

\* Mutants of the wait: the poll's answer is taken for idle whatever it was;
\* there is no deadline.
ShutdownAtOnce ==
  /\ Alive /\ at = "waitShutdown"
  /\ timedOut' = FALSE
  /\ drain' = "drained"
  /\ signals' = FALSE
  /\ at' = "release"
  /\ UNCHANGED <<laneVars, daemon, proc, lockFile, direct>>

ShutdownPatient ==
  /\ Alive /\ at = "waitShutdown"
  /\ IsIdle
  /\ timedOut' = FALSE
  /\ drain' = "drained"
  /\ signals' = FALSE
  /\ at' = "release"
  /\ UNCHANGED <<laneVars, daemon, proc, lockFile, direct>>

ShutdownDrained ==
  /\ Alive /\ at = "waitShutdown"
  /\ WaitOver
  /\ drain' = "drained"
  /\ signals' = FALSE
  /\ at' = "release"
  /\ UNCHANGED <<laneVars, daemon, proc, lockFile, direct>>

\* release() removes the file if it names this process.  A file that cannot be
\* read or removed stays, and shutdown() goes on as if it were gone.
Released ==
  /\ Alive /\ at = "release"
  /\ lockFile' \in IF lockFile = "own" THEN {"free", "own"} ELSE {lockFile}
  /\ daemon' = "stopped"
  /\ at' = "rest"
  /\ UNCHANGED <<laneVars, drain, proc, signals, timedOut, direct>>

\* server.stop() returns and the command with it: process.exit().
Exit ==
  /\ proc = "leaving"
  /\ proc' = "exited"
  /\ UNCHANGED <<laneVars, drain, daemon, at, lockFile, signals, timedOut, direct>>

-----------------------------------------------------------------------------
(* restart() on SIGUSR1 *)

Restart ==
  /\ Alive /\ signals /\ daemon = "running"
  /\ daemon' = "restarting"
  /\ EnterDrain
  /\ at' = "waitRestart"
  /\ UNCHANGED <<laneVars, proc, lockFile, signals, timedOut, direct>>

\* execute(): drained or not, the respawn falls back to inProcessRestart().
RestartDrained ==
  /\ Alive /\ at = "waitRestart"
  /\ WaitOver
  /\ drain' = "drained"
  /\ ResetAll
  /\ at' = "reacquire"
  /\ UNCHANGED <<daemon, proc, lockFile, signals, direct>>

\* Mutant: the drain is not reset.
ReacquiredDrained ==
  /\ Alive /\ at = "reacquire" /\ lockFile # "other"
  /\ lockFile' = "own"
  /\ daemon' = "running"
  /\ at' = "rest"
  /\ UNCHANGED <<laneVars, drain, proc, signals, timedOut, direct>>

\* acquire() again: it succeeds only when the file cannot be read, for it names
\* this running process.  register() replaces lanes that the reset has emptied.
Reacquired ==
  /\ Alive /\ at = "reacquire" /\ lockFile # "other"
  /\ lockFile' = "own"
  /\ drain' = "idle"
  /\ daemon' = "running"
  /\ at' = "rest"
  /\ UNCHANGED <<laneVars, proc, signals, timedOut, direct>>

\* The file names a running process, this one included, or cannot be written.
\* restart() then calls shutdown(), which returns: the daemon is not running.
ReacquireFailed ==
  /\ Alive /\ at = "reacquire"
  /\ at' = "rest"
  /\ UNCHANGED <<laneVars, drain, daemon, proc, lockFile, signals, timedOut, direct>>

-----------------------------------------------------------------------------
(* Resumes, and other processes *)

\* The supervisor offers a resume to its lane, or a resume in a lane ends.
Resume ==
  /\ AppIsUp
  /\ LaneStep
  /\ UNCHANGED <<lifeVars, direct>>

\* The catch of executeResumeInLane: whatever the error was, run it directly.
Fallback(t) ==
  /\ Alive /\ phase[t] = "rejected" /\ t \notin direct
  /\ direct' = direct \cup {t}
  /\ UNCHANGED <<laneVars, drain, lifeVars>>

\* Another process takes the lock or ends.
OtherProcess ==
  /\ Alive /\ lockFile # "own"
  /\ lockFile' = IF lockFile = "free" THEN "other" ELSE "free"
  /\ UNCHANGED <<laneVars, drain, daemon, at, proc, signals, timedOut, direct>>

\* What the process does by itself, once begun.
Handler ==
  \/ LockAcquired \/ LockRefused \/ Started \/ StartFailed \/ Serve
  \/ ShutdownDrained \/ Released \/ Exit
  \/ RestartDrained \/ Reacquired \/ ReacquireFailed

Next ==
  \/ Start
  \/ Handler
  \/ Terminate \/ Killed
  \/ Restart
  \/ Resume
  \/ \E t \in Tasks : Fallback(t)
  \/ OtherProcess

Spec == Init /\ [][Next]_vars

\* Every await of the daemon has a deadline or is one file operation.
FairSpec == Spec /\ WF_vars(Handler)

\* A resume that runs in a lane ends.
ResumesEnd ==
  \A t \in Tasks :
    WF_vars(AppIsUp /\ (\E o \in Settled : Complete(t, o)) /\ UNCHANGED <<lifeVars, direct>>)

-----------------------------------------------------------------------------
(* Properties *)

\* A daemon that calls itself running has its lock, hears its signals and lets
\* work in.
RunningIsOperational ==
  daemon = "running" => drain = "idle" /\ signals /\ lockFile = "own"

\* A drain that did not time out left nothing in the lanes when the lock is
\* given up or the lanes are registered anew.
DrainedIsQuiet ==
  at \in {"release", "reacquire"} /\ ~timedOut =>
    \A t \in Tasks : phase[t] # "queued" /\ (phase[t] = "running" => t \in stale)

\* While the daemon drains or restarts nothing new enters a lane: what its
\* wait is for can only become less.
GateIsClosed ==
  [][\A t \in Tasks :
       daemon \in {"draining", "restarting"} /\ daemon' = daemon /\ phase[t] = "new"
         => phase'[t] \in {"new", "rejected"}]_vars

\* What a task is to whoever offered it.
ServiceState ==
  [t \in Tasks |->
     IF phase[t] = "queued" THEN "waiting"
     ELSE IF phase[t] = "running" /\ t \in stale THEN "forgotten" ELSE phase[t]]

Service == INSTANCE LaneService
  WITH state <- ServiceState, line <- queue, open <- (drain = "idle")

\* Through every drain, reset, restart and shutdown of the daemon the lanes keep
\* what they promise: first come first served, one starts when one ends, nothing
\* enters a drain, and the gate is opened again only over empty lanes.
ImplementsService == Service!Spec

\* A shutdown is completed, however long the resumes take, unless the process
\* is gone first.
ShutdownCompletes == at = "waitShutdown" ~> daemon = "stopped" \/ proc = "exited"

\* If resumes end, a queued one is answered through every drain, reset and
\* restart.
EveryEntrySettles ==
  ResumesEnd => \A t \in Tasks : phase[t] = "queued" ~> phase[t] \in Settled \/ proc = "exited"

\* What the source says and the code does not do.

\* daemon/index.ts on restart(): "Restart: drain, reset lanes, reacquire lock",
\* and on failure "restart failed - shutting down": it ends running or stopped.
RestartReturns == daemon = "restarting" ~> daemon # "restarting" \/ proc = "exited"
=============================================================================
