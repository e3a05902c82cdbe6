---------------------------- MODULE TaskDispatch ----------------------------
(***************************************************************************)
(* The task tool and its pool of worker processes (tool/task.ts), with the *)
(* worker process itself (cli/cmd/session.ts) at the other end of two      *)
(* pipes.  A job is one call of the tool with its child session; all jobs  *)
(* have the same parent session.  The steps of the tool end at its awaits. *)
(* A deadline may pass at any moment.                                      *)
(***************************************************************************)
EXTENDS Naturals, Sequences, FiniteSets

CONSTANTS
  Jobs, Workers,
  NoJob, NoWorker,
  PoolMax,         \* WORKER_POOL_MAX
  MaxEvents        \* bound: cancels, aborts, deaths, stalls and silent kills

ASSUME IdsDiffer == NoJob \notin Jobs /\ NoWorker \notin Workers
ASSUME PoolMaxAssumption == PoolMax \in Nat \ {0}
ASSUME MaxEventsAssumption == MaxEvents \in Nat

VARIABLES
  at,        \* where the call of the job stands
  assigned,  \* job -> assignedWorkerID
  settled,   \* jobs whose promise "done" is resolved or rejected
  aborted,   \* jobs whose call was aborted
  child,     \* SessionActiveChild of the parent: a job, or none
  holder,    \* the job that holds WORKER_ASSIGN_LOCK
  awaited,   \* the worker that the holder waits for
  standby,   \* the worker that standbySpawn waits for
  pool,      \* the array workers
  busy, ready, current,  \* fields of a worker
  proc,      \* the process: "none", "booting", "up", "stalled", "leaving", "dead"
  activeRun, \* the run of the process
  stdin, stdout,         \* the pipes of the process
  disk,      \* jobs whose child session has a terminal finish on disk
  events     \* bound

callVars == <<at, assigned, aborted>>
poolVars == <<pool, busy, ready, current>>
assignVars == <<holder, awaited, standby>>
procVars == <<proc, activeRun, stdin, stdout, disk>>
vars == <<callVars, settled, child, assignVars, poolVars, procVars, events>>

CallSteps == {"new", "checked", "awaitIdle", "awaitFreed", "awaitSpawned",
              "publishing", "watching", "killing", "ended", "reported", "thrown"}
Messages == [kind : {"ready", "run", "cancel", "canceled", "done", "refused"}, job : Jobs \cup {NoJob}]

\* State every variable has its type.
TypeOK ==
  /\ at \in [Jobs -> CallSteps]
  /\ assigned \in [Jobs -> Workers \cup {NoWorker}]
  /\ settled \subseteq Jobs /\ aborted \subseteq Jobs /\ disk \subseteq Jobs
  /\ {child, holder} \subseteq Jobs \cup {NoJob}
  /\ {awaited, standby} \subseteq Workers \cup {NoWorker}
  /\ pool \subseteq Workers /\ busy \subseteq Workers /\ ready \subseteq Workers
  /\ current \in [Workers -> Jobs \cup {NoJob}]
  /\ proc \in [Workers -> {"none", "booting", "up", "stalled", "leaving", "dead"}]
  /\ activeRun \in [Workers -> Jobs \cup {NoJob}]
  /\ stdin \in [Workers -> Seq(Messages)] /\ stdout \in [Workers -> Seq(Messages)]
  /\ events \in 0 .. MaxEvents

Init ==
  /\ at = [j \in Jobs |-> "new"] /\ assigned = [j \in Jobs |-> NoWorker]
  /\ settled = {} /\ aborted = {} /\ child = NoJob
  /\ holder = NoJob /\ awaited = NoWorker /\ standby = NoWorker
  /\ pool = {} /\ busy = {} /\ ready = {} /\ current = [w \in Workers |-> NoJob]
  /\ proc = [w \in Workers |-> "none"] /\ activeRun = [w \in Workers |-> NoJob]
  /\ stdin = [w \in Workers |-> <<>>] /\ stdout = [w \in Workers |-> <<>>]
  /\ disk = {} /\ events = 0

Goto(j, from, to) == at[j] = from /\ at' = [at EXCEPT ![j] = to]

Event == events < MaxEvents /\ events' = events + 1

-----------------------------------------------------------------------------
(* The pool.                                                               *)

Alive(w) == proc[w] \in {"booting", "up", "stalled", "leaving"}

IdleReady == {w \in pool : w \notin busy /\ w \in ready}

\* An identity that no process and no call uses.
Unused ==
  {w \in Workers \ {awaited, standby} :
     proc[w] = "none" /\ \A j \in Jobs : assigned[j] = w => at[j] \in {"reported", "thrown"}}

Write(w, kind, j) == stdin' = [stdin EXCEPT ![w] = Append(@, [kind |-> kind, job |-> j])]

\* proc.kill(): SIGTERM, which the process handles by leaving.
Kill(w) == proc' = [proc EXCEPT ![w] = IF Alive(w) THEN "leaving" ELSE @]

spawnWorker(w) ==
  /\ w = CHOOSE u \in Unused : TRUE
  /\ pool' = pool \cup {w}
  /\ proc' = [proc EXCEPT ![w] = "booting"]

\* ensureStandbyWorker(), given the pool as its caller leaves it: whether it
\* spawns a worker.
StandbyIsDue(members, working) ==
  /\ \A w \in members : w \in working \/ w \notin ready
  /\ Cardinality(members) < PoolMax
  /\ standby = NoWorker

ensureStandbyWorker(working) ==
  IF StandbyIsDue(pool, working)
  THEN Unused # {} /\ \E w \in Unused : spawnWorker(w) /\ standby' = w
  ELSE UNCHANGED <<pool, proc, standby>>

\* The standby worker was ready in time, or is killed and removed.
StandbyEnds ==
  /\ standby # NoWorker
  /\ standby' = NoWorker
  /\ IF standby \in ready THEN UNCHANGED <<pool, proc>>
     ELSE pool' = pool \ {standby} /\ Kill(standby)
  /\ UNCHANGED <<callVars, settled, child, holder, awaited, busy, ready, current,
                 activeRun, stdin, stdout, disk, events>>

\* The call that awaits a worker runs as soon as the worker is ready.
NotAwaited(w) == ~(awaited = w /\ w \in ready)

killIdleWorker(w) ==
  /\ Event
  /\ w \in IdleReady /\ NotAwaited(w)
  /\ pool' = pool \ {w}
  /\ Kill(w)
  /\ UNCHANGED <<callVars, settled, child, assignVars, busy, ready, current,
                 activeRun, stdin, stdout, disk>>

-----------------------------------------------------------------------------
(* One call of the tool, up to the dispatch.                               *)

isLive(j) == assigned[j] \in pool /\ current[assigned[j]] = j

\* assertNoAuthoritativeActiveChild(): throws, or clears what is stale.
Check(j) ==
  /\ IF child # NoJob /\ isLive(child)
     THEN Goto(j, "new", "thrown") /\ UNCHANGED child
     ELSE Goto(j, "new", "checked") /\ child' = NoJob
  /\ UNCHANGED <<assigned, aborted, settled, assignVars, poolVars, procVars, events>>

Throw(j, from) ==
  /\ Goto(j, from, "thrown")
  /\ aborted' = aborted \ {j}
  /\ UNCHANGED <<assigned, settled, child>>

\* Permission is denied, or something else is wrong with the request.
Deny(j) ==
  /\ Throw(j, "checked")
  /\ UNCHANGED <<assignVars, poolVars, procVars, events>>

AbortedBefore(j) ==
  /\ j \in aborted /\ holder = NoJob
  /\ Throw(j, "checked")
  /\ UNCHANGED <<assignVars, poolVars, procVars, events>>

Release == holder' = NoJob /\ awaited' = NoWorker

\* Mutant: the worker is not marked busy under the lock.
AssignUnmarked(j, from, w) ==
  /\ Release
  /\ IF j \in aborted
     THEN Throw(j, from) /\ UNCHANGED <<poolVars, procVars, standby>>
     ELSE /\ Goto(j, from, "publishing")
          /\ assigned' = [assigned EXCEPT ![j] = w]
          /\ child' = j
          /\ current' = [current EXCEPT ![w] = j]
          /\ Write(w, "run", j)
          /\ ensureStandbyWorker(busy)
          /\ UNCHANGED <<aborted, settled, busy, ready, activeRun, stdout, disk>>
  /\ UNCHANGED events

\* assignWorker() returns w, and the code after it runs up to the publication.
Assign(j, from, w) ==
  /\ Release
  /\ IF j \in aborted
     THEN Throw(j, from) /\ UNCHANGED <<poolVars, procVars, standby>>
     ELSE /\ Goto(j, from, "publishing")
          /\ assigned' = [assigned EXCEPT ![j] = w]
          /\ child' = j
          /\ busy' = busy \cup {w}
          /\ current' = [current EXCEPT ![w] = j]
          /\ Write(w, "run", j)
          /\ ensureStandbyWorker(busy \cup {w})
          /\ UNCHANGED <<aborted, settled, ready, activeRun, stdout, disk>>
  /\ UNCHANGED events

Waiting(j, from, to, w) ==
  /\ Goto(j, from, to)
  /\ holder' = j
  /\ awaited' = w
  /\ UNCHANGED <<assigned, aborted, settled, child, standby, busy, ready, current,
                 activeRun, stdin, stdout, disk, events>>

SpawnFor(j, from) == \E w \in Unused : spawnWorker(w) /\ Waiting(j, from, "awaitSpawned", w)

\* At the cap the call waits if a busy worker has a request, else it spawns.
Spawn(j, from) ==
  IF Cardinality(pool) >= PoolMax /\ \E w \in pool \cap busy : current[w] # NoJob
  THEN Waiting(j, from, "awaitFreed", NoWorker) /\ UNCHANGED <<pool, proc>>
  ELSE SpawnFor(j, from)

\* assignWorker() and getReadyWorker(): an idle worker that is ready, or one
\* that may become so, or a new one.
GetReady(j) ==
  /\ holder = NoJob /\ j \notin aborted
  /\ \/ \E w \in IdleReady : Assign(j, "checked", w)
     \/ /\ IdleReady = {}
        /\ IF pool \subseteq busy THEN Spawn(j, "checked")
           ELSE /\ \E w \in pool \ busy : Waiting(j, "checked", "awaitIdle", w)
                /\ UNCHANGED <<pool, proc>>

IdleAwaited(j) ==
  IF awaited \in ready THEN Assign(j, "awaitIdle", awaited) ELSE Spawn(j, "awaitIdle")

\* A worker was freed, or the wait has timed out.
FreedAwaited(j) ==
  IF IdleReady # {} THEN \E w \in IdleReady : Assign(j, "awaitFreed", w)
  ELSE SpawnFor(j, "awaitFreed")

SpawnedAwaited(j) ==
  IF awaited \in ready THEN Assign(j, "awaitSpawned", awaited)
  ELSE Throw(j, "awaitSpawned") /\ Release /\ UNCHANGED <<standby, poolVars, procVars, events>>

\* Bus.publish(Assigned) has returned.  A worker that has no request any more
\* makes the code after it throw.
Published(j) ==
  /\ at[j] = "publishing"
  /\ IF current[assigned[j]] = NoJob
     THEN Goto(j, "publishing", "thrown") /\ child' = NoJob
     ELSE Goto(j, "publishing", "watching") /\ UNCHANGED child
  /\ aborted' = aborted \ {j}
  /\ UNCHANGED <<assigned, settled, assignVars, poolVars, procVars, events>>

-----------------------------------------------------------------------------
(* The detached end of a job.                                              *)

\* Mutant: the active child stays.
OutcomeKeepsChild(j, to) ==
  /\ Goto(j, "watching", to)
  /\ UNCHANGED <<assigned, aborted, settled, child, assignVars, poolVars, procVars>>

\* The race is decided: the timer is cleared and the active child with it.
Outcome(j, to) ==
  /\ Goto(j, "watching", to)
  /\ child' = NoJob
  /\ UNCHANGED <<assigned, aborted, settled, assignVars, poolVars, procVars>>

DoneSettled(j) == j \in settled /\ Outcome(j, "ended") /\ UNCHANGED events

\* A tick of the watchdog: a terminal finish on disk, or a worker of the pool
\* whose process has exited or was killed, ...
WatchdogDisk(j) == j \notin settled /\ j \in disk /\ Outcome(j, "killing") /\ UNCHANGED events

WatchdogDead(j) ==
  /\ at[j] = "watching" /\ j \notin settled /\ j \notin disk
  /\ assigned[j] \in pool /\ proc[assigned[j]] \in {"leaving", "dead"}
  /\ Outcome(j, "ended")
  /\ UNCHANGED events

\* ... or one that has been silent: its run is stalled, or only slow.
WatchdogSilent(j) ==
  /\ at[j] = "watching" /\ j \notin settled /\ j \notin disk
  /\ assigned[j] \in pool
  /\ IF proc[assigned[j]] = "stalled" THEN UNCHANGED events
     ELSE proc[assigned[j]] = "up" /\ Event
  /\ Outcome(j, "killing")

\* The worker is killed if the watchdog has found it stuck; the completion is
\* published.
Report(j) ==
  /\ \/ Goto(j, "ended", "reported") /\ UNCHANGED proc
     \/ /\ Goto(j, "killing", "reported")
        /\ IF assigned[j] \in pool THEN Kill(assigned[j]) ELSE UNCHANGED proc
  /\ disk' = disk \ {j}
  /\ UNCHANGED <<assigned, aborted, settled, child, assignVars, poolVars,
                 activeRun, stdin, stdout, events>>

CallStep(j) ==
  \/ Check(j) \/ GetReady(j) \/ IdleAwaited(j) \/ FreedAwaited(j) \/ SpawnedAwaited(j)
  \/ AbortedBefore(j) \/ Published(j) \/ DoneSettled(j) \/ WatchdogDisk(j) \/ WatchdogDead(j)
  \/ Report(j)

-----------------------------------------------------------------------------
(* The reader of a worker's standard output.                               *)

Receive(w, kind) ==
  /\ stdout[w] # <<>> /\ Head(stdout[w]).kind = kind
  /\ stdout' = [stdout EXCEPT ![w] = Tail(@)]

ReceiveReady(w) ==
  /\ Receive(w, "ready")
  /\ ready' = ready \cup {w}
  /\ UNCHANGED <<callVars, settled, child, assignVars, pool, busy, current,
                 proc, activeRun, stdin, disk, events>>

\* "done", "canceled" and "worker_busy" free the worker if they name its job.
ReceiveEnd(w) ==
  /\ \E kind \in {"done", "canceled", "refused"} : Receive(w, kind)
  /\ IF current[w] = Head(stdout[w]).job
     THEN /\ current' = [current EXCEPT ![w] = NoJob]
          /\ busy' = busy \ {w}
          /\ settled' = settled \cup {current[w]}
          /\ ensureStandbyWorker(busy \ {w})
     ELSE UNCHANGED <<current, busy, settled, pool, proc, standby>>
  /\ UNCHANGED <<callVars, child, holder, awaited, ready, activeRun, stdin, disk, events>>

\* Mutant: the request of a worker that exits is not rejected.
ReceiveEOFSilent(w) ==
  /\ proc[w] \in {"leaving", "dead"} /\ stdout[w] = <<>> /\ NotAwaited(w)
  /\ current' = [current EXCEPT ![w] = NoJob]
  /\ busy' = busy \ {w} /\ pool' = pool \ {w} /\ ready' = ready \ {w}
  /\ proc' = [proc EXCEPT ![w] = "none"]
  /\ stdin' = [stdin EXCEPT ![w] = <<>>] /\ activeRun' = [activeRun EXCEPT ![w] = NoJob]
  /\ UNCHANGED <<callVars, settled, child, assignVars, stdout, disk, events>>

\* Mutant: the request of a worker that exits stays with it.
ReceiveEOFKeeps(w) ==
  /\ proc[w] \in {"leaving", "dead"} /\ stdout[w] = <<>> /\ NotAwaited(w)
  /\ settled' = settled \cup ({current[w]} \ {NoJob})
  /\ busy' = busy \ {w} /\ pool' = pool \ {w} /\ ready' = ready \ {w}
  /\ proc' = [proc EXCEPT ![w] = "none"]
  /\ stdin' = [stdin EXCEPT ![w] = <<>>] /\ activeRun' = [activeRun EXCEPT ![w] = NoJob]
  /\ UNCHANGED <<callVars, child, assignVars, current, stdout, disk, events>>

\* The process is gone and its output has ended: the worker leaves the pool, its
\* job has failed.
ReceiveEOF(w) ==
  /\ proc[w] \in {"leaving", "dead"} /\ stdout[w] = <<>> /\ NotAwaited(w)
  /\ settled' = settled \cup ({current[w]} \ {NoJob})
  /\ current' = [current EXCEPT ![w] = NoJob]
  /\ busy' = busy \ {w} /\ pool' = pool \ {w} /\ ready' = ready \ {w}
  /\ proc' = [proc EXCEPT ![w] = "none"]
  /\ stdin' = [stdin EXCEPT ![w] = <<>>] /\ activeRun' = [activeRun EXCEPT ![w] = NoJob]
  /\ UNCHANGED <<callVars, child, assignVars, stdout, disk, events>>

ReadOutput(w) == ReceiveReady(w) \/ ReceiveEnd(w) \/ ReceiveEOF(w)

-----------------------------------------------------------------------------
(* The worker process.                                                     *)

Send(w, kind, j) == stdout' = [stdout EXCEPT ![w] = Append(@, [kind |-> kind, job |-> j])]

Boot(w) ==
  /\ proc[w] = "booting"
  /\ proc' = [proc EXCEPT ![w] = "up"]
  /\ Send(w, "ready", NoJob)
  /\ UNCHANGED <<callVars, settled, child, assignVars, poolVars, activeRun, stdin, disk, events>>

\* A run begins only if there is none; a cancel is answered at once, while the
\* run that it aborts goes on to its end.
ReadInput(w) ==
  /\ proc[w] \in {"up", "stalled", "leaving"}
  /\ stdin[w] # <<>>
  /\ stdin' = [stdin EXCEPT ![w] = Tail(@)]
  /\ LET msg == Head(stdin[w]) IN
     IF msg.kind = "cancel" THEN Send(w, "canceled", msg.job) /\ UNCHANGED activeRun
     ELSE IF activeRun[w] # NoJob THEN Send(w, "refused", msg.job) /\ UNCHANGED activeRun
     ELSE activeRun' = [activeRun EXCEPT ![w] = msg.job] /\ UNCHANGED stdout
  /\ UNCHANGED <<callVars, settled, child, assignVars, poolVars, proc, disk, events>>

\* The last assistant message is written with a terminal finish ...
WriteFinish(w) ==
  /\ proc[w] \in {"up", "leaving"} /\ activeRun[w] # NoJob
  /\ activeRun[w] \notin disk /\ at[activeRun[w]] \in {"publishing", "watching"}
  /\ disk' = disk \cup {activeRun[w]}
  /\ UNCHANGED <<callVars, settled, child, assignVars, poolVars, proc, activeRun, stdin, stdout, events>>

\* ... and the run ends, or it throws.
RunEnds(w) ==
  /\ proc[w] \in {"up", "leaving"} /\ activeRun[w] # NoJob
  /\ Send(w, "done", activeRun[w])
  /\ activeRun' = [activeRun EXCEPT ![w] = NoJob]
  /\ UNCHANGED <<callVars, settled, child, assignVars, poolVars, proc, stdin, disk, events>>

ProcessStep(w) == ReadInput(w) \/ RunEnds(w)

\* A process dies of itself, or its run waits for something that never comes.
Dies(w) ==
  /\ Event
  /\ Alive(w)
  /\ proc' = [proc EXCEPT ![w] = "dead"]
  /\ UNCHANGED <<callVars, settled, child, assignVars, poolVars, activeRun, stdin, stdout, disk>>

Stalls(w) ==
  /\ Event
  /\ proc[w] = "up" /\ activeRun[w] # NoJob
  /\ proc' = [proc EXCEPT ![w] = "stalled"]
  /\ UNCHANGED <<callVars, settled, child, assignVars, poolVars, activeRun, stdin, stdout, disk>>

-----------------------------------------------------------------------------
(* Aborts and cancels.                                                     *)

\* The call is aborted before its worker is assigned, or while it waits for the
\* publication: then the worker is told.
Abort(j) ==
  /\ Event
  /\ j \notin aborted /\ aborted' = aborted \cup {j}
  /\ \/ at[j] \in {"checked", "awaitIdle", "awaitFreed", "awaitSpawned"} /\ UNCHANGED stdin
     \/ at[j] = "publishing" /\ Write(assigned[j], "cancel", j)
  /\ UNCHANGED <<at, assigned, settled, child, assignVars, poolVars, proc, activeRun, stdout, disk>>

\* cancel_task.
cancelByJobId(j) ==
  /\ Event
  /\ \E w \in pool : current[w] = j /\ Write(w, "cancel", j)
  /\ UNCHANGED <<callVars, settled, child, assignVars, poolVars, proc, activeRun, stdout, disk>>

\* The abort of the parent session.
terminateActiveChild ==
  /\ Event
  /\ child # NoJob /\ child' = NoJob
  /\ LET w == assigned[child] IN
     IF w \notin pool THEN UNCHANGED <<stdin, proc>>
     ELSE IF current[w] # NoJob THEN Write(w, "cancel", child) /\ UNCHANGED proc
     ELSE Kill(w) /\ UNCHANGED stdin
  /\ UNCHANGED <<callVars, settled, assignVars, poolVars, activeRun, stdout, disk>>

\* Abort-all.
terminateAllActiveWorkers ==
  /\ Event
  /\ LET working == {w \in pool : current[w] # NoJob} IN
     /\ working # {}
     /\ stdin' = [w \in Workers |->
                    IF w \in working THEN Append(stdin[w], [kind |-> "cancel", job |-> current[w]])
                    ELSE stdin[w]]
  /\ child' = NoJob
  /\ UNCHANGED <<callVars, settled, assignVars, poolVars, proc, activeRun, stdout, disk>>

-----------------------------------------------------------------------------
Next ==
  \/ \E j \in Jobs : \/ CallStep(j) \/ Deny(j) \/ WatchdogSilent(j) \/ Abort(j) \/ cancelByJobId(j)
  \/ \E w \in Workers : \/ ReadOutput(w) \/ ProcessStep(w) \/ Boot(w) \/ WriteFinish(w)
                         \/ Dies(w) \/ Stalls(w) \/ killIdleWorker(w)
  \/ StandbyEnds \/ terminateActiveChild \/ terminateAllActiveWorkers

Spec == Init /\ [][Next]_vars

\* What is due happens: code goes on, pipes are read, deadlines pass, a run that
\* is not stalled ends.  A stalled run is silent.
Due ==
  \/ StandbyEnds
  \/ \E j \in Jobs : CallStep(j) \/ (WatchdogSilent(j) /\ events' = events)
  \/ \E w \in Workers : ReadOutput(w) \/ ProcessStep(w)

FairSpec == Spec /\ WF_vars(Due)

-----------------------------------------------------------------------------
(* Properties *)

\* A busy worker has a job whose call waits for it, and no job has two: the
\* pool does not leak a worker, and no completion can be lost.
WorkersAreAccounted ==
  \A w \in Workers :
    /\ w \in busy <=> current[w] # NoJob
    /\ current[w] # NoJob =>
         /\ assigned[current[w]] = w /\ current[w] \notin settled
         /\ at[current[w]] \in {"publishing", "watching", "killing", "ended", "reported"}

\* A run command meets a run in the worker only if that one was canceled: the
\* assignment under its lock gives no worker to two jobs.
RefusalMeansCancel ==
  \A w \in Workers : \A i \in DOMAIN stdin[w] :
    stdin[w][i].kind = "run" /\ activeRun[w] # NoJob /\ proc[w] # "dead" =>
      activeRun[w] \in settled

\* What is shown as the active child is a job that has not ended.
ShownChildIsLive == child # NoJob => at[child] \in {"publishing", "watching"}

\* Dispatched jobs are all answered in the end, the call throws or the completion
\* is published, and their workers given back, whether the worker ends, dies,
\* stalls or refuses.
JobsAreAnswered == <>[](/\ busy = {}
                        /\ \A j \in Jobs : at[j] \notin {"publishing", "watching", "killing", "ended"})
=============================================================================
