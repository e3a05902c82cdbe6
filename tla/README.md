# A TLA+ model of the OpenCode daemon

OpenCode CMS runs AI coding sessions for one user in a long-lived daemon process (TypeScript on
Bun). This directory models the part of it that decides who may act when: the locks, the run slot
of a session, the queue and the supervisor that resume a session nobody watches, the subagents and
their worker processes, the kill-switch, scheduled jobs, the command lanes, the daemon's life and
its lock file. The modules are checked with TLC on small instances; safety properties are proved
with TLAPS for every value of the constants.

`P/` stands for `src/packages/opencode/src/`. JavaScript runs one turn at a time, so the code
between two `await`s is one atomic step of the models, and every `await` is a place where all
other actors may step. Processes share only files and pipes; there each operation is a step.

## 1. Inventory

In bold what is modelled, at least in part.

| Component | State it keeps | Operations | Interacts with |
|---|---|---|---|
| **Readers/writer lock** `P/util/lock.ts` | table key → {readers, writer, two queues} | `read`, `write`, disposal, `process` | storage, cron store and run log, supervisor, worker assignment, package installs |
| **Session prompt runtime** `P/session/prompt-runtime.ts` with `prompt.ts`, `processor.ts`, `status.ts`, `bus/subscribers/subagent-busy-indicator.ts`, `project/state.ts` | per session: the running entry, its abort signal, its `slotWaiters`; the status; the attached subagent | `start`, `waitForSlot`, `cancel`, `finish`; status updates by the loop, the processor and the bus subscriber; disposal of the instance | task tool (attaches subagents), kill-switch and routes (cancel), supervisor (starts loops) |
| **Autonomous run queue** `P/session/queue.ts`, `lane-policy.ts`, `trigger.ts` | one file per entry in lane directories and a legacy key | enqueue, peek, remove, list, drop | supervisor, return path of subagents |
| **Workflow supervisor** `P/session/workflow-runner.ts` | in-flight map, failure counters and leases in the session record | timer tick, resume selection, back-off, resume in a lane | run queue, lanes, prompt runtime, kill-switch |
| **Return path of subagents** `P/bus/subscribers/pending-notice-appender.ts` | pending notices in the parent session | append notice, enqueue, message | run queue |
| **Subagent task tool and worker pool** `P/tool/task.ts`, `cli/cmd/session.ts` | pool of worker processes, their pipes and runs, active child, registry file of running tasks | dispatch, assignment, completion, watchdog, abort, orphan recovery | prompt runtime, bus subscribers |
| **Kill-switch** `P/server/killswitch/service.ts`, `server/routes/killswitch.ts` | active state, cooldown and idempotency keys, second factor | trigger, control messages, cancel, expiry, gate | supervisor, prompt runtime |
| **Cron** `P/cron/`, `scheduler/` | job store, next times, timers | heartbeat, recovery, trigger, edit | storage under the lock |
| **Permission requests** `P/permission/next.ts` and questions `P/question/` | pending requests with resolvers | ask, reply, abort, disposal | prompt runtime |
| **Command lanes** `P/daemon/lanes.ts` | per workspace and lane: queue, active ids, generation, limit | `enqueue`, `pump`, `executeEntry`, `resetAll`, `isIdle` | drain state (gate), workflow runner (only user) |
| **Daemon lifecycle** `P/daemon/index.ts`, `drain.ts`, `restart.ts`, `signals.ts`, `server/server.ts`, `cli/cmd/serve.ts` | daemon state, drain state, registered signals, how far the process is | `start`, `shutdown`, `restart`, SIGTERM, SIGINT, SIGUSR1, exit | lanes, lock file |
| **Daemon lock file** `P/daemon/gateway-lock.ts` | `daemon.lock` with a process id | `acquire`, `release` | other processes of the same user |
| Account rotation `P/account/rotation3d.ts`, `rotation/` | cooldowns and health in a shared file | select, back-off, coalesce | every model call, several processes |
| Storage `P/storage/storage.ts` | JSON records, migration mark | read, update, write, migrate | the lock |
| Discovery and spawning `P/server/daemon.ts`, `server/user-daemon/` | pid, socket and discovery files | check, write, remove, spawn | lock file, clients |

What is hard in this code and where: one writer per session although prompts, supervisor,
shell commands, cancels and disposals come in any order (prompt runtime); a completion that
arrives while the run it is for stops, drains its queue or is replaced (supervisor); calls
whose worker process dies, stalls or answers late (task tool); runs that slip through a gate
which was read before the switch was set (kill-switch); heartbeats that overlap and hold old
copies of the jobs (cron); promises and entries that must not be lost when a lane is reset or
drained; two signal listeners in one process; files that several processes read, then write.
`PROJECT.json` lists these hazards line by line, each with the properties that watch it or the
reason why none does.

What makes each component correct:

- the lock excludes, wakes everyone and cleans up, and its callers see nothing but that;
- a session has one run that has not been told to stop, nobody waits for a run that is gone,
  and its status does not stick; a run that waits for the user ends once it is answered;
- a session is resumed once at a time and not before its back-off is over; a completion is not
  lost, and its queue entry is taken in the end;
- a worker has one job and the pool knows which; every dispatched call is answered and its
  worker given back, whatever becomes of the process;
- an answered kill request has stopped what it found in its instance; nothing begins behind the
  switch; the switch does not stay for ever;
- a job missed during a downtime is neither run late nor lost, if it has a next time; no
  heartbeat brings a job back that a user disabled; an enabled recurring job goes on;
- a lane keeps its limit, loses no entry and misses no pump; a running daemon holds its lock
  and lets work in, a drained one is quiet, a shutdown completes;
- one daemon has the lock file, and a crash does not block the next one.

## 2. The modules and the code

**RWLock** — `locks` is the table; `readers`, `writer`, `waitingReaders`, `waitingWriters` are
the fields of each lock object; `pc`, `key`, `ref` say of each `using` scope where it stands,
its key and the object its closure captured. The table entry and the object are separate,
because `process()` looks the key up again while the disposal decrements its captured object.
`ReadNow/ReadLater/WriteNow/WriteLater` are the branches of `read()` and `write()`;
`DisposeRead/DisposeWrite` are the disposals with the branches of `process()` inside. An object
that nobody can reach may be taken again: garbage collection and allocation.

**KeyedLock** — what the lock promises, without table, objects, counters and queues: whoever
asks is granted the key or waits; the last holder hands it to one waiting writer, else to all
waiting readers. `RWLock!Abs` maps `pc` and `key` to it and `ImplementsKeyedLock` is the claim.

**PromptRuntime** — one session. A caller is one call of `prompt()`, `loop()` or `shell()` and
stands for its runID. `entry`, `slotWaiters`, `aborted` are the `RuntimeEntry`; `status` the
`SessionStatus`; `child` whether `SessionActiveChild` has a subagent; `pc`, `target`, `waits`
the caller's place in `prompt()` and `runLoop()`, the run it decided to interrupt and its rounds
of waiting; `ready` the woken callers in the order their promises were resolved, which is the
order in which they run. `Arrive` stores the message and decides; `Enter` and `Retry` are the
loop around `start()` and `waitForRuntimeSlot()` with the forced replacement after the third
round; `LoopHead`, `Stream…`, `Continue`, `Exit` are the turns of the run loop and the
processor as far as they write the status or look at the signal; `Ask` is the question before a
tool call is repeated a third time (`processor.ts` 899–924), which the run waits for without
looking at its signal, and `Reply` the user's answer, which may settle several requests at
once; `Finish` is `finish()` with its three branches; `Cancel`, `ChildSet`, `ChildClear` are
`cancel()` and the bus subscriber. Messages, tools and model calls are left out; where the code
decides by them, the model chooses.

**SessionRuns** — what the run slot promises its session, without entry, queues, rounds and
statuses: one run writes at a time until it ends, is told to stop, or is taken over; a run that
was told to stop never writes again, and its late end goes unnoticed. `PromptRuntime!Session`
maps the registered entry to the writer unless its signal is aborted, the aborted runs to those
that were told, and callers without a run to those that ask; `ImplementsSession` is the claim.

**PromptRuntimeDispose** — extends it with `State.dispose()`: `DisposeAbort` runs the cleanup of
the entries, `DisposeDrop` drops the records after the other states were awaited, pending
requests among them: `forgotten` are the runs whose answer can no longer come. The callers keep
stepping in between.

**RunQueue** — the entries of one session: `lane` says which trigger the file in each lane
directory names, `legacy` whether the legacy key exists. The background lane is never
written by the code and left out. `remove()` and `enqueue()` are split at their file operations
by the module that uses them; `peekPending`, `listPending` are reads.

**WorkflowSupervisor** — extends RunQueue with everyone who writes the queue. `at` says where
the run loop, the cancel route, each `doResume` and each background subagent stand.
`notices` and `rendered` are what is parked in the session and what was shown to the model;
`state`, `autonomous`, `failures`, `retryAt`, `lease` the fields of `session.workflow`; `mark`
the entry of `resumeInFlight`; `tick`, `picked` the place in `resumePendingContinuations`;
`seen`, `got` what the run took from its copy of the session. `Head … RunEnd` is one turn of
`runLoop`, with the queue cleared by the first value of the stream; `JobEnd`, `AppendNotice`,
`NoticeMessage` the completion subscriber; `Tick…` the timer; `Resume…` `doResume` with its
gate, its three ends and `Unmark` in its `finally`; `User`, `Time`, `Crash` the rest of the
world. The run slot is PromptRuntime's, taken here as one run at a time.

**TaskDispatch** — calls of the task tool by one parent, the pool, and the worker processes at
the other end of two pipes. `at`, `assigned`, `settled`, `aborted` belong to the call and its
`done` promise, `child` is the active child, `holder` and `awaited` the assignment under its
lock, `standby` the spawn that is under way, `pool`, `busy`, `ready`, `current` the worker
records; `proc`, `activeRun`, `stdin`, `stdout` the processes, `disk` the child sessions with a
terminal finish. `Check` to `Published` is `execute()`, `Outcome` and `Report` the detached end
with the watchdog's `WatchdogDisk/Dead/Silent`, `Receive…` the reader of a worker's output,
`Boot`, `ReadInput`, `WriteFinish`, `RunEnds` the worker, and `Abort`, `cancelByJobId`,
`terminateActiveChild`, `terminateAllActiveWorkers` the four ways to cancel.

**KillSwitch** — `switch` is the state file; `run` where a session is between gate and idle; `at`,
`scope`, `left`, `session` the requests: `SetState`, `listBusySessionIDs`, then for each session
`publishControl`, `handleControl`, `Accepted` or `Rejected` or `Timeout`, `forceKill`.
`Directories` partitions the sessions into instances: `SessionStatus` and the prompt runtime are
`Instance.state`, kept by the directory a call came with (`status.ts:52`, `project/state.ts:12`),
so `Busy(d)` is what `SessionStatus.list()` shows in one of them, and a request or an emergency
stop takes the instance of its own call. A lookup that fails (`service.ts:355`) loses its session
from the list of a request with a scope. `late` are handlers that go on after their deadline;
`listed` and `early` remember whom a request found and which requests a gate had not seen.
`GateClears` is the removal of an expired switch by whoever notices it; `AbortAll` the emergency
stop.

**CronHeartbeat** — `status`, `wakeNow`, `next` are `jobs.json`; times are classes relative to
now, which `Due` and `Late` advance. `Boot`, `Expire`, `Reset`, `Booted` are `recoverSchedules`;
`StartTick` lists, `Skip` and `RunJob` take the listed jobs, `EndRun` stores the next time.
`Irregular` are the recurring jobs whose schedule may have none (`computeCron`: an expression that
never matches or does not parse, a `tz` west of the server's zone): `Advance` then leaves the
stored time, as `recoverJob()` and `evaluateJob()` do, while `EndRun` may store that there is
none; `Create`, `Update`, `Remove`, `Trigger` are users; `Age` lets an entry of a heartbeat's list
become stale while an earlier job runs. `owed` and `ran` remember what was missed in a downtime
and which one-shots had their run. Every operation of the store holds the lock of RWLock, so it is
one step.

**CommandLanes** — `queue` and `active` per lane, `phase` per task (its promise and its body),
`stale` for the tasks whose generation a reset left behind, `drain`. `Pump` is the whole loop of
`pump()`, part of `Enqueue` and of `Complete`, as in the code; `ResetAll` is `resetAll()`.
Generations are only compared for equality, so a set replaces the counters. It has no `Next`
of its own: DaemonLifecycle composes it.

**LaneService** — what lanes and drain state promise whoever offers a task, without generations,
active sets and a pump: a lane with a free place starts a task at once, a full one lets it wait;
when a task ends, whoever waited longest starts in that step; behind the closed gate tasks are
refused or cleared, and it opens again only over lanes in which nothing waits and nothing runs but
what a clearing forgot. `DaemonLifecycle!Service` maps phases and stale tasks to it, the queues to
its lines and the drain state to its gate; `ImplementsService` is the claim.

**DaemonLifecycle** — `daemon` is `daemonState`; `at` the `await` at which the handler stands;
`proc` how far the process is (booting, opening the server, serving, leaving, exited);
`lockFile` whom the lock file names; `signals`, `timedOut`; `direct` the resumes that were begun
beside the lanes. `Start … StartFailed` are `start()`, `Terminate` one SIGTERM or SIGINT with
both listeners (`Killed` without any), `ShutdownDrained`, `Released` the awaits of `shutdown()`
(a release that fails leaves the file, and the daemon is stopped all the same),
`Restart … ReacquireFailed` those of `restart()`; `Resume` and `Fallback` are
`executeResumeInLane()`; `OtherProcess` changes the lock file from outside. **MCDaemonLifecycle**
gives the lanes and tasks for TLC.

**GatewayLock** — `file` is the lock file (absent, torn, or naming a process), `pc` the file
operation each process does next. `acquire()` is a read, a truncation and a text write;
`release()` a read and an unlink, either of which may fail unnoticed (`ReleaseFails`); `Crash` may
happen anywhere. The liveness of the process that the file names is asked when the file is read.

**RWLockProofs, PromptRuntimeProofs, DaemonProofs, GatewayLockProofs, KillSwitchProofs,
CronProofs, TaskDispatchProofs, SupervisorProofs** — the theorems. Those that prove about queues
begin with the facts they need about `Append`, `Head`, `Tail`, `SubSeq` and concatenation: the
elements of a queue, and its having no duplicates.

Definitions whose comment starts with "Mutant" are deliberately wrong variants of the definition
after them. Putting one in its place must violate the property it is listed with in
`PROJECT.json`; they document what the properties can detect.

How the modules meet: the lock of RWLock makes the cron store's operations and the supervisor's
tick single steps or sections; the resumes of WorkflowSupervisor are the tasks of CommandLanes
and enter the slot of PromptRuntime; the end of a job in TaskDispatch is `JobEnd` of
WorkflowSupervisor; the gate of KillSwitch is the one at the head of a run there. Each module
takes the others by what their checks show of them, not by their text, except CommandLanes in
DaemonLifecycle and RunQueue in WorkflowSupervisor, which are composed step by step.

## 3. Runs

Run a configuration with `tlc -config X.cfg Module.tla`; the longest takes about two minutes.

| cfg (module) | Asks | Answer |
|---|---|---|
| `RWLock` | exclusion, no lost wake-up, clean-up, writers first, every writer granted; it implements KeyedLock | holds |
| `PromptRuntime` | one owner of the slot, no leaked slot, no stranded waiter, the status does not stick, aborted runs end, waiting prompts run; it implements SessionRuns | holds |
| `PromptRuntimeDispose` | the same session with disposals: everything settles free and idle, and all runs end but those whose request was dropped | holds |
| `WorkflowSupervisor` | one resume at a time, none before its back-off is over, no notice lost, every completion taken from the queue | holds |
| `TaskDispatch` | pool and calls agree, no worker gets two jobs, the shown child is live, every call is answered and its worker given back | holds |
| `KillSwitch` | runs listed in the request's instance are stopped, nothing newer runs, the switch is lifted | holds |
| `CronHeartbeat` | nothing missed is run late once it is recovered, only users enable, recurring jobs with next times go on, disabled ones stop | holds |
| `CronOneShot` (CronHeartbeat) | a one-shot runs once (schedule.ts:8, retry.ts:10) | violated |
| `Daemon` (MCDaemonLifecycle) | lanes sound, running and drained mean what they say, the gate is closed while draining, a shutdown completes, every queued resume is answered; the lanes implement LaneService | holds |
| `DaemonRestart` (MCDaemonLifecycle) | a restart ends running or stopped (daemon/index.ts:136) | violated |
| `GatewayLock` | one daemon, own releases, crashes do not block, if starts do not overlap | holds |
| `GatewayLockRace` (GatewayLock) | one daemon with overlapping starts (gateway-lock.ts:7) | violated |

The violated ones state what a comment promises; `PROJECT.json` quotes it under "findings".
In words:

- *One-shot.* When the run of a one-shot ends its next time is cleared, because there is none;
  `evaluateJob()` takes a job without a next time for due, and the job stays enabled. Every
  heartbeat starts it again until the daemon is restarted.
- *Restart.* SIGUSR1 drains and resets the lanes, then asks for the lock again. The file names
  this very process, which is running, so `acquire()` refuses; `shutdown()` then returns at once
  because the state is not `running`. The daemon stays `restarting`, its gate closed.
- *Race.* `acquire()` reads, then writes, without exclusive creation; two starters, or one that
  reads a file while it is written, both succeed.

### What else the models show

Behaviour that the models have and a reader of the code may not expect. No property is stated
about it, because the code promises nothing or says that it accepts it.

- Run slot. The forced replacement comes after three waits that each return only when the owner
  finishes; an owner that never finishes is never replaced, hence the premises of `WaiterRuns`.
  `cancel()` with no registered run, and the processor's error path, set idle while a subagent
  is attached. Callers that wait when a disposal clears the entries are never woken. A run that
  waits for the user at `processor.ts:914` takes no signal; if a disposal drops its request, it
  never ends, but it keeps neither slot nor status.
- Supervisor. Notices rendered by a run may be rendered again by its later turns, which read the
  run's old copy of the session (`prompt.ts:2120`). A completion that arrives while a stream
  begins has its queue entry removed unseen (`processor.ts:778`); its notice stays parked until
  something else starts a run. A resume that takes longer than five minutes is started again
  beside itself; the run slot serialises the two.
- Task tool. A worker that is told "canceled" may still be busy and refuse the next job
  (`session.ts` 309–315); a standby that is late is killed while its ready message is on the
  way, and may be handed out killed (`task.ts` 1436, 1516); the kill at the end of a stuck job
  may hit the worker's next one (2514–2528); the end of one call clears the active child that a
  newer call has set (2510); the cap is exceeded by one worker for each call that waited in vain
  (1477). The affected jobs fail and are answered.
- Kill-switch. Status and runtime are kept by directory: a global kill request, and an emergency
  stop (`routes/session.ts:1460`, "abort every busy session"), find and stop only the runs of the
  instance they were made in; runs of other instances go on, though the gate holds back what comes
  after them. A session whose lookup fails is left out of the list without a word
  (`service.ts:355`). A gate call that names no workspace is blocked by a switch with a scope,
  unlike the comment `service.ts:372`; whoever finds the switch expired may remove a newer one
  (163); a control message handled after its deadline stops a run that began after the switch was
  lifted.
- Cron. A recurring job may have no next time: its expression does not parse or never matches
  (`schedule.ts:86`, 123–127), or its `tz` is west of the server's zone, because the match is
  sought from that zone's wall clock and then compared with the real time (118). Then the recovery
  leaves the time that has passed (`heartbeat.ts:176`), contrary to "skip-to-next future fire
  time" (89): a time of less than five minutes ago is run after the boot, an older one stays stale
  and is passed over at every heartbeat (245–256), and after a run that stored no next time
  (347–350) the job runs at each. Heartbeats start a long job again beside itself, whose late end
  moves the time back; a heartbeat runs jobs once more that were disabled since it listed them;
  the jobs behind a long run are found stale; an unreadable `jobs.json` counts as no jobs;
  `wakeMode: "now"` runs a future one-shot at once; jobs for "the next heartbeat" are never run,
  as `enqueue` of system events has no caller (`heartbeat.ts:277`); errors are never counted, so
  the back-off never applies; the timers outlive a shutdown.
- Daemon. A release whose read or unlink fails is swallowed (`gateway-lock.ts:66`): the daemon is
  `stopped` with the lock file in place, which the next start takes for stale only once the
  process has ended. The `catch` around a lane takes every rejection, so a resume refused by the
  drain, or reset while its body runs on, is executed again beside the lanes. On SIGTERM the serve
  command's listener finds the shutdown under way and exits without waiting for the drain.

### Bounds

- RWLock: 4 scopes, 2 keys, 3 objects. Four is the least with a holder, two waiters of one kind
  and one of the other; two keys with three objects let an object be dropped and another taken
  for the same key while a second key is in use.
- PromptRuntime: 3 callers (an owner, a waiter, and one that replaces or overtakes);
  `MaxWaits = 3` as in the code. With disposal `MaxWaits = 2`: the number of rounds plays no
  part in it.
- WorkflowSupervisor: one background job, two executions of `doResume` (one stale, one new),
  `MaxFailures = 2`, less than in the code, which is enough for a retry and a block. `MaxEvents`
  counts what comes from outside (a prompt, a cancel, an error, a crash, a delay, …): 1 in the
  run. The safety properties also hold with 2 (7.3 million states).
- TaskDispatch: 2 jobs, 3 workers, `PoolMax = 2` (3 in the code): a worker each, a standby, and
  one over the cap. `MaxEvents = 1` cancel, abort, death, stall or false alarm.
- KillSwitch: 2 sessions, one in another workspace, both of one instance, beside an instance
  without runs from which requests and emergency stops may come as well; 2 requests;
  `MaxEvents = 1` cancel, emergency stop, failing lookup or failing write. That a session runs in
  one instance only, as clients name the session's directory, is an assumption.
- CronHeartbeat: a recurring job, one without a next time at times, and a one-shot, of which
  `MaxJobs = 2` are made in a behaviour (jobs meet only in the list of a heartbeat, where two are
  enough to hold one another up); 2 heartbeats at once, `MaxEvents = 3`. `CronOneShot` needs one
  job, heartbeat and event.
- Daemon: a lane of limit 1 with three tasks, so that two wait in it and their order shows, and
  one of limit 2 with one task, so that a drain has to look at more than one lane. Each task is
  used once. The safety properties also hold with one task in the first lane and four in the
  second (1.7 million states). `DaemonRestart` needs fewer tasks and uses three.
- GatewayLock: 3 processes, each started once: a crashed one, one that holds, one that starts.

Nothing else is bounded. `CHECK_DEADLOCK FALSE` is set for the supervisor, the task tool, cron,
the daemon and the lock file: there all may have ended, been answered or be waiting for a user
who does not come, which is legal.

### Fairness

- RWLock `FairSpec`: every `using` scope ends, since its body is finite and disposal runs on
  every exit. No fairness for calls.
- PromptRuntime `FairSpec`: continuations that are due run, and a run whose signal is aborted
  makes progress: the awaits that can last (stream, sleep, tools) take the signal, except the
  question to the user. A run that is not aborted may go on for ever. `AbortedRunEnds` has as
  premise that the user answers (`UserReplies`; `KnownReplies` in the disposal run, for the
  requests that were not dropped). `WaiterRuns` adds that runs end (`RunsEnd`) and that
  interrupting prompts stop at some time: each of them takes the run and its waiters over.
- WorkflowSupervisor `FairSpec`: the run loop, the tick (a timer), the routes' writes, the
  completion of jobs and the steps of resumes go on; the kill-switch is lifted, a back-off and a
  foreign lease run out. None for prompts, errors or further turns of a stream.
- TaskDispatch `FairSpec`: what is due in this process, the pipes and a worker that is neither
  dead nor stalled; of the watchdog only the alarm that is not false. Runs end because the
  worker's `ProcessStep` ends them.
- KillSwitch `FairSpec`: requests go on (their awaits have deadlines), the switch expires, and
  sessions ask the gate again (the supervisor's timer).
- CronHeartbeat `FairSpec`: the recovery, the start of heartbeats, the steps of each one
  including the end of its run, and the passing of time. `RecurringRuns` has as premise that the
  job stays enabled and that runs of other jobs do not go on for ever.
- DaemonLifecycle `FairSpec`: one weak fairness for the handler, as each of its awaits has a
  deadline (`waitFor`) or is one file operation. `EveryEntrySettles` has as premise that resumes
  that run in a lane end (`ResumesEnd`); `ShutdownCompletes` has none, because of the deadline.
- GatewayLock `SerialSpec`: one start at a time — an assumption about the environment (one
  client spawns and waits), not a promise of the code, as `GatewayLockRace` shows — and a start
  that has begun goes on unless its process crashes.

## 4. Proofs

`tlapm XProofs.tla` checks them. Assumptions, all named in the module that declares the
constants: finite sets of scopes, tasks and processes; fresh marks (`NoObject`, `NoRun`,
`NoFile`, `Torn`, `NoJob`, `NoSession`); positive limits; `MaxWaits` positive; `MaxEvents` a
natural number; one-shots are jobs, and those without a next time are among the others; the
instances partition the sessions; every task has a lane.

- **RWLock.** `LockInv` is inductive with `TypeOK`: the counters of an object are the numbers of
  scopes that captured it and hold it, its queues are exactly the scopes that wait, everyone
  waits behind a holder, the table leads each active scope to the object it captured, and an
  entry of the table is held. Exclusion alone is not inductive: it needs the counters to count.
  The last two parts are what makes the second lookup in `process()` harmless. Theorems:
  `LockTyped`, `LockCorrect`, `MutualExclusionHolds`, `NoLostWakeup`, `TableStaysSmall`,
  `WritersFirst` (an action property).
- **RWLock implements KeyedLock** (`LockImplementsKeyedLock`). From `LockInv` an object's
  counters and queues are the classes of scopes on its key (`ObjectFacts`), so a call asks the
  same question in both (`CallImplements`), and `process()` hands over to the same scopes
  (`ProcessImplements`); the initial states agree.
- **PromptRuntime.** `RuntimeInv` is the conjunction of the four safety properties and a bound
  on the rounds. They need one another: the owner is the only run not aborted, hence a late
  `finish()` cannot remove another's entry; a registered run is live, hence its waiters will be
  woken. Theorems: `RuntimeTyped`, `RuntimeCorrect`, `OneRunAtATime`, `NoEntryLeaks`,
  `NobodyIsStranded`, `StatusNeverSticks`.
- **PromptRuntime implements SessionRuns** (`RuntimeImplementsSession`). Besides `RuntimeInv` it
  needs `AbortedAreLive`: a caller that begins is not among the aborted, so taking the slot over
  never brings back a run that was told to stop. One lemma per kind of step: `InstallTakesOver`,
  `FinishIsEnd`, `CancelIsStop`; waiting, turns, answers and the subagent's events are stutters.
- **PromptRuntime with disposals.** A disposal forgets who waits, so `RuntimeInv` does not hold
  any more. `DisposeInv` is what is left: the registered entry is of a run that goes on and
  that nobody has forgotten, whoever is in a queue waits there once (not everybody who waits is
  in one), a forgotten run waits for the answer to its dropped request, and a status that is not
  idle without an entry or a subagent is that of a run that still ends. Theorems: `DisposeCorrect`,
  `DisposalSettles`.
- **TaskDispatch.** `DispatchInv` adds to the promises what the pipes may carry (a process is told
  to run and answers about jobs only: `MessagesNameJobs`), which calls stand where while one holds
  the lock (`LockIsHeld`: the worker it waits for is given to nobody else), which processes are
  there (`ProcessIsThere`), and that a run which has not been answered is its worker's current
  one (`RunIsCurrent`). The last is why a run command cannot meet another job's run: the pool
  forgets a worker's job only when the job is settled. The steps are handled by kind: the place
  of a call, the input of workers that are told to cancel, an assignment, a message read by the
  tool, one read by a process. Theorems: `DispatchCorrect`, `DispatchTyped`, `NoWorkerLeaks`,
  `RefusalsFollowCancels`, `ShownChildLives`.
- **WorkflowSupervisor.** `OneResume` is not inductive: a tick that has found no mark starts a
  resume several awaits later. `MarkGuards` says that from the check of the mark on nobody is in
  flight, and that the back-off, once it was found over, is not written before the resume
  starts; `StaleMeansOverdue` that the mark is dropped only when a resume lasted five minutes,
  `SpawnHasPlace` that a tick with the mark has a resume to start. All steps that are none of the
  tick, of a resume, a long delay or a crash leave these things alone (`OthersAreApart`).
  `NoticeIsKept` rests on `NoticesLeaveByRendering`. Theorems: `SupervisorCorrect`,
  `SupervisorTyped`, `SupervisorResumesOnce`, `NoticesAreKept`, `ResumesBackOff` (an action
  property).
- **KillSwitch.** Inductive are the types with `MessageInv` (a message that is being handled is
  for a session) and `KillInv`: `ListsKept` (what a request has listed and is not done with is
  in `left`, `session` or stopped), `GatesAreEarlier` (a run that goes on passed its
  gate before every request that is still to come) and `OnlyEarlierAdmissionsRun`. What a request
  lists is any part of one instance's busy sessions, so nothing is claimed of the others: for
  them only the gate's half, `NothingNewRuns`, holds. Theorems: `KillSwitchCorrect`,
  `ListedRunsStop`, `NothingNewRuns`.
- **Cron.** `CronInv` is the types, `LifeInv` (heartbeats only while the daemon is up, recovery
  lists only while it recovers) and `OwedInv`: a job that is owed a missed time is in the
  recovery's lists until it is disabled or has its next time, and meanwhile no heartbeat has it in
  hand; a job whose recovery fails or finds no next time is owed nothing any more. The
  property alone is not inductive, since a heartbeat that starts after the recovery lists from
  the store. Theorems: `CronTyped`, `CronCorrect`, `MissedTimesAreSkipped`, `UsersEnable` (an
  action property).
- **Daemon.** `DaemonInv` is types, `LanesInv` and `PlacesInv`; the latter relates the daemon's
  state, the await it stands at, the drain state, the lock and the signals, and says that lanes
  once found idle stay idle while the gate is closed. Lanes are handled by lemmas about one
  `pump()` (`PumpKeeps`, `PumpLane`). Theorems: `DaemonCorrect`, `LanesAreSound`,
  `IdlePollIsSound`, `DrainIsComplete`, `RunningDaemonWorks`, `NothingEntersADrain` (an action
  property: the gate is shut as long as the daemon drains or restarts, so a new task is rejected).
- **The lanes implement LaneService** (`LanesImplementService`). By `LanesInv` the active set is
  what runs and was not forgotten, and a lane with a queue is full (`LanePlaces`); hence a pump
  has room for exactly one after an end and for none after a forgotten one (`Rooms`, `PumpHead`,
  `PumpNothing`), and each step of the lanes is one of the service (`EnqueueIsService`,
  `CompleteIsService`, `ResetIsService`). For the gate it needs `PlacesInv`: from the reset to the
  end of a restart the lanes are idle, also after a drain that timed out (`ReopenIsService`). All
  other steps of the daemon are invisible.
- **GatewayLock.** `SerialInv`: a holder is named by the file until its unlink, and nobody holds
  while another is about to write; under serial starts. Theorems: `SerialCorrect`,
  `SerialStartsExclude`, `ReleaseIsOwn`.

Only model-checked: the liveness properties (`WriterIsGranted`, `AbortedRunEnds`, `WaiterRuns`,
`OthersEnd`, `CompletionIsTaken`, `JobsAreAnswered`, `SwitchIsLifted`, `RecurringRuns`,
`DisabledJobStops`, `ShutdownCompletes`, `EveryEntrySettles`, `StaleLockIsBroken`), which are
out of the prover's reach. Every invariant and every action property of the passing runs is a
theorem.

## 5. Not modelled, and why

- Run slot: `enqueueCallback` (a start with `replace` always succeeds, so it is not reached);
  abort of a run by other than `cancel()`, replacement and disposal; `session/revert.ts`, whose
  check that the session is idle is awaits before its changes.
- Permission and questions: requests of tools, which outlive the run that asked, the rules that
  answer by themselves, and `P/question/`.
- Supervisor: the ranking among several sessions, wait times by category of failure, budgets;
  `drain` and `countByLane` of the queue, which have no caller.
- Task tool: the registry file of running tasks, which is read, changed and written without a
  lock, and the recovery of orphans from it; `task-worker-continuation`, a second writer of the
  active child; rotation of a worker's model; bridged events; results as text.
- Kill-switch: second factor, cooldown and idempotency keys only decide who may send a request.
  A session that is run from two instances at once, by clients that name different directories.
- Cron: delivery, run log, retention, the session of a run; active hours, `deleteAfterRun` and
  retry counts, which nothing sets.
- Daemon: `unregisterWorkspace` and the monitoring queries of the lanes; lane `draining`, which
  nothing sets; the cron registrations and the zombie sweep made by `start()`; a resume without a
  workspace, which goes by the lanes; reuse of process ids by the system. Lock file: a read that
  fails while the file is there, which `acquire()` takes for no file.
- Account rotation, storage migrations, discovery files: planned below.
- Message contents, prompts, providers, MCP, compaction decisions, user interfaces, SDKs and the
  C gateway: data or protocol I/O without state of its own that the above does not have, or a
  separate program. They are most of the repository by size, generated clients and user
  interfaces above all.

## 6. Plan

Done: 1. RWLock with its abstract specification; 2. PromptRuntime, its disposal and the request it
waits for, with the abstract SessionRuns; 3. CommandLanes and DaemonLifecycle with the abstract
LaneService; 4. GatewayLock; 5. RunQueue and WorkflowSupervisor; 6. TaskDispatch; 7. KillSwitch
and CronHeartbeat; 8. the proofs for all of them.

Next, in this order:

9. **Discovery**: pid, socket and discovery files of several processes beside the lock file;
   a client that removes stale files must not remove those of a new daemon.
   **StorageMigration**: a crash between a step and its mark; a failed step is marked as done.
10. Requests of tools and questions as actors beside the run slot; `session/revert.ts` as one
    more kind of caller; the registry file of the task tool with orphan recovery.
11. Account rotation by several processes through its state file.
