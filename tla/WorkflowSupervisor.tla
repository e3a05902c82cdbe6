------------------------- MODULE WorkflowSupervisor -------------------------
(***************************************************************************)
(* One root session that runs unattended: its run loop (session/prompt.ts, *)
(* session/processor.ts), the supervisor that resumes it                   *)
(* (session/workflow-runner.ts), its background subagents whose completion *)
(* comes back as a notice and a queue entry                                *)
(* (bus/subscribers/pending-notice-appender.ts), and the run queue that    *)
(* they all write.  Every step ends at an await; the steps of all parties  *)
(* interleave.  Other sessions appear only as "somebody else is queued".   *)
(* The run slot is the one of PromptRuntime: one run at a time; a replaced *)
(* run ends before the next one begins here.                               *)
(***************************************************************************)
EXTENDS RunQueue, Naturals, FiniteSets

CONSTANTS
  Jobs,         \* subagents that the session dispatches
  Resumes,      \* executions of doResume that may exist at once
  NoJob,        \* no subagent is attached
  MaxFailures,  \* MAX_RESUME_FAILURES
  MaxEvents     \* bound: users, operators, crashes, errors and long delays

ASSUME JobsAssumption == IsFiniteSet(Jobs) /\ NoJob \notin Jobs
ASSUME ProcsDiffer ==
  /\ Jobs \cap Resumes = {}
  /\ "run" \notin Jobs \cup Resumes /\ "route" \notin Jobs \cup Resumes
ASSUME MaxFailuresAssumption == MaxFailures \in Nat \ {0}
ASSUME MaxEventsAssumption == MaxEvents \in Nat

VARIABLES
  at,          \* where the run loop, the route, each resume and each job stand
  notices,     \* session.pendingSubagentNotices on disk
  rendered,    \* history: jobs whose notice was put in a prompt
  state,       \* session.workflow.state with the stop reason that matters
  autonomous,  \* session.workflow.autonomous.enabled
  failures,    \* session.workflow.supervisor.consecutiveResumeFailures
  retryAt,     \* session.workflow.supervisor.retryAt is in the future
  lease,       \* unexpired lease: "none", "mine", "foreign" (an earlier process)
  mark,        \* resumeInFlight has the session: "none", "fresh", "stale"
  tick,        \* where resumePendingContinuations stands, under its lock
  picked,      \* the triggers of the entries it has listed, then of the one it picked
  item,        \* resume -> the trigger of its entry
  seen,        \* the notices in the run's copy of the session
  got,         \* hasSubagentCompletion
  newer,       \* the last user message is newer than the last assistant message
  terminal,    \* the last assistant message has a terminal finish
  aborted,     \* the run's signal is aborted
  busy,        \* the run has set the status busy
  prompt,      \* a prompt waits for the run slot
  child,       \* the attached subagent, which keeps the status busy
  killed,      \* the kill-switch is active
  undo,        \* writes that cancel() has issued and not awaited
  overdue,     \* history: some resume of this process lasted five minutes
  events       \* bound

workflowVars == <<state, autonomous, failures, retryAt, lease>>
tickVars == <<mark, tick, picked, item>>
messageVars == <<notices, rendered, newer, terminal>>
runVars == <<seen, got, aborted, busy>>
worldVars == <<prompt, child, killed, undo, overdue, events>>

vars == <<queueVars, at, workflowVars, tickVars, messageVars, runVars, worldVars>>

RunSteps == {"none", "head", "collect", "consume", "read", "turn", "stream", "started",
             "streaming", "decide", "remove", "write", "mirror", "end", "fail"}
ResumeSteps == {"none", "lane", "loop", "running", "ok", "failed", "remove", "write", "mirror",
                "waitState", "waitSupervisor", "blockState", "blockSupervisor",
                "killState", "killSupervisor", "unmark"}
JobSteps == {"new", "working", "notify", "message", "remove", "write", "mirror", "done", "lost"}
RouteSteps == {"none", "clear", "message", "remove", "write", "mirror"}

\* State every variable has its type.
TypeOK ==
  /\ QueueTypeOK
  /\ at \in [{"run", "route"} \cup Jobs \cup Resumes ->
               RunSteps \cup ResumeSteps \cup JobSteps \cup RouteSteps]
  /\ at["run"] \in RunSteps /\ at["route"] \in RouteSteps
  /\ \A r \in Resumes : at[r] \in ResumeSteps
  /\ \A j \in Jobs : at[j] \in JobSteps
  /\ notices \subseteq Jobs /\ seen \subseteq Jobs
  /\ rendered \subseteq Jobs
  /\ state \in {"idle", "running", "waiting", "interrupted", "completed", "blocked"}
  /\ failures \in 0 .. MaxFailures
  /\ lease \in {"none", "mine", "foreign"} /\ mark \in {"none", "fresh", "stale"}
  /\ tick \in {"none", "listed", "marked", "picked", "lease"}
  /\ picked \subseteq Triggers /\ item \in [Resumes -> Triggers]
  /\ child \in Jobs \cup {NoJob} /\ undo \subseteq {"clear", "state"}
  /\ {autonomous, retryAt, got, newer, terminal, aborted, busy, prompt, killed, overdue}
       \subseteq BOOLEAN
  /\ events \in 0 .. MaxEvents

Init ==
  /\ QueueInit
  /\ at = [p \in {"run", "route"} \cup Jobs \cup Resumes |-> IF p \in Jobs THEN "new" ELSE "none"]
  /\ notices = {} /\ rendered = {}
  /\ state = "idle" /\ autonomous \in BOOLEAN /\ failures = 0 /\ retryAt = FALSE /\ lease = "none"
  /\ mark = "none" /\ tick = "none" /\ picked = {}
  /\ item = [r \in Resumes |-> "continuation"]
  /\ seen = {} /\ got = FALSE /\ newer = TRUE /\ terminal = FALSE /\ aborted = FALSE
  /\ busy = FALSE /\ prompt = TRUE /\ child = NoJob /\ killed = FALSE
  /\ undo = {} /\ overdue = FALSE /\ events = 0

Goto(p, from, to) == at[p] = from /\ at' = [at EXCEPT ![p] = to]

\* Something that the environment does, which the model bounds.
Event == events < MaxEvents /\ events' = events + 1

-----------------------------------------------------------------------------
(* RunQueue.enqueue(), one file operation at a time, by any of its callers. *)

enqueue(p, l, t, next) ==
  /\ \/ Goto(p, "remove", "write") /\ remove
     \/ Goto(p, "write", "mirror") /\ writeLane(l, t)
     \/ Goto(p, "mirror", next) /\ writeLegacy
  /\ UNCHANGED <<workflowVars, tickVars, messageVars, runVars, worldVars>>

-----------------------------------------------------------------------------
(* The run loop.                                                           *)

\* The slot is free: a prompt or a resume that waits for it starts its run and
\* reads the session, once for the whole run.
RunStart(starters) ==
  /\ at["run"] = "none"
  /\ \/ prompt /\ prompt' = FALSE /\ at' = [at EXCEPT !["run"] = "head"]
     \/ \E r \in starters :
          /\ at[r] = "loop"
          /\ at' = [at EXCEPT !["run"] = "head", ![r] = "running"]
          /\ UNCHANGED prompt
  /\ seen' = notices
  /\ UNCHANGED <<queueVars, workflowVars, tickVars, messageVars, got, aborted, busy,
                 child, killed, undo, overdue, events>>

Head ==
  /\ Goto("run", "head", IF aborted THEN "end" ELSE "collect")
  /\ busy' = TRUE
  /\ UNCHANGED <<queueVars, workflowVars, tickVars, messageVars, seen, got, aborted, worldVars>>

\* collectCompletedSubagents(): peek, then remove.
Collect ==
  /\ Goto("run", "collect", IF peek = "completion" THEN "consume" ELSE "read")
  /\ got' = FALSE
  /\ UNCHANGED <<queueVars, workflowVars, tickVars, messageVars, seen, aborted, busy, worldVars>>

Consume ==
  /\ Goto("run", "consume", "read")
  /\ remove
  /\ got' = TRUE
  /\ UNCHANGED <<workflowVars, tickVars, messageVars, seen, aborted, busy, worldVars>>

ReadMessages ==
  /\ Goto("run", "read", IF terminal /\ ~newer /\ ~got THEN "end" ELSE "turn")
  /\ UNCHANGED <<queueVars, workflowVars, tickVars, messageVars, runVars, worldVars>>

\* Mutant: the drain empties the list.
TurnDrainsAll ==
  /\ Goto("run", "turn", "stream")
  /\ newer' = FALSE /\ terminal' = FALSE
  /\ rendered' = rendered \cup seen
  /\ notices' = {}
  /\ UNCHANGED <<queueVars, workflowVars, tickVars, runVars, worldVars>>

\* The assistant message is created and the notices of the run's copy of the
\* session are rendered and removed from the session on disk.
Turn ==
  /\ Goto("run", "turn", "stream")
  /\ newer' = FALSE /\ terminal' = FALSE
  /\ rendered' = rendered \cup seen
  /\ notices' = notices \ seen
  /\ UNCHANGED <<queueVars, workflowVars, tickVars, runVars, worldVars>>

\* The first value of the stream: the queue is cleared, then the state is set.
StreamStart ==
  /\ Goto("run", "stream", "started")
  /\ ~aborted
  /\ remove
  /\ UNCHANGED <<workflowVars, tickVars, messageVars, runVars, worldVars>>

StreamRunning ==
  /\ Goto("run", "started", "streaming")
  /\ busy' = TRUE
  /\ state' = "running"
  /\ UNCHANGED <<queueVars, autonomous, failures, retryAt, lease, tickVars, messageVars,
                 seen, got, aborted, worldVars>>

\* The task tool dispatches a background subagent.
Dispatch(j) ==
  /\ at["run"] = "streaming" /\ ~aborted
  /\ child = NoJob
  /\ Goto(j, "new", "working")
  /\ child' = j
  /\ UNCHANGED <<queueVars, workflowVars, tickVars, messageVars, runVars,
                 prompt, killed, undo, overdue, events>>

\* process() ends, and sets the workflow state in any case: the model has more
\* to do, or is done, ...
StreamEnd ==
  /\ ~aborted
  /\ \/ Goto("run", "streaming", "head") /\ UNCHANGED terminal
     \/ Goto("run", "streaming", "decide") /\ terminal' = TRUE
  /\ state' = "waiting"
  /\ UNCHANGED <<queueVars, autonomous, failures, retryAt, lease, tickVars,
                 notices, rendered, newer, runVars, worldVars>>

\* ... or it was aborted or failed, which sets the status idle, or a permission
\* was rejected.
StreamStop ==
  /\ at["run"] \in {"stream", "started", "streaming"}
  /\ at' = [at EXCEPT !["run"] = "end"]
  /\ IF aborted THEN UNCHANGED events ELSE Event
  /\ \/ state' = "waiting" /\ busy' = FALSE
     \/ state' = "blocked" /\ UNCHANGED busy
  /\ UNCHANGED <<queueVars, autonomous, failures, retryAt, lease, tickVars, messageVars,
                 seen, got, aborted, prompt, child, killed, undo, overdue>>

\* The provider failed: the same turn streams again, after a delay or a rotation.
StreamAgain ==
  /\ Event
  /\ Goto("run", "streaming", "stream")
  /\ UNCHANGED <<queueVars, workflowVars, tickVars, messageVars, runVars,
                 prompt, child, killed, undo, overdue>>

\* Something on the way to the stream throws: an unknown model, no user message.
RunThrow ==
  /\ Event
  /\ at["run"] \in {"read", "turn", "stream"}
  /\ at' = [at EXCEPT !["run"] = "fail"]
  /\ UNCHANGED <<queueVars, workflowVars, tickVars, messageVars, runVars,
                 prompt, child, killed, undo, overdue>>

\* decideAutonomousContinuation(): a todo is left, or all are done, or the
\* session is not armed.
DecideContinue ==
  /\ autonomous
  /\ Goto("run", "decide", "remove")
  /\ newer' = TRUE
  /\ UNCHANGED <<queueVars, workflowVars, tickVars, notices, rendered, terminal, runVars, worldVars>>

DecideStop ==
  /\ Goto("run", "decide", "end")
  /\ autonomous' = FALSE
  /\ state' = IF autonomous THEN "completed" ELSE "waiting"
  /\ UNCHANGED <<queueVars, failures, retryAt, lease, tickVars, messageVars, runVars, worldVars>>

\* finish(): the slot is free, the status idle unless a subagent is attached.
RunEnd ==
  /\ at["run"] \in {"end", "fail"}
  /\ at' = [p \in DOMAIN at |->
              IF p = "run" THEN "none"
              ELSE IF p \in Resumes /\ at[p] = "running"
                   THEN IF at["run"] = "end" THEN "ok" ELSE "failed"
              ELSE at[p]]
  /\ busy' = FALSE
  /\ seen' = {} /\ got' = FALSE /\ aborted' = FALSE
  /\ UNCHANGED <<queueVars, workflowVars, tickVars, messageVars, worldVars>>

RunStep ==
  \/ RunStart(Resumes) \/ Head \/ Collect \/ Consume \/ ReadMessages \/ Turn \/ StreamStart
  \/ StreamRunning \/ StreamEnd \/ StreamStop \/ DecideContinue \/ DecideStop \/ RunEnd
  \/ enqueue("run", "normal", "continuation", "head")

-----------------------------------------------------------------------------
(* A subagent ends and the notice appender brings the news to its parent.  *)

JobEnd(j) ==
  /\ Goto(j, "working", "notify")
  /\ child' = NoJob
  /\ UNCHANGED <<queueVars, workflowVars, tickVars, messageVars, runVars,
                 prompt, killed, undo, overdue, events>>

AppendNotice(j) ==
  /\ Goto(j, "notify", "message")
  /\ notices' = notices \cup {j}
  /\ UNCHANGED <<queueVars, workflowVars, tickVars, rendered, newer, terminal, runVars, worldVars>>

\* enqueueAutonomousContinue(): a user message first, then the queue.
NoticeMessage(j) ==
  /\ Goto(j, "message", "remove")
  /\ newer' = TRUE
  /\ UNCHANGED <<queueVars, workflowVars, tickVars, notices, rendered, terminal, runVars, worldVars>>

JobStep(j) ==
  \/ JobEnd(j) \/ AppendNotice(j) \/ NoticeMessage(j)
  \/ enqueue(j, "critical", "completion", "done")

-----------------------------------------------------------------------------
(* resumePendingContinuations(), under RESUME_LOCK: at start, every five    *)
(* seconds and after each notice.                                          *)

TickVarsButMark == <<tick, picked, item>>

TickList ==
  /\ tick = "none" /\ ~killed
  /\ \E others \in BOOLEAN : picked' = listPending(others)
  /\ picked' # {}
  /\ tick' = "listed"
  /\ UNCHANGED <<queueVars, at, workflowVars, mark, item, messageVars, runVars, worldVars>>

\* The in-flight check; a mark of five minutes is dropped.
TickCheckMark ==
  /\ tick = "listed"
  /\ tick' = IF mark = "fresh" THEN "none" ELSE "marked"
  /\ picked' = IF mark = "fresh" THEN {} ELSE picked
  /\ mark' = IF mark = "stale" THEN "none" ELSE mark
  /\ UNCHANGED <<queueVars, at, workflowVars, item, messageVars, runVars, worldVars>>

\* Mutant: no back-off.
ResumableAtOnce(t) ==
  /\ ~busy /\ child = NoJob
  /\ t = "completion" \/ (autonomous /\ state \notin {"blocked", "completed", "interrupted"})
  /\ lease # "foreign"

\* inspectPendingContinuationResumability() without the in-flight check.
Resumable(t) ==
  /\ ~busy /\ child = NoJob
  /\ t = "completion" \/ (autonomous /\ state \notin {"blocked", "completed", "interrupted"})
  /\ ~retryAt
  /\ lease # "foreign"

TickInspect ==
  /\ tick = "marked"
  /\ LET eligible == {t \in picked : Resumable(t) /\ ~killed} IN
     \/ eligible = {} /\ tick' = "none" /\ picked' = {}
     \/ tick' = "picked" /\ \E t \in eligible : picked' = {t}
  /\ UNCHANGED <<queueVars, at, workflowVars, mark, item, messageVars, runVars, worldVars>>

TickMark ==
  /\ tick = "picked" /\ tick' = "lease"
  /\ \E r \in Resumes : at[r] = "none"
  /\ mark' = "fresh"
  /\ state' = "running"
  /\ UNCHANGED <<queueVars, at, autonomous, failures, retryAt, lease, picked, item,
                 messageVars, runVars, worldVars>>

TickSpawn ==
  /\ tick = "lease" /\ tick' = "none"
  /\ lease' = "mine" /\ retryAt' = FALSE
  /\ \E t \in picked : LET r == CHOOSE q \in Resumes : at[q] = "none" IN
       /\ at' = [at EXCEPT ![r] = "lane"]
       /\ item' = [item EXCEPT ![r] = t]
  /\ picked' = {}
  /\ UNCHANGED <<queueVars, state, autonomous, failures, mark, messageVars, runVars, worldVars>>

TickStep == TickList \/ TickCheckMark \/ TickInspect \/ TickMark \/ TickSpawn

-----------------------------------------------------------------------------
(* doResume(), run by the Main lane of the workspace (DaemonLifecycle).    *)

\* The workflow state, the supervisor's record and the mark are written one
\* after the other; each of these steps writes one of them.
SetState(r, from, s, to) ==
  /\ Goto(r, from, to)
  /\ state' = s
  /\ UNCHANGED <<queueVars, autonomous, failures, retryAt, lease, tickVars,
                 messageVars, runVars, worldVars>>

SetSupervisor(r, from, n, retry) ==
  /\ Goto(r, from, "unmark")
  /\ failures' = n
  /\ retryAt' = retry
  /\ lease' = "none"
  /\ UNCHANGED <<queueVars, state, autonomous, tickVars, messageVars, runVars, worldVars>>

NextFailures == IF failures < MaxFailures THEN failures + 1 ELSE failures

ResumeGate(r) ==
  \/ /\ killed /\ Goto(r, "lane", "killState") /\ remove
     /\ UNCHANGED <<workflowVars, tickVars, messageVars, runVars, worldVars>>
  \/ /\ ~killed /\ Goto(r, "lane", "loop")
     /\ UNCHANGED <<queueVars, workflowVars, tickVars, messageVars, runVars, worldVars>>

\* The kinds of error that are not retried are a choice of the model.
ResumeFailed(r) ==
  \/ /\ NextFailures < MaxFailures
     /\ Goto(r, "failed", "remove")
     /\ UNCHANGED <<queueVars, workflowVars, tickVars, messageVars, runVars, worldVars>>
  \/ /\ Goto(r, "failed", "blockState") /\ remove
     /\ UNCHANGED <<workflowVars, tickVars, messageVars, runVars, worldVars>>

\* Mutant: the mark of a resume that the kill-switch stopped stays.
UnmarkFailures(r) ==
  /\ Goto(r, "unmark", "none")
  /\ mark' = IF state = "blocked" THEN mark ELSE "none"
  /\ UNCHANGED <<queueVars, workflowVars, TickVarsButMark, messageVars, runVars, worldVars>>

Unmark(r) ==
  /\ Goto(r, "unmark", "none")
  /\ mark' = "none"
  /\ item' = [item EXCEPT ![r] = "continuation"]
  /\ UNCHANGED <<queueVars, workflowVars, tick, picked, messageVars, runVars, worldVars>>

ResumeStep(r) ==
  \/ ResumeGate(r)
  \/ SetState(r, "killState", "blocked", "killSupervisor")
  \/ SetSupervisor(r, "killSupervisor", failures, FALSE)
  \/ SetSupervisor(r, "ok", 0, FALSE)
  \/ ResumeFailed(r)
  \/ enqueue(r, "normal", item[r], "waitState")
  \/ SetState(r, "waitState", "waiting", "waitSupervisor")
  \/ SetSupervisor(r, "waitSupervisor", NextFailures, TRUE)
  \/ SetState(r, "blockState", "blocked", "blockSupervisor")
  \/ SetSupervisor(r, "blockSupervisor", NextFailures, FALSE)
  \/ Unmark(r)

-----------------------------------------------------------------------------
(* Users and operators.                                                    *)

\* A prompt stores its message and waits for the run slot; it may interrupt an
\* autonomous run.
Prompt ==
  /\ Event
  /\ newer' = TRUE /\ prompt' = TRUE
  /\ state' = IF state = "completed" THEN "idle" ELSE state
  /\ aborted' \in IF at["run"] # "none" /\ autonomous THEN {aborted, TRUE} ELSE {aborted}
  /\ UNCHANGED <<queueVars, at, autonomous, failures, retryAt, lease, tickVars, notices, rendered,
                 terminal, seen, got, busy, child, killed, undo, overdue>>

\* cancel() aborts the run and issues two writes that nobody awaits.
Cancel ==
  /\ Event
  /\ aborted' = (at["run"] # "none")
  /\ undo' = {"clear", "state"}
  /\ UNCHANGED <<queueVars, at, workflowVars, tickVars, messageVars, seen, got, busy,
                 prompt, child, killed, overdue>>

CancelWrite ==
  \/ /\ "clear" \in undo /\ undo' = undo \ {"clear"} /\ remove
     /\ UNCHANGED <<at, workflowVars, tickVars, messageVars, runVars, prompt, child, killed, overdue, events>>
  \/ /\ "state" \in undo /\ undo' = undo \ {"state"} /\ state' = "interrupted"
     /\ UNCHANGED <<queueVars, at, autonomous, failures, retryAt, lease, tickVars, messageVars,
                    runVars, prompt, child, killed, overdue, events>>

\* The route that arms or disarms the session.
SetAutonomous(enabled) ==
  /\ Event
  /\ Goto("route", "none", IF enabled THEN "message" ELSE "clear")
  /\ autonomous' = enabled
  /\ state' = IF state = "completed" THEN "idle"
              ELSE IF state = "interrupted" THEN "waiting" ELSE state
  /\ UNCHANGED <<queueVars, failures, retryAt, lease, tickVars, messageVars, runVars,
                 prompt, child, killed, undo, overdue>>

RouteStep ==
  \/ /\ Goto("route", "clear", "none") /\ remove
     /\ UNCHANGED <<workflowVars, tickVars, messageVars, runVars, worldVars>>
  \/ /\ Goto("route", "message", IF busy \/ child # NoJob THEN "none" ELSE "remove")
     /\ newer' = (newer \/ (~busy /\ child = NoJob))
     /\ UNCHANGED <<queueVars, workflowVars, tickVars, notices, rendered, terminal, runVars, worldVars>>
  \/ enqueue("route", "normal", "continuation", "none")

\* mutatePendingContinuationQueue("drop_pending"); "resume_once" is a tick.
DropPending ==
  /\ Event
  /\ legacy /\ remove
  /\ UNCHANGED <<at, workflowVars, tickVars, messageVars, runVars,
                 prompt, child, killed, undo, overdue>>

KillSwitchOn ==
  /\ Event
  /\ ~killed /\ killed' = TRUE
  /\ UNCHANGED <<queueVars, at, workflowVars, tickVars, messageVars, runVars,
                 prompt, child, undo, overdue>>

User == Prompt \/ Cancel \/ (\E b \in BOOLEAN : SetAutonomous(b)) \/ DropPending \/ KillSwitchOn

-----------------------------------------------------------------------------
(* Time and crashes.                                                       *)

KillSwitchOff ==
  /\ killed /\ killed' = FALSE
  /\ UNCHANGED <<queueVars, at, workflowVars, tickVars, messageVars, runVars,
                 prompt, child, undo, overdue, events>>

RetryDue ==
  /\ retryAt /\ retryAt' = FALSE
  /\ UNCHANGED <<queueVars, at, state, autonomous, failures, lease, tickVars, messageVars, runVars, worldVars>>

\* Mutant: the lease of a process that died does not expire.
LeaseStays ==
  /\ lease = "foreign" /\ lease' = "foreign"
  /\ UNCHANGED <<queueVars, at, state, autonomous, failures, retryAt, tickVars, messageVars, runVars, worldVars>>

\* (A process does not look at the expiry of its own lease.)
LeaseExpires ==
  /\ lease = "foreign" /\ lease' = "none"
  /\ UNCHANGED <<queueVars, at, state, autonomous, failures, retryAt, tickVars, messageVars, runVars, worldVars>>

\* RESUME_IN_FLIGHT_TIMEOUT_MS have passed since the mark was set.
FiveMinutes ==
  /\ Event
  /\ mark = "fresh" /\ mark' = "stale"
  /\ overdue' = TRUE
  /\ UNCHANGED <<queueVars, at, workflowVars, TickVarsButMark, messageVars, runVars,
                 prompt, child, killed, undo>>

\* The daemon dies and another is started: files stay, everything else is gone,
\* the subagents with it.
Crash ==
  /\ Event
  /\ at' = [p \in DOMAIN at |->
              IF p \notin Jobs THEN "none"
              ELSE IF at[p] \in {"new", "done"} THEN at[p] ELSE "lost"]
  /\ mark' = "none" /\ tick' = "none" /\ picked' = {}
  /\ item' = [r \in Resumes |-> "continuation"]
  /\ lease' \in IF lease = "mine" THEN {"foreign", "none"} ELSE {lease}
  /\ seen' = {} /\ got' = FALSE /\ aborted' = FALSE /\ busy' = FALSE
  /\ prompt' = FALSE /\ child' = NoJob /\ undo' = {} /\ overdue' = FALSE
  /\ UNCHANGED <<queueVars, state, autonomous, failures, retryAt, messageVars, killed>>

Time == KillSwitchOff \/ RetryDue \/ LeaseExpires \/ FiveMinutes

Next ==
  \/ RunStep \/ StreamAgain \/ RunThrow \/ TickStep \/ CancelWrite \/ RouteStep \/ User \/ Time \/ Crash
  \/ \E j \in Jobs : Dispatch(j) \/ JobStep(j)
  \/ \E r \in Resumes : ResumeStep(r)

Spec == Init /\ [][Next]_vars

FairSpec ==
  /\ Spec
  /\ WF_vars(RunStep) /\ WF_vars(TickStep) /\ WF_vars(CancelWrite) /\ WF_vars(RouteStep)
  /\ WF_vars(KillSwitchOff) /\ WF_vars(RetryDue) /\ WF_vars(LeaseExpires)
  /\ \A j \in Jobs : WF_vars(JobStep(j))
  /\ \A r \in Resumes : WF_vars(ResumeStep(r))

-----------------------------------------------------------------------------
(* Properties *)

Live == {r \in Resumes : at[r] # "none"}

\* A resume in flight is marked, and a mark stands for a resume or is about to:
\* a session is not resumed twice at once, nor left behind a mark that nobody
\* will remove, unless a resume lasted five minutes.
OneResume ==
  overdue \/ /\ Cardinality(Live) <= 1
             /\ (mark # "none") <=> (Live # {} \/ tick = "lease")

\* A failed resume is not repeated before its back-off is over.
RetryWaits == [][tick = "picked" /\ tick' = "lease" => overdue \/ ~retryAt]_vars

\* Notices that arrive while others are drained survive: a notice leaves the
\* session only by being rendered.
NoticeIsKept ==
  \A j \in Jobs :
    at[j] \in {"message", "remove", "write", "mirror", "done"} => j \in notices \cup rendered

\* The completion of a subagent does not stay in the queue, whatever the
\* workflow state, after failures, a crash, or a foreign lease.
CompletionIsTaken == \A l \in LANES : lane[l] = "completion" ~> lane[l] # "completion"
=============================================================================
