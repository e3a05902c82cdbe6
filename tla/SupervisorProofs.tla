--------------------------- MODULE SupervisorProofs ---------------------------
(***************************************************************************)
(* The supervisor resumes a session once at a time, after its back-off, and *)
(* no notice of a subagent is lost: for any number of jobs, of resumes and  *)
(* of failures that are retried.                                           *)
(***************************************************************************)
EXTENDS WorkflowSupervisor, FiniteSetTheorems, TLAPS

USE ProcsDiffer

\* Everybody stands at a step of theirs.
Places ==
  /\ at \in [{"run", "route"} \cup Jobs \cup Resumes ->
               RunSteps \cup ResumeSteps \cup JobSteps \cup RouteSteps]
  /\ at["run"] \in RunSteps /\ at["route"] \in RouteSteps
  /\ \A r \in Resumes : at[r] \in ResumeSteps
  /\ \A j \in Jobs : at[j] \in JobSteps

\* A tick that has taken the mark has a resume to start.
SpawnHasPlace == tick = "lease" => \E r \in Resumes : at[r] = "none"

\* A mark grows stale only when a resume lasts five minutes.
StaleMeansOverdue == mark = "stale" => overdue

\* Until then the mark guards the resume: a tick that has passed the mark finds
\* nobody, and the back-off that it has looked at is not written meanwhile.
MarkGuards ==
  \/ overdue
  \/ /\ \A r, q \in Live : r = q
     /\ (mark # "none") <=> (Live # {} \/ tick = "lease")
     /\ tick \in {"marked", "picked", "lease"} => Live = {}
     /\ tick = "picked" => ~retryAt

SupervisorInv ==
  TypeOK /\ SpawnHasPlace /\ StaleMeansOverdue /\ MarkGuards /\ NoticeIsKept

-----------------------------------------------------------------------------
(* One party moves, the others stay.                                       *)

LEMMA RunMoves ==
  ASSUME Places, NEW to \in RunSteps, at' = [at EXCEPT !["run"] = to]
  PROVE  Places' /\ \A p \in {"route"} \cup Jobs \cup Resumes : at'[p] = at[p]
<1>1. /\ at'["run"] = to
      /\ \A p \in {"route"} \cup Jobs \cup Resumes : at'[p] = at[p]
  BY DEF Places
<1>2. at' \in [{"run", "route"} \cup Jobs \cup Resumes ->
                 RunSteps \cup ResumeSteps \cup JobSteps \cup RouteSteps]
  BY DEF Places
<1> QED BY <1>1, <1>2 DEF Places

LEMMA RouteMoves ==
  ASSUME Places, NEW to \in RouteSteps, at' = [at EXCEPT !["route"] = to]
  PROVE  Places' /\ \A p \in {"run"} \cup Jobs \cup Resumes : at'[p] = at[p]
<1>1. /\ at'["route"] = to
      /\ \A p \in {"run"} \cup Jobs \cup Resumes : at'[p] = at[p]
  BY DEF Places
<1>2. at' \in [{"run", "route"} \cup Jobs \cup Resumes ->
                 RunSteps \cup ResumeSteps \cup JobSteps \cup RouteSteps]
  BY DEF Places
<1> QED BY <1>1, <1>2 DEF Places

LEMMA JobMoves ==
  ASSUME Places, NEW j \in Jobs, NEW to \in JobSteps, at' = [at EXCEPT ![j] = to]
  PROVE  /\ Places' /\ at'[j] = to
         /\ \A p \in ({"run", "route"} \cup Jobs \cup Resumes) \ {j} : at'[p] = at[p]
<1>1. /\ at'[j] = to
      /\ \A p \in ({"run", "route"} \cup Jobs \cup Resumes) \ {j} : at'[p] = at[p]
  BY DEF Places
<1>2. at' \in [{"run", "route"} \cup Jobs \cup Resumes ->
                 RunSteps \cup ResumeSteps \cup JobSteps \cup RouteSteps]
  BY DEF Places
<1> QED BY <1>1, <1>2 DEF Places

LEMMA ResumeMoves ==
  ASSUME Places, NEW r \in Resumes, NEW to \in ResumeSteps, at' = [at EXCEPT ![r] = to]
  PROVE  /\ Places' /\ at'[r] = to
         /\ \A p \in ({"run", "route"} \cup Jobs \cup Resumes) \ {r} : at'[p] = at[p]
<1>1. /\ at'[r] = to
      /\ \A p \in ({"run", "route"} \cup Jobs \cup Resumes) \ {r} : at'[p] = at[p]
  BY DEF Places
<1>2. at' \in [{"run", "route"} \cup Jobs \cup Resumes ->
                 RunSteps \cup ResumeSteps \cup JobSteps \cup RouteSteps]
  BY DEF Places
<1> QED BY <1>1, <1>2 DEF Places

\* The rest of the type: what the files and the memory hold, the counters and
\* the flags.
Contents ==
  /\ notices \subseteq Jobs /\ seen \subseteq Jobs /\ rendered \subseteq Jobs
  /\ state \in {"idle", "running", "waiting", "interrupted", "completed", "blocked"}
  /\ lease \in {"none", "mine", "foreign"} /\ mark \in {"none", "fresh", "stale"}
  /\ tick \in {"none", "listed", "marked", "picked", "lease"}
  /\ picked \subseteq Triggers /\ item \in [Resumes -> Triggers]
  /\ child \in Jobs \cup {NoJob} /\ undo \subseteq {"clear", "state"}

Counters == failures \in 0 .. MaxFailures /\ events \in 0 .. MaxEvents

Flags ==
  /\ autonomous \in BOOLEAN /\ retryAt \in BOOLEAN /\ got \in BOOLEAN
  /\ newer \in BOOLEAN /\ terminal \in BOOLEAN /\ aborted \in BOOLEAN
  /\ busy \in BOOLEAN /\ prompt \in BOOLEAN /\ killed \in BOOLEAN
  /\ overdue \in BOOLEAN

LEMMA TypeParts == TypeOK <=> Places /\ QueueTypeOK /\ Contents /\ Counters /\ Flags
<1> DEFINE All == {autonomous, retryAt, got, newer, terminal, aborted, busy, prompt,
                   killed, overdue} \subseteq BOOLEAN
<1>1. All <=> Flags
  BY Zenon DEF Flags
<1> HIDE DEF All
<1>2. TypeOK <=> Places /\ QueueTypeOK /\ Contents /\ Counters /\ All
  BY DEF TypeOK, Places, Contents, Counters, All
<1> QED BY <1>1, <1>2

-----------------------------------------------------------------------------
(* What the steps of the run, of the routes, of users and of jobs leave    *)
(* alone: nobody of them begins or ends a resume, or touches its mark.     *)

Apart ==
  /\ Places'
  /\ \A r \in Resumes : at'[r] = "none" <=> at[r] = "none"
  /\ UNCHANGED <<mark, tick, picked, item, overdue>>
  /\ retryAt' => retryAt

LEMMA RunIsApart ==
  ASSUME TypeOK, RunStep \/ StreamAgain \/ RunThrow
  PROVE  Apart
<1> USE DEF workflowVars, tickVars, messageVars, runVars, worldVars
<1>0. Places
  BY TypeParts
<1>1. ASSUME \/ Head \/ Collect \/ Consume \/ ReadMessages \/ Turn \/ StreamStart \/ StreamRunning
             \/ StreamEnd \/ StreamStop \/ DecideContinue \/ DecideStop \/ StreamAgain \/ RunThrow
             \/ enqueue("run", "normal", "continuation", "head")
      PROVE  Apart
  <2>1. \E to \in RunSteps : at' = [at EXCEPT !["run"] = to]
    BY <1>1 DEF Head, Collect, Consume, ReadMessages, Turn, StreamStart, StreamRunning,
                StreamEnd, StreamStop, DecideContinue, DecideStop, StreamAgain, RunThrow,
                enqueue, Goto, RunSteps
  <2>2. Places' /\ \A r \in Resumes : at'[r] = at[r]
    BY <1>0, <2>1, RunMoves
  <2>3. UNCHANGED <<mark, tick, picked, item, overdue, retryAt>>
    BY <1>1 DEF Head, Collect, Consume, ReadMessages, Turn, StreamStart, StreamRunning,
                StreamEnd, StreamStop, DecideContinue, DecideStop, StreamAgain, RunThrow, enqueue
  <2> QED BY <2>2, <2>3 DEF Apart
<1>2. CASE RunStart(Resumes)
  <2>1. CASE at' = [at EXCEPT !["run"] = "head"]
    <3>1. Places' /\ \A r \in Resumes : at'[r] = at[r]
      BY <1>0, <2>1, RunMoves DEF RunSteps
    <3> QED BY <1>2, <3>1 DEF RunStart, Apart
  <2>2. ASSUME NEW r \in Resumes, at[r] = "loop",
               at' = [at EXCEPT !["run"] = "head", ![r] = "running"]
        PROVE  Apart
    <3> DEFINE mid == [at EXCEPT !["run"] = "head"]
    <3>1. at' = [mid EXCEPT ![r] = "running"]
      BY <2>2
    <3>2. /\ mid \in [{"run", "route"} \cup Jobs \cup Resumes ->
                        RunSteps \cup ResumeSteps \cup JobSteps \cup RouteSteps]
          /\ mid["run"] = "head"
          /\ \A p \in {"route"} \cup Jobs \cup Resumes : mid[p] = at[p]
      BY <1>0 DEF Places, RunSteps
    <3> HIDE DEF mid
    <3>3. /\ at' \in [{"run", "route"} \cup Jobs \cup Resumes ->
                        RunSteps \cup ResumeSteps \cup JobSteps \cup RouteSteps]
          /\ at'["run"] = "head" /\ at'[r] = "running"
          /\ \A p \in ({"route"} \cup Jobs \cup Resumes) \ {r} : at'[p] = at[p]
      BY <3>1, <3>2 DEF ResumeSteps
    <3>4. Places'
      BY <1>0, <3>3 DEF Places, RunSteps, ResumeSteps
    <3> QED BY <1>2, <2>2, <3>3, <3>4 DEF RunStart, Apart
  <2> QED BY <1>2, <2>1, <2>2 DEF RunStart
<1>3. CASE RunEnd
  <2> DEFINE after(p) == IF p = "run" THEN "none"
                         ELSE IF p \in Resumes /\ at[p] = "running"
                              THEN IF at["run"] = "end" THEN "ok" ELSE "failed"
                         ELSE at[p]
  <2>1. at' = [p \in DOMAIN at |-> after(p)]
    BY <1>3 DEF RunEnd
  <2>2. DOMAIN at = {"run", "route"} \cup Jobs \cup Resumes
    BY <1>0 DEF Places
  <2>3. \A p \in DOMAIN at : after(p) \in RunSteps \cup ResumeSteps \cup JobSteps \cup RouteSteps
    BY <1>0, <2>2 DEF Places, RunSteps, ResumeSteps
  <2>4. /\ after("run") \in RunSteps /\ after("route") = at["route"]
        /\ \A j \in Jobs : after(j) = at[j]
        /\ \A r \in Resumes : /\ after(r) = at[r] \/ after(r) \in {"ok", "failed"}
                              /\ after(r) = "none" <=> at[r] = "none"
    BY DEF RunSteps
  <2> HIDE DEF after
  <2>5. /\ at' \in [DOMAIN at -> RunSteps \cup ResumeSteps \cup JobSteps \cup RouteSteps]
        /\ \A p \in DOMAIN at : at'[p] = after(p)
    BY <2>1, <2>3
  <2>6. Places'
    BY <1>0, <2>2, <2>4, <2>5 DEF Places, ResumeSteps
  <2>7. \A r \in Resumes : at'[r] = "none" <=> at[r] = "none"
    BY <2>2, <2>4, <2>5
  <2> QED BY <1>3, <2>6, <2>7 DEF RunEnd, Apart
<1> QED BY <1>1, <1>2, <1>3 DEF RunStep

\* The run moves no job.
LEMMA JobsStay ==
  ASSUME TypeOK, RunStep \/ StreamAgain \/ RunThrow, NEW j \in Jobs
  PROVE  at'[j] = at[j]
<1>0. Places
  BY TypeParts
<1>1. CASE RunStart(Resumes)
  BY <1>0, <1>1 DEF RunStart, Places
<1>2. CASE RunEnd
  BY <1>0, <1>2 DEF RunEnd, Places
<1>3. CASE ~ RunStart(Resumes) /\ ~ RunEnd
  <2>1. \E to \in RunSteps : at' = [at EXCEPT !["run"] = to]
    BY <1>3 DEF RunStep, Head, Collect, Consume, ReadMessages, Turn, StreamStart, StreamRunning,
                StreamEnd, StreamStop, DecideContinue, DecideStop, StreamAgain, RunThrow,
                enqueue, Goto, RunSteps
  <2> QED BY <1>0, <2>1, RunMoves
<1> QED BY <1>1, <1>2, <1>3

LEMMA JobsAreApart ==
  ASSUME TypeOK, NEW j \in Jobs, Dispatch(j) \/ JobStep(j)
  PROVE  /\ Apart
         /\ at'[j] \in JobSteps
         /\ \A p \in ({"run", "route"} \cup Jobs \cup Resumes) \ {j} : at'[p] = at[p]
<1> USE DEF workflowVars, tickVars, messageVars, runVars, worldVars
<1>0. Places
  BY TypeParts
<1>1. \E to \in JobSteps : at' = [at EXCEPT ![j] = to]
  BY DEF Dispatch, JobStep, JobEnd, AppendNotice, NoticeMessage, enqueue, Goto, JobSteps
<1>2. /\ Places' /\ at'[j] \in JobSteps
      /\ \A p \in ({"run", "route"} \cup Jobs \cup Resumes) \ {j} : at'[p] = at[p]
  BY <1>0, <1>1, JobMoves
<1>3. UNCHANGED <<mark, tick, picked, item, overdue, retryAt>>
  BY DEF Dispatch, JobStep, JobEnd, AppendNotice, NoticeMessage, enqueue
<1> QED BY <1>2, <1>3 DEF Apart

LEMMA RouteIsApart ==
  ASSUME TypeOK, RouteStep \/ \E b \in BOOLEAN : SetAutonomous(b)
  PROVE  Apart /\ \A p \in Jobs : at'[p] = at[p]
<1> USE DEF workflowVars, tickVars, messageVars, runVars, worldVars
<1>0. Places
  BY TypeParts
<1>1. \E to \in RouteSteps : at' = [at EXCEPT !["route"] = to]
  BY DEF RouteStep, SetAutonomous, enqueue, Goto, RouteSteps
<1>2. Places' /\ \A p \in {"run"} \cup Jobs \cup Resumes : at'[p] = at[p]
  BY <1>0, <1>1, RouteMoves
<1>3. UNCHANGED <<mark, tick, picked, item, overdue, retryAt>>
  BY DEF RouteStep, SetAutonomous, enqueue
<1> QED BY <1>2, <1>3 DEF Apart

LEMMA NobodyMoves ==
  ASSUME TypeOK,
         \/ Prompt \/ Cancel \/ DropPending \/ KillSwitchOn \/ CancelWrite
         \/ KillSwitchOff \/ RetryDue \/ LeaseExpires \/ UNCHANGED vars
  PROVE  Apart /\ UNCHANGED at
<1> USE DEF workflowVars, tickVars, messageVars, runVars, worldVars
<1>0. Places
  BY TypeParts
<1>1. UNCHANGED <<at, mark, tick, picked, item, overdue>> /\ (retryAt' => retryAt)
  <2>1. CASE RetryDue
    <3>1. UNCHANGED <<at, mark, tick, picked, item, overdue>>
      BY <2>1 DEF RetryDue
    <3>2. retryAt' = FALSE
      BY <2>1 DEF RetryDue
    <3> QED BY <3>1, <3>2
  <2>2. CASE \/ Prompt \/ Cancel \/ CancelWrite \/ LeaseExpires \/ UNCHANGED vars
             \/ DropPending \/ KillSwitchOn \/ KillSwitchOff
    <3>1. UNCHANGED <<at, mark, tick, picked, item, overdue>>
      BY <2>2 DEF Prompt, Cancel, CancelWrite, LeaseExpires, DropPending, KillSwitchOn,
                  KillSwitchOff, vars
    <3>2. UNCHANGED retryAt
      BY <2>2 DEF Prompt, Cancel, CancelWrite, LeaseExpires, DropPending, KillSwitchOn,
                  KillSwitchOff, vars
    <3> QED BY <3>1, <3>2
  <2> QED BY <2>1, <2>2
<1>2. Places'
  BY <1>0, <1>1 DEF Places
<1> QED BY <1>1, <1>2 DEF Apart

\* Every step that is none of the tick, of a resume, of a long delay, a crash.
LEMMA OthersAreApart ==
  ASSUME TypeOK, [Next]_vars
  PROVE  \/ Apart \/ TickStep \/ FiveMinutes \/ Crash
         \/ \E r \in Resumes : ResumeStep(r)
<1>1. CASE RunStep \/ StreamAgain \/ RunThrow
  BY <1>1, RunIsApart
<1>2. CASE \E j \in Jobs : Dispatch(j) \/ JobStep(j)
  BY <1>2, JobsAreApart
<1>3. CASE RouteStep \/ \E b \in BOOLEAN : SetAutonomous(b)
  BY <1>3, RouteIsApart
<1>4. CASE \/ Prompt \/ Cancel \/ DropPending \/ KillSwitchOn \/ CancelWrite
           \/ KillSwitchOff \/ RetryDue \/ LeaseExpires \/ UNCHANGED vars
  BY <1>4, NobodyMoves
<1> QED BY <1>1, <1>2, <1>3, <1>4 DEF Next, User, Time

-----------------------------------------------------------------------------
(* What the others do.                                                     *)

\* A step of a resume leaves the tick alone, and the mark as long as the
\* resume goes on.
LEMMA ResumeFacts ==
  ASSUME TypeOK, NEW r \in Resumes, ResumeStep(r)
  PROVE  /\ Places' /\ at[r] # "none"
         /\ \A p \in ({"run", "route"} \cup Jobs \cup Resumes) \ {r} : at'[p] = at[p]
         /\ UNCHANGED <<tick, picked, overdue>>
         /\ \/ at'[r] # "none" /\ UNCHANGED <<mark, item>>
            \/ at'[r] = "none" /\ Unmark(r)
<1> USE DEF workflowVars, tickVars, messageVars, runVars, worldVars
<1>0. Places /\ item \in [Resumes -> Triggers]
  BY TypeParts DEF Contents
<1>1. CASE Unmark(r)
  <2>1. at' = [at EXCEPT ![r] = "none"] /\ at[r] = "unmark"
    BY <1>1 DEF Unmark, Goto
  <2>2. /\ Places' /\ at'[r] = "none"
        /\ \A p \in ({"run", "route"} \cup Jobs \cup Resumes) \ {r} : at'[p] = at[p]
    BY <1>0, <2>1, ResumeMoves DEF ResumeSteps
  <2> QED BY <1>1, <2>1, <2>2 DEF Unmark
<1>2. CASE ~ Unmark(r)
  <2>1. /\ at[r] # "none"
        /\ \E to \in ResumeSteps \ {"none"} : at' = [at EXCEPT ![r] = to]
        /\ UNCHANGED <<mark, tick, picked, item, overdue>>
    <3>1. CASE ResumeGate(r) \/ ResumeFailed(r)
      BY <3>1 DEF ResumeGate, ResumeFailed, Goto, ResumeSteps
    <3>2. CASE enqueue(r, "normal", item[r], "waitState")
      BY <3>2 DEF enqueue, Goto, ResumeSteps
    <3>3. CASE \/ SetState(r, "killState", "blocked", "killSupervisor")
               \/ SetState(r, "waitState", "waiting", "waitSupervisor")
               \/ SetState(r, "blockState", "blocked", "blockSupervisor")
      BY <3>3 DEF SetState, Goto, ResumeSteps
    <3>4. CASE \/ SetSupervisor(r, "killSupervisor", failures, FALSE)
               \/ SetSupervisor(r, "ok", 0, FALSE)
               \/ SetSupervisor(r, "waitSupervisor", NextFailures, TRUE)
               \/ SetSupervisor(r, "blockSupervisor", NextFailures, FALSE)
      BY <3>4 DEF SetSupervisor, Goto, ResumeSteps
    <3> QED BY <1>2, <3>1, <3>2, <3>3, <3>4 DEF ResumeStep
  <2> QED BY <1>0, <2>1, ResumeMoves
<1> QED BY <1>1, <1>2

\* A tick starts one resume, when it has the mark.
LEMMA TickFacts ==
  ASSUME TypeOK, SpawnHasPlace, TickStep
  PROVE  /\ Places' /\ UNCHANGED overdue
         /\ \A j \in Jobs : at'[j] = at[j]
         /\ \/ ~ TickSpawn /\ UNCHANGED <<at, item, retryAt>>
            \/ /\ tick = "lease" /\ tick' = "none" /\ UNCHANGED mark
               /\ retryAt' = FALSE
               /\ item' \in [Resumes -> Triggers]
               /\ \E r \in Resumes :
                    /\ at[r] = "none" /\ at'[r] # "none"
                    /\ \A q \in Resumes \ {r} : at'[q] = at[q]
<1> USE DEF workflowVars, tickVars, messageVars, runVars, worldVars
<1>0. Places /\ item \in [Resumes -> Triggers] /\ picked \subseteq Triggers
  BY TypeParts DEF Contents
<1>1. CASE TickList \/ TickCheckMark \/ TickInspect \/ TickMark
  <2>1. UNCHANGED <<at, item, retryAt, overdue>>
    BY <1>1 DEF TickList, TickCheckMark, TickInspect, TickMark
  <2>2. ~ TickSpawn
    BY <1>1 DEF TickList, TickCheckMark, TickInspect, TickMark, TickSpawn
  <2> QED BY <1>0, <2>1, <2>2 DEF Places
<1>2. CASE TickSpawn
  <2> DEFINE r == CHOOSE q \in Resumes : at[q] = "none"
  <2>1. r \in Resumes /\ at[r] = "none"
    <3>1. tick = "lease"
      BY <1>2 DEF TickSpawn
    <3> QED BY <3>1 DEF SpawnHasPlace
  <2>2. PICK t \in picked : at' = [at EXCEPT ![r] = "lane"] /\ item' = [item EXCEPT ![r] = t]
    BY <1>2 DEF TickSpawn
  <2> HIDE DEF r
  <2>3. /\ Places' /\ at'[r] = "lane"
        /\ \A p \in ({"run", "route"} \cup Jobs \cup Resumes) \ {r} : at'[p] = at[p]
    BY <1>0, <2>1, <2>2, ResumeMoves DEF ResumeSteps
  <2>4. item' \in [Resumes -> Triggers]
    BY <1>0, <2>1, <2>2
  <2>5. tick = "lease" /\ tick' = "none" /\ UNCHANGED <<mark, overdue>> /\ retryAt' = FALSE
    BY <1>2 DEF TickSpawn
  <2> QED BY <2>1, <2>3, <2>4, <2>5
<1> QED BY <1>1, <1>2 DEF TickStep

\* A crash leaves nobody but the jobs that have not begun or have ended.
LEMMA CrashFacts ==
  ASSUME TypeOK, Crash
  PROVE  /\ Places'
         /\ \A r \in Resumes : at'[r] = "none"
         /\ \A j \in Jobs : at'[j] = at[j] \/ at'[j] = "lost"
<1> DEFINE after(p) == IF p \notin Jobs THEN "none"
                       ELSE IF at[p] \in {"new", "done"} THEN at[p] ELSE "lost"
<1>0. Places
  BY TypeParts
<1>1. at' = [p \in DOMAIN at |-> after(p)]
  BY DEF Crash
<1>2. DOMAIN at = {"run", "route"} \cup Jobs \cup Resumes
  BY <1>0 DEF Places
<1>3. /\ after("run") = "none" /\ after("route") = "none"
      /\ \A r \in Resumes : after(r) = "none"
      /\ \A j \in Jobs : (after(j) = at[j] \/ after(j) = "lost") /\ after(j) \in JobSteps
  BY DEF JobSteps
<1>4. \A p \in DOMAIN at : after(p) \in RunSteps \cup ResumeSteps \cup JobSteps \cup RouteSteps
  BY <1>2, <1>3 DEF RunSteps
<1> HIDE DEF after
<1>5. /\ at' \in [DOMAIN at -> RunSteps \cup ResumeSteps \cup JobSteps \cup RouteSteps]
      /\ \A p \in DOMAIN at : at'[p] = after(p)
  BY <1>1, <1>4
<1>6. Places'
  BY <1>2, <1>3, <1>5 DEF Places, RunSteps, RouteSteps, ResumeSteps
<1> QED BY <1>2, <1>3, <1>5, <1>6

-----------------------------------------------------------------------------
(* The type invariant.                                                     *)

LEMMA PlacesStep == TypeOK /\ SpawnHasPlace /\ [Next]_vars => Places'
<1> SUFFICES ASSUME TypeOK, SpawnHasPlace, [Next]_vars PROVE Places'
  OBVIOUS
<1>1. CASE FiveMinutes
  <2>1. UNCHANGED at
    BY <1>1 DEF FiveMinutes
  <2> QED BY <2>1, TypeParts DEF Places
<1> QED BY <1>1, OthersAreApart, TickFacts, ResumeFacts, CrashFacts DEF Apart

\* An entry is written, a file of the queue is removed, or the queue stays.
QueueMoves ==
  \/ remove \/ writeLegacy \/ UNCHANGED queueVars
  \/ \E l \in LANES, t \in Triggers : writeLane(l, t)

\* The operations of the queue keep its type.
LEMMA QueueTyped == QueueTypeOK /\ QueueMoves => QueueTypeOK'
<1> SUFFICES ASSUME QueueTypeOK, QueueMoves PROVE QueueTypeOK'
  OBVIOUS
<1>1. CASE remove
  BY <1>1 DEF remove, QueueTypeOK
<1>2. CASE writeLegacy
  BY <1>2 DEF writeLegacy, QueueTypeOK
<1>3. CASE UNCHANGED queueVars
  BY <1>3 DEF queueVars, QueueTypeOK
<1>4. ASSUME NEW l \in LANES, NEW t \in Triggers, writeLane(l, t) PROVE QueueTypeOK'
  BY <1>4 DEF writeLane, QueueTypeOK
<1> QED BY <1>1, <1>2, <1>3, <1>4 DEF QueueMoves

\* enqueue() writes a trigger that it was given.
LEMMA EnqueueMoves ==
  ASSUME NEW p, NEW l \in LANES, NEW t \in Triggers, NEW next, enqueue(p, l, t, next)
  PROVE  QueueMoves
BY DEF enqueue, QueueMoves

LEMMA QueueStep == Contents /\ [Next]_vars => QueueMoves
<1> SUFFICES ASSUME Contents, [Next]_vars PROVE QueueMoves
  OBVIOUS
<1> USE DEF QueueMoves
<1>1. CASE RunStep
  <2>1. CASE RunStart(Resumes) \/ Head \/ Collect \/ Consume \/ ReadMessages \/ Turn
    BY <2>1 DEF RunStart, Head, Collect, Consume, ReadMessages, Turn
  <2>2. CASE StreamStart \/ StreamRunning \/ StreamEnd \/ StreamStop
    BY <2>2 DEF StreamStart, StreamRunning, StreamEnd, StreamStop
  <2>3. CASE DecideContinue \/ DecideStop \/ RunEnd
    BY <2>3 DEF DecideContinue, DecideStop, RunEnd
  <2>4. CASE enqueue("run", "normal", "continuation", "head")
    BY <2>4, EnqueueMoves DEF LANES, Triggers
  <2> QED BY <1>1, <2>1, <2>2, <2>3, <2>4 DEF RunStep
<1>2. CASE StreamAgain \/ RunThrow
  BY <1>2 DEF StreamAgain, RunThrow
<1>3. CASE TickStep
  BY <1>3 DEF TickStep, TickList, TickCheckMark, TickInspect, TickMark, TickSpawn
<1>4. CASE CancelWrite \/ Crash
  BY <1>4 DEF CancelWrite, Crash
<1>5. CASE UNCHANGED vars
  BY <1>5 DEF vars
<1>6. CASE RouteStep
  <2>1. CASE enqueue("route", "normal", "continuation", "none")
    BY <2>1, EnqueueMoves DEF LANES, Triggers
  <2> QED BY <1>6, <2>1 DEF RouteStep
<1>7. CASE User
  BY <1>7 DEF User, Prompt, Cancel, SetAutonomous, DropPending, KillSwitchOn
<1>8. CASE Time
  BY <1>8 DEF Time, KillSwitchOff, RetryDue, LeaseExpires, FiveMinutes
<1>9. ASSUME NEW j \in Jobs, Dispatch(j) \/ JobStep(j) PROVE QueueMoves
  <2>1. CASE enqueue(j, "critical", "completion", "done")
    BY <2>1, EnqueueMoves DEF LANES, Triggers
  <2> QED BY <1>9, <2>1 DEF Dispatch, JobStep, JobEnd, AppendNotice, NoticeMessage
<1>10. ASSUME NEW r \in Resumes, ResumeStep(r) PROVE QueueMoves
  <2>1. CASE enqueue(r, "normal", item[r], "waitState")
    <3>1. item[r] \in Triggers
      BY DEF Contents
    <3> QED BY <2>1, <3>1, EnqueueMoves DEF LANES
  <2> QED BY <1>10, <2>1 DEF ResumeStep, ResumeGate, SetState, SetSupervisor, ResumeFailed, Unmark
<1> QED
  BY <1>1, <1>2, <1>3, <1>4, <1>5, <1>6, <1>7, <1>8, <1>9, <1>10 DEF Next

\* What else is in the files and in the memory is not enqueue()'s.
LEMMA EnqueueApart ==
  ASSUME Contents, NEW p, NEW l, NEW t, NEW next, enqueue(p, l, t, next)
  PROVE  Contents'
BY DEF enqueue, Contents, workflowVars, tickVars, messageVars, runVars, worldVars

LEMMA RunContents ==
  ASSUME Contents, RunStep \/ StreamAgain \/ RunThrow
  PROVE  Contents'
<1> USE DEF workflowVars, tickVars, messageVars, runVars, worldVars
<1>1. CASE RunStart(Resumes)
  BY <1>1 DEF RunStart, Contents
<1>2. CASE Head
  BY <1>2 DEF Head, Contents
<1>3. CASE Collect
  BY <1>3 DEF Collect, Contents
<1>4. CASE ReadMessages
  BY <1>4 DEF ReadMessages, Contents
<1>5. CASE Consume
  BY <1>5 DEF Consume, Contents
<1>6. CASE StreamStart
  BY <1>6 DEF StreamStart, Contents
<1>7. CASE Turn
  BY <1>7 DEF Turn, Contents
<1>8. CASE RunEnd
  BY <1>8 DEF RunEnd, Contents
<1>9. CASE StreamRunning
  BY <1>9 DEF StreamRunning, Contents
<1>10. CASE StreamEnd
  BY <1>10 DEF StreamEnd, Contents
<1>11. CASE StreamStop
  BY <1>11 DEF StreamStop, Contents
<1>12. CASE StreamAgain
  BY <1>12 DEF StreamAgain, Contents
<1>13. CASE RunThrow
  BY <1>13 DEF RunThrow, Contents
<1>14. CASE DecideContinue
  BY <1>14 DEF DecideContinue, Contents
<1>15. CASE DecideStop
  BY <1>15 DEF DecideStop, Contents
<1>16. CASE enqueue("run", "normal", "continuation", "head")
  BY <1>16, EnqueueApart
<1> QED
  BY <1>1, <1>2, <1>3, <1>4, <1>5, <1>6, <1>7, <1>8, <1>9, <1>10, <1>11, <1>12, <1>13, <1>14, <1>15, <1>16 DEF RunStep

LEMMA JobContents ==
  ASSUME Contents, NEW j \in Jobs, Dispatch(j) \/ JobStep(j)
  PROVE  Contents'
<1> USE DEF workflowVars, tickVars, messageVars, runVars, worldVars
<1>1. CASE Dispatch(j)
  BY <1>1 DEF Dispatch, Contents
<1>2. CASE JobEnd(j)
  BY <1>2 DEF JobEnd, Contents
<1>3. CASE AppendNotice(j)
  BY <1>3 DEF AppendNotice, Contents
<1>4. CASE NoticeMessage(j)
  BY <1>4 DEF NoticeMessage, Contents
<1>5. CASE enqueue(j, "critical", "completion", "done")
  BY <1>5, EnqueueApart
<1> QED BY <1>1, <1>2, <1>3, <1>4, <1>5 DEF JobStep

LEMMA TickContents ==
  ASSUME TypeOK, SpawnHasPlace, TickStep
  PROVE  Contents'
<1> USE DEF workflowVars, tickVars, messageVars, runVars, worldVars
<1>1. QueueTypeOK /\ Contents
  BY TypeParts
<1>2. CASE TickList
  <2>1. picked' \subseteq Triggers
    BY <1>1, <1>2 DEF TickList, listPending, QueueTypeOK, Triggers, Contents
  <2> QED BY <1>1, <1>2, <2>1 DEF TickList, Contents
<1>3. CASE TickCheckMark
  BY <1>1, <1>3 DEF TickCheckMark, Contents
<1>4. CASE TickInspect
  <2>1. picked' \subseteq Triggers
    BY <1>1, <1>4 DEF TickInspect, Contents
  <2>2. tick' \in {"none", "picked"}
    BY <1>4 DEF TickInspect
  <2>3. UNCHANGED <<queueVars, at, workflowVars, mark, item, messageVars, runVars, worldVars>>
    BY <1>4 DEF TickInspect
  <2> QED BY <1>1, <2>1, <2>2, <2>3 DEF Contents
<1>5. CASE TickMark
  BY <1>1, <1>5 DEF TickMark, Contents
<1>6. CASE TickSpawn
  <2>1. item' \in [Resumes -> Triggers]
    BY <1>6, TickFacts
  <2> QED BY <1>1, <1>6, <2>1 DEF TickSpawn, Contents
<1> QED BY <1>2, <1>3, <1>4, <1>5, <1>6 DEF TickStep

LEMMA ResumeContents ==
  ASSUME Contents, NEW r \in Resumes, ResumeStep(r)
  PROVE  Contents'
<1> USE DEF workflowVars, tickVars, messageVars, runVars, worldVars
<1>1. CASE ResumeGate(r) \/ ResumeFailed(r)
  <2>1. UNCHANGED <<workflowVars, tickVars, messageVars, runVars, worldVars>>
    BY <1>1 DEF ResumeGate, ResumeFailed
  <2> QED BY <2>1 DEF Contents
<1>2. ASSUME NEW from, NEW to, NEW w \in {"blocked", "waiting"}, SetState(r, from, w, to)
      PROVE  Contents'
  BY <1>2 DEF SetState, Contents
<1>3. ASSUME NEW from, NEW n, NEW b, SetSupervisor(r, from, n, b) PROVE Contents'
  BY <1>3 DEF SetSupervisor, Contents
<1>4. CASE enqueue(r, "normal", item[r], "waitState")
  BY <1>4, EnqueueApart
<1>5. CASE Unmark(r)
  BY <1>5 DEF Unmark, Contents, Triggers
<1> QED BY <1>1, <1>2, <1>3, <1>4, <1>5 DEF ResumeStep

LEMMA WorldContents ==
  ASSUME Contents, CancelWrite \/ RouteStep \/ User \/ Time \/ Crash \/ UNCHANGED vars
  PROVE  Contents'
<1> USE DEF workflowVars, tickVars, messageVars, runVars, worldVars
<1>1. CASE CancelWrite
  BY <1>1 DEF CancelWrite, Contents
<1>2. CASE RouteStep
  <2>1. CASE enqueue("route", "normal", "continuation", "none")
    BY <2>1, EnqueueApart
  <2>2. CASE ~ enqueue("route", "normal", "continuation", "none")
    <3>1. UNCHANGED <<workflowVars, tickVars, notices, rendered, runVars, worldVars>>
      BY <1>2, <2>2 DEF RouteStep
    <3> QED BY <3>1 DEF Contents
  <2> QED BY <2>1, <2>2
<1>3. CASE Prompt \/ Cancel
  <2>1. CASE Prompt
    BY <2>1 DEF Prompt, Contents
  <2>2. CASE Cancel
    BY <2>2 DEF Cancel, Contents
  <2> QED BY <1>3, <2>1, <2>2
<1>4. ASSUME NEW b \in BOOLEAN, SetAutonomous(b) PROVE Contents'
  BY <1>4 DEF SetAutonomous, Contents
<1>5. CASE DropPending \/ KillSwitchOn \/ KillSwitchOff
  <2>1. UNCHANGED <<workflowVars, tickVars, messageVars, runVars, child, undo>>
    BY <1>5 DEF DropPending, KillSwitchOn, KillSwitchOff
  <2> QED BY <2>1 DEF Contents
<1>6. CASE RetryDue \/ LeaseExpires
  BY <1>6 DEF RetryDue, LeaseExpires, Contents
<1>7. CASE FiveMinutes
  BY <1>7 DEF FiveMinutes, TickVarsButMark, Contents
<1>8. CASE Crash
  BY <1>8 DEF Crash, Contents, Triggers
<1>9. CASE UNCHANGED vars
  BY <1>9 DEF vars, Contents
<1> QED BY <1>1, <1>2, <1>3, <1>4, <1>5, <1>6, <1>7, <1>8, <1>9 DEF User, Time

\* Only users, time and errors count as events, only a resume counts failures.
LEMMA CountersStep == Counters /\ [Next]_vars => Counters'
<1> SUFFICES ASSUME Counters, [Next]_vars PROVE Counters'
  OBVIOUS
<1> USE DEF workflowVars, tickVars, messageVars, runVars, worldVars
<1>1. Event => events' \in 0 .. MaxEvents
  BY MaxEventsAssumption DEF Counters, Event
<1>2. NextFailures \in 0 .. MaxFailures /\ 0 \in 0 .. MaxFailures
  BY MaxFailuresAssumption DEF NextFailures, Counters
<1>3. \/ UNCHANGED failures
      \/ failures' \in {0, failures, NextFailures}
  <2>1. CASE RunStep \/ StreamAgain \/ RunThrow
    BY <2>1 DEF RunStep, RunStart, Head, Collect, Consume, ReadMessages, Turn, StreamStart,
                StreamRunning, StreamEnd, StreamStop, StreamAgain, RunThrow, DecideContinue,
                DecideStop, RunEnd, enqueue
  <2>2. CASE TickStep
    BY <2>2 DEF TickStep, TickList, TickCheckMark, TickInspect, TickMark, TickSpawn
  <2>3. CASE \/ CancelWrite \/ RouteStep \/ User \/ Time \/ Crash \/ UNCHANGED vars
    BY <2>3 DEF CancelWrite, RouteStep, enqueue, User, Prompt, Cancel, SetAutonomous,
                DropPending, KillSwitchOn, Time, KillSwitchOff, RetryDue, LeaseExpires,
                FiveMinutes, Crash, vars
  <2>4. CASE \E j \in Jobs : Dispatch(j) \/ JobStep(j)
    BY <2>4 DEF Dispatch, JobStep, JobEnd, AppendNotice, NoticeMessage, enqueue
  <2>5. CASE \E r \in Resumes : ResumeStep(r)
    BY <2>5 DEF ResumeStep, ResumeGate, SetState, SetSupervisor, ResumeFailed, enqueue, Unmark
  <2> QED BY <2>1, <2>2, <2>3, <2>4, <2>5 DEF Next
<1>4. UNCHANGED events \/ Event
  <2>1. CASE RunStep \/ StreamAgain \/ RunThrow
    BY <2>1 DEF RunStep, RunStart, Head, Collect, Consume, ReadMessages, Turn, StreamStart,
                StreamRunning, StreamEnd, StreamStop, StreamAgain, RunThrow, DecideContinue,
                DecideStop, RunEnd, enqueue
  <2>2. CASE TickStep
    BY <2>2 DEF TickStep, TickList, TickCheckMark, TickInspect, TickMark, TickSpawn
  <2>3. CASE \/ CancelWrite \/ RouteStep \/ User \/ Time \/ Crash \/ UNCHANGED vars
    BY <2>3 DEF CancelWrite, RouteStep, enqueue, User, Prompt, Cancel, SetAutonomous,
                DropPending, KillSwitchOn, Time, KillSwitchOff, RetryDue, LeaseExpires,
                FiveMinutes, Crash, vars
  <2>4. CASE \E j \in Jobs : Dispatch(j) \/ JobStep(j)
    BY <2>4 DEF Dispatch, JobStep, JobEnd, AppendNotice, NoticeMessage, enqueue
  <2>5. CASE \E r \in Resumes : ResumeStep(r)
    BY <2>5 DEF ResumeStep, ResumeGate, SetState, SetSupervisor, ResumeFailed, enqueue, Unmark
  <2> QED BY <2>1, <2>2, <2>3, <2>4, <2>5 DEF Next
<1>5. failures' \in 0 .. MaxFailures
  BY <1>2, <1>3 DEF Counters
<1>6. events' \in 0 .. MaxEvents
  BY <1>1, <1>4 DEF Counters
<1> QED BY <1>5, <1>6 DEF Counters

LEMMA FlagsStep == Flags /\ [Next]_vars => Flags'
<1> SUFFICES ASSUME Flags, [Next]_vars PROVE Flags'
  OBVIOUS
<1> USE DEF workflowVars, tickVars, messageVars, runVars, worldVars, Flags
<1>1. CASE RunStep
  <2>1. CASE RunStart(Resumes)
    BY <2>1 DEF RunStart
  <2>2. CASE Head
    BY <2>2 DEF Head
  <2>3. CASE Collect
    BY <2>3 DEF Collect
  <2>4. CASE Consume
    BY <2>4 DEF Consume
  <2>5. CASE ReadMessages
    BY <2>5 DEF ReadMessages
  <2>6. CASE Turn
    BY <2>6 DEF Turn
  <2>7. CASE StreamStart
    BY <2>7 DEF StreamStart
  <2>8. CASE StreamRunning
    BY <2>8 DEF StreamRunning
  <2>9. CASE StreamEnd
    BY <2>9 DEF StreamEnd
  <2>10. CASE StreamStop
    BY <2>10 DEF StreamStop
  <2>11. CASE DecideContinue
    BY <2>11 DEF DecideContinue
  <2>12. CASE DecideStop
    BY <2>12 DEF DecideStop
  <2>13. CASE RunEnd
    BY <2>13 DEF RunEnd
  <2>14. CASE enqueue("run", "normal", "continuation", "head")
    BY <2>14 DEF enqueue
  <2> QED BY <1>1, <2>1, <2>2, <2>3, <2>4, <2>5, <2>6, <2>7, <2>8, <2>9, <2>10, <2>11, <2>12, <2>13, <2>14 DEF RunStep
<1>2. CASE StreamAgain
  BY <1>2 DEF StreamAgain
<1>3. CASE RunThrow
  BY <1>3 DEF RunThrow
<1>4. CASE TickStep
  <2>1. CASE TickList
    BY <2>1 DEF TickList
  <2>2. CASE TickCheckMark
    BY <2>2 DEF TickCheckMark
  <2>3. CASE TickInspect
    BY <2>3 DEF TickInspect
  <2>4. CASE TickMark
    BY <2>4 DEF TickMark
  <2>5. CASE TickSpawn
    BY <2>5 DEF TickSpawn
  <2> QED BY <1>4, <2>1, <2>2, <2>3, <2>4, <2>5 DEF TickStep
<1>5. CASE CancelWrite
  BY <1>5 DEF CancelWrite
<1>6. CASE UNCHANGED vars
  BY <1>6 DEF vars
<1>7. CASE RouteStep
  <2>1. CASE enqueue("route", "normal", "continuation", "none")
    BY <2>1 DEF enqueue
  <2>2. CASE ~ enqueue("route", "normal", "continuation", "none")
    <3>1. newer' \in BOOLEAN
      BY <1>7, <2>2 DEF RouteStep
    <3>2. UNCHANGED <<autonomous, retryAt, got, terminal, aborted, busy, prompt, killed, overdue>>
      BY <1>7, <2>2 DEF RouteStep
    <3> QED BY <3>1, <3>2
  <2> QED BY <2>1, <2>2
<1>8. CASE User
  <2>1. CASE Prompt
    BY <2>1 DEF Prompt
  <2>2. CASE Cancel
    BY <2>2 DEF Cancel
  <2>3. CASE \E b \in BOOLEAN : SetAutonomous(b)
    BY <2>3 DEF SetAutonomous
  <2>4. CASE DropPending
    BY <2>4 DEF DropPending
  <2>5. CASE KillSwitchOn
    BY <2>5 DEF KillSwitchOn
  <2> QED BY <1>8, <2>1, <2>2, <2>3, <2>4, <2>5 DEF User
<1>9. CASE Time
  <2>1. CASE KillSwitchOff
    BY <2>1 DEF KillSwitchOff
  <2>2. CASE RetryDue
    BY <2>2 DEF RetryDue
  <2>3. CASE LeaseExpires
    BY <2>3 DEF LeaseExpires
  <2>4. CASE FiveMinutes
    BY <2>4 DEF FiveMinutes, TickVarsButMark
  <2> QED BY <1>9, <2>1, <2>2, <2>3, <2>4 DEF Time
<1>10. CASE Crash
  BY <1>10 DEF Crash
<1>11. ASSUME NEW j \in Jobs, Dispatch(j) \/ JobStep(j) PROVE Flags'
  <2>1. CASE Dispatch(j)
    BY <2>1 DEF Dispatch
  <2>2. CASE JobEnd(j)
    BY <2>2 DEF JobEnd
  <2>3. CASE AppendNotice(j)
    BY <2>3 DEF AppendNotice
  <2>4. CASE NoticeMessage(j)
    BY <2>4 DEF NoticeMessage
  <2>5. CASE enqueue(j, "critical", "completion", "done")
    BY <2>5 DEF enqueue
  <2> QED BY <1>11, <2>1, <2>2, <2>3, <2>4, <2>5 DEF JobStep
<1>12. ASSUME NEW r \in Resumes, ResumeStep(r) PROVE Flags'
  <2>1. CASE ResumeGate(r)
    BY <2>1 DEF ResumeGate
  <2>2. ASSUME NEW from, NEW to, NEW w, SetState(r, from, w, to) PROVE Flags'
    BY <2>2 DEF SetState
  <2>3. ASSUME NEW from, NEW n, NEW b \in BOOLEAN, SetSupervisor(r, from, n, b) PROVE Flags'
    BY <2>3 DEF SetSupervisor
  <2>4. CASE ResumeFailed(r)
    BY <2>4 DEF ResumeFailed
  <2>5. CASE enqueue(r, "normal", item[r], "waitState")
    BY <2>5 DEF enqueue
  <2>6. CASE Unmark(r)
    BY <2>6 DEF Unmark
  <2> QED BY <1>12, <2>1, <2>2, <2>3, <2>4, <2>5, <2>6 DEF ResumeStep
<1> QED
  BY <1>1, <1>2, <1>3, <1>4, <1>5, <1>6, <1>7, <1>8, <1>9, <1>10, <1>11, <1>12 DEF Next

LEMMA TypeStep == TypeOK /\ SpawnHasPlace /\ [Next]_vars => TypeOK'
<1> SUFFICES ASSUME TypeOK, SpawnHasPlace, [Next]_vars PROVE TypeOK'
  OBVIOUS
<1>1. Places'
  BY PlacesStep
<1>2. QueueTypeOK' /\ Contents'
  BY TypeParts, QueueStep, QueueTyped, RunContents, JobContents, TickContents, ResumeContents, WorldContents DEF Next
<1>3. Counters' /\ Flags'
  BY TypeParts, CountersStep, FlagsStep
<1>4. TypeOK' <=> Places' /\ QueueTypeOK' /\ Contents' /\ Counters' /\ Flags'
  BY TypeParts, PTL
<1> QED BY <1>1, <1>2, <1>3, <1>4

-----------------------------------------------------------------------------
(* The mark guards the resume.                                             *)

LEMMA SpawnStep == TypeOK /\ SpawnHasPlace /\ [Next]_vars => SpawnHasPlace'
<1> SUFFICES ASSUME TypeOK, SpawnHasPlace, [Next]_vars PROVE SpawnHasPlace'
  OBVIOUS
<1>1. CASE Apart
  BY <1>1 DEF Apart, SpawnHasPlace
<1>2. CASE TickStep
  <2>1. CASE TickMark
    BY <2>1 DEF TickMark, SpawnHasPlace
  <2>2. CASE TickList \/ TickCheckMark \/ TickInspect \/ TickSpawn
    <3>1. tick' # "lease"
      BY <2>2 DEF TickList, TickCheckMark, TickInspect, TickSpawn
    <3> QED BY <3>1 DEF SpawnHasPlace
  <2> QED BY <1>2, <2>1, <2>2 DEF TickStep
<1>3. ASSUME NEW r \in Resumes, ResumeStep(r) PROVE SpawnHasPlace'
  BY <1>3, ResumeFacts DEF SpawnHasPlace
<1>4. CASE FiveMinutes
  BY <1>4 DEF FiveMinutes, TickVarsButMark, SpawnHasPlace
<1>5. CASE Crash
  BY <1>5 DEF Crash, SpawnHasPlace
<1> QED BY <1>1, <1>2, <1>3, <1>4, <1>5, OthersAreApart

LEMMA StaleStep ==
  TypeOK /\ SpawnHasPlace /\ StaleMeansOverdue /\ [Next]_vars => StaleMeansOverdue'
<1> SUFFICES ASSUME TypeOK, SpawnHasPlace, StaleMeansOverdue, [Next]_vars
             PROVE  StaleMeansOverdue'
  OBVIOUS
<1> USE DEF StaleMeansOverdue
<1>1. CASE Apart
  BY <1>1 DEF Apart
<1>2. CASE TickStep
  <2>1. mark' = mark \/ mark' \in {"none", "fresh"}
    BY <1>2 DEF TickStep, TickList, TickCheckMark, TickInspect, TickMark, TickSpawn, tickVars
  <2> QED BY <1>2, <2>1, TickFacts
<1>3. ASSUME NEW r \in Resumes, ResumeStep(r) PROVE StaleMeansOverdue'
  <2>1. mark' = mark \/ mark' = "none"
    BY <1>3, ResumeFacts DEF Unmark
  <2> QED BY <1>3, <2>1, ResumeFacts
<1>4. CASE FiveMinutes
  BY <1>4 DEF FiveMinutes
<1>5. CASE Crash
  BY <1>5 DEF Crash
<1> QED BY <1>1, <1>2, <1>3, <1>4, <1>5, OthersAreApart

\* What MarkGuards says while no resume has lasted five minutes.
OneAtATime ==
  /\ \A r, q \in Live : r = q
  /\ (mark # "none") <=> (Live # {} \/ tick = "lease")
  /\ tick \in {"marked", "picked", "lease"} => Live = {}
  /\ tick = "picked" => ~retryAt

LEMMA GuardTick ==
  ASSUME TypeOK, SpawnHasPlace, StaleMeansOverdue, ~overdue, OneAtATime, TickStep
  PROVE  OneAtATime'
<1> USE DEF tickVars, workflowVars, worldVars
<1>1. CASE TickList
  <2>1. Live' = Live /\ UNCHANGED mark /\ tick = "none" /\ tick' = "listed"
    BY <1>1 DEF TickList, Live
  <2> QED BY <2>1 DEF OneAtATime
<1>2. CASE TickCheckMark
  <2>1. mark \in {"none", "fresh"}
    BY TypeParts DEF Contents, StaleMeansOverdue
  <2>2. /\ Live' = Live /\ UNCHANGED mark /\ tick = "listed"
        /\ tick' = IF mark = "fresh" THEN "none" ELSE "marked"
    BY <1>2, <2>1 DEF TickCheckMark, Live
  <2> QED BY <2>1, <2>2 DEF OneAtATime
<1>3. CASE TickInspect
  <2>1. /\ Live' = Live /\ UNCHANGED <<mark, retryAt>> /\ tick = "marked"
        /\ tick' = "none" \/ (tick' = "picked" /\ ~retryAt)
    <3>1. Live' = Live /\ UNCHANGED <<mark, retryAt>> /\ tick = "marked"
      BY <1>3 DEF TickInspect, Live
    <3>2. CASE tick' = "none"
      BY <3>1, <3>2
    <3>3. CASE tick' # "none"
      <4>1. tick' = "picked" /\ \E t \in picked : Resumable(t)
        BY <1>3, <3>3 DEF TickInspect
      <4>2. ~retryAt
        BY <4>1 DEF Resumable
      <4> QED BY <3>1, <4>1, <4>2
    <3> QED BY <3>2, <3>3
  <2>2. UNCHANGED retryAt /\ (tick' = "picked" => ~retryAt)
    BY <2>1
  <2>3. tick' = "picked" => ~retryAt'
    BY <2>2
  <2> QED BY <2>1, <2>3 DEF OneAtATime
<1>4. CASE TickMark
  <2>1. /\ Live' = Live /\ tick = "picked" /\ tick' = "lease" /\ mark' = "fresh"
    BY <1>4 DEF TickMark, Live
  <2> QED BY <2>1 DEF OneAtATime
<1>5. CASE TickSpawn
  <2>1. tick = "lease" /\ tick' = "none" /\ UNCHANGED mark
    BY <1>5 DEF TickSpawn
  <2>2. PICK r \in Resumes : /\ at[r] = "none" /\ at'[r] # "none"
                             /\ \A q \in Resumes \ {r} : at'[q] = at[q]
    BY <1>5, TickFacts DEF TickStep
  <2>3. Live = {} /\ mark # "none"
    BY <2>1 DEF OneAtATime
  <2>4. Live' = {r}
    BY <2>2, <2>3 DEF Live
  <2> QED BY <2>1, <2>3, <2>4 DEF OneAtATime
<1> QED BY <1>1, <1>2, <1>3, <1>4, <1>5 DEF TickStep

LEMMA GuardResume ==
  ASSUME TypeOK, OneAtATime, NEW r \in Resumes, ResumeStep(r)
  PROVE  OneAtATime'
<1>1. /\ at[r] # "none" /\ UNCHANGED tick
      /\ \A q \in Resumes \ {r} : at'[q] = at[q]
  BY ResumeFacts
<1>2. Live = {r} /\ tick \notin {"marked", "picked", "lease"}
  BY <1>1 DEF OneAtATime, Live
<1>3. CASE at'[r] # "none" /\ UNCHANGED mark
  <2>1. Live' = Live
    BY <1>1, <1>2, <1>3 DEF Live
  <2> QED BY <1>1, <1>2, <1>3, <2>1 DEF OneAtATime
<1>4. CASE at'[r] = "none" /\ Unmark(r)
  <2>1. Live' = {}
    BY <1>1, <1>2, <1>4 DEF Live
  <2>2. mark' = "none"
    BY <1>4 DEF Unmark
  <2> QED BY <1>1, <1>2, <2>1, <2>2 DEF OneAtATime
<1> QED BY <1>3, <1>4, ResumeFacts

LEMMA GuardStep ==
  TypeOK /\ SpawnHasPlace /\ StaleMeansOverdue /\ MarkGuards /\ [Next]_vars => MarkGuards'
<1> SUFFICES ASSUME TypeOK, SpawnHasPlace, StaleMeansOverdue, MarkGuards, [Next]_vars
             PROVE  MarkGuards'
  OBVIOUS
<1>0. MarkGuards <=> overdue \/ OneAtATime
  BY DEF MarkGuards, OneAtATime
<1>00. MarkGuards' <=> overdue' \/ OneAtATime'
  BY DEF MarkGuards, OneAtATime
<1>1. CASE Apart
  <2>1. Live' = Live
    BY <1>1 DEF Apart, Live
  <2>2. UNCHANGED <<mark, tick, overdue>> /\ (retryAt' => retryAt)
    BY <1>1 DEF Apart
  <2>3. OneAtATime => OneAtATime'
    BY <2>1, <2>2 DEF OneAtATime
  <2> QED BY <1>0, <1>00, <2>2, <2>3
<1>2. CASE TickStep
  <2>1. UNCHANGED overdue
    BY <1>2, TickFacts
  <2> QED BY <1>0, <1>00, <1>2, <2>1, GuardTick
<1>3. ASSUME NEW r \in Resumes, ResumeStep(r) PROVE MarkGuards'
  <2>1. UNCHANGED overdue
    BY <1>3, ResumeFacts
  <2> QED BY <1>0, <1>00, <1>3, <2>1, GuardResume
<1>4. CASE FiveMinutes
  BY <1>4 DEF FiveMinutes, MarkGuards
<1>5. CASE Crash
  <2>1. Live' = {}
    BY <1>5, CrashFacts DEF Live
  <2>2. mark' = "none" /\ tick' = "none"
    BY <1>5 DEF Crash
  <2> QED BY <2>1, <2>2 DEF MarkGuards
<1> QED BY <1>1, <1>2, <1>3, <1>4, <1>5, OthersAreApart

-----------------------------------------------------------------------------
(* Notices.                                                                *)

\* A notice leaves the session only into a prompt.
LEMMA NoticesLeaveByRendering ==
  [Next]_vars => (notices \cup rendered) \subseteq (notices \cup rendered)'
<1> SUFFICES ASSUME [Next]_vars PROVE (notices \cup rendered) \subseteq (notices' \cup rendered')
  OBVIOUS
<1> USE DEF workflowVars, tickVars, messageVars, runVars, worldVars
<1>1. CASE RunStep \/ StreamAgain \/ RunThrow
  <2>1. CASE Turn
    BY <2>1 DEF Turn
  <2>2. CASE ~ Turn
    <3>1. UNCHANGED <<notices, rendered>>
      BY <1>1, <2>2 DEF RunStep, RunStart, Head, Collect, Consume, ReadMessages, StreamStart,
                  StreamRunning, StreamEnd, StreamStop, StreamAgain, RunThrow, DecideContinue,
                  DecideStop, RunEnd, enqueue
    <3> QED BY <3>1
  <2> QED BY <2>1, <2>2
<1>2. CASE \/ TickStep \/ CancelWrite \/ RouteStep \/ User \/ Time \/ Crash \/ UNCHANGED vars
           \/ \E r \in Resumes : ResumeStep(r)
  <2>1. UNCHANGED <<notices, rendered>>
    <3>1. CASE TickStep
      BY <3>1 DEF TickStep, TickList, TickCheckMark, TickInspect, TickMark, TickSpawn
    <3>2. CASE \/ CancelWrite \/ RouteStep \/ User \/ Time \/ Crash \/ UNCHANGED vars
      BY <3>2 DEF CancelWrite, RouteStep, enqueue, User, Prompt, Cancel, SetAutonomous,
                  DropPending, KillSwitchOn, Time, KillSwitchOff, RetryDue, LeaseExpires,
                  FiveMinutes, Crash, vars
    <3>3. CASE \E r \in Resumes : ResumeStep(r)
      BY <3>3 DEF ResumeStep, ResumeGate, SetState, SetSupervisor, ResumeFailed, enqueue, Unmark
    <3> QED BY <1>2, <3>1, <3>2, <3>3
  <2> QED BY <2>1
<1>3. CASE \E j \in Jobs : Dispatch(j) \/ JobStep(j)
  <2>1. rendered' = rendered /\ notices \subseteq notices'
    BY <1>3 DEF Dispatch, JobStep, JobEnd, AppendNotice, NoticeMessage, enqueue
  <2> QED BY <2>1
<1> QED BY <1>1, <1>2, <1>3 DEF Next

\* A job that has passed its notice has left it in the session.
Noticed == {"message", "remove", "write", "mirror", "done"}

LEMMA NoticeStep ==
  TypeOK /\ SpawnHasPlace /\ NoticeIsKept /\ [Next]_vars => NoticeIsKept'
<1> SUFFICES ASSUME TypeOK, SpawnHasPlace, NoticeIsKept, [Next]_vars, NEW j \in Jobs,
                    at'[j] \in Noticed
             PROVE  j \in notices' \cup rendered'
  BY DEF NoticeIsKept, Noticed
<1>1. at[j] \in Noticed => j \in notices' \cup rendered'
  BY NoticesLeaveByRendering DEF NoticeIsKept, Noticed
<1>2. CASE RunStep \/ StreamAgain \/ RunThrow
  <2>1. UNCHANGED at[j]
    BY <1>2, JobsStay
  <2> QED BY <1>1, <2>1
<1>3. ASSUME NEW i \in Jobs, Dispatch(i) \/ JobStep(i) PROVE j \in notices' \cup rendered'
  <2>1. i # j => UNCHANGED at[j]
    BY <1>3, JobsAreApart
  <2>2. CASE i = j
    <3>1. CASE Dispatch(j) \/ JobEnd(j)
      <4>1. at'[j] \in {"working", "notify"}
        BY <3>1, TypeParts DEF Dispatch, JobEnd, Goto, Places
      <4> QED BY <4>1 DEF Noticed
    <3>2. CASE AppendNotice(j)
      BY <3>2 DEF AppendNotice
    <3>3. CASE NoticeMessage(j) \/ enqueue(j, "critical", "completion", "done")
      <4>1. at[j] \in Noticed
        BY <3>3 DEF NoticeMessage, enqueue, Goto, Noticed
      <4> QED BY <1>1, <4>1
    <3> QED BY <1>3, <2>2, <3>1, <3>2, <3>3 DEF JobStep
  <2> QED BY <1>1, <2>1, <2>2
<1>4. CASE \/ Prompt \/ Cancel \/ DropPending \/ KillSwitchOn \/ CancelWrite
           \/ KillSwitchOff \/ RetryDue \/ LeaseExpires \/ UNCHANGED vars
           \/ FiveMinutes
  <2>1. UNCHANGED at
    BY <1>4, NobodyMoves DEF FiveMinutes
  <2> QED BY <1>1, <2>1
<1>5. CASE RouteStep \/ \E b \in BOOLEAN : SetAutonomous(b)
  BY <1>1, <1>5, RouteIsApart
<1>6. CASE TickStep
  BY <1>1, <1>6, TickFacts
<1>7. ASSUME NEW r \in Resumes, ResumeStep(r) PROVE j \in notices' \cup rendered'
  <2>1. j \notin Resumes
    OBVIOUS
  <2> QED BY <1>1, <1>7, <2>1, ResumeFacts
<1>8. CASE Crash
  BY <1>1, <1>8, CrashFacts DEF Noticed
<1> QED BY <1>2, <1>3, <1>4, <1>5, <1>6, <1>7, <1>8 DEF Next, User, Time

-----------------------------------------------------------------------------
(* The theorems.                                                           *)

LEMMA SupervisorInit == Init => SupervisorInv
<1> SUFFICES ASSUME Init PROVE SupervisorInv
  OBVIOUS
<1>1. Places
  BY DEF Init, Places, RunSteps, RouteSteps, ResumeSteps, JobSteps
<1>2. QueueTypeOK /\ Contents /\ Flags
  BY DEF Init, QueueInit, QueueTypeOK, Contents, Flags, LANES, Triggers
<1>3. Counters
  BY MaxFailuresAssumption, MaxEventsAssumption DEF Init, Counters
<1>4. Live = {}
  BY DEF Init, Live
<1>5. SpawnHasPlace /\ StaleMeansOverdue /\ MarkGuards
  BY <1>4 DEF Init, SpawnHasPlace, StaleMeansOverdue, MarkGuards
<1>6. NoticeIsKept
  BY DEF Init, NoticeIsKept
<1> QED BY <1>1, <1>2, <1>3, <1>5, <1>6, TypeParts DEF SupervisorInv

THEOREM SupervisorCorrect == Spec => []SupervisorInv
<1>1. SupervisorInv /\ [Next]_vars => SupervisorInv'
  BY TypeStep, SpawnStep, StaleStep, GuardStep, NoticeStep DEF SupervisorInv
<1> QED BY SupervisorInit, <1>1, PTL DEF Spec

\* Every variable of the supervisor keeps its type.
THEOREM SupervisorTyped == Spec => []TypeOK
<1>1. SupervisorInv => TypeOK
  BY DEF SupervisorInv
<1> QED BY <1>1, SupervisorCorrect, PTL

\* A session is resumed once at a time, and its mark stands for that resume.
THEOREM SupervisorResumesOnce == Spec => []OneResume
<1>1. SupervisorInv => OneResume
  <2> SUFFICES ASSUME MarkGuards, ~overdue PROVE OneResume
    BY DEF SupervisorInv, OneResume
  <2>1. (\A r, q \in Live : r = q) /\ ((mark # "none") <=> (Live # {} \/ tick = "lease"))
    BY DEF MarkGuards
  <2>2. Cardinality(Live) <= 1
    <3>1. CASE Live = {}
      BY <3>1, FS_EmptySet
    <3>2. CASE Live # {}
      <4>1. PICK r \in Live : TRUE
        BY <3>2
      <4>2. Live = {r}
        BY <2>1, <4>1
      <4>3. Cardinality({r}) = 1
        BY FS_Singleton
      <4> QED BY <4>2, <4>3
    <3> QED BY <3>1, <3>2
  <2> QED BY <2>1, <2>2 DEF OneResume
<1> QED BY <1>1, SupervisorCorrect, PTL

\* The notice of a subagent stays in its session until a prompt shows it.
THEOREM NoticesAreKept == Spec => []NoticeIsKept
<1>1. SupervisorInv => NoticeIsKept
  BY DEF SupervisorInv
<1> QED BY <1>1, SupervisorCorrect, PTL

\* A resume that failed is not repeated before its back-off is over.
THEOREM ResumesBackOff == Spec => RetryWaits
<1>1. SupervisorInv /\ [Next]_vars
        => [tick = "picked" /\ tick' = "lease" => overdue \/ ~retryAt]_vars
  BY DEF SupervisorInv, MarkGuards
<1> QED BY <1>1, SupervisorCorrect, PTL DEF Spec, RetryWaits

=============================================================================
