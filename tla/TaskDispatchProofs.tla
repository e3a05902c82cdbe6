------------------------- MODULE TaskDispatchProofs -------------------------
(***************************************************************************)
(* The pool of worker processes keeps its accounts for any number of jobs, *)
(* workers and events.  DispatchInv is inductive; it adds to the promises  *)
(* what they rest on: who holds the lock, what the pipes may carry, and    *)
(* that a run which has not been answered is its worker's current one.     *)
(*                                                                         *)
(* The steps fall into kinds, by what they change: the place of a call     *)
(* (MoveStep), the input of workers that are told to cancel (CancelStep),  *)
(* an assignment, a message read by the tool, a message read by a process. *)
(***************************************************************************)
EXTENDS TaskDispatch, SequenceTheorems, TLAPS

USE IdsDiffer, MaxEventsAssumption

Dispatched == {"publishing", "watching", "killing", "ended", "reported"}
Awaiting == {"awaitIdle", "awaitFreed", "awaitSpawned"}

\* A process is told to run or cancel a job; what it answers names one.
MessagesNameJobs ==
  \A w \in Workers :
    /\ \A i \in DOMAIN stdin[w] : stdin[w][i].kind \in {"run", "cancel"} /\ stdin[w][i].job \in Jobs
    /\ \A i \in DOMAIN stdout[w] : stdout[w][i].kind = "ready" \/ stdout[w][i].job \in Jobs

\* No job is answered before it is dispatched.
SettledWereDispatched == \A j \in settled : at[j] \in Dispatched \cup {"thrown"}

\* The calls that wait inside assignWorker() are the one that holds the lock;
\* nobody gives the worker that it waits for to another job.
LockIsHeld ==
  /\ \A j \in Jobs : at[j] \in Awaiting => holder = j
  /\ awaited \notin busy

\* A worker that is ready or busy, or has something to say, has a process.
ProcessIsThere ==
  \A w \in Workers : proc[w] = "none" => w \notin ready /\ w \notin busy /\ stdout[w] = <<>>

\* The run of a process, and a run command on its way to it, are answered
\* already or are the worker's current job; that one is the last to be sent.
RunIsCurrent ==
  \A w \in Workers :
    /\ \/ activeRun[w] = NoJob \/ activeRun[w] \in settled
       \/ activeRun[w] = current[w] /\ \A i \in DOMAIN stdin[w] : stdin[w][i].kind # "run"
    /\ \A i \in DOMAIN stdin[w] : stdin[w][i].kind = "run" =>
         \/ stdin[w][i].job \in settled
         \/ /\ current[w] = stdin[w][i].job
            /\ \A k \in DOMAIN stdin[w] : k > i => stdin[w][k].kind # "run"

DispatchInv ==
  /\ TypeOK /\ MessagesNameJobs /\ WorkersAreAccounted /\ SettledWereDispatched
  /\ ShownChildIsLive /\ LockIsHeld /\ ProcessIsThere /\ RunIsCurrent

-----------------------------------------------------------------------------
(* The pipes.                                                              *)

\* One more message at the end of a pipe.
LEMMA AppendIndex ==
  ASSUME NEW S, NEW s \in Seq(S), NEW x \in S
  PROVE  /\ Append(s, x) \in Seq(S)
         /\ \A i \in DOMAIN Append(s, x) :
              \/ i \in DOMAIN s /\ Append(s, x)[i] = s[i]
              \/ /\ i \notin DOMAIN s /\ Append(s, x)[i] = x
                 /\ \A k \in DOMAIN Append(s, x) : ~(k > i)
<1> DEFINE t == Append(s, x)
<1>1. /\ t \in Seq(S) /\ Len(t) = Len(s) + 1
      /\ \A i \in 1 .. Len(s) : t[i] = s[i]
      /\ t[Len(s) + 1] = x
  BY AppendProperties
<1>2. Len(s) \in Nat /\ DOMAIN s = 1 .. Len(s) /\ DOMAIN t = 1 .. Len(s) + 1
  BY <1>1, LenProperties
<1> HIDE DEF t
<1>3. ASSUME NEW i \in DOMAIN t
      PROVE  \/ i \in DOMAIN s /\ t[i] = s[i]
             \/ /\ i \notin DOMAIN s /\ t[i] = x
                /\ \A k \in DOMAIN t : ~(k > i)
  <2>1. CASE i <= Len(s)
    BY <1>1, <1>2, <2>1
  <2>2. CASE i = Len(s) + 1
    BY <1>1, <1>2, <2>2
  <2> QED BY <1>2, <2>1, <2>2
<1> QED BY <1>1, <1>3 DEF t

\* The first message is taken out of a pipe.
LEMMA TailIndex ==
  ASSUME NEW S, NEW s \in Seq(S), s # <<>>
  PROVE  /\ Tail(s) \in Seq(S)
         /\ 1 \in DOMAIN s /\ Head(s) = s[1] /\ s[1] \in S
         /\ \A i \in DOMAIN Tail(s) :
              /\ i + 1 \in DOMAIN s /\ i + 1 > 1 /\ Tail(s)[i] = s[i + 1]
              /\ \A k \in DOMAIN Tail(s) : k > i => k + 1 > i + 1
<1> DEFINE t == Tail(s)
<1>1. /\ t \in Seq(S) /\ Len(t) = Len(s) - 1
      /\ \A i \in 1 .. Len(t) : t[i] = s[i + 1]
  BY HeadTailProperties
<1>2. /\ Len(s) \in Nat \ {0} /\ DOMAIN s = 1 .. Len(s) /\ DOMAIN t = 1 .. Len(s) - 1
      /\ s \in [1 .. Len(s) -> S]
  BY <1>1, LenProperties, EmptySeq
<1>3. 1 \in DOMAIN s /\ Head(s) = s[1] /\ s[1] \in S
  BY <1>2
<1> HIDE DEF t
<1>4. \A i \in DOMAIN t :
        /\ i + 1 \in DOMAIN s /\ i + 1 > 1 /\ t[i] = s[i + 1]
        /\ \A k \in DOMAIN t : k > i => k + 1 > i + 1
  BY <1>1, <1>2
<1> QED BY <1>1, <1>3, <1>4 DEF t

-----------------------------------------------------------------------------
(* The processes.                                                          *)

\* The pool and the processes stay what they are by type, and no process ends
\* without its end being read.
ProcessesKept ==
  /\ pool' \subseteq Workers
  /\ proc' \in [Workers -> {"none", "booting", "up", "stalled", "leaving", "dead"}]
  /\ \A w \in Workers : proc'[w] = "none" => proc[w] = "none"

LEMMA KillKeeps ==
  ASSUME TypeOK, NEW w, Kill(w), pool' \subseteq Workers
  PROVE  ProcessesKept
BY DEF TypeOK, Kill, Alive, ProcessesKept

LEMMA SpawnKeeps ==
  ASSUME TypeOK, NEW w \in Workers, spawnWorker(w)
  PROVE  ProcessesKept
BY DEF TypeOK, spawnWorker, ProcessesKept

LEMMA StandbyKeeps ==
  ASSUME TypeOK, NEW working, ensureStandbyWorker(working)
  PROVE  ProcessesKept /\ standby' \in Workers \cup {NoWorker}
<1>1. CASE UNCHANGED <<pool, proc, standby>>
  BY <1>1 DEF TypeOK, ProcessesKept
<1>2. CASE \E w \in Unused : spawnWorker(w) /\ standby' = w
  BY <1>2, SpawnKeeps DEF Unused
<1> QED BY <1>1, <1>2 DEF ensureStandbyWorker

-----------------------------------------------------------------------------
(* The kinds of steps.                                                     *)

\* What a worker is about is left alone.
WorkVars == <<busy, ready, current, activeRun, stdin, stdout>>

\* The call of j goes on to another place, or stays; it leaves the places of a
\* dispatched job only by throwing when no worker has the job any more.
LEMMA MoveStep ==
  ASSUME DispatchInv, TypeOK', ProcessesKept, LockIsHeld',
         NEW j \in Jobs, NEW to \in CallSteps, at' = [at EXCEPT ![j] = to],
         at[j] \in Dispatched => to \in Dispatched \/ (to = "thrown" /\ \A w \in Workers : current[w] # j),
         at[j] = "thrown" => to = "thrown",
         child' = NoJob \/ (child' = child /\ (child = j => to \in {"publishing", "watching"})),
         UNCHANGED <<assigned, settled, WorkVars>>
  PROVE  DispatchInv'
<1> USE DEF DispatchInv, WorkVars
<1>1. \A d \in Jobs : at'[d] = IF d = j THEN to ELSE at[d]
  BY DEF TypeOK
<1>2. MessagesNameJobs' /\ RunIsCurrent'
  BY DEF MessagesNameJobs, RunIsCurrent
<1>3. WorkersAreAccounted'
  <2> SUFFICES ASSUME NEW w \in Workers
               PROVE  /\ w \in busy' <=> current'[w] # NoJob
                      /\ current'[w] # NoJob =>
                           /\ assigned'[current'[w]] = w /\ current'[w] \notin settled'
                           /\ at'[current'[w]] \in Dispatched
    BY DEF WorkersAreAccounted, Dispatched
  <2>1. current'[w] = current[w] /\ current[w] \in Jobs \cup {NoJob}
    BY DEF TypeOK
  <2>2. /\ w \in busy <=> current[w] # NoJob
        /\ current[w] # NoJob =>
             /\ assigned[current[w]] = w /\ current[w] \notin settled
             /\ at[current[w]] \in Dispatched
    BY DEF WorkersAreAccounted, Dispatched
  <2>3. current[w] # NoJob => at'[current[w]] \in Dispatched
    BY <1>1, <2>1, <2>2
  <2> QED BY <2>1, <2>2, <2>3
<1>4. SettledWereDispatched'
  BY <1>1 DEF SettledWereDispatched, TypeOK
<1>5. ShownChildIsLive'
  BY <1>1 DEF ShownChildIsLive, TypeOK
<1>6. ProcessIsThere'
  BY DEF ProcessIsThere, ProcessesKept
<1> QED BY <1>2, <1>3, <1>4, <1>5, <1>6

\* The call of j waits, holding the lock, for a worker that nobody uses.
LEMMA WaitingStep ==
  ASSUME DispatchInv, NEW j \in Jobs, NEW from \in {"checked", "awaitIdle", "awaitFreed"},
         NEW to \in Awaiting, NEW w \in Workers \cup {NoWorker}, w \notin busy,
         Waiting(j, from, to, w), holder \in {NoJob, j}, ProcessesKept
  PROVE  DispatchInv'
<1>1. /\ at[j] = from /\ at' = [at EXCEPT ![j] = to] /\ holder' = j /\ awaited' = w
      /\ UNCHANGED <<assigned, aborted, settled, child, standby, busy, ready, current,
                     activeRun, stdin, stdout, disk, events>>
  BY DEF Waiting, Goto
<1>2. to \in CallSteps
  BY DEF Awaiting, CallSteps
<1>3. TypeOK'
  BY <1>1, <1>2 DEF DispatchInv, TypeOK, ProcessesKept
<1>4. LockIsHeld'
  BY <1>1 DEF DispatchInv, TypeOK, LockIsHeld
<1>5. child # j
  BY <1>1 DEF DispatchInv, ShownChildIsLive
<1> QED BY <1>1, <1>2, <1>3, <1>4, <1>5, MoveStep DEF Dispatched, WorkVars

\* Workers are told to cancel a job.
LEMMA CancelStep ==
  ASSUME DispatchInv, TypeOK', ProcessesKept,
         \A w \in Workers :
           \/ stdin'[w] = stdin[w]
           \/ \E j \in Jobs : stdin'[w] = Append(stdin[w], [kind |-> "cancel", job |-> j]),
         child' = NoJob \/ child' = child,
         UNCHANGED <<at, assigned, settled, holder, awaited, busy, ready, current, activeRun, stdout>>
  PROVE  DispatchInv'
<1> USE DEF DispatchInv
<1>1. ASSUME NEW w \in Workers
      PROVE  /\ stdin'[w] \in Seq(Messages)
             /\ \A i \in DOMAIN stdin'[w] :
                  \/ /\ i \in DOMAIN stdin[w] /\ stdin'[w][i] = stdin[w][i]
                  \/ stdin'[w][i].kind = "cancel" /\ stdin'[w][i].job \in Jobs
  <2>1. CASE stdin'[w] = stdin[w]
    BY <2>1 DEF TypeOK
  <2>2. ASSUME NEW j \in Jobs, stdin'[w] = Append(stdin[w], [kind |-> "cancel", job |-> j])
        PROVE  <1>1!2
    <3>1. [kind |-> "cancel", job |-> j] \in Messages
      BY DEF Messages
    <3> QED BY <2>2, <3>1, AppendIndex DEF TypeOK
  <2> QED BY <2>1, <2>2
<1>2. MessagesNameJobs'
  BY <1>1 DEF MessagesNameJobs
<1>3. RunIsCurrent'
  <2> SUFFICES ASSUME NEW w \in Workers
               PROVE  /\ \/ activeRun[w] = NoJob \/ activeRun[w] \in settled
                         \/ activeRun[w] = current[w] /\ \A i \in DOMAIN stdin'[w] : stdin'[w][i].kind # "run"
                      /\ \A i \in DOMAIN stdin'[w] : stdin'[w][i].kind = "run" =>
                           \/ stdin'[w][i].job \in settled
                           \/ /\ current[w] = stdin'[w][i].job
                              /\ \A k \in DOMAIN stdin'[w] : k > i => stdin'[w][k].kind # "run"
    BY DEF RunIsCurrent
  <2> QED BY <1>1 DEF RunIsCurrent
<1>4. WorkersAreAccounted' /\ SettledWereDispatched' /\ LockIsHeld'
  BY DEF WorkersAreAccounted, SettledWereDispatched, LockIsHeld
<1>5. ShownChildIsLive' /\ ProcessIsThere'
  BY DEF ShownChildIsLive, ProcessIsThere, ProcessesKept
<1> QED BY <1>2, <1>3, <1>4, <1>5

\* The call of j throws and gives the lock back.
LEMMA ThrowStep ==
  ASSUME DispatchInv, NEW j \in Jobs, NEW from \in {"checked"} \cup Awaiting, Throw(j, from),
         Release, holder \in {NoJob, j}, UNCHANGED <<poolVars, procVars, standby, events>>
  PROVE  DispatchInv'
<1>1. /\ at[j] = from /\ at' = [at EXCEPT ![j] = "thrown"] /\ aborted' = aborted \ {j}
      /\ holder' = NoJob /\ awaited' = NoWorker
      /\ UNCHANGED <<assigned, settled, child, pool, busy, ready, current, proc, activeRun,
                     stdin, stdout, disk, standby, events>>
  BY DEF Throw, Goto, Release, poolVars, procVars
<1>2. TypeOK'
  BY <1>1 DEF DispatchInv, TypeOK, CallSteps
<1>3. LockIsHeld'
  BY <1>1 DEF DispatchInv, TypeOK, LockIsHeld, Awaiting
<1>4. ProcessesKept
  BY <1>1 DEF DispatchInv, TypeOK, ProcessesKept
<1>5. child # j
  BY <1>1 DEF DispatchInv, ShownChildIsLive, Awaiting
<1> QED BY <1>1, <1>2, <1>3, <1>4, <1>5, MoveStep DEF Dispatched, Awaiting, CallSteps, WorkVars

\* A worker that is ready and not busy is assigned to j, and told to run it.
LEMMA AssignStep ==
  ASSUME DispatchInv, NEW j \in Jobs, NEW from \in {"checked"} \cup Awaiting,
         NEW w \in Workers, w \in ready, w \notin busy, Assign(j, from, w),
         holder \in {NoJob, j}
  PROVE  DispatchInv'
<1> USE DEF DispatchInv
<1>1. CASE j \in aborted
  BY <1>1, ThrowStep DEF Assign
<1>2. CASE j \notin aborted
  <2> DEFINE msg == [kind |-> "run", job |-> j]
  <2>1. /\ at[j] = from /\ at' = [at EXCEPT ![j] = "publishing"]
        /\ assigned' = [assigned EXCEPT ![j] = w] /\ child' = j
        /\ busy' = busy \cup {w} /\ current' = [current EXCEPT ![w] = j]
        /\ stdin' = [stdin EXCEPT ![w] = Append(stdin[w], msg)]
        /\ holder' = NoJob /\ awaited' = NoWorker
        /\ UNCHANGED <<aborted, settled, ready, activeRun, stdout, disk, events>>
    BY <1>2 DEF Assign, Goto, Write, Release
  <2>2. ProcessesKept /\ standby' \in Workers \cup {NoWorker}
    BY <1>2, StandbyKeeps DEF Assign
  <2>3. msg \in Messages
    BY DEF Messages
  <2>4. Append(stdin[w], msg) \in Seq(Messages)
    BY <2>3, AppendIndex DEF TypeOK
  <2>5. \A i \in DOMAIN stdin'[w] :
          \/ i \in DOMAIN stdin[w] /\ stdin'[w][i] = stdin[w][i]
          \/ stdin'[w][i] = msg /\ \A k \in DOMAIN stdin'[w] : ~(k > i)
    BY <2>1, <2>3, AppendIndex DEF TypeOK
  <2>6. \A v \in Workers : v # w => stdin'[v] = stdin[v] /\ current'[v] = current[v]
    BY <2>1 DEF TypeOK
  <2> HIDE DEF msg
  <2>7. msg.kind = "run" /\ msg.job = j
    BY DEF msg
  <2>8. at[j] \notin Dispatched \cup {"thrown"}
    BY <2>1 DEF Awaiting, Dispatched
  <2>9. current[w] = NoJob /\ \A v \in Workers : current[v] # j
    BY <2>8 DEF WorkersAreAccounted, Dispatched
  <2>10. j \notin settled
    BY <2>8 DEF SettledWereDispatched
  <2>11. TypeOK'
    BY <2>1, <2>2, <2>4 DEF TypeOK, ProcessesKept, CallSteps
  <2>12. MessagesNameJobs'
    BY <2>1, <2>5, <2>6, <2>7 DEF MessagesNameJobs, TypeOK
  <2>13. WorkersAreAccounted'
    <3>1. ASSUME NEW v \in Workers, v # w
          PROVE  /\ v \in busy' <=> current'[v] # NoJob
                 /\ current'[v] # NoJob =>
                      /\ assigned'[current'[v]] = v /\ current'[v] \notin settled'
                      /\ at'[current'[v]] \in Dispatched
      BY <2>1, <2>6, <2>9, <3>1 DEF WorkersAreAccounted, TypeOK, Dispatched
    <3>2. /\ w \in busy' /\ current'[w] = j /\ assigned'[j] = w /\ j \notin settled'
          /\ at'[j] \in Dispatched
      BY <2>1, <2>10 DEF TypeOK, Dispatched
    <3> QED BY <3>1, <3>2 DEF WorkersAreAccounted, Dispatched
  <2>14. SettledWereDispatched'
    BY <2>1, <2>10 DEF SettledWereDispatched, TypeOK
  <2>15. ShownChildIsLive'
    BY <2>1 DEF ShownChildIsLive, TypeOK
  <2>16. LockIsHeld'
    BY <2>1 DEF LockIsHeld, TypeOK, Awaiting
  <2>17. ProcessIsThere'
    BY <2>1, <2>2 DEF ProcessIsThere, ProcessesKept
  <2>18. RunIsCurrent'
    <3>1. ASSUME NEW v \in Workers, v # w
          PROVE  /\ UNCHANGED <<activeRun, settled>>
                 /\ stdin'[v] = stdin[v] /\ current'[v] = current[v]
      BY <2>1, <2>6, <3>1
    <3>2. activeRun[w] = NoJob \/ activeRun[w] \in settled
      BY <2>9 DEF RunIsCurrent, TypeOK
    <3>3. \A i \in DOMAIN stdin[w] : stdin[w][i].kind = "run" => stdin[w][i].job \in settled
      BY <2>9 DEF RunIsCurrent, MessagesNameJobs
    <3>4. current'[w] = j
      BY <2>1 DEF TypeOK
    <3>5. \A i \in DOMAIN stdin'[w] : stdin'[w][i].kind = "run" =>
            \/ stdin'[w][i].job \in settled
            \/ /\ current'[w] = stdin'[w][i].job
               /\ \A k \in DOMAIN stdin'[w] : k > i => stdin'[w][k].kind # "run"
      BY <2>5, <2>7, <3>3, <3>4
    <3> QED BY <2>1, <3>1, <3>2, <3>5 DEF RunIsCurrent
  <2> QED BY <2>11, <2>12, <2>13, <2>14, <2>15, <2>16, <2>17, <2>18
<1> QED BY <1>1, <1>2

-----------------------------------------------------------------------------
(* The tool reads what a worker says.                                      *)

\* One message leaves the output of w.
LEMMA ReceiveKeeps ==
  ASSUME DispatchInv, NEW w \in Workers, NEW kind, Receive(w, kind)
  PROVE  /\ stdout' \in [Workers -> Seq(Messages)]
         /\ \A v \in Workers : \A i \in DOMAIN stdout'[v] :
              stdout'[v][i].kind = "ready" \/ stdout'[v][i].job \in Jobs
         /\ \A v \in Workers : proc[v] = "none" => stdout'[v] = <<>>
         /\ Head(stdout[w]).kind = kind
         /\ kind # "ready" => Head(stdout[w]).job \in Jobs
         /\ proc[w] # "none"
<1> USE DEF DispatchInv
<1>1. stdout[w] # <<>> /\ stdout[w] \in Seq(Messages) /\ Head(stdout[w]).kind = kind
  BY DEF Receive, TypeOK
<1>2. stdout' = [stdout EXCEPT ![w] = Tail(stdout[w])]
  BY DEF Receive
<1>3. /\ Tail(stdout[w]) \in Seq(Messages)
      /\ 1 \in DOMAIN stdout[w] /\ Head(stdout[w]) = stdout[w][1]
      /\ \A i \in DOMAIN Tail(stdout[w]) :
           i + 1 \in DOMAIN stdout[w] /\ Tail(stdout[w])[i] = stdout[w][i + 1]
  BY <1>1, TailIndex
<1>4. stdout' \in [Workers -> Seq(Messages)]
  BY <1>2, <1>3 DEF TypeOK
<1>5. \A v \in Workers : stdout'[v] = IF v = w THEN Tail(stdout[w]) ELSE stdout[v]
  BY <1>2 DEF TypeOK
<1>6. \A v \in Workers : \A i \in DOMAIN stdout'[v] :
        stdout'[v][i].kind = "ready" \/ stdout'[v][i].job \in Jobs
  <2>1. \A v \in Workers : \A i \in DOMAIN stdout[v] :
          stdout[v][i].kind = "ready" \/ stdout[v][i].job \in Jobs
    BY DEF MessagesNameJobs
  <2>2. \A i \in DOMAIN stdout'[w] : \E k \in DOMAIN stdout[w] : stdout'[w][i] = stdout[w][k]
    <3> DEFINE rest == Tail(stdout[w])
    <3>1. \A i \in DOMAIN rest : i + 1 \in DOMAIN stdout[w] /\ rest[i] = stdout[w][i + 1]
      BY <1>3
    <3>2. stdout'[w] = rest
      BY <1>5
    <3> HIDE DEF rest
    <3> QED BY <3>1, <3>2
  <2>3. \A i \in DOMAIN stdout'[w] : stdout'[w][i].kind = "ready" \/ stdout'[w][i].job \in Jobs
    BY <2>1, <2>2
  <2> QED BY <1>5, <2>1, <2>3
<1>7. proc[w] # "none"
  BY <1>1 DEF ProcessIsThere
<1>8. \A v \in Workers : proc[v] = "none" => stdout'[v] = <<>>
  BY <1>5, <1>7 DEF ProcessIsThere
<1>9. kind # "ready" => Head(stdout[w]).job \in Jobs
  BY <1>1, <1>3 DEF MessagesNameJobs
<1> QED BY <1>1, <1>4, <1>6, <1>7, <1>8, <1>9

LEMMA ReadyStep ==
  ASSUME DispatchInv, NEW w \in Workers, ReceiveReady(w)
  PROVE  DispatchInv'
<1> USE DEF DispatchInv
<1>1. /\ Receive(w, "ready") /\ ready' = ready \cup {w}
      /\ UNCHANGED <<at, assigned, aborted, settled, child, holder, awaited, standby, pool, busy,
                     current, proc, activeRun, stdin, disk, events>>
  BY DEF ReceiveReady, callVars, assignVars
<1>2. TypeOK'
  BY <1>1, ReceiveKeeps DEF TypeOK
<1>3. MessagesNameJobs'
  BY <1>1, ReceiveKeeps DEF MessagesNameJobs
<1>4. ProcessIsThere'
  BY <1>1, ReceiveKeeps DEF ProcessIsThere
<1>5. WorkersAreAccounted' /\ SettledWereDispatched' /\ ShownChildIsLive' /\ LockIsHeld'
  BY <1>1 DEF WorkersAreAccounted, SettledWereDispatched, ShownChildIsLive, LockIsHeld
<1>6. RunIsCurrent'
  BY <1>1 DEF RunIsCurrent
<1> QED BY <1>2, <1>3, <1>4, <1>5, <1>6

\* The worker w is free and its job, if it has one, is answered.
Freed(w) ==
  /\ busy' = busy \ {w}
  /\ current' = [current EXCEPT ![w] = NoJob]
  /\ settled' = settled \cup ({current[w]} \ {NoJob})

LEMMA FreedKeeps ==
  ASSUME DispatchInv, NEW w \in Workers, Freed(w), UNCHANGED <<at, assigned, child, holder, awaited>>
  PROVE  /\ current' \in [Workers -> Jobs \cup {NoJob}] /\ settled' \subseteq Jobs /\ busy' \subseteq Workers
         /\ WorkersAreAccounted' /\ SettledWereDispatched' /\ ShownChildIsLive' /\ LockIsHeld'
         /\ settled \subseteq settled'
         /\ \A v \in Workers : current'[v] = current[v] \/ current[v] \in settled'
<1> USE DEF DispatchInv, Freed
<1>1. \A v \in Workers : current'[v] = IF v = w THEN NoJob ELSE current[v]
  BY DEF TypeOK
<1>2. current[w] \in Jobs \cup {NoJob}
  BY DEF TypeOK
<1>3. current' \in [Workers -> Jobs \cup {NoJob}] /\ settled' \subseteq Jobs /\ busy' \subseteq Workers
  BY DEF TypeOK
<1>4. WorkersAreAccounted'
  <2> SUFFICES ASSUME NEW v \in Workers
               PROVE  /\ v \in busy' <=> current'[v] # NoJob
                      /\ current'[v] # NoJob =>
                           /\ assigned[current'[v]] = v /\ current'[v] \notin settled'
                           /\ at[current'[v]] \in Dispatched
    BY DEF WorkersAreAccounted, Dispatched
  <2>1. /\ v \in busy <=> current[v] # NoJob
        /\ current[v] # NoJob =>
             /\ assigned[current[v]] = v /\ current[v] \notin settled
             /\ at[current[v]] \in Dispatched
    BY DEF WorkersAreAccounted, Dispatched
  <2>2. current[w] # NoJob => assigned[current[w]] = w
    BY DEF WorkersAreAccounted
  <2> QED BY <1>1, <2>1, <2>2
<1>5. SettledWereDispatched'
  BY <1>2 DEF SettledWereDispatched, WorkersAreAccounted, Dispatched
<1>6. ShownChildIsLive' /\ LockIsHeld'
  BY DEF ShownChildIsLive, LockIsHeld
<1> QED BY <1>1, <1>2, <1>3, <1>4, <1>5, <1>6

\* Pipes and runs that are no others than before still meet their answers.
LEMMA RunStaysCurrent ==
  ASSUME DispatchInv, settled \subseteq settled',
         \A v \in Workers : current'[v] = current[v] \/ current[v] \in settled',
         \A v \in Workers : /\ activeRun'[v] = activeRun[v] \/ activeRun'[v] = NoJob
                            /\ stdin'[v] = stdin[v] \/ stdin'[v] = <<>>
  PROVE  RunIsCurrent' /\ \A v \in Workers : \A i \in DOMAIN stdin'[v] :
                            stdin'[v][i].kind \in {"run", "cancel"} /\ stdin'[v][i].job \in Jobs
<1>1. DOMAIN <<>> = {}
  BY EmptySeq, LenProperties, 1 .. 0 = {}
<1>2. ASSUME NEW v \in Workers
      PROVE  /\ \/ activeRun'[v] = NoJob \/ activeRun'[v] \in settled'
                \/ activeRun'[v] = current'[v] /\ \A i \in DOMAIN stdin'[v] : stdin'[v][i].kind # "run"
             /\ \A i \in DOMAIN stdin'[v] : stdin'[v][i].kind = "run" =>
                  \/ stdin'[v][i].job \in settled'
                  \/ /\ current'[v] = stdin'[v][i].job
                     /\ \A k \in DOMAIN stdin'[v] : k > i => stdin'[v][k].kind # "run"
  <2>1. \/ activeRun[v] = NoJob \/ activeRun[v] \in settled
        \/ activeRun[v] = current[v] /\ \A i \in DOMAIN stdin[v] : stdin[v][i].kind # "run"
    BY DEF DispatchInv, RunIsCurrent
  <2>2. \A i \in DOMAIN stdin[v] : stdin[v][i].kind = "run" =>
          \/ stdin[v][i].job \in settled
          \/ /\ current[v] = stdin[v][i].job
             /\ \A k \in DOMAIN stdin[v] : k > i => stdin[v][k].kind # "run"
    BY DEF DispatchInv, RunIsCurrent
  <2>3. \/ activeRun'[v] = NoJob \/ activeRun'[v] \in settled'
        \/ activeRun'[v] = current'[v] /\ \A i \in DOMAIN stdin'[v] : stdin'[v][i].kind # "run"
    BY <1>1, <2>1
  <2>4. \A i \in DOMAIN stdin[v] : stdin[v][i].kind = "run" => stdin[v][i].job # NoJob
    BY DEF DispatchInv, MessagesNameJobs
  <2>5. \A i \in DOMAIN stdin'[v] : stdin'[v][i].kind = "run" =>
          \/ stdin'[v][i].job \in settled'
          \/ /\ current'[v] = stdin'[v][i].job
             /\ \A k \in DOMAIN stdin'[v] : k > i => stdin'[v][k].kind # "run"
    BY <1>1, <2>2, <2>4
  <2> QED BY <2>3, <2>5
<1>3. \A v \in Workers : \A i \in DOMAIN stdin'[v] :
        stdin'[v][i].kind \in {"run", "cancel"} /\ stdin'[v][i].job \in Jobs
  BY <1>1 DEF DispatchInv, MessagesNameJobs
<1> QED BY <1>2, <1>3 DEF RunIsCurrent

LEMMA EndStep ==
  ASSUME DispatchInv, NEW w \in Workers, ReceiveEnd(w)
  PROVE  DispatchInv'
<1> USE DEF DispatchInv
<1>1. PICK kind \in {"done", "canceled", "refused"} : Receive(w, kind)
  BY DEF ReceiveEnd
<1>2. UNCHANGED <<at, assigned, aborted, child, holder, awaited, ready, activeRun, stdin, disk, events>>
  BY DEF ReceiveEnd, callVars
<1>3. Head(stdout[w]).job \in Jobs
  BY <1>1, ReceiveKeeps
<1>4. ProcessesKept /\ standby' \in Workers \cup {NoWorker}
  BY StandbyKeeps DEF ReceiveEnd, TypeOK, ProcessesKept
<1>5. Freed(w) \/ UNCHANGED <<current, busy, settled>>
  BY <1>3 DEF ReceiveEnd, Freed
<1>6. /\ current' \in [Workers -> Jobs \cup {NoJob}] /\ settled' \subseteq Jobs /\ busy' \subseteq Workers
      /\ WorkersAreAccounted' /\ SettledWereDispatched' /\ ShownChildIsLive' /\ LockIsHeld'
      /\ settled \subseteq settled'
      /\ \A v \in Workers : current'[v] = current[v] \/ current[v] \in settled'
  <2>1. CASE Freed(w)
    BY <1>2, <2>1, FreedKeeps
  <2>2. CASE UNCHANGED <<current, busy, settled>>
    BY <1>2, <2>2 DEF TypeOK, WorkersAreAccounted, SettledWereDispatched, ShownChildIsLive, LockIsHeld
  <2> QED BY <1>5, <2>1, <2>2
<1>7. TypeOK'
  BY <1>1, <1>2, <1>4, <1>6, ReceiveKeeps DEF TypeOK, ProcessesKept
<1>8. RunIsCurrent' /\ MessagesNameJobs'
  BY <1>1, <1>2, <1>6, ReceiveKeeps, RunStaysCurrent DEF MessagesNameJobs
<1>9. ProcessIsThere'
  <2>1. busy' \subseteq busy
    BY <1>5 DEF Freed
  <2> QED BY <1>1, <1>2, <1>4, <2>1, ReceiveKeeps DEF ProcessIsThere, ProcessesKept
<1> QED BY <1>6, <1>7, <1>8, <1>9

LEMMA EOFStep ==
  ASSUME DispatchInv, NEW w \in Workers, ReceiveEOF(w)
  PROVE  DispatchInv'
<1> USE DEF DispatchInv
<1>1. /\ stdout[w] = <<>> /\ Freed(w)
      /\ pool' = pool \ {w} /\ ready' = ready \ {w}
      /\ proc' = [proc EXCEPT ![w] = "none"]
      /\ stdin' = [stdin EXCEPT ![w] = <<>>] /\ activeRun' = [activeRun EXCEPT ![w] = NoJob]
      /\ UNCHANGED <<at, assigned, aborted, child, holder, awaited, standby, stdout, disk, events>>
  BY DEF ReceiveEOF, Freed, callVars, assignVars
<1>2. /\ current' \in [Workers -> Jobs \cup {NoJob}] /\ settled' \subseteq Jobs /\ busy' \subseteq Workers
      /\ WorkersAreAccounted' /\ SettledWereDispatched' /\ ShownChildIsLive' /\ LockIsHeld'
      /\ settled \subseteq settled'
      /\ \A v \in Workers : current'[v] = current[v] \/ current[v] \in settled'
  BY <1>1, FreedKeeps
<1>3. <<>> \in Seq(Messages)
  OBVIOUS
<1>4. TypeOK'
  BY <1>1, <1>2, <1>3 DEF TypeOK
<1>5. RunIsCurrent' /\ MessagesNameJobs'
  <2>1. \A v \in Workers : /\ activeRun'[v] = activeRun[v] \/ activeRun'[v] = NoJob
                           /\ stdin'[v] = stdin[v] \/ stdin'[v] = <<>>
    BY <1>1 DEF TypeOK
  <2> QED BY <1>1, <1>2, <2>1, RunStaysCurrent DEF MessagesNameJobs
<1>6. ProcessIsThere'
  BY <1>1 DEF ProcessIsThere, Freed, TypeOK
<1> QED BY <1>2, <1>4, <1>5, <1>6

-----------------------------------------------------------------------------
(* The process reads its input, runs and answers.                          *)

\* One message more in the output of w, about a job unless it is ready.
LEMMA SendKeeps ==
  ASSUME DispatchInv, NEW w \in Workers, NEW kind \in {"ready", "canceled", "done", "refused"},
         NEW j \in Jobs \cup {NoJob}, Send(w, kind, j), kind = "ready" \/ j \in Jobs
  PROVE  /\ stdout' \in [Workers -> Seq(Messages)]
         /\ \A v \in Workers : \A i \in DOMAIN stdout'[v] :
              stdout'[v][i].kind = "ready" \/ stdout'[v][i].job \in Jobs
         /\ \A v \in Workers : v # w => stdout'[v] = stdout[v]
<1> DEFINE msg == [kind |-> kind, job |-> j]
<1>1. stdout' = [stdout EXCEPT ![w] = Append(stdout[w], msg)]
  BY DEF Send
<1>2. msg \in Messages
  BY DEF Messages
<1>3. msg.kind = "ready" \/ msg.job \in Jobs
  OBVIOUS
<1> HIDE DEF msg
<1>4. /\ Append(stdout[w], msg) \in Seq(Messages)
      /\ \A i \in DOMAIN Append(stdout[w], msg) :
           \/ i \in DOMAIN stdout[w] /\ Append(stdout[w], msg)[i] = stdout[w][i]
           \/ Append(stdout[w], msg)[i] = msg
  BY <1>2, AppendIndex DEF DispatchInv, TypeOK
<1>5. \A v \in Workers : stdout'[v] = IF v = w THEN Append(stdout[w], msg) ELSE stdout[v]
  BY <1>1 DEF DispatchInv, TypeOK
<1>6. \A v \in Workers : \A i \in DOMAIN stdout[v] :
        stdout[v][i].kind = "ready" \/ stdout[v][i].job \in Jobs
  BY DEF DispatchInv, MessagesNameJobs
<1>7. \A i \in DOMAIN stdout'[w] : \/ stdout'[w][i] = msg
                                   \/ i \in DOMAIN stdout[w] /\ stdout'[w][i] = stdout[w][i]
  BY <1>4, <1>5
<1>8. \A v \in Workers : \A i \in DOMAIN stdout'[v] :
        stdout'[v][i].kind = "ready" \/ stdout'[v][i].job \in Jobs
  BY <1>3, <1>5, <1>6, <1>7
<1> QED BY <1>1, <1>4, <1>5, <1>8 DEF DispatchInv, TypeOK

\* The worker says that it is ready.
LEMMA BootStep ==
  ASSUME DispatchInv, NEW w \in Workers, Boot(w)
  PROVE  DispatchInv'
<1> USE DEF DispatchInv
<1>1. /\ proc[w] = "booting" /\ proc' = [proc EXCEPT ![w] = "up"]
      /\ Send(w, "ready", NoJob)
      /\ UNCHANGED <<at, assigned, aborted, settled, child, holder, awaited, standby, pool, busy,
                     ready, current, activeRun, stdin, disk, events>>
  BY DEF Boot, callVars, assignVars, poolVars
<1>2. TypeOK'
  BY <1>1, SendKeeps DEF TypeOK
<1>3. MessagesNameJobs'
  BY <1>1, SendKeeps DEF MessagesNameJobs
<1>4. ProcessIsThere'
  BY <1>1, SendKeeps DEF ProcessIsThere, TypeOK
<1>5. WorkersAreAccounted' /\ SettledWereDispatched' /\ ShownChildIsLive' /\ LockIsHeld' /\ RunIsCurrent'
  BY <1>1 DEF WorkersAreAccounted, SettledWereDispatched, ShownChildIsLive, LockIsHeld, RunIsCurrent
<1> QED BY <1>2, <1>3, <1>4, <1>5

LEMMA RunEndsStep ==
  ASSUME DispatchInv, NEW w \in Workers, RunEnds(w)
  PROVE  DispatchInv'
<1> USE DEF DispatchInv
<1>1. /\ proc[w] # "none" /\ activeRun[w] # NoJob
      /\ Send(w, "done", activeRun[w])
      /\ activeRun' = [activeRun EXCEPT ![w] = NoJob]
      /\ UNCHANGED <<at, assigned, aborted, settled, child, holder, awaited, standby, pool, busy,
                     ready, current, proc, stdin, disk, events>>
  BY DEF RunEnds, callVars, assignVars, poolVars
<1>2. activeRun[w] \in Jobs
  BY <1>1 DEF TypeOK
<1>3. TypeOK'
  BY <1>1, <1>2, SendKeeps DEF TypeOK
<1>4. MessagesNameJobs'
  BY <1>1, <1>2, SendKeeps DEF MessagesNameJobs
<1>5. ProcessIsThere'
  BY <1>1, <1>2, SendKeeps DEF ProcessIsThere
<1>6. WorkersAreAccounted' /\ SettledWereDispatched' /\ ShownChildIsLive' /\ LockIsHeld'
  BY <1>1 DEF WorkersAreAccounted, SettledWereDispatched, ShownChildIsLive, LockIsHeld
<1>7. RunIsCurrent'
  BY <1>1, RunStaysCurrent DEF TypeOK
<1> QED BY <1>3, <1>4, <1>5, <1>6, <1>7

\* A command leaves the input: the rest of the input is as it was.
LEMMA InputStep ==
  ASSUME DispatchInv, NEW w \in Workers, ReadInput(w)
  PROVE  DispatchInv'
<1> USE DEF DispatchInv
<1> DEFINE msg == Head(stdin[w])
<1> DEFINE rest == Tail(stdin[w])
<1>1. /\ proc[w] # "none" /\ stdin[w] # <<>> /\ stdin[w] \in Seq(Messages)
      /\ stdin' = [stdin EXCEPT ![w] = rest]
      /\ UNCHANGED <<at, assigned, aborted, settled, child, holder, awaited, standby, pool, busy,
                     ready, current, proc, disk, events>>
  BY DEF ReadInput, TypeOK, callVars, assignVars, poolVars
<1>2. \/ /\ msg.kind = "cancel" \/ activeRun[w] # NoJob
         /\ \E kind \in {"canceled", "refused"} : Send(w, kind, msg.job)
         /\ activeRun' = activeRun
      \/ /\ msg.kind # "cancel" /\ activeRun[w] = NoJob
         /\ activeRun' = [activeRun EXCEPT ![w] = msg.job]
         /\ stdout' = stdout
  BY DEF ReadInput
<1>3. /\ rest \in Seq(Messages)
      /\ 1 \in DOMAIN stdin[w] /\ msg = stdin[w][1]
      /\ \A i \in DOMAIN rest :
           /\ i + 1 \in DOMAIN stdin[w] /\ i + 1 > 1 /\ rest[i] = stdin[w][i + 1]
           /\ \A k \in DOMAIN rest : k > i => k + 1 > i + 1
  BY <1>1, TailIndex
<1> HIDE DEF msg, rest
<1>4. msg.kind \in {"run", "cancel"} /\ msg.job \in Jobs
  BY <1>3 DEF MessagesNameJobs
<1>5. stdout' \in [Workers -> Seq(Messages)]
  BY <1>2, <1>4, SendKeeps DEF TypeOK
<1>6. \A v \in Workers : \A i \in DOMAIN stdout'[v] :
        stdout'[v][i].kind = "ready" \/ stdout'[v][i].job \in Jobs
  BY <1>2, <1>4, SendKeeps DEF MessagesNameJobs
<1>7. \A v \in Workers : v # w => stdout'[v] = stdout[v] /\ stdin'[v] = stdin[v] /\ activeRun'[v] = activeRun[v]
  BY <1>1, <1>2, <1>4, SendKeeps DEF TypeOK
<1>8. stdin'[w] = rest
  BY <1>1 DEF TypeOK
<1>9. TypeOK'
  BY <1>1, <1>2, <1>3, <1>4, <1>5 DEF TypeOK
<1>10. MessagesNameJobs'
  <2>1. \A i \in DOMAIN rest : rest[i].kind \in {"run", "cancel"} /\ rest[i].job \in Jobs
    BY <1>3 DEF MessagesNameJobs
  <2> QED BY <1>6, <1>7, <1>8, <2>1 DEF MessagesNameJobs
<1>11. ProcessIsThere'
  BY <1>1, <1>7 DEF ProcessIsThere
<1>12. WorkersAreAccounted' /\ SettledWereDispatched' /\ ShownChildIsLive' /\ LockIsHeld'
  BY <1>1 DEF WorkersAreAccounted, SettledWereDispatched, ShownChildIsLive, LockIsHeld
<1>13. RunIsCurrent'
  <2>1. \A i \in DOMAIN rest : rest[i].kind = "run" =>
          \/ rest[i].job \in settled
          \/ /\ current[w] = rest[i].job
             /\ \A k \in DOMAIN rest : k > i => rest[k].kind # "run"
    BY <1>3 DEF RunIsCurrent
  <2>2. ASSUME msg.kind = "run", msg.job \notin settled
        PROVE  current[w] = msg.job /\ \A i \in DOMAIN rest : rest[i].kind # "run"
    BY <1>3, <2>2 DEF RunIsCurrent
  <2>3. CASE activeRun' = activeRun
    BY <1>1, <1>3, <1>7, <1>8, <2>1, <2>3 DEF RunIsCurrent
  <2>4. CASE msg.kind # "cancel" /\ activeRun' = [activeRun EXCEPT ![w] = msg.job]
    <3>1. activeRun'[w] = msg.job /\ msg.kind = "run"
      BY <1>4, <2>4 DEF TypeOK
    <3>2. \/ activeRun'[w] \in settled
          \/ activeRun'[w] = current[w] /\ \A i \in DOMAIN rest : rest[i].kind # "run"
      BY <2>2, <3>1
    <3> QED BY <1>1, <1>7, <1>8, <2>1, <3>2 DEF RunIsCurrent
  <2> QED BY <1>2, <2>3, <2>4
<1> QED BY <1>9, <1>10, <1>11, <1>12, <1>13

-----------------------------------------------------------------------------
(* The steps of a call.                                                    *)

\* A call that is not inside assignWorker() goes on.
LEMMA FreeMove ==
  ASSUME DispatchInv, NEW j \in Jobs, NEW from \in CallSteps \ Awaiting, NEW to \in CallSteps \ Awaiting,
         Goto(j, from, to), from # "thrown",
         from \in Dispatched => to \in Dispatched \/ (to = "thrown" /\ \A w \in Workers : current[w] # j),
         child' = NoJob \/ (child' = child /\ (child = j => to \in {"publishing", "watching"})),
         aborted' \subseteq Jobs, disk' \subseteq Jobs, events' \in 0 .. MaxEvents, ProcessesKept,
         UNCHANGED <<assigned, settled, assignVars, WorkVars>>
  PROVE  DispatchInv'
<1>1. at[j] = from /\ at' = [at EXCEPT ![j] = to]
  BY DEF Goto
<1>2. TypeOK'
  BY <1>1 DEF DispatchInv, TypeOK, ProcessesKept, assignVars, WorkVars
<1>3. LockIsHeld'
  BY <1>1 DEF DispatchInv, TypeOK, LockIsHeld, assignVars, WorkVars
<1> QED BY <1>1, <1>2, <1>3, MoveStep

\* From the permission check to the lock, and from the dispatch to the report.
LEMMA FreeSteps ==
  ASSUME DispatchInv, NEW j \in Jobs,
         \/ Check(j) \/ Deny(j) \/ AbortedBefore(j) \/ Published(j) \/ DoneSettled(j)
         \/ WatchdogDisk(j) \/ WatchdogDead(j) \/ WatchdogSilent(j) \/ Report(j)
  PROVE  DispatchInv'
<1> USE DEF DispatchInv
<1> USE DEF poolVars, procVars, assignVars, WorkVars
<1>0. /\ aborted \subseteq Jobs /\ disk \subseteq Jobs /\ events \in 0 .. MaxEvents
      /\ UNCHANGED <<pool, proc>> => ProcessesKept
      /\ \A S : S \in SUBSET Jobs => S \ {j} \subseteq Jobs
  BY DEF TypeOK, ProcessesKept
<1>1. CASE Check(j)
  <2>1. child # j
    BY <1>1 DEF Check, Goto, ShownChildIsLive
  <2>2. \E to \in {"thrown", "checked"} : Goto(j, "new", to) /\ (child' = child \/ child' = NoJob)
    BY <1>1 DEF Check
  <2>3. UNCHANGED <<assigned, settled, assignVars, WorkVars, aborted, disk, events, pool, proc>>
    BY <1>1 DEF Check
  <2> QED BY <1>0, <2>1, <2>2, <2>3, FreeMove DEF CallSteps, Awaiting, Dispatched
<1>2. CASE Deny(j) \/ AbortedBefore(j)
  <2>1. /\ Goto(j, "checked", "thrown") /\ aborted' = aborted \ {j} /\ child' = child
        /\ UNCHANGED <<assigned, settled, assignVars, WorkVars, disk, events, pool, proc>>
    BY <1>2 DEF Deny, AbortedBefore, Throw
  <2>2. child # j
    BY <2>1 DEF Goto, ShownChildIsLive
  <2> QED BY <1>0, <2>1, <2>2, FreeMove DEF CallSteps, Awaiting, Dispatched
<1>3. CASE Published(j)
  <2>1. /\ at[j] = "publishing" /\ aborted' = aborted \ {j}
        /\ UNCHANGED <<assigned, settled, assignVars, WorkVars, disk, events, pool, proc>>
    BY <1>3 DEF Published
  <2>2. CASE current[assigned[j]] = NoJob /\ Goto(j, "publishing", "thrown") /\ child' = NoJob
    <3>1. \A w \in Workers : current[w] # j
      BY <2>2 DEF WorkersAreAccounted
    <3> QED BY <1>0, <2>1, <2>2, <3>1, FreeMove DEF CallSteps, Awaiting, Dispatched
  <2>3. CASE Goto(j, "publishing", "watching") /\ child' = child
    BY <1>0, <2>1, <2>3, FreeMove DEF CallSteps, Awaiting, Dispatched
  <2> QED BY <1>3, <2>2, <2>3 DEF Published
<1>4. CASE DoneSettled(j) \/ WatchdogDisk(j) \/ WatchdogDead(j) \/ WatchdogSilent(j)
  <2>1. /\ \E to \in {"ended", "killing"} : Goto(j, "watching", to)
        /\ child' = NoJob
        /\ UNCHANGED <<assigned, settled, assignVars, WorkVars, aborted, disk, pool, proc>>
    BY <1>4 DEF DoneSettled, WatchdogDisk, WatchdogDead, WatchdogSilent, Outcome
  <2>2. events' = events \/ (events < MaxEvents /\ events' = events + 1)
    BY <1>4 DEF DoneSettled, WatchdogDisk, WatchdogDead, WatchdogSilent, Event
  <2>3. events' \in 0 .. MaxEvents
    BY <1>0, <2>2
  <2> QED BY <1>0, <2>1, <2>3, FreeMove DEF CallSteps, Awaiting, Dispatched
<1>5. CASE Report(j)
  <2>1. /\ \E from \in {"ended", "killing"} : Goto(j, from, "reported")
        /\ disk' = disk \ {j}
        /\ UNCHANGED <<assigned, settled, child, assignVars, WorkVars, aborted, events, pool>>
    BY <1>5 DEF Report
  <2>2. proc' = proc \/ Kill(assigned[j])
    BY <1>5 DEF Report
  <2>3. ProcessesKept
    BY <1>0, <2>1, <2>2, KillKeeps DEF TypeOK
  <2>4. child # j
    BY <2>1 DEF Goto, ShownChildIsLive
  <2> QED BY <1>0, <2>1, <2>3, <2>4, FreeMove DEF CallSteps, Awaiting, Dispatched
<1> QED BY <1>1, <1>2, <1>3, <1>4, <1>5

\* assignWorker(): the lock is free or the call's own.
LEMMA LockSteps ==
  ASSUME DispatchInv, NEW j \in Jobs,
         GetReady(j) \/ IdleAwaited(j) \/ FreedAwaited(j) \/ SpawnedAwaited(j)
  PROVE  DispatchInv'
<1> USE DEF DispatchInv
<1>1. \A w \in Unused : w \in Workers /\ w \notin busy
  BY DEF Unused, ProcessIsThere
<1>2. \A w \in IdleReady : w \in Workers /\ w \in ready /\ w \notin busy
  BY DEF IdleReady, TypeOK
<1>3. NoWorker \notin busy /\ (UNCHANGED <<pool, proc>> => ProcessesKept)
  BY DEF TypeOK, ProcessesKept
<1>4. ASSUME NEW from \in {"checked", "awaitIdle", "awaitFreed"}, SpawnFor(j, from), holder \in {NoJob, j}
      PROVE  DispatchInv'
  <2>1. PICK w \in Unused : spawnWorker(w) /\ Waiting(j, from, "awaitSpawned", w)
    BY <1>4 DEF SpawnFor
  <2> QED BY <1>1, <1>4, <2>1, SpawnKeeps, WaitingStep DEF Awaiting
<1>5. ASSUME NEW from \in {"checked", "awaitIdle"}, Spawn(j, from), holder \in {NoJob, j}
      PROVE  DispatchInv'
  <2>1. CASE Waiting(j, from, "awaitFreed", NoWorker) /\ UNCHANGED <<pool, proc>>
    BY <1>3, <1>5, <2>1, WaitingStep DEF Awaiting
  <2> QED BY <1>4, <1>5, <2>1 DEF Spawn
<1>6. CASE GetReady(j)
  <2>1. ASSUME NEW w \in IdleReady, Assign(j, "checked", w) PROVE DispatchInv'
    BY <1>2, <1>6, <2>1, AssignStep DEF GetReady
  <2>2. ASSUME NEW w \in pool \ busy, Waiting(j, "checked", "awaitIdle", w), UNCHANGED <<pool, proc>>
        PROVE  DispatchInv'
    BY <1>3, <1>6, <2>2, WaitingStep DEF GetReady, Awaiting, TypeOK
  <2> QED BY <1>5, <1>6, <2>1, <2>2 DEF GetReady
<1>7. ASSUME NEW from \in Awaiting, at[j] = from PROVE holder = j
  BY <1>7 DEF LockIsHeld
<1>8. awaited \in ready => awaited \in Workers /\ awaited \notin busy
  BY DEF TypeOK, LockIsHeld
<1>9. CASE IdleAwaited(j)
  <2>1. CASE awaited \in ready /\ Assign(j, "awaitIdle", awaited)
    <3>1. at[j] = "awaitIdle"
      BY <2>1 DEF Assign, Throw, Goto
    <3> QED BY <1>7, <1>8, <2>1, <3>1, AssignStep DEF Awaiting
  <2>2. CASE Spawn(j, "awaitIdle")
    <3>1. at[j] = "awaitIdle"
      BY <2>2 DEF Spawn, SpawnFor, Waiting, Goto
    <3> QED BY <1>5, <1>7, <2>2, <3>1 DEF Awaiting
  <2> QED BY <1>9, <2>1, <2>2 DEF IdleAwaited
<1>10. CASE FreedAwaited(j)
  <2>1. ASSUME NEW w \in IdleReady, Assign(j, "awaitFreed", w) PROVE DispatchInv'
    <3>1. at[j] = "awaitFreed"
      BY <2>1 DEF Assign, Throw, Goto
    <3> QED BY <1>2, <1>7, <2>1, <3>1, AssignStep DEF Awaiting
  <2>2. CASE SpawnFor(j, "awaitFreed")
    <3>1. at[j] = "awaitFreed"
      BY <2>2 DEF SpawnFor, Waiting, Goto
    <3> QED BY <1>4, <1>7, <2>2, <3>1 DEF Awaiting
  <2> QED BY <1>10, <2>1, <2>2 DEF FreedAwaited
<1>11. CASE SpawnedAwaited(j)
  <2>1. CASE awaited \in ready /\ Assign(j, "awaitSpawned", awaited)
    <3>1. at[j] = "awaitSpawned"
      BY <2>1 DEF Assign, Throw, Goto
    <3> QED BY <1>7, <1>8, <2>1, <3>1, AssignStep DEF Awaiting
  <2>2. CASE Throw(j, "awaitSpawned") /\ Release /\ UNCHANGED <<standby, poolVars, procVars, events>>
    <3>1. at[j] = "awaitSpawned"
      BY <2>2 DEF Throw, Goto
    <3> QED BY <1>7, <2>2, <3>1, ThrowStep DEF Awaiting
  <2> QED BY <1>11, <2>1, <2>2 DEF SpawnedAwaited
<1> QED BY <1>6, <1>9, <1>10, <1>11

-----------------------------------------------------------------------------
(* Cancels, kills and what happens to a process.                           *)

LEMMA CommandSteps ==
  ASSUME DispatchInv,
         \/ \E j \in Jobs : Abort(j) \/ cancelByJobId(j)
         \/ terminateActiveChild \/ terminateAllActiveWorkers
  PROVE  DispatchInv'
<1> USE DEF DispatchInv
<1> USE DEF callVars, assignVars, poolVars
<1> DEFINE Cancels(w, j) == stdin'[w] = Append(stdin[w], [kind |-> "cancel", job |-> j])
<1> DEFINE Unchanged == UNCHANGED <<at, assigned, settled, holder, awaited, standby, pool, busy, ready,
                                   current, activeRun, stdout, disk>>
<1>1. ASSUME NEW w, NEW j \in Jobs, Write(w, "cancel", j)
      PROVE  /\ stdin' \in [Workers -> Seq(Messages)]
             /\ \A v \in Workers : stdin'[v] = stdin[v] \/ \E d \in Jobs : Cancels(v, d)
  <2>1. [kind |-> "cancel", job |-> j] \in Messages
    BY DEF Messages
  <2>2. w \in Workers => Append(stdin[w], [kind |-> "cancel", job |-> j]) \in Seq(Messages)
    BY <2>1, AppendIndex DEF TypeOK
  <2> QED BY <1>1, <2>2 DEF Write, TypeOK
<1>2. stdin' = stdin => /\ stdin' \in [Workers -> Seq(Messages)]
                        /\ \A v \in Workers : stdin'[v] = stdin[v] \/ \E d \in Jobs : Cancels(v, d)
  BY DEF TypeOK
<1>3. ASSUME stdin' \in [Workers -> Seq(Messages)],
             \A v \in Workers : stdin'[v] = stdin[v] \/ \E d \in Jobs : Cancels(v, d),
             Unchanged, Event, ProcessesKept, aborted' \subseteq Jobs, child' = NoJob \/ child' = child
      PROVE  DispatchInv'
  <2>1. events' \in 0 .. MaxEvents
    BY <1>3 DEF Event, TypeOK
  <2>2. TypeOK'
    BY <1>3, <2>1 DEF TypeOK, ProcessesKept
  <2> QED BY <1>3, <2>2, CancelStep
<1>4. UNCHANGED <<pool, proc>> => ProcessesKept
  BY DEF TypeOK, ProcessesKept
<1>5. ASSUME NEW j \in Jobs, Abort(j) PROVE DispatchInv'
  <2>1. stdin' = stdin \/ Write(assigned[j], "cancel", j)
    BY <1>5 DEF Abort
  <2>2. Unchanged /\ Event /\ proc' = proc /\ aborted' = aborted \cup {j} /\ child' = child
    BY <1>5 DEF Abort
  <2>3. aborted' \subseteq Jobs
    BY <2>2 DEF TypeOK
  <2> QED BY <1>1, <1>2, <1>3, <1>4, <2>1, <2>2, <2>3
<1>6. ASSUME NEW j \in Jobs, cancelByJobId(j) PROVE DispatchInv'
  <2>1. PICK w \in pool : Write(w, "cancel", j)
    BY <1>6 DEF cancelByJobId
  <2>2. Unchanged /\ Event /\ proc' = proc /\ aborted' = aborted /\ child' = child
    BY <1>6 DEF cancelByJobId
  <2>3. aborted' \subseteq Jobs
    BY <2>2 DEF TypeOK
  <2> QED BY <1>1, <1>3, <1>4, <2>1, <2>2, <2>3
<1>7. CASE terminateActiveChild
  <2>1. Unchanged /\ Event /\ aborted' = aborted /\ child \in Jobs /\ child' = NoJob
    BY <1>7 DEF terminateActiveChild, TypeOK
  <2>2. /\ stdin' = stdin \/ Write(assigned[child], "cancel", child)
        /\ proc' = proc \/ Kill(assigned[child])
    BY <1>7 DEF terminateActiveChild
  <2>3. ProcessesKept /\ aborted' \subseteq Jobs
    BY <1>4, <2>1, <2>2, KillKeeps DEF TypeOK
  <2> QED BY <1>1, <1>2, <1>3, <2>1, <2>2, <2>3
<1>8. CASE terminateAllActiveWorkers
  <2>1. Unchanged /\ Event /\ aborted' = aborted /\ proc' = proc /\ child' = NoJob
    BY <1>8 DEF terminateAllActiveWorkers
  <2> DEFINE working == {w \in pool : current[w] # NoJob}
  <2>2. stdin' = [w \in Workers |->
                    IF w \in working THEN Append(stdin[w], [kind |-> "cancel", job |-> current[w]])
                    ELSE stdin[w]]
    BY <1>8 DEF terminateAllActiveWorkers
  <2>3. \A w \in working : current[w] \in Jobs
    BY DEF TypeOK
  <2> HIDE DEF working
  <2>4. \A v \in Workers : stdin'[v] = stdin[v] \/ \E d \in Jobs : Cancels(v, d)
    BY <2>2, <2>3
  <2>5. \A v \in Workers : stdin'[v] \in Seq(Messages)
    <3> SUFFICES ASSUME NEW v \in Workers PROVE stdin'[v] \in Seq(Messages)
      OBVIOUS
    <3>1. stdin[v] \in Seq(Messages)
      BY DEF TypeOK
    <3>2. ASSUME NEW d \in Jobs, Cancels(v, d) PROVE stdin'[v] \in Seq(Messages)
      <4>1. [kind |-> "cancel", job |-> d] \in Messages
        BY DEF Messages
      <4> QED BY <3>1, <3>2, <4>1, AppendIndex
    <3> QED BY <2>4, <3>1, <3>2
  <2>6. stdin' \in [Workers -> Seq(Messages)]
    BY <2>2, <2>5
  <2>7. aborted' \subseteq Jobs
    BY <2>1 DEF TypeOK
  <2> QED BY <1>3, <1>4, <2>1, <2>4, <2>6, <2>7
<1> QED BY <1>5, <1>6, <1>7, <1>8

\* Processes are killed, die, stall and write to the disk.
LEMMA ProcessSteps ==
  ASSUME DispatchInv,
         \/ StandbyEnds
         \/ \E w \in Workers : killIdleWorker(w) \/ WriteFinish(w) \/ Dies(w) \/ Stalls(w)
  PROVE  DispatchInv'
<1> USE DEF DispatchInv
<1> USE DEF callVars, assignVars, poolVars
<1>1. ASSUME UNCHANGED <<at, assigned, aborted, settled, child, holder, awaited, busy, ready, current,
                         activeRun, stdin, stdout>>,
             ProcessesKept, standby' \in {standby, NoWorker}, disk' \subseteq Jobs,
             events' = events \/ Event
      PROVE  DispatchInv'
  <2>1. events' \in 0 .. MaxEvents
    BY <1>1 DEF Event, TypeOK
  <2>2. TypeOK'
    BY <1>1, <2>1 DEF TypeOK, ProcessesKept
  <2> QED BY <1>1, <2>2, CancelStep
<1>2. disk \subseteq Jobs /\ pool \subseteq Workers
  BY DEF TypeOK
<1>3. CASE StandbyEnds
  <2>1. (UNCHANGED <<pool, proc>>) \/ (pool' = pool \ {standby} /\ Kill(standby))
    BY <1>3 DEF StandbyEnds
  <2>2. ProcessesKept
    BY <1>2, <2>1, KillKeeps DEF TypeOK, ProcessesKept
  <2> QED BY <1>1, <1>2, <1>3, <2>2 DEF StandbyEnds
<1>4. ASSUME NEW w \in Workers, killIdleWorker(w) PROVE DispatchInv'
  <2>1. ProcessesKept
    BY <1>2, <1>4, KillKeeps DEF killIdleWorker
  <2> QED BY <1>1, <1>2, <1>4, <2>1 DEF killIdleWorker
<1>5. ASSUME NEW w \in Workers, WriteFinish(w) PROVE DispatchInv'
  <2>1. ProcessesKept /\ disk' \subseteq Jobs
    BY <1>5 DEF WriteFinish, TypeOK, ProcessesKept
  <2> QED BY <1>1, <1>5, <2>1 DEF WriteFinish
<1>6. ASSUME NEW w \in Workers, Dies(w) \/ Stalls(w) PROVE DispatchInv'
  <2>1. ProcessesKept
    BY <1>6 DEF Dies, Stalls, TypeOK, ProcessesKept
  <2> QED BY <1>1, <1>2, <1>6, <2>1 DEF Dies, Stalls
<1> QED BY <1>3, <1>4, <1>5, <1>6

-----------------------------------------------------------------------------
(* The theorems.                                                           *)

\* Whatever the tool, its workers, users and failures do, in whatever order, the
\* pool's records, the pipes and the calls agree.
THEOREM DispatchCorrect == Spec => []DispatchInv
<1>1. Init => DispatchInv
  <2> SUFFICES ASSUME Init PROVE DispatchInv
    OBVIOUS
  <2>1. TypeOK
    <3>1. <<>> \in Seq(Messages)
      OBVIOUS
    <3> QED BY <3>1 DEF Init, TypeOK, CallSteps
  <2>2. \A w \in Workers : stdin[w] = <<>> /\ stdout[w] = <<>> /\ current[w] = NoJob /\ activeRun[w] = NoJob
    BY DEF Init
  <2>3. DOMAIN <<>> = {}
    BY EmptySeq, LenProperties, 1 .. 0 = {}
  <2>4. MessagesNameJobs /\ RunIsCurrent
    BY <2>2, <2>3 DEF MessagesNameJobs, RunIsCurrent
  <2>5. WorkersAreAccounted /\ SettledWereDispatched /\ ShownChildIsLive
    BY <2>2 DEF Init, WorkersAreAccounted, SettledWereDispatched, ShownChildIsLive
  <2>6. LockIsHeld /\ ProcessIsThere
    BY <2>2 DEF Init, LockIsHeld, ProcessIsThere, Awaiting
  <2> QED BY <2>1, <2>4, <2>5, <2>6 DEF DispatchInv
<1>2. DispatchInv /\ [Next]_vars => DispatchInv'
  <2> SUFFICES ASSUME DispatchInv, [Next]_vars PROVE DispatchInv'
    OBVIOUS
  <2>1. ASSUME NEW j \in Jobs, CallStep(j) \/ Deny(j) \/ WatchdogSilent(j) \/ Abort(j) \/ cancelByJobId(j)
        PROVE  DispatchInv'
    BY <2>1, FreeSteps, LockSteps, CommandSteps DEF CallStep
  <2>2. ASSUME NEW w \in Workers, ReadOutput(w) \/ ProcessStep(w) \/ Boot(w) \/ WriteFinish(w)
                                    \/ Dies(w) \/ Stalls(w) \/ killIdleWorker(w)
        PROVE  DispatchInv'
    BY <2>2, ReadyStep, EndStep, EOFStep, InputStep, RunEndsStep, BootStep, ProcessSteps
       DEF ReadOutput, ProcessStep
  <2>3. CASE StandbyEnds \/ terminateActiveChild \/ terminateAllActiveWorkers
    BY <2>3, CommandSteps, ProcessSteps
  <2>4. CASE UNCHANGED vars
    BY <2>4 DEF vars, callVars, assignVars, poolVars, procVars, DispatchInv, TypeOK, MessagesNameJobs,
                WorkersAreAccounted, SettledWereDispatched, ShownChildIsLive, LockIsHeld,
                ProcessIsThere, RunIsCurrent
  <2> QED BY <2>1, <2>2, <2>3, <2>4 DEF Next
<1> QED BY <1>1, <1>2, PTL DEF Spec

\* The fields of the workers, the pipes and the calls keep their types.
THEOREM DispatchTyped == Spec => []TypeOK
<1>1. DispatchInv => TypeOK
  BY DEF DispatchInv
<1> QED BY <1>1, DispatchCorrect, PTL

\* No worker leaks: a busy one has exactly one job, whose call still waits for
\* an answer, and no job has two workers.
THEOREM NoWorkerLeaks == Spec => []WorkersAreAccounted
<1>1. DispatchInv => WorkersAreAccounted
  BY DEF DispatchInv
<1> QED BY <1>1, DispatchCorrect, PTL

\* A worker that refuses a run was still busy with one that the tool had
\* canceled: two calls are never given the same worker.
THEOREM RefusalsFollowCancels == Spec => []RefusalMeansCancel
<1>1. DispatchInv => RefusalMeansCancel
  <2> SUFFICES ASSUME DispatchInv, NEW w \in Workers, NEW i \in DOMAIN stdin[w],
                      stdin[w][i].kind = "run", activeRun[w] # NoJob
               PROVE  activeRun[w] \in settled
    BY DEF RefusalMeansCancel
  <2> QED BY DEF DispatchInv, RunIsCurrent
<1> QED BY <1>1, DispatchCorrect, PTL

\* The subagent that the parent session shows as active has not ended.
THEOREM ShownChildLives == Spec => []ShownChildIsLive
<1>1. DispatchInv => ShownChildIsLive
  BY DEF DispatchInv
<1> QED BY <1>1, DispatchCorrect, PTL

=============================================================================
