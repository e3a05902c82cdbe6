---------------------------- MODULE CommandLanes ----------------------------
(***************************************************************************)
(* The command lanes of daemon/lanes.ts: per lane a FIFO queue, a set of   *)
(* active tasks and a limit, under the drain state of daemon/drain.ts.     *)
(*                                                                         *)
(* A task is one entry: its promise, and the execution of its body.        *)
(* Generations are compared only for equality with the entry's own, so the *)
(* model keeps the set of tasks whose lane was reset since they were       *)
(* queued.  The "draining" field of a lane is never set and is left out.   *)
(* A lane that is not in the table is registered on first use, empty.      *)
(***************************************************************************)
EXTENDS Naturals, Sequences, FiniteSets, Functions

CONSTANTS
  Lanes,          \* composite keys <workspaceId>:<lane>
  Tasks,          \* entries ever offered to enqueue()
  LaneOf,         \* the lane each of them is offered to
  MaxConcurrent   \* limit of each lane (DEFAULT_CONCURRENCY or an override)

ASSUME TasksFinite == IsFiniteSet(Tasks)
ASSUME LaneOfTask == LaneOf \in [Tasks -> Lanes]
ASSUME LimitsPositive == MaxConcurrent \in [Lanes -> Nat \ {0}]

VARIABLES
  queue,    \* lane -> entries that wait
  active,   \* lane -> its activeTaskIds
  phase,    \* task -> where its promise and its body stand
  stale,    \* tasks whose generation is not their lane's any more
  drain     \* Drain's state

laneVars == <<queue, active, phase, stale>>

Settled == {"resolved", "rejected"}

Phases  == {"new", "queued", "running"} \cup Settled

\* State every variable has its type.
TypeOK ==
  /\ queue \in [Lanes -> Seq(Tasks)]
  /\ active \in [Lanes -> SUBSET Tasks]
  /\ phase \in [Tasks -> Phases]
  /\ stale \subseteq Tasks
  /\ drain \in {"idle", "draining", "drained"}

LanesInit ==
  /\ queue = [k \in Lanes |-> <<>>]
  /\ active = [k \in Lanes |-> {}]
  /\ phase = [t \in Tasks |-> "new"]
  /\ stale = {}
  /\ drain = "idle"

-----------------------------------------------------------------------------
(* pump(): the loop shifts entries of the queue q into the active set a    *)
(* while there is room.                                                    *)

\* Mutant: one task more than the limit.
RoomForOneMore(k, q, a) ==
  LET free == MaxConcurrent[k] + 1 - Cardinality(a)
  IN  IF free < Len(q) THEN free ELSE Len(q)

Room(k, q, a) ==
  LET free == MaxConcurrent[k] - Cardinality(a)
  IN  IF free < Len(q) THEN free ELSE Len(q)

\* Mutant: the newest entry is taken from the queue, not the oldest.
PumpNewest(k, q, a, p) ==
  LET n == Room(k, q, a)
      rest == Len(q) - n
      popped == Range(SubSeq(q, rest + 1, Len(q)))
  IN  /\ queue' = [queue EXCEPT ![k] = SubSeq(q, 1, rest)]
      /\ active' = [active EXCEPT ![k] = a \cup popped]
      /\ phase' = [t \in Tasks |-> IF t \in popped THEN "running" ELSE p[t]]

Pump(k, q, a, p) ==
  LET n == Room(k, q, a)
      shifted == Range(SubSeq(q, 1, n))
  IN  /\ queue' = [queue EXCEPT ![k] = SubSeq(q, n + 1, Len(q))]
      /\ active' = [active EXCEPT ![k] = a \cup shifted]
      /\ phase' = [t \in Tasks |-> IF t \in shifted THEN "running" ELSE p[t]]

\* enqueue() of a fresh entry.
Enqueue(t) ==
  /\ phase[t] = "new"
  /\ drain = "idle"
  /\ LET k == LaneOf[t]
     IN  Pump(k, Append(queue[k], t), active[k], [phase EXCEPT ![t] = "queued"])
  /\ UNCHANGED <<stale, drain>>

\* GatewayDrainingError.
EnqueueRefused(t) ==
  /\ phase[t] = "new"
  /\ drain # "idle"
  /\ phase' = [phase EXCEPT ![t] = "rejected"]
  /\ UNCHANGED <<queue, active, stale, drain>>

\* executeEntry() when the body returns or throws: the generation is compared,
\* the promise settled, the lane pumped.
Complete(t, outcome) ==
  /\ phase[t] = "running"
  /\ t \in stale => outcome = "rejected"
  /\ Pump(LaneOf[t], queue[LaneOf[t]], active[LaneOf[t]] \ {t}, [phase EXCEPT ![t] = outcome])
  /\ UNCHANGED <<stale, drain>>

\* Mutant: queued entries are dropped without an answer.
ResetForgetful ==
  /\ queue' = [k \in Lanes |-> <<>>]
  /\ active' = [k \in Lanes |-> {}]
  /\ stale' = stale \cup {t \in Tasks : phase[t] = "running"}
  /\ UNCHANGED phase

\* resetAll(): the generation is bumped, what is queued is rejected with
\* CommandLaneClearedError, what runs is forgotten but runs on.
ResetAll ==
  /\ queue' = [k \in Lanes |-> <<>>]
  /\ active' = [k \in Lanes |-> {}]
  /\ stale' = stale \cup {t \in Tasks : phase[t] = "running"}
  /\ phase' = [t \in Tasks |-> IF phase[t] = "queued" THEN "rejected" ELSE phase[t]]

IsIdle == \A k \in Lanes : active[k] = {}

LaneStep ==
  \/ \E t \in Tasks : Enqueue(t)
  \/ \E t \in Tasks : EnqueueRefused(t)
  \/ \E t \in Tasks, outcome \in Settled : Complete(t, outcome)

-----------------------------------------------------------------------------
(* Properties *)

\* A lane counts at most its limit, and counts only what runs for it; what
\* runs uncounted was forgotten by a reset.
CountedAndBounded ==
  /\ \A k \in Lanes :
       /\ Cardinality(active[k]) <= MaxConcurrent[k]
       /\ \A t \in active[k] : phase[t] = "running" /\ LaneOf[t] = k /\ t \notin stale
  /\ \A t \in Tasks : phase[t] = "running" /\ t \notin stale => t \in active[LaneOf[t]]

\* Every entry that waits is in the queue of its lane, once.
QueuedOnce ==
  \A k \in Lanes :
    /\ IsInjective(queue[k])
    /\ Range(queue[k]) = {t \in Tasks : phase[t] = "queued" /\ LaneOf[t] = k}

\* No lane has a free place while an entry waits in it: no pump is missed.
WorkConserving ==
  \A k \in Lanes : queue[k] # <<>> => Cardinality(active[k]) >= MaxConcurrent[k]

\* What the drain relies on: when isIdle() says so nothing waits and nothing
\* runs, except what a reset forgot.
IdleMeansQuiet ==
  IsIdle => \A t \in Tasks : phase[t] # "queued" /\ (phase[t] = "running" => t \in stale)

\* A reset makes stale what has started, never what may start later.
StaleHasStarted == \A t \in stale : phase[t] \notin {"new", "queued"}

LanesInv == CountedAndBounded /\ QueuedOnce /\ WorkConserving /\ StaleHasStarted

=============================================================================
