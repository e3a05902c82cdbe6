------------------------- MODULE PromptRuntimeProofs -------------------------
(***************************************************************************)
(* The run slot of a session keeps its promises for every number of        *)
(* callers and of waiting rounds.  TypeOK and RuntimeInv are inductive     *)
(* together: one lemma per kind of step.                                   *)
(*                                                                         *)
(* A disposal breaks RuntimeInv: it forgets who waits, and whose slot it   *)
(* was.  What is left of it, DisposeInv, is inductive for the session with *)
(* its disposals; the second part of the proof has again one lemma per     *)
(* kind of step.                                                           *)
(***************************************************************************)
EXTENDS PromptRuntimeDispose, FiniteSetTheorems, SequenceTheorems, TLAPS

-----------------------------------------------------------------------------
(* Facts about queues: their range, and that a queue without duplicates    *)
(* stays one.                                                              *)

\* A queue is empty exactly when nobody is in it.
LEMMA RangeEmpty ==
  ASSUME NEW S, NEW s \in Seq(S)
  PROVE  /\ Range(<<>>) = {}
         /\ IsInjective(<<>>)
         /\ s # <<>> => Head(s) \in Range(s)
         /\ Range(s) = {} => s = <<>>
<1>1. DOMAIN <<>> = {}
  BY EmptySeq, LenProperties, 1 .. 0 = {}
<1>2. Range(<<>>) = {} /\ IsInjective(<<>>)
  BY <1>1 DEF Range, IsInjective
<1>3. ASSUME s # <<>> PROVE Head(s) \in Range(s)
  <2>1. Len(s) \in Nat \ {0} /\ DOMAIN s = 1 .. Len(s)
    BY <1>3, EmptySeq, LenProperties
  <2>2. Head(s) = s[1] /\ 1 \in DOMAIN s
    BY <2>1
  <2> QED BY <2>2 DEF Range
<1> QED BY <1>2, <1>3

\* Queueing one more element.
LEMMA RangeAppend ==
  ASSUME NEW S, NEW s \in Seq(S), NEW x \in S
  PROVE  /\ Append(s, x) \in Seq(S) /\ Append(s, x) # <<>>
         /\ Range(Append(s, x)) = Range(s) \cup {x}
         /\ IsInjective(s) /\ x \notin Range(s) => IsInjective(Append(s, x))
<1> DEFINE t == Append(s, x)
<1>1. /\ t \in Seq(S) /\ t # <<>> /\ Len(t) = Len(s) + 1
      /\ \A i \in 1 .. Len(s) : t[i] = s[i]
      /\ t[Len(s) + 1] = x
  BY AppendProperties
<1>2. Len(s) \in Nat /\ DOMAIN s = 1 .. Len(s) /\ DOMAIN t = 1 .. Len(s) + 1
  BY <1>1, LenProperties
<1>3. DOMAIN t = DOMAIN s \cup {Len(s) + 1}
  BY <1>2
<1>4. Range(t) = Range(s) \cup {x}
  BY <1>1, <1>2, <1>3 DEF Range
<1>5. ASSUME IsInjective(s), x \notin Range(s) PROVE IsInjective(t)
  BY <1>1, <1>2, <1>3, <1>5 DEF Range, IsInjective
<1> QED BY <1>1, <1>4, <1>5

\* Serving the head of a queue without duplicates.
LEMMA RangeTail ==
  ASSUME NEW S, NEW s \in Seq(S), s # <<>>, IsInjective(s)
  PROVE  /\ Head(s) \in S /\ Tail(s) \in Seq(S)
         /\ Range(Tail(s)) = Range(s) \ {Head(s)}
         /\ IsInjective(Tail(s))
<1> DEFINE t == Tail(s)
<1>1. /\ Head(s) \in S /\ t \in Seq(S) /\ Len(t) = Len(s) - 1
      /\ \A i \in 1 .. Len(t) : t[i] = s[i + 1]
  BY HeadTailProperties
<1>2. Len(s) \in Nat \ {0} /\ DOMAIN s = 1 .. Len(s) /\ DOMAIN t = 1 .. Len(s) - 1
  BY <1>1, LenProperties, EmptySeq
<1>3. Head(s) = s[1]
  OBVIOUS
<1>4. \A i \in DOMAIN t : i + 1 \in DOMAIN s /\ i + 1 # 1 /\ t[i] = s[i + 1]
  BY <1>1, <1>2
<1>5. \A j \in DOMAIN s : j # 1 => j - 1 \in DOMAIN t /\ t[j - 1] = s[j]
  BY <1>1, <1>2
<1>6. 1 \in DOMAIN s
  BY <1>2
<1>7. Range(t) \subseteq Range(s) \ {Head(s)}
  BY <1>3, <1>4, <1>6 DEF Range, IsInjective
<1>8. Range(s) \ {Head(s)} \subseteq Range(t)
  <2> SUFFICES ASSUME NEW j \in DOMAIN s, s[j] # Head(s) PROVE s[j] \in Range(t)
    BY DEF Range
  <2>1. j - 1 \in DOMAIN t /\ t[j - 1] = s[j]
    BY <1>3, <1>5
  <2> QED BY <2>1 DEF Range
<1>9. IsInjective(t)
  <2> SUFFICES ASSUME NEW i \in DOMAIN t, NEW j \in DOMAIN t, t[i] = t[j]
               PROVE  i = j
    BY DEF IsInjective
  <2>1. i + 1 \in DOMAIN s /\ j + 1 \in DOMAIN s /\ s[i + 1] = s[j + 1]
    BY <1>4
  <2>2. i + 1 = j + 1
    BY <2>1 DEF IsInjective
  <2> QED BY <2>2, <1>2
<1> QED BY <1>1, <1>7, <1>8, <1>9

\* Queueing the waiters of one queue behind those of another.
LEMMA RangeConcat ==
  ASSUME NEW S, NEW s \in Seq(S), NEW t \in Seq(S)
  PROVE  /\ s \o t \in Seq(S)
         /\ Range(s \o t) = Range(s) \cup Range(t)
         /\ IsInjective(s) /\ IsInjective(t) /\ Range(s) \cap Range(t) = {}
              => IsInjective(s \o t)
<1> DEFINE u == s \o t
<1>1. /\ u \in Seq(S) /\ Len(u) = Len(s) + Len(t)
      /\ \A i \in 1 .. Len(s) : u[i] = s[i]
      /\ \A i \in 1 .. Len(t) : u[Len(s) + i] = t[i]
  <2>1. \A i \in 1 .. Len(t) : i + Len(s) = Len(s) + i
    BY LenProperties
  <2> QED BY ConcatProperties, <2>1, LenProperties
<1>2. /\ Len(s) \in Nat /\ DOMAIN s = 1 .. Len(s)
      /\ Len(t) \in Nat /\ DOMAIN t = 1 .. Len(t)
      /\ DOMAIN u = 1 .. Len(s) + Len(t)
  BY <1>1, LenProperties
<1> HIDE DEF u
<1>3. \A i \in DOMAIN s : i \in DOMAIN u /\ u[i] = s[i]
  BY <1>1, <1>2
<1>4. \A i \in DOMAIN t : Len(s) + i \in DOMAIN u /\ u[Len(s) + i] = t[i]
  BY <1>1, <1>2
<1>5. \A i \in DOMAIN u : i \in DOMAIN s \/ (i - Len(s) \in DOMAIN t /\ u[i] = t[i - Len(s)])
  <2> SUFFICES ASSUME NEW i \in DOMAIN u, i \notin DOMAIN s
               PROVE  i - Len(s) \in DOMAIN t /\ u[i] = t[i - Len(s)]
    OBVIOUS
  <2>1. i - Len(s) \in 1 .. Len(t) /\ Len(s) + (i - Len(s)) = i
    BY <1>2
  <2> QED BY <2>1, <1>1, <1>2
<1>6. Range(u) = Range(s) \cup Range(t)
  <2>1. Range(s) \cup Range(t) \subseteq Range(u)
    BY <1>3, <1>4 DEF Range
  <2>2. Range(u) \subseteq Range(s) \cup Range(t)
    BY <1>3, <1>5 DEF Range
  <2> QED BY <2>1, <2>2
<1>7. ASSUME IsInjective(s), IsInjective(t), Range(s) \cap Range(t) = {}
      PROVE  IsInjective(u)
  <2> SUFFICES ASSUME NEW i \in DOMAIN u, NEW j \in DOMAIN u, u[i] = u[j]
               PROVE  i = j
    BY DEF IsInjective
  <2>1. CASE i \in DOMAIN s /\ j \in DOMAIN s
    BY <2>1, <1>3, <1>7 DEF IsInjective
  <2>0. \A k \in DOMAIN u : /\ k \in DOMAIN s => u[k] \in Range(s)
                            /\ k \notin DOMAIN s => u[k] \in Range(t)
    BY <1>3, <1>5 DEF Range
  <2>2. CASE i \in DOMAIN s /\ j \notin DOMAIN s
    BY <2>0, <2>2, <1>7
  <2>3. CASE i \notin DOMAIN s /\ j \in DOMAIN s
    BY <2>0, <2>3, <1>7
  <2>4. CASE i \notin DOMAIN s /\ j \notin DOMAIN s
    <3>1. i - Len(s) \in DOMAIN t /\ j - Len(s) \in DOMAIN t /\ t[i - Len(s)] = t[j - Len(s)]
      BY <2>4, <1>5
    <3>2. i - Len(s) = j - Len(s)
      BY <3>1, <1>7 DEF IsInjective
    <3> QED BY <3>2, <1>2
  <2> QED BY <2>1, <2>2, <2>3, <2>4
<1> QED BY <1>1, <1>6, <1>7 DEF u

-----------------------------------------------------------------------------

USE NoRunFresh, MaxWaitsPositive

Inv == TypeOK /\ RuntimeInv

\* What NoStrandedWaiter says of the two queues, for the queues w and r and
\* the places p.
Queues(w, r, p) ==
  /\ {c \in Callers : p[c] = "waiting"} = Range(w)
  /\ IsInjective(w)
  /\ {c \in Callers : p[c] = "ready"} = Range(r)
  /\ IsInjective(r)

LEMMA EmptyQueue == Range(<<>>) = {} /\ IsInjective(<<>>) /\ <<>> \in Seq(Callers)
<1>1. <<>> \in Seq(Callers)
  OBVIOUS
<1> QED BY <1>1, RangeEmpty

\* A caller that is in neither queue may go anywhere but into them.
LEMMA QueuesKept ==
  ASSUME TypeOK, Queues(slotWaiters, ready, pc), NEW c \in Callers,
         NEW place, GoTo(c, place), pc[c] \notin {"waiting", "ready"},
         place \notin {"waiting", "ready"}
  PROVE  Queues(slotWaiters, ready, pc')
BY DEF Queues, GoTo, TypeOK

\* start() by a caller that is in no queue keeps the invariant.
LEMMA InstallStep ==
  ASSUME Inv, NEW c \in Callers, NEW place \in {"head", "shell"},
         Install(c, place), pc[c] \notin {"waiting"} \cup Running,
         ready' \in Seq(Callers), Queues(slotWaiters, ready', pc')
  PROVE  Inv'
<1>1. TypeOK'
  BY DEF Inv, TypeOK, Install, InstallWith, GoTo, Running
<1>2. \A d \in Callers : pc'[d] = IF d = c THEN place ELSE pc[d]
  BY DEF Inv, TypeOK, Install, InstallWith, GoTo
<1>3. SlotOwner'
  BY <1>2 DEF Inv, RuntimeInv, SlotOwner, TypeOK, Install, InstallWith, Live, Running
<1>4. NoLeakedSlot'
  BY <1>2 DEF NoLeakedSlot, Install, InstallWith, Live, Running
<1>5. NoStrandedWaiter'
  BY DEF NoStrandedWaiter, Queues, Install, InstallWith
<1>6. QuiescentIsIdle'
  BY <1>2 DEF QuiescentIsIdle, Live, Running
<1>7. CountInv'
  BY <1>2 DEF CountInv, Inv, RuntimeInv, TypeOK, Install, InstallWith
<1> QED BY <1>1, <1>3, <1>4, <1>5, <1>6, <1>7 DEF Inv, RuntimeInv

\* waitForSlot() by a caller that is in no queue keeps the invariant.
LEMMA WaitStep ==
  ASSUME Inv, NEW c \in Callers, Wait(c), ~SlotIsFree, MayWaitAgain(c),
         pc[c] \notin {"waiting"} \cup Running,
         ready' \in Seq(Callers), Queues(slotWaiters', ready', pc')
  PROVE  Inv'
<1>1. TypeOK'
  <2>1. slotWaiters' \in Seq(Callers)
    BY RangeAppend DEF Inv, TypeOK, Wait
  <2>2. waits' \in [Callers -> 0 .. MaxWaits]
    BY DEF Inv, TypeOK, Wait, MayWaitAgain
  <2> QED BY <2>1, <2>2 DEF Inv, TypeOK, Wait, GoTo
<1>2. \A d \in Callers : pc'[d] = IF d = c THEN "waiting" ELSE pc[d]
  BY DEF Inv, TypeOK, Wait, GoTo
<1>3. \A d \in Callers : Live(d)' <=> Live(d)
  BY <1>2 DEF Live, Running
<1>4. SlotOwner'
  BY <1>3 DEF Inv, RuntimeInv, SlotOwner, Wait
<1>5. NoLeakedSlot'
  BY <1>3 DEF Inv, RuntimeInv, NoLeakedSlot, TypeOK, Wait
<1>6. NoStrandedWaiter'
  BY DEF NoStrandedWaiter, Queues, Wait, SlotIsFree
<1>7. QuiescentIsIdle'
  BY <1>3 DEF Inv, RuntimeInv, QuiescentIsIdle, Wait
<1>8. CountInv'
  BY <1>2 DEF CountInv, Inv, RuntimeInv, TypeOK, Wait
<1> QED BY <1>1, <1>4, <1>5, <1>6, <1>7, <1>8 DEF Inv, RuntimeInv

\* A step of a run that leaves the slot alone keeps the invariant.
LEMMA TurnStep ==
  ASSUME Inv, NEW c \in Callers, Turn(c)
  PROVE  Inv'
<1>1. /\ pc[c] \in Running /\ UNCHANGED <<slotVars, aborted, child>>
      /\ status' \in {"idle", "busy", "retry"}
      /\ \E place \in Running : GoTo(c, place)
  BY DEF Turn, LoopHead, StreamStart, StreamBusy, StreamRetry, StreamError, Continue, Ask,
         Exit, Running, Inv, TypeOK
<1>2. PICK place \in Running : GoTo(c, place)
  BY <1>1
<1>3. UNCHANGED slotVars
  BY <1>1
<1>4. TypeOK'
  BY <1>1, <1>2, <1>3 DEF Inv, TypeOK, GoTo, slotVars
<1>5. \A d \in Callers : pc'[d] = IF d = c THEN place ELSE pc[d]
  BY <1>2 DEF Inv, TypeOK, GoTo
<1>6. \A d \in Callers : Live(d)' <=> Live(d)
  BY <1>1, <1>5 DEF Live
<1>7. SlotOwner' /\ NoLeakedSlot'
  BY <1>1, <1>3, <1>6 DEF Inv, RuntimeInv, SlotOwner, NoLeakedSlot, TypeOK, slotVars
<1>8. NoStrandedWaiter'
  BY <1>1, <1>2, <1>3, QueuesKept
     DEF Inv, RuntimeInv, NoStrandedWaiter, Queues, slotVars, Running
<1>9. QuiescentIsIdle'
  BY <1>1, <1>6 DEF QuiescentIsIdle, Live
<1>10. CountInv'
  BY <1>1, <1>3, <1>5 DEF CountInv, Inv, RuntimeInv, slotVars, Running
<1> QED BY <1>4, <1>7, <1>8, <1>9, <1>10 DEF Inv, RuntimeInv

\* runLoop's entry: a start, or a place in the queue.
LEMMA EnterStep ==
  ASSUME Inv, NEW c \in Callers, Enter(c)
  PROVE  Inv'
<1>1. pc[c] = "arriving" /\ ready' = ready /\ ready \in Seq(Callers)
  BY DEF Enter, Inv, TypeOK
<1>2. Queues(slotWaiters, ready, pc)
  BY DEF Inv, RuntimeInv, NoStrandedWaiter, Queues
<1>3. CASE Install(c, "head")
  <2>1. Queues(slotWaiters, ready, pc')
    BY <1>1, <1>2, <1>3, QueuesKept DEF Install, InstallWith, Inv
  <2> QED BY <1>1, <1>3, <2>1, InstallStep DEF Running
<1>4. CASE ~SlotIsFree /\ Wait(c)
  <2>1. c \notin Range(slotWaiters)
    BY <1>1, <1>2 DEF Queues
  <2>2. Range(slotWaiters') = Range(slotWaiters) \cup {c} /\ IsInjective(slotWaiters')
    BY <1>2, <1>4, <2>1, RangeAppend DEF Queues, Wait, Inv, TypeOK
  <2>3. Queues(slotWaiters', ready, pc')
    BY <1>1, <1>2, <1>4, <2>2 DEF Queues, Wait, GoTo, Inv, TypeOK
  <2>4. MayWaitAgain(c)
    BY <1>1 DEF MayWaitAgain, Inv, RuntimeInv, CountInv
  <2> QED BY <1>1, <1>4, <2>3, <2>4, WaitStep DEF Running
<1> QED BY <1>3, <1>4 DEF Enter

\* A woken caller starts, waits again, or forces its way.
LEMMA RetryStep ==
  ASSUME Inv, NEW c \in Callers, Retry(c)
  PROVE  Inv'
<1> DEFINE rest == Tail(ready)
<1>1. ready # <<>> /\ c = Head(ready) /\ ready' = rest /\ ready \in Seq(Callers)
  BY DEF Retry, Inv, TypeOK
<1>2. Queues(slotWaiters, ready, pc)
  BY DEF Inv, RuntimeInv, NoStrandedWaiter, Queues
<1>3. /\ rest \in Seq(Callers) /\ IsInjective(rest)
      /\ Range(rest) = Range(ready) \ {c}
      /\ c \in Range(ready)
  BY <1>1, <1>2, RangeTail, RangeEmpty DEF Queues
<1> HIDE DEF rest
<1>4. pc[c] = "ready"
  BY <1>2, <1>3 DEF Queues
<1>5. CASE Install(c, "head")
  <2>1. \A d \in Callers : pc'[d] = IF d = c THEN "head" ELSE pc[d]
    BY <1>5 DEF Install, InstallWith, GoTo, Inv, TypeOK
  <2>2. Queues(slotWaiters, rest, pc')
    BY <1>2, <1>3, <1>4, <2>1 DEF Queues
  <2> QED BY <1>1, <1>3, <1>4, <1>5, <2>2, InstallStep DEF Running
<1>6. CASE ~SlotIsFree /\ MayWaitAgain(c) /\ Wait(c)
  <2>1. c \notin Range(slotWaiters)
    BY <1>2, <1>4 DEF Queues
  <2>2. Range(slotWaiters') = Range(slotWaiters) \cup {c} /\ IsInjective(slotWaiters')
    BY <1>2, <1>6, <2>1, RangeAppend DEF Queues, Wait, Inv, TypeOK
  <2>3. \A d \in Callers : pc'[d] = IF d = c THEN "waiting" ELSE pc[d]
    BY <1>6 DEF Wait, GoTo, Inv, TypeOK
  <2>4. Queues(slotWaiters', rest, pc')
    BY <1>2, <1>3, <1>4, <2>2, <2>3 DEF Queues
  <2> QED BY <1>1, <1>3, <1>4, <1>6, <2>4, WaitStep DEF Running
<1> QED BY <1>5, <1>6 DEF Retry

\* finish() by a run that owns the slot, has lost it, or finds nobody in it.
LEMMA FinishStep ==
  ASSUME Inv, NEW c \in Callers, Finish(c)
  PROVE  Inv'
<1> USE DEF Inv, RuntimeInv
<1>1. pc[c] = "exit" /\ aborted' = aborted \ {c} /\ child' = child
  BY DEF Finish
<1>2. Queues(slotWaiters, ready, pc)
  BY DEF NoStrandedWaiter, Queues
<1>3. ASSUME entry # c, GoTo(c, "idle"), UNCHANGED slotVars,
             status' \in {"idle", "busy", "retry"},
             entry = NoRun => status' = "idle"
      PROVE  Inv'
  <2>1. UNCHANGED <<entry, slotWaiters, target, waits, ready>>
    BY <1>3 DEF slotVars
  <2>2. \A d \in Callers : pc'[d] = IF d = c THEN "idle" ELSE pc[d]
    BY <1>3 DEF GoTo, TypeOK
  <2>3. TypeOK'
    BY <1>1, <1>3, <2>1 DEF TypeOK, GoTo
  <2>4. \A d \in Callers : Live(d)' <=> Live(d) /\ d # c
    BY <1>1, <2>2 DEF Live, Running
  <2>5. SlotOwner' /\ NoLeakedSlot'
    BY <1>1, <1>3, <2>1, <2>4 DEF SlotOwner, NoLeakedSlot, TypeOK
  <2>6. NoStrandedWaiter'
    BY <1>1, <1>2, <1>3, <2>1, QueuesKept DEF NoStrandedWaiter, Queues
  <2>7. QuiescentIsIdle'
    BY <1>1, <1>3, <2>1, <2>4 DEF QuiescentIsIdle, NoLeakedSlot, TypeOK
  <2>8. CountInv'
    BY <1>1, <2>1, <2>2 DEF CountInv
  <2> QED BY <2>3, <2>5, <2>6, <2>7, <2>8
<1>4. CASE FinishUnregistered(c)
  BY <1>3, <1>4 DEF FinishUnregistered
<1>5. CASE FinishSuperseded(c)
  BY <1>3, <1>5 DEF FinishSuperseded, TypeOK
<1>6. CASE FinishOwner(c)
  <2>1. /\ entry = c /\ entry' = NoRun /\ slotWaiters' = <<>>
        /\ ready' = ready \o slotWaiters
        /\ status' = IF child THEN status ELSE "idle"
        /\ UNCHANGED <<target, waits>>
    BY <1>6 DEF FinishOwner
  <2>2. \A d \in Callers : pc'[d] = IF d = c THEN "idle"
                                    ELSE IF pc[d] = "waiting" THEN "ready" ELSE pc[d]
    BY <1>2, <1>6 DEF FinishOwner, Queues
  <2>3. Range(ready) \cap Range(slotWaiters) = {}
    BY <1>2 DEF Queues
  <2>4. /\ ready' \in Seq(Callers) /\ IsInjective(ready')
        /\ Range(ready') = Range(ready) \cup Range(slotWaiters)
    BY <1>2, <2>1, <2>3, RangeConcat DEF Queues, TypeOK
  <2>5. Range(<<>>) = {} /\ IsInjective(<<>>) /\ <<>> \in Seq(Callers)
    BY EmptyQueue
  <2>6. TypeOK'
    <3>1. pc' \in [Callers -> {"idle", "arriving", "waiting", "ready"} \cup Running]
      BY <1>6 DEF FinishOwner, TypeOK
    <3> QED BY <1>1, <2>1, <2>4, <2>5, <3>1 DEF TypeOK
  <2>7. \A d \in Callers : Live(d)' <=> Live(d) /\ d # c
    BY <1>1, <2>2 DEF Live, Running
  <2>8. SlotOwner' /\ NoLeakedSlot'
    BY <1>1, <2>1, <2>7 DEF SlotOwner, NoLeakedSlot, TypeOK
  <2>9. NoStrandedWaiter'
    <3>1. {d \in Callers : pc'[d] = "waiting"} = {}
      BY <1>1, <2>2
    <3>2. {d \in Callers : pc'[d] = "ready"} = Range(ready')
      BY <1>1, <1>2, <2>2, <2>4 DEF Queues
    <3> QED BY <2>1, <2>4, <2>5, <3>1, <3>2 DEF NoStrandedWaiter
  <2>10. QuiescentIsIdle'
    BY <1>1, <2>1 DEF QuiescentIsIdle
  <2>11. CountInv'
    BY <1>1, <2>1, <2>2 DEF CountInv
  <2> QED BY <2>6, <2>8, <2>9, <2>10, <2>11
<1> QED BY <1>4, <1>5, <1>6 DEF Finish

\* cancel() and the subagent's events.
LEMMA EnvironmentStep ==
  ASSUME Inv, Cancel \/ ChildSet \/ ChildClear
  PROVE  Inv'
<1> USE DEF Inv, RuntimeInv
<1>1. /\ UNCHANGED <<entry, slotWaiters, target, waits, ready, pc>>
      /\ aborted' \subseteq Callers /\ aborted \subseteq aborted'
      /\ status' \in {"idle", "busy", "retry"} /\ child' \in BOOLEAN
      /\ child' \/ status' = "idle" \/ entry # NoRun \/ (status' = status /\ child' = child)
  BY DEF Cancel, ChildSet, ChildClear, slotVars, TypeOK, SlotIsFree
<1>2. TypeOK'
  BY <1>1 DEF TypeOK
<1>3. \A d \in Callers : Live(d)' <=> Live(d)
  BY <1>1 DEF Live
<1>4. SlotOwner' /\ NoLeakedSlot'
  BY <1>1, <1>3 DEF SlotOwner, NoLeakedSlot, TypeOK
<1>5. NoStrandedWaiter' /\ CountInv'
  BY <1>1 DEF NoStrandedWaiter, CountInv
<1>6. QuiescentIsIdle'
  BY <1>1, <1>3 DEF QuiescentIsIdle, NoLeakedSlot, TypeOK
<1> QED BY <1>2, <1>4, <1>5, <1>6

\* The user answers: a run that waited goes on.
LEMMA ReplyStep ==
  ASSUME Inv, NEW cs \in SUBSET Asking, Reply(cs)
  PROVE  Inv'
<1> USE DEF Inv, RuntimeInv
<1>1. /\ UNCHANGED <<entry, slotWaiters, aborted, status, child, target, waits, ready>>
      /\ pc' = [d \in Callers |-> IF d \in cs THEN "body" ELSE pc[d]]
  BY DEF Reply, slotVars
<1>2. \A d \in Callers : d \in cs => pc[d] = "asking"
  BY DEF Asking
<1>3. TypeOK'
  BY <1>1 DEF TypeOK, Running
<1>4. \A d \in Callers : Live(d)' <=> Live(d)
  BY <1>1, <1>2 DEF Live, Running
<1>5. SlotOwner' /\ NoLeakedSlot' /\ QuiescentIsIdle'
  BY <1>1, <1>4 DEF SlotOwner, NoLeakedSlot, QuiescentIsIdle, TypeOK
<1>6. \A d \in Callers, p \in {"waiting", "ready"} : pc'[d] = p <=> pc[d] = p
  BY <1>1, <1>2
<1>7. NoStrandedWaiter'
  <2>1. {d \in Callers : pc'[d] = "waiting"} = {d \in Callers : pc[d] = "waiting"}
    BY <1>6
  <2>2. {d \in Callers : pc'[d] = "ready"} = {d \in Callers : pc[d] = "ready"}
    BY <1>6
  <2> QED BY <1>1, <2>1, <2>2 DEF NoStrandedWaiter
<1>8. CountInv'
  BY <1>1, <1>6 DEF CountInv
<1> QED BY <1>3, <1>5, <1>7, <1>8

\* A prompt decides, seeing a run or none.
LEMMA ArriveStep ==
  ASSUME Inv, NEW c \in Callers, Arrive(c)
  PROVE  Inv'
<1> USE DEF Inv, RuntimeInv
<1>1. /\ UNCHANGED <<entry, slotWaiters, aborted, status, child, waits, ready>>
      /\ pc[c] = "idle" /\ GoTo(c, "arriving")
  BY DEF Arrive
<1>2. TypeOK'
  BY <1>1 DEF TypeOK, Arrive, GoTo
<1>3. \A d \in Callers : pc'[d] = IF d = c THEN "arriving" ELSE pc[d]
  BY <1>1 DEF GoTo, TypeOK
<1>4. \A d \in Callers : Live(d)' <=> Live(d)
  BY <1>1, <1>3 DEF Live, Running
<1>5. SlotOwner' /\ NoLeakedSlot' /\ QuiescentIsIdle'
  BY <1>1, <1>4 DEF SlotOwner, NoLeakedSlot, QuiescentIsIdle, TypeOK
<1>6. NoStrandedWaiter'
  BY <1>1, QueuesKept DEF NoStrandedWaiter, Queues
<1>7. CountInv'
  BY <1>1, <1>3 DEF CountInv
<1> QED BY <1>2, <1>5, <1>6, <1>7

\* Every step of the session's slot keeps TypeOK and RuntimeInv, from which the
\* safety properties of the runs follow for any number of callers.
THEOREM RuntimeCorrect == Spec => [](TypeOK /\ RuntimeInv)
<1>1. Init => Inv
  <2> SUFFICES ASSUME Init PROVE Inv
    OBVIOUS
  <2>1. TypeOK
    <3>1. 0 \in 0 .. MaxWaits
      OBVIOUS
    <3>2. /\ pc = [c \in Callers |-> "idle"]
          /\ target = [c \in Callers |-> NoRun] /\ waits = [c \in Callers |-> 0]
          /\ slotWaiters \in Seq(Callers) /\ ready \in Seq(Callers)
      BY EmptyQueue DEF Init
    <3>3. /\ entry = NoRun /\ aborted = {} /\ status = "idle" /\ child = FALSE
      BY DEF Init
    <3> QED BY <3>1, <3>2, <3>3 DEF TypeOK
  <2>2. \A c \in Callers : pc[c] = "idle"
    BY DEF Init
  <2>3. SlotOwner /\ NoLeakedSlot /\ QuiescentIsIdle /\ CountInv
    BY <2>2 DEF Init, SlotOwner, NoLeakedSlot, QuiescentIsIdle, CountInv, Live, Running
  <2>4. NoStrandedWaiter
    BY <2>2, EmptyQueue DEF Init, NoStrandedWaiter
  <2> QED BY <2>1, <2>3, <2>4 DEF Inv, RuntimeInv
<1>2. Inv /\ [Next]_vars => Inv'
  <2> SUFFICES ASSUME Inv, [Next]_vars PROVE Inv'
    OBVIOUS
  <2>1. ASSUME NEW c \in Callers, ShellStart(c) PROVE Inv'
    <3>1. pc[c] = "idle" /\ Install(c, "shell") /\ ready' = ready /\ ready \in Seq(Callers)
      BY <2>1 DEF ShellStart, Inv, TypeOK
    <3>2. Queues(slotWaiters, ready, pc')
      BY <3>1, QueuesKept
         DEF Install, InstallWith, Inv, RuntimeInv, NoStrandedWaiter, Queues
    <3> QED BY <3>1, <3>2, InstallStep DEF Running
  <2>2. CASE UNCHANGED vars
    BY <2>2 DEF vars, Inv, TypeOK, RuntimeInv, SlotOwner, NoLeakedSlot, Live,
                NoStrandedWaiter, QuiescentIsIdle, CountInv
  <2> QED BY <2>1, <2>2, ArriveStep, EnterStep, RetryStep, TurnStep, FinishStep, EnvironmentStep,
          ReplyStep DEF Next
<1> QED BY <1>1, <1>2, PTL DEF Spec, Inv

\* A run that nobody told to stop owns the slot: no two such runs.
THEOREM OneRunAtATime == Spec => []SlotOwner
<1>1. RuntimeInv => SlotOwner
  BY DEF RuntimeInv
<1> QED BY <1>1, RuntimeCorrect, PTL

\* Whoever waits for the slot is queued at a run that is still to finish.
THEOREM NobodyIsStranded == Spec => []NoStrandedWaiter
<1>1. RuntimeInv => NoStrandedWaiter
  BY DEF RuntimeInv
<1> QED BY <1>1, RuntimeCorrect, PTL

\* Every variable of the session keeps its type: no woken prompt, no waiter and
\* no interrupted run is one that the code does not know.
THEOREM RuntimeTyped == Spec => []TypeOK
<1> QED BY RuntimeCorrect, PTL

\* The registered entry is of a run that goes on, so the slot comes free.
THEOREM NoEntryLeaks == Spec => []NoLeakedSlot
<1>1. RuntimeInv => NoLeakedSlot
  BY DEF RuntimeInv
<1> QED BY <1>1, RuntimeCorrect, PTL

\* With no run and no subagent the session is shown as idle.
THEOREM StatusNeverSticks == Spec => []QuiescentIsIdle
<1>1. RuntimeInv => QuiescentIsIdle
  BY DEF RuntimeInv
<1> QED BY <1>1, RuntimeCorrect, PTL

-----------------------------------------------------------------------------
(* The runs are those of the abstract session                              *)

\* The session's writer and its prompts without a run.
Writer == IF entry \in aborted THEN NoRun ELSE entry
Prompts == {c \in Callers : pc[c] \in {"arriving", "waiting", "ready"}}

\* A signal is aborted only while its run goes on: nothing is left of it.
AbortedAreLive == \A c \in aborted : Live(c)

AbsInv == Inv /\ AbortedAreLive

\* A caller without a run is neither the owner nor aborted.
LEMMA NotLive ==
  ASSUME AbsInv, NEW c \in Callers, ~Live(c)
  PROVE  c \notin aborted /\ c # entry /\ c # Writer /\ c # NoRun /\ NoRun \notin aborted
BY DEF AbsInv, Inv, TypeOK, RuntimeInv, NoLeakedSlot, AbortedAreLive, Writer

\* start() takes the session over: whoever wrote has been told to stop.
LEMMA InstallTakesOver ==
  ASSUME AbsInv, NEW c \in Callers, NEW place \in Running, ~Live(c), Install(c, place)
  PROVE  /\ AbortedAreLive'
         /\ Writer' = c
         /\ aborted' = aborted \cup ({Writer} \ {NoRun})
         /\ Prompts' = Prompts \ {c}
<1>1. /\ entry' = c /\ aborted' = aborted \cup ({entry} \ {NoRun})
      /\ \A d \in Callers : pc'[d] = IF d = c THEN place ELSE pc[d]
  BY DEF Install, InstallWith, GoTo, AbsInv, Inv, TypeOK
<1>2. AbortedAreLive'
  <2> SUFFICES ASSUME NEW d \in aborted' PROVE pc'[d] \in Running
    BY DEF AbortedAreLive, Live
  <2>1. d \in Callers /\ Live(d)
    BY <1>1 DEF AbsInv, Inv, TypeOK, RuntimeInv, NoLeakedSlot, AbortedAreLive
  <2> QED BY <1>1, <2>1 DEF Live
<1>3. Writer' = c
  BY <1>1, NotLive DEF Writer
<1>4. aborted' = aborted \cup ({Writer} \ {NoRun})
  BY <1>1, NotLive DEF Writer
<1>5. Prompts' = Prompts \ {c}
  BY <1>1 DEF Prompts, Running
<1> QED BY <1>2, <1>3, <1>4, <1>5

\* A prompt that waits is still a prompt without a run.
LEMMA WaitIsInvisible ==
  ASSUME AbsInv, NEW c \in Callers, c \in Prompts, Wait(c)
  PROVE  AbortedAreLive' /\ UNCHANGED <<Writer, aborted, Prompts>>
<1>1. /\ UNCHANGED <<entry, aborted>>
      /\ \A d \in Callers : pc'[d] = IF d = c THEN "waiting" ELSE pc[d]
  BY DEF Wait, GoTo, AbsInv, Inv, TypeOK
<1>2. ~Live(c)
  BY DEF Prompts, Live, Running
<1>3. AbortedAreLive'
  BY <1>1, <1>2, NotLive DEF AbortedAreLive, AbsInv, Inv, TypeOK, Live
<1>4. Prompts' = Prompts
  BY <1>1 DEF Prompts
<1> QED BY <1>1, <1>3, <1>4 DEF Writer

\* A run that ends was the writer, or had been told to stop.
LEMMA FinishIsEnd ==
  ASSUME AbsInv, NEW c \in Callers, Finish(c)
  PROVE  AbortedAreLive' /\ Session!End(c)
<1>1. /\ pc[c] = "exit" /\ Live(c) /\ aborted' = aborted \ {c} /\ aborted \subseteq Callers
      /\ c \in aborted \/ entry = c
  BY DEF Finish, Live, Running, AbsInv, Inv, RuntimeInv, SlotOwner, TypeOK
<1>2. /\ \A d \in Callers \ {c} : \/ pc'[d] = pc[d]
                                  \/ pc[d] = "waiting" /\ pc'[d] = "ready"
      /\ pc'[c] = "idle"
  <2>1. CASE GoTo(c, "idle")
    BY <2>1 DEF GoTo, AbsInv, Inv, TypeOK
  <2>2. CASE FinishOwner(c)
    BY <2>2 DEF FinishOwner, AbsInv, Inv, TypeOK, RuntimeInv, NoStrandedWaiter
  <2> QED BY <2>1, <2>2 DEF Finish, FinishUnregistered, FinishSuperseded
<1>3. AbortedAreLive'
  <2> SUFFICES ASSUME NEW d \in aborted' PROVE pc'[d] \in Running
    BY DEF AbortedAreLive, Live
  <2>1. d \in Callers \ {c} /\ pc[d] \in Running
    BY <1>1 DEF AbsInv, AbortedAreLive, Live
  <2> QED BY <1>2, <2>1 DEF Running
<1>4. Prompts' = Prompts
  BY <1>1, <1>2 DEF Prompts
<1>5. CASE entry # c
  <2>1. c \in aborted /\ entry' = entry
    BY <1>1, <1>5 DEF Finish, FinishUnregistered, FinishSuperseded, FinishOwner, slotVars
  <2>2. Writer' = Writer
    BY <1>1, <1>5, <2>1 DEF Writer
  <2> QED BY <1>1, <1>3, <1>4, <2>1, <2>2 DEF Session!End, Writer, Prompts
<1>6. CASE entry = c
  <2>1. entry' = NoRun /\ NoRun \notin aborted'
    BY <1>1, <1>6 DEF Finish, FinishUnregistered, FinishSuperseded, FinishOwner
  <2>2. Writer' = NoRun
    BY <2>1 DEF Writer
  <2>3. CASE c \in aborted
    <3>1. Writer = NoRun
      BY <1>6, <2>3 DEF Writer
    <3> QED BY <1>1, <1>3, <1>4, <2>2, <2>3, <3>1 DEF Session!End, Writer, Prompts
  <2>4. CASE c \notin aborted
    <3>1. Writer = c /\ aborted' = aborted
      BY <1>1, <1>6, <2>4 DEF Writer
    <3> QED BY <1>3, <1>4, <2>2, <3>1 DEF Session!End, Writer, Prompts
  <2> QED BY <2>3, <2>4
<1> QED BY <1>5, <1>6

\* What a run does before it ends is not visible.
LEMMA TurnIsInvisible ==
  ASSUME AbsInv, NEW c \in Callers, Turn(c)
  PROVE  AbortedAreLive' /\ UNCHANGED <<Writer, aborted, Prompts>>
<1>1. /\ pc[c] \in Running /\ UNCHANGED <<entry, aborted>>
      /\ \E place \in Running : GoTo(c, place)
  BY DEF Turn, LoopHead, StreamStart, StreamBusy, StreamRetry, StreamError, Continue, Ask,
         Exit, Running, slotVars
<1>2. PICK place \in Running : GoTo(c, place)
  BY <1>1
<1>3. \A d \in Callers : pc'[d] = IF d = c THEN place ELSE pc[d]
  BY <1>2 DEF GoTo, AbsInv, Inv, TypeOK
<1>4. AbortedAreLive'
  BY <1>1, <1>3 DEF AbortedAreLive, AbsInv, Inv, TypeOK, Live
<1>5. Prompts' = Prompts
  BY <1>1, <1>3 DEF Prompts, Running
<1> QED BY <1>1, <1>4, <1>5 DEF Writer

\* Answers and the subagent's events are not visible either.
LEMMA EnvironmentIsInvisible ==
  ASSUME AbsInv, ChildSet \/ ChildClear \/ \E cs \in SUBSET Asking : Reply(cs)
  PROVE  AbortedAreLive' /\ UNCHANGED <<Writer, aborted, Prompts>>
<1>1. /\ UNCHANGED <<entry, aborted>>
      /\ \A d \in Callers : \/ pc'[d] = pc[d]
                            \/ pc[d] = "asking" /\ pc'[d] = "body"
  BY DEF ChildSet, ChildClear, Reply, Asking, slotVars
<1>2. AbortedAreLive'
  BY <1>1 DEF AbortedAreLive, AbsInv, Inv, TypeOK, Live, Running
<1>3. Prompts' = Prompts
  BY <1>1 DEF Prompts
<1> QED BY <1>1, <1>2, <1>3 DEF Writer

\* cancel() stops the writer, if there is one that it has not stopped before.
LEMMA CancelIsStop ==
  ASSUME AbsInv, Cancel
  PROVE  AbortedAreLive' /\ (Session!Stop \/ UNCHANGED <<Writer, aborted, Prompts>>)
<1>1. UNCHANGED <<entry, pc>>
  BY DEF Cancel, slotVars
<1>2. Prompts' = Prompts
  BY <1>1 DEF Prompts
<1>3. CASE aborted' = aborted
  BY <1>1, <1>2, <1>3 DEF AbsInv, AbortedAreLive, Live, Writer
<1>4. CASE aborted' # aborted
  <2>1. entry # NoRun /\ entry \notin aborted /\ aborted' = aborted \cup {entry}
    BY <1>4 DEF Cancel, SlotIsFree
  <2>2. AbortedAreLive'
    BY <1>1, <2>1
       DEF AbsInv, Inv, RuntimeInv, NoLeakedSlot, AbortedAreLive, Live
  <2>3. Writer = entry /\ Writer' = NoRun
    BY <1>1, <2>1 DEF Writer
  <2> QED BY <1>2, <2>1, <2>2, <2>3 DEF Session!Stop, Writer, Prompts
<1> QED BY <1>3, <1>4

\* To its session a run slot is one writer at a time, whom a newer one or a
\* cancel tells to stop for good, and whose late end takes nothing from anybody.
THEOREM RuntimeImplementsSession == Spec => ImplementsSession
<1>1. Init => AbortedAreLive /\ Session!Init
  BY DEF Init, AbortedAreLive, Session!Init
<1>2. AbsInv /\ [Next]_vars => AbortedAreLive' /\ [Session!Next]_<<Writer, aborted, Prompts>>
  <2> SUFFICES ASSUME AbsInv, [Next]_vars
               PROVE  AbortedAreLive' /\ (Session!Next \/ UNCHANGED <<Writer, aborted, Prompts>>)
    OBVIOUS
  <2>1. ASSUME NEW c \in Callers, Arrive(c) PROVE AbortedAreLive' /\ Session!Next
    <3>1. /\ UNCHANGED <<entry, aborted>> /\ ~Live(c) /\ pc[c] = "idle"
          /\ \A d \in Callers : pc'[d] = IF d = c THEN "arriving" ELSE pc[d]
      BY <2>1 DEF Arrive, GoTo, AbsInv, Inv, TypeOK, Live, Running
    <3>2. Prompts' = Prompts \cup {c} /\ c \notin Prompts
      BY <3>1 DEF Prompts
    <3>3. AbortedAreLive'
      BY <3>1, NotLive DEF AbortedAreLive, AbsInv, Inv, TypeOK, Live
    <3>4. Session!Ask(c)
      BY <3>1, <3>2, NotLive DEF Session!Ask, Session!IsIdle, Writer, Prompts
    <3> QED BY <3>3, <3>4 DEF Session!Next
  <2>2. ASSUME NEW c \in Callers, c \in Prompts, Install(c, "head")
        PROVE  AbortedAreLive' /\ Session!Next
    <3>1. ~Live(c) /\ "head" \in Running
      BY <2>2 DEF Prompts, Live, Running
    <3>2. Session!Begin(c)
      BY <2>2, <3>1, InstallTakesOver DEF Session!Begin, Writer, Prompts
    <3> QED BY <2>2, <3>1, <3>2, InstallTakesOver DEF Session!Next
  <2>3. ASSUME NEW c \in Callers, Enter(c) \/ Retry(c)
        PROVE  AbortedAreLive' /\ (Session!Next \/ UNCHANGED <<Writer, aborted, Prompts>>)
    <3>1. c \in Prompts
      <4>1. CASE Enter(c)
        BY <4>1 DEF Enter, Prompts
      <4>2. CASE Retry(c)
        <5>1. c \in Range(ready)
          BY <4>2, RangeEmpty DEF Retry, AbsInv, Inv, TypeOK
        <5> QED BY <5>1 DEF Prompts, AbsInv, Inv, RuntimeInv, NoStrandedWaiter
      <4> QED BY <2>3, <4>1, <4>2
    <3>2. Install(c, "head") \/ Wait(c)
      BY <2>3 DEF Enter, Retry
    <3> QED BY <2>2, <3>1, <3>2, WaitIsInvisible
  <2>4. ASSUME NEW c \in Callers, ShellStart(c) PROVE AbortedAreLive' /\ Session!Next
    <3>1. Install(c, "shell") /\ ~Live(c) /\ "shell" \in Running /\ entry = NoRun /\ pc[c] = "idle"
      BY <2>4 DEF ShellStart, SlotIsFree, Live, Running
    <3>2. Writer = NoRun /\ c \notin Prompts
      BY <3>1 DEF Writer, Prompts
    <3>3. Prompts' = Prompts /\ aborted' = aborted /\ Writer' = c
      BY <3>1, <3>2, InstallTakesOver
    <3>4. Session!BeginShell(c)
      BY <3>1, <3>2, <3>3, NotLive DEF Session!BeginShell, Session!IsIdle, Writer, Prompts
    <3> QED BY <3>1, <3>4, InstallTakesOver DEF Session!Next
  <2>5. ASSUME NEW c \in Callers, Finish(c) PROVE AbortedAreLive' /\ Session!Next
    BY <2>5, FinishIsEnd DEF Session!Next
  <2>6. CASE Cancel
    BY <2>6, CancelIsStop DEF Session!Next
  <2>7. CASE UNCHANGED vars
    BY <2>7 DEF vars, AbsInv, AbortedAreLive, Live, Writer, Prompts
  <2> QED BY <2>1, <2>3, <2>4, <2>5, <2>6, <2>7, TurnIsInvisible, EnvironmentIsInvisible DEF Next
<1>3. Spec => []Inv
  BY RuntimeCorrect, PTL DEF Inv
<1>4. [Session!Next]_<<Writer, aborted, Prompts>> => [Session!Next]_Session!sessionVars
  BY DEF Session!sessionVars, Writer, Prompts
<1> QED BY <1>1, <1>2, <1>3, <1>4, PTL DEF Spec, AbsInv, ImplementsSession, Session!Spec

-----------------------------------------------------------------------------
(* The session with its disposals                                          *)

\* Whoever is in a queue waits there, once; not everybody who waits is in one.
QueuedWait(w, r, p) ==
  /\ \A c \in Range(w) : p[c] = "waiting"
  /\ IsInjective(w)
  /\ \A c \in Range(r) : p[c] = "ready"
  /\ IsInjective(r)

\* The registered entry is of a run that goes on and that nobody has forgotten.
OwnerIsKnown == entry # NoRun => Live(entry) /\ entry \notin forgotten

\* A forgotten run waits for the answer to its dropped request.
ForgottenAsk == forgotten \subseteq Callers /\ \A c \in forgotten : pc[c] = "asking"

\* A status that nobody will set back is that of a run that still can.
StatusIsDriven ==
  entry = NoRun /\ ~child /\ status # "idle" => \E c \in Callers \ forgotten : Live(c)

DisposeInv ==
  /\ TypeOK /\ CountInv
  /\ QueuedWait(slotWaiters, ready, pc)
  /\ OwnerIsKnown /\ ForgottenAsk /\ StatusIsDriven

LEMMA QueueTyped == ASSUME NEW s \in Seq(Callers) PROVE Range(s) \subseteq Callers
<1>1. s \in [1 .. Len(s) -> Callers] /\ DOMAIN s = 1 .. Len(s)
  BY LenProperties
<1> QED BY <1>1 DEF Range

\* A caller that is in no queue moves, not into one.
LEMMA QueuedWaitKept ==
  ASSUME TypeOK, QueuedWait(slotWaiters, ready, pc), NEW c \in Callers,
         NEW place, GoTo(c, place), pc[c] \notin {"waiting", "ready"}
  PROVE  QueuedWait(slotWaiters, ready, pc')
<1>1. c \notin Range(slotWaiters) \cup Range(ready)
  BY DEF QueuedWait
<1>2. \A d \in Callers : d # c => pc'[d] = pc[d]
  BY DEF GoTo, TypeOK
<1>3. Range(slotWaiters) \subseteq Callers /\ Range(ready) \subseteq Callers
  BY QueueTyped DEF TypeOK
<1> QED BY <1>1, <1>2, <1>3 DEF QueuedWait

\* A caller that is not live starts a run.
LEMMA DisposeInstallStep ==
  ASSUME DisposeInv, NEW c \in Callers, NEW place \in {"head", "shell"},
         Install(c, place), pc[c] \in {"idle", "arriving", "ready"},
         ready' \in Seq(Callers), QueuedWait(slotWaiters, ready', pc'), forgotten' = forgotten
  PROVE  DisposeInv'
<1> USE DEF DisposeInv
<1>1. TypeOK'
  BY DEF TypeOK, Install, InstallWith, GoTo, Running
<1>2. \A d \in Callers : pc'[d] = IF d = c THEN place ELSE pc[d]
  BY DEF TypeOK, Install, InstallWith, GoTo
<1>3. entry' = c /\ slotWaiters' = slotWaiters /\ waits' = [waits EXCEPT ![c] = 0]
  BY DEF Install, InstallWith
<1>4. c \notin forgotten
  BY DEF ForgottenAsk
<1>5. CountInv'
  BY <1>2, <1>3 DEF CountInv, TypeOK
<1>6. OwnerIsKnown' /\ StatusIsDriven'
  BY <1>2, <1>3, <1>4 DEF OwnerIsKnown, StatusIsDriven, Live, Running
<1>7. ForgottenAsk'
  BY <1>2, <1>4 DEF ForgottenAsk
<1> QED BY <1>1, <1>3, <1>5, <1>6, <1>7

\* A caller that is not live waits for the registered run.
LEMMA DisposeWaitStep ==
  ASSUME DisposeInv, NEW c \in Callers, Wait(c), ~SlotIsFree, MayWaitAgain(c),
         pc[c] \in {"arriving", "ready"},
         ready' \in Seq(Callers), QueuedWait(slotWaiters', ready', pc'), forgotten' = forgotten
  PROVE  DisposeInv'
<1> USE DEF DisposeInv
<1>1. TypeOK'
  <2>1. slotWaiters' \in Seq(Callers)
    BY RangeAppend DEF TypeOK, Wait
  <2>2. waits' \in [Callers -> 0 .. MaxWaits]
    BY DEF TypeOK, Wait, MayWaitAgain
  <2> QED BY <2>1, <2>2 DEF TypeOK, Wait, GoTo
<1>2. \A d \in Callers : pc'[d] = IF d = c THEN "waiting" ELSE pc[d]
  BY DEF TypeOK, Wait, GoTo
<1>3. UNCHANGED <<entry, child, status>> /\ entry # NoRun
  BY DEF Wait, SlotIsFree
<1>4. CountInv'
  BY <1>2 DEF CountInv, TypeOK, Wait
<1>5. OwnerIsKnown' /\ StatusIsDriven'
  BY <1>2, <1>3 DEF OwnerIsKnown, StatusIsDriven, Live, Running, TypeOK
<1>6. ForgottenAsk'
  BY <1>2 DEF ForgottenAsk
<1> QED BY <1>1, <1>4, <1>5, <1>6

\* The callers that come, and those that were woken.
LEMMA DisposeSlotSteps ==
  ASSUME DisposeInv, NEW c \in Callers, Enter(c) \/ Retry(c) \/ ShellStart(c), forgotten' = forgotten
  PROVE  DisposeInv'
<1> USE DEF DisposeInv
<1>0. ASSUME pc[c] # "waiting", pc[c] # "ready" \/ c \notin Range(ready'), ready' \in Seq(Callers),
             QueuedWait(slotWaiters, ready', pc), Wait(c)
      PROVE  QueuedWait(slotWaiters', ready', pc')
  <2>1. slotWaiters' = Append(slotWaiters, c) /\ slotWaiters \in Seq(Callers)
    BY <1>0 DEF Wait, TypeOK
  <2>2. c \notin Range(slotWaiters) /\ c \notin Range(ready')
    BY <1>0 DEF QueuedWait
  <2>3. Range(slotWaiters') = Range(slotWaiters) \cup {c} /\ IsInjective(slotWaiters')
    BY <1>0, <2>1, <2>2, RangeAppend DEF QueuedWait
  <2>4. pc'[c] = "waiting" /\ \A d \in Callers : d # c => pc'[d] = pc[d]
    BY <1>0 DEF Wait, GoTo, TypeOK
  <2>5. Range(slotWaiters) \subseteq Callers /\ Range(ready') \subseteq Callers
    BY <1>0, QueueTyped DEF TypeOK
  <2> QED BY <1>0, <2>2, <2>3, <2>4, <2>5 DEF QueuedWait
<1>1. CASE Enter(c)
  <2>1. pc[c] = "arriving" /\ ready' = ready /\ ready \in Seq(Callers)
    BY <1>1 DEF Enter, TypeOK
  <2>2. CASE Install(c, "head")
    <3>1. QueuedWait(slotWaiters, ready, pc')
      BY <2>1, <2>2, QueuedWaitKept DEF Install, InstallWith
    <3> QED BY <2>1, <2>2, <3>1, DisposeInstallStep
  <2>3. CASE ~SlotIsFree /\ Wait(c)
    <3>1. MayWaitAgain(c)
      BY <2>1 DEF MayWaitAgain, CountInv
    <3> QED BY <1>0, <2>1, <2>3, <3>1, DisposeWaitStep
  <2> QED BY <1>1, <2>2, <2>3 DEF Enter
<1>2. CASE Retry(c)
  <2> DEFINE rest == Tail(ready)
  <2>1. ready # <<>> /\ c = Head(ready) /\ ready' = rest /\ ready \in Seq(Callers)
    BY <1>2 DEF Retry, TypeOK
  <2>2. /\ rest \in Seq(Callers) /\ IsInjective(rest)
        /\ Range(rest) = Range(ready) \ {c}
        /\ c \in Range(ready)
    BY <2>1, RangeTail, RangeEmpty DEF QueuedWait
  <2> HIDE DEF rest
  <2>3. pc[c] = "ready"
    BY <2>2 DEF QueuedWait
  <2>4. QueuedWait(slotWaiters, ready', pc)
    BY <2>1, <2>2 DEF QueuedWait
  <2>5. CASE Install(c, "head")
    <3>1. \A d \in Callers : pc'[d] = IF d = c THEN "head" ELSE pc[d]
      BY <2>5 DEF Install, InstallWith, GoTo, TypeOK
    <3>2. Range(slotWaiters) \subseteq Callers /\ Range(ready) \subseteq Callers
      BY QueueTyped DEF TypeOK
    <3>3. QueuedWait(slotWaiters, rest, pc')
      BY <2>2, <2>3, <3>1, <3>2 DEF QueuedWait
    <3> QED BY <2>1, <2>2, <2>3, <2>5, <3>3, DisposeInstallStep
  <2>6. CASE ~SlotIsFree /\ MayWaitAgain(c) /\ Wait(c)
    BY <1>0, <2>1, <2>2, <2>3, <2>4, <2>6, DisposeWaitStep
  <2> QED BY <1>2, <2>5, <2>6 DEF Retry
<1>3. CASE ShellStart(c)
  <2>1. pc[c] = "idle" /\ Install(c, "shell") /\ ready' = ready /\ ready \in Seq(Callers)
    BY <1>3 DEF ShellStart, TypeOK
  <2>2. QueuedWait(slotWaiters, ready, pc')
    BY <2>1, QueuedWaitKept DEF Install, InstallWith
  <2> QED BY <2>1, <2>2, DisposeInstallStep
<1> QED BY <1>1, <1>2, <1>3

\* A step of a run that leaves the slot alone.
LEMMA DisposeTurnStep ==
  ASSUME DisposeInv, NEW c \in Callers, Turn(c), forgotten' = forgotten
  PROVE  DisposeInv'
<1> USE DEF DisposeInv
<1>1. /\ pc[c] \in Running \ {"asking"} /\ UNCHANGED <<slotVars, aborted, child>>
      /\ status' \in {"idle", "busy", "retry"}
      /\ \E place \in Running : GoTo(c, place)
  BY DEF Turn, LoopHead, StreamStart, StreamBusy, StreamRetry, StreamError, Continue, Ask,
         Exit, Running, TypeOK
<1>2. PICK place \in Running : GoTo(c, place)
  BY <1>1
<1>3. UNCHANGED <<entry, slotWaiters, target, waits, ready>>
  BY <1>1 DEF slotVars
<1>4. TypeOK'
  BY <1>1, <1>2, <1>3 DEF TypeOK, GoTo
<1>5. \A d \in Callers : pc'[d] = IF d = c THEN place ELSE pc[d]
  BY <1>2 DEF TypeOK, GoTo
<1>6. c \notin forgotten
  BY <1>1 DEF ForgottenAsk
<1>7. \A d \in Callers : Live(d)' <=> Live(d)
  BY <1>1, <1>5 DEF Live
<1>8. QueuedWait(slotWaiters', ready', pc')
  BY <1>1, <1>2, <1>3, QueuedWaitKept DEF Running
<1>9. OwnerIsKnown' /\ ForgottenAsk'
  BY <1>3, <1>5, <1>6, <1>7 DEF OwnerIsKnown, ForgottenAsk, TypeOK
<1>10. StatusIsDriven'
  BY <1>1, <1>6, <1>7 DEF StatusIsDriven, Live
<1>11. CountInv'
  BY <1>1, <1>3, <1>5 DEF CountInv, Running
<1> QED BY <1>4, <1>8, <1>9, <1>10, <1>11

\* finish(): a forgotten run does not come here.
LEMMA DisposeFinishStep ==
  ASSUME DisposeInv, NEW c \in Callers, Finish(c), forgotten' = forgotten
  PROVE  DisposeInv'
<1> USE DEF DisposeInv
<1>1. pc[c] = "exit" /\ aborted' = aborted \ {c} /\ child' = child /\ c \notin forgotten
  BY DEF Finish, ForgottenAsk
<1>2. ASSUME entry # c, GoTo(c, "idle"), UNCHANGED slotVars,
             status' \in {"idle", "busy", "retry"},
             entry = NoRun => status' = "idle"
      PROVE  DisposeInv'
  <2>1. UNCHANGED <<entry, slotWaiters, target, waits, ready>>
    BY <1>2 DEF slotVars
  <2>2. \A d \in Callers : pc'[d] = IF d = c THEN "idle" ELSE pc[d]
    BY <1>2 DEF GoTo, TypeOK
  <2>3. TypeOK'
    BY <1>1, <1>2, <2>1 DEF TypeOK, GoTo
  <2>4. QueuedWait(slotWaiters', ready', pc')
    BY <1>1, <1>2, <2>1, QueuedWaitKept
  <2>5. OwnerIsKnown' /\ ForgottenAsk' /\ StatusIsDriven'
    BY <1>1, <1>2, <2>1, <2>2 DEF OwnerIsKnown, ForgottenAsk, StatusIsDriven, Live, TypeOK
  <2>6. CountInv'
    BY <1>1, <2>1, <2>2 DEF CountInv
  <2> QED BY <2>3, <2>4, <2>5, <2>6
<1>3. CASE FinishUnregistered(c)
  BY <1>2, <1>3 DEF FinishUnregistered
<1>4. CASE FinishSuperseded(c)
  BY <1>2, <1>4 DEF FinishSuperseded, TypeOK
<1>5. CASE FinishOwner(c)
  <2>1. /\ entry = c /\ entry' = NoRun /\ slotWaiters' = <<>>
        /\ ready' = ready \o slotWaiters
        /\ status' = IF child THEN status ELSE "idle"
        /\ UNCHANGED <<target, waits>>
        /\ pc' = [d \in Callers |-> IF d = c THEN "idle"
                                    ELSE IF d \in Range(slotWaiters) THEN "ready" ELSE pc[d]]
    BY <1>5 DEF FinishOwner
  <2>2. Range(ready) \cap Range(slotWaiters) = {} /\ c \notin Range(ready) \cup Range(slotWaiters)
    BY <1>1 DEF QueuedWait
  <2>3. /\ ready' \in Seq(Callers) /\ IsInjective(ready')
        /\ Range(ready') = Range(ready) \cup Range(slotWaiters)
    BY <2>1, <2>2, RangeConcat DEF QueuedWait, TypeOK
  <2>4. Range(<<>>) = {} /\ IsInjective(<<>>) /\ <<>> \in Seq(Callers)
    BY EmptyQueue
  <2>5. TypeOK'
    <3>1. pc' \in [Callers -> {"idle", "arriving", "waiting", "ready"} \cup Running]
      BY <2>1 DEF TypeOK
    <3> QED BY <1>1, <2>1, <2>3, <2>4, <3>1 DEF TypeOK
  <2>6. Range(ready) \subseteq Callers /\ Range(slotWaiters) \subseteq Callers
    BY QueueTyped DEF TypeOK
  <2>7. QueuedWait(slotWaiters', ready', pc')
    BY <2>1, <2>2, <2>3, <2>4, <2>6 DEF QueuedWait
  <2>8. \A d \in forgotten : pc'[d] = pc[d]
    BY <1>1, <2>1 DEF ForgottenAsk, QueuedWait
  <2>9. OwnerIsKnown' /\ ForgottenAsk' /\ StatusIsDriven'
    BY <1>1, <2>1, <2>8 DEF OwnerIsKnown, ForgottenAsk, StatusIsDriven
  <2>10. CountInv'
    BY <1>1, <2>1 DEF CountInv, QueuedWait
  <2> QED BY <2>5, <2>7, <2>9, <2>10
<1> QED BY <1>3, <1>4, <1>5 DEF Finish

\* cancel(), the subagent's events, an arrival, an answer that is still awaited.
LEMMA DisposeOtherSteps ==
  ASSUME DisposeInv, forgotten' = forgotten,
         \A c \in forgotten : pc'[c] = "asking",
         \/ \E c \in Callers : Arrive(c)
         \/ Cancel \/ ChildSet \/ ChildClear
         \/ \E cs \in SUBSET Asking : Reply(cs)
  PROVE  DisposeInv'
<1> USE DEF DisposeInv
<1>1. ASSUME NEW c \in Callers, Arrive(c) PROVE DisposeInv'
  <2>1. /\ UNCHANGED <<entry, slotWaiters, aborted, status, child, waits, ready>>
        /\ pc[c] = "idle" /\ GoTo(c, "arriving")
    BY <1>1 DEF Arrive
  <2>2. TypeOK'
    BY <1>1, <2>1 DEF TypeOK, Arrive, GoTo
  <2>3. \A d \in Callers : pc'[d] = IF d = c THEN "arriving" ELSE pc[d]
    BY <2>1 DEF GoTo, TypeOK
  <2>4. \A d \in Callers : Live(d)' <=> Live(d)
    BY <2>1, <2>3 DEF Live, Running
  <2>5. OwnerIsKnown' /\ ForgottenAsk' /\ StatusIsDriven'
    BY <2>1, <2>4 DEF OwnerIsKnown, ForgottenAsk, StatusIsDriven, TypeOK
  <2>6. CountInv' /\ QueuedWait(slotWaiters', ready', pc')
    BY <2>1, <2>3, QueuedWaitKept DEF CountInv
  <2> QED BY <2>2, <2>5, <2>6
<1>2. CASE Cancel \/ ChildSet \/ ChildClear
  <2>1. /\ UNCHANGED <<entry, slotWaiters, target, waits, ready, pc>>
        /\ child' \in BOOLEAN /\ aborted' \subseteq Callers
        /\ status' \in {"idle", "busy", "retry"}
        /\ child' \/ status' = "idle" \/ entry # NoRun \/ (status' = status /\ child' = child)
    BY <1>2 DEF Cancel, ChildSet, ChildClear, slotVars, TypeOK, SlotIsFree
  <2>2. TypeOK' /\ CountInv' /\ QueuedWait(slotWaiters', ready', pc')
    BY <2>1 DEF TypeOK, CountInv
  <2>3. \A d \in Callers : Live(d)' <=> Live(d)
    BY <2>1 DEF Live
  <2>4. OwnerIsKnown' /\ ForgottenAsk' /\ StatusIsDriven'
    BY <2>1, <2>3 DEF OwnerIsKnown, ForgottenAsk, StatusIsDriven, TypeOK
  <2> QED BY <2>2, <2>4
<1>3. ASSUME NEW cs \in SUBSET Asking, Reply(cs) PROVE DisposeInv'
  <2>1. /\ UNCHANGED <<entry, slotWaiters, aborted, status, child, target, waits, ready>>
        /\ pc' = [d \in Callers |-> IF d \in cs THEN "body" ELSE pc[d]]
    BY <1>3 DEF Reply, slotVars
  <2>2. \A d \in Callers : d \in cs => pc[d] = "asking"
    BY DEF Asking
  <2>3. TypeOK'
    BY <2>1 DEF TypeOK, Running
  <2>4. \A d \in Callers : Live(d)' <=> Live(d)
    BY <2>1, <2>2 DEF Live, Running
  <2>5. OwnerIsKnown' /\ ForgottenAsk' /\ StatusIsDriven'
    BY <2>1, <2>4 DEF OwnerIsKnown, ForgottenAsk, StatusIsDriven, TypeOK
  <2>6. Range(slotWaiters) \subseteq Callers /\ Range(ready) \subseteq Callers
    BY QueueTyped DEF TypeOK
  <2>7. QueuedWait(slotWaiters', ready', pc')
    BY <2>1, <2>2, <2>6 DEF QueuedWait
  <2>8. CountInv'
    BY <2>1, <2>2 DEF CountInv
  <2> QED BY <2>3, <2>5, <2>7, <2>8
<1> QED BY <1>1, <1>2, <1>3

\* The disposal drops the slot, its waiters, the status and the requests at once.
LEMMA DropStep ==
  ASSUME DisposeInv, DisposeDrop
  PROVE  DisposeInv'
<1> USE DEF DisposeInv
<1>1. /\ entry' = NoRun /\ slotWaiters' = <<>> /\ status' = "idle" /\ child' = FALSE
      /\ forgotten' = Asking /\ UNCHANGED <<aborted, pc, target, waits, ready>>
  BY DEF DisposeDrop
<1>2. TypeOK' /\ CountInv' /\ QueuedWait(slotWaiters', ready', pc')
  BY <1>1, EmptyQueue DEF TypeOK, CountInv, QueuedWait
<1>3. OwnerIsKnown' /\ ForgottenAsk' /\ StatusIsDriven'
  BY <1>1 DEF OwnerIsKnown, ForgottenAsk, StatusIsDriven, Asking
<1> QED BY <1>2, <1>3

\* However often the session's Instance is disposed and whatever its callers do
\* meanwhile, what is left of the slot is true.
THEOREM DisposeCorrect == DisposeSpec => []DisposeInv
<1>1. DisposeInit => DisposeInv
  <2> SUFFICES ASSUME DisposeInit PROVE DisposeInv
    OBVIOUS
  <2>1. TypeOK
    <3>1. 0 \in 0 .. MaxWaits
      OBVIOUS
    <3>2. /\ pc = [c \in Callers |-> "idle"]
          /\ target = [c \in Callers |-> NoRun] /\ waits = [c \in Callers |-> 0]
          /\ slotWaiters \in Seq(Callers) /\ ready \in Seq(Callers)
      BY EmptyQueue DEF DisposeInit, Init
    <3>3. /\ entry = NoRun /\ aborted = {} /\ status = "idle" /\ child = FALSE
      BY DEF DisposeInit, Init
    <3> QED BY <3>1, <3>2, <3>3 DEF TypeOK
  <2>2. CountInv /\ OwnerIsKnown /\ ForgottenAsk /\ StatusIsDriven
    BY DEF DisposeInit, Init, CountInv, OwnerIsKnown, ForgottenAsk, StatusIsDriven
  <2>3. QueuedWait(slotWaiters, ready, pc)
    BY EmptyQueue DEF DisposeInit, Init, QueuedWait
  <2> QED BY <2>1, <2>2, <2>3 DEF DisposeInv
<1>2. DisposeInv /\ [DisposeNext]_disposeVars => DisposeInv'
  <2> SUFFICES ASSUME DisposeInv, [DisposeNext]_disposeVars PROVE DisposeInv'
    OBVIOUS
  <2>1. CASE Go
    BY <2>1, DisposeSlotSteps, DisposeTurnStep, DisposeFinishStep, DisposeOtherSteps DEF Go, Next
  <2>2. CASE DisposeAbort
    <3>1. /\ aborted' \subseteq Callers
          /\ UNCHANGED <<entry, slotWaiters, target, waits, ready, status, child, pc, forgotten>>
      BY <2>2 DEF DisposeAbort, slotVars, DisposeInv, TypeOK
    <3> QED BY <3>1 DEF DisposeInv, TypeOK, CountInv, OwnerIsKnown, ForgottenAsk, StatusIsDriven, Live
  <2>3. CASE UNCHANGED disposeVars
    BY <2>3 DEF disposeVars, vars, DisposeInv, TypeOK, CountInv, OwnerIsKnown, ForgottenAsk,
                StatusIsDriven, Live
  <2> QED BY <2>1, <2>2, <2>3, DropStep DEF DisposeNext
<1> QED BY <1>1, <1>2, PTL DEF DisposeSpec

\* A disposal leaves no trace that outlives the runs it knows: when they are gone
\* the slot is free and, with no subagent attached, the session idle.
THEOREM DisposalSettles == DisposeSpec => []SettlesFree
<1>1. DisposeInv => SettlesFree
  BY DEF DisposeInv, TypeOK, OwnerIsKnown, StatusIsDriven, SettlesFree
<1> QED BY <1>1, DisposeCorrect, PTL

=============================================================================
