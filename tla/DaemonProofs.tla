---------------------------- MODULE DaemonProofs ----------------------------
(***************************************************************************)
(* For any lanes, limits and tasks: the command lanes are sound through    *)
(* every drain, reset and restart of the daemon; a daemon that calls       *)
(* itself running is operational; a drain that did not time out left the   *)
(* lanes quiet; a stopped daemon has released its lock.                    *)
(*                                                                         *)
(* PumpKeeps says what one pump does to a lane.  From it LanesInv is       *)
(* inductive over the steps of the lanes, and with PlacesInv, which ties   *)
(* the state of the daemon to where its handler stands, over all steps.    *)
(***************************************************************************)
EXTENDS DaemonLifecycle, FiniteSetTheorems, SequenceTheorems, TLAPS

-----------------------------------------------------------------------------
(* Facts about queues: their range, and that a queue without duplicates    *)
(* stays one.                                                              *)

\* A queue is empty exactly when nobody is in it.
LEMMA RangeEmpty ==
  ASSUME NEW S, NEW s \in Seq(S)
  PROVE  /\ Range(<<>>) = {}
         /\ IsInjective(<<>>)
         /\ s # <<>> => Head(s) \in Range(s)
         /\ Range(s) = {} => s = <<>>
<1>1. DOMAIN <<>> = {}
  BY EmptySeq, LenProperties, 1 .. 0 = {}
<1>2. Range(<<>>) = {} /\ IsInjective(<<>>)
  BY <1>1 DEF Range, IsInjective
<1>3. ASSUME s # <<>> PROVE Head(s) \in Range(s)
  <2>1. Len(s) \in Nat \ {0} /\ DOMAIN s = 1 .. Len(s)
    BY <1>3, EmptySeq, LenProperties
  <2>2. Head(s) = s[1] /\ 1 \in DOMAIN s
    BY <2>1
  <2> QED BY <2>2 DEF Range
<1> QED BY <1>2, <1>3

\* Queueing one more element.
LEMMA RangeAppend ==
  ASSUME NEW S, NEW s \in Seq(S), NEW x \in S
  PROVE  /\ Append(s, x) \in Seq(S) /\ Append(s, x) # <<>>
         /\ Range(Append(s, x)) = Range(s) \cup {x}
         /\ IsInjective(s) /\ x \notin Range(s) => IsInjective(Append(s, x))
<1> DEFINE t == Append(s, x)
<1>1. /\ t \in Seq(S) /\ t # <<>> /\ Len(t) = Len(s) + 1
      /\ \A i \in 1 .. Len(s) : t[i] = s[i]
      /\ t[Len(s) + 1] = x
  BY AppendProperties
<1>2. Len(s) \in Nat /\ DOMAIN s = 1 .. Len(s) /\ DOMAIN t = 1 .. Len(s) + 1
  BY <1>1, LenProperties
<1>3. DOMAIN t = DOMAIN s \cup {Len(s) + 1}
  BY <1>2
<1>4. Range(t) = Range(s) \cup {x}
  BY <1>1, <1>2, <1>3 DEF Range
<1>5. ASSUME IsInjective(s), x \notin Range(s) PROVE IsInjective(t)
  BY <1>1, <1>2, <1>3, <1>5 DEF Range, IsInjective
<1> QED BY <1>1, <1>4, <1>5

\* A queue without duplicates has as many elements as places.
LEMMA RangeCardinality ==
  ASSUME NEW S, NEW s \in Seq(S), IsInjective(s)
  PROVE  IsFiniteSet(Range(s)) /\ Cardinality(Range(s)) = Len(s)
<1>1. Len(s) \in Nat /\ DOMAIN s = 1 .. Len(s) /\ s \in [1 .. Len(s) -> S]
  BY LenProperties
<1>2. s \in Bijection(1 .. Len(s), Range(s))
  BY <1>1 DEF Bijection, Injection, Surjection, IsInjective, Range
<1>3. ExistsBijection(1 .. Len(s), Range(s))
  BY <1>2 DEF ExistsBijection
<1>4. IsFiniteSet(1 .. Len(s)) /\ Cardinality(1 .. Len(s)) = Len(s)
  <2>1. /\ IsFiniteSet(1 .. Len(s))
        /\ Cardinality(1 .. Len(s)) = IF 1 > Len(s) THEN 0 ELSE Len(s) - 1 + 1
    BY <1>1, FS_Interval
  <2> QED BY <2>1, <1>1
<1> QED BY <1>3, <1>4, FS_Bijection

\* Taking the first n elements of a queue without duplicates.
LEMMA RangeSplit ==
  ASSUME NEW S, NEW s \in Seq(S), IsInjective(s), NEW n \in 0 .. Len(s)
  PROVE  LET first == SubSeq(s, 1, n)
             rest  == SubSeq(s, n + 1, Len(s))
         IN  /\ first \in Seq(S) /\ IsInjective(first) /\ Len(first) = n
             /\ rest \in Seq(S) /\ IsInjective(rest) /\ Len(rest) = Len(s) - n
             /\ Range(first) \cup Range(rest) = Range(s)
             /\ Range(first) \cap Range(rest) = {}
<1> DEFINE first == SubSeq(s, 1, n)
<1> DEFINE rest == SubSeq(s, n + 1, Len(s))
<1>1. Len(s) \in Nat /\ DOMAIN s = 1 .. Len(s) /\ s \in [1 .. Len(s) -> S]
  BY LenProperties
<1>2. /\ first \in Seq(S) /\ Len(first) = n /\ DOMAIN first = 1 .. n
      /\ \A i \in 1 .. n : first[i] = s[i]
  <2>1. \A i \in 1 .. n : s[i] \in S
    BY <1>1
  <2>2. \A i \in 1 .. n : 1 + i - 1 = i
    OBVIOUS
  <2>3. first \in Seq(S) /\ Len(first) = n /\ \A i \in 1 .. n : first[i] = s[i]
    BY <1>1, <2>1, <2>2, SubSeqProperties
  <2> QED BY <2>3, LenProperties
<1>3. /\ rest \in Seq(S) /\ Len(rest) = Len(s) - n /\ DOMAIN rest = 1 .. Len(s) - n
      /\ \A i \in 1 .. Len(s) - n : rest[i] = s[n + i]
  <2>1. \A i \in n + 1 .. Len(s) : s[i] \in S
    BY <1>1
  <2>2. \A i \in 1 .. Len(s) - n : n + 1 + i - 1 = n + i
    BY <1>1
  <2>3. /\ rest \in Seq(S) /\ Len(rest) = Len(s) - n
        /\ \A i \in 1 .. Len(s) - n : rest[i] = s[n + i]
    BY <1>1, <2>1, <2>2, SubSeqProperties
  <2> QED BY <2>3, LenProperties
<1> HIDE DEF first, rest
<1>4. \A i \in DOMAIN first : i \in DOMAIN s /\ i <= n /\ first[i] = s[i]
  BY <1>1, <1>2
<1>5. \A i \in DOMAIN rest : n + i \in DOMAIN s /\ n + i > n /\ rest[i] = s[n + i]
  BY <1>1, <1>3
<1>6. \A i \in DOMAIN s : (i \in DOMAIN first /\ first[i] = s[i])
                            \/ (i - n \in DOMAIN rest /\ rest[i - n] = s[i])
  <2> TAKE i \in DOMAIN s
  <2>1. CASE i <= n
    BY <2>1, <1>1, <1>2
  <2>2. CASE i > n
    <3>1. i - n \in 1 .. Len(s) - n /\ n + (i - n) = i
      BY <2>2, <1>1
    <3> QED BY <3>1, <1>3
  <2> QED BY <2>1, <2>2, <1>1
<1>7. IsInjective(first)
  <2> SUFFICES ASSUME NEW i \in DOMAIN first, NEW j \in DOMAIN first, first[i] = first[j]
               PROVE  i = j
    BY DEF IsInjective
  <2> QED BY <1>4 DEF IsInjective
<1>8. IsInjective(rest)
  <2> SUFFICES ASSUME NEW i \in DOMAIN rest, NEW j \in DOMAIN rest, rest[i] = rest[j]
               PROVE  i = j
    BY DEF IsInjective
  <2>1. n + i = n + j
    BY <1>5 DEF IsInjective
  <2> QED BY <2>1, <1>3
<1>9. Range(first) \cup Range(rest) = Range(s)
  <2>1. Range(first) \cup Range(rest) \subseteq Range(s)
    BY <1>4, <1>5 DEF Range
  <2>2. Range(s) \subseteq Range(first) \cup Range(rest)
    BY <1>6 DEF Range
  <2> QED BY <2>1, <2>2
<1>10. Range(first) \cap Range(rest) = {}
  <2> SUFFICES ASSUME NEW i \in DOMAIN first, NEW j \in DOMAIN rest, first[i] = rest[j]
               PROVE  FALSE
    BY DEF Range
  <2>1. i = n + j
    BY <1>4, <1>5 DEF IsInjective
  <2> QED BY <2>1, <1>4, <1>5
<1> QED BY <1>2, <1>3, <1>7, <1>8, <1>9, <1>10 DEF first, rest

-----------------------------------------------------------------------------
(* The lanes *)

\* One pump of lane k from queue q, active set a and phases p: the entries
\* shifted leave the rest of the queue as it was, fit beside the active ones, and
\* leave nothing waiting beside a free place.
Pumped(k, q, a, p, rest, shifted) ==
  /\ queue' = [queue EXCEPT ![k] = rest]
  /\ active' = [active EXCEPT ![k] = a \cup shifted]
  /\ phase' = [t \in Tasks |-> IF t \in shifted THEN "running" ELSE p[t]]
  /\ IsInjective(rest)
  /\ shifted \cup Range(rest) = Range(q)
  /\ shifted \cap Range(rest) = {}
  /\ Cardinality(a \cup shifted) <= MaxConcurrent[k]
  /\ rest # <<>> => Cardinality(a \cup shifted) >= MaxConcurrent[k]

\* pump() has such an outcome.
LEMMA PumpKeeps ==
  ASSUME NEW k \in Lanes, NEW q \in Seq(Tasks), NEW a \in SUBSET Tasks,
         NEW p \in [Tasks -> Phases],
         IsInjective(q), Range(q) \cap a = {},
         Cardinality(a) <= MaxConcurrent[k],
         Pump(k, q, a, p)
  PROVE  \E rest \in Seq(Tasks), shifted \in SUBSET Tasks :
           Pumped(k, q, a, p, rest, shifted)
<1> DEFINE n == Room(k, q, a)
<1> DEFINE first == SubSeq(q, 1, n)
<1> DEFINE rest == SubSeq(q, n + 1, Len(q))
<1>1. IsFiniteSet(a) /\ Cardinality(a) \in Nat
  BY TasksFinite, FS_Subset, FS_CardinalityType
<1>2. MaxConcurrent[k] \in Nat /\ Len(q) \in Nat
  BY LimitsPositive, LenProperties
<1>3. /\ n \in 0 .. Len(q)
      /\ Cardinality(a) + n <= MaxConcurrent[k]
      /\ n < Len(q) => Cardinality(a) + n = MaxConcurrent[k]
  BY <1>1, <1>2 DEF Room
<1>4. /\ queue' = [queue EXCEPT ![k] = rest]
      /\ active' = [active EXCEPT ![k] = a \cup Range(first)]
      /\ phase' = [t \in Tasks |-> IF t \in Range(first) THEN "running" ELSE p[t]]
  BY DEF Pump
<1> HIDE DEF n
<1>5. /\ first \in Seq(Tasks) /\ IsInjective(first) /\ Len(first) = n
      /\ rest \in Seq(Tasks) /\ IsInjective(rest) /\ Len(rest) = Len(q) - n
      /\ Range(first) \cup Range(rest) = Range(q)
      /\ Range(first) \cap Range(rest) = {}
  BY <1>3, RangeSplit
<1> HIDE DEF first, rest
<1>6. IsFiniteSet(Range(first)) /\ Cardinality(Range(first)) = n
  BY <1>5, RangeCardinality
<1>7. Range(first) \in SUBSET Tasks
  <2>1. DOMAIN first = 1 .. Len(first) /\ first \in [1 .. Len(first) -> Tasks]
    BY <1>5, LenProperties
  <2> QED BY <2>1 DEF Range
<1>8. Cardinality(a \cup Range(first)) = Cardinality(a) + n
  <2>1. a \cap Range(first) = {}
    BY <1>5
  <2>2. /\ IsFiniteSet(a \cup Range(first))
        /\ Cardinality(a \cup Range(first)) =
             Cardinality(a) + Cardinality(Range(first)) - Cardinality(a \cap Range(first))
    BY <1>1, <1>6, FS_Union
  <2>3. Cardinality(a \cap Range(first)) = 0
    BY <2>1, FS_EmptySet
  <2> QED BY <2>2, <2>3, <1>1, <1>6, <1>3
<1>9. rest # <<>> => n < Len(q)
  <2> SUFFICES ASSUME rest # <<>> PROVE n < Len(q)
    OBVIOUS
  <2>1. Len(rest) # 0 /\ Len(rest) \in Nat
    BY <1>5, EmptySeq, LenProperties
  <2> QED BY <2>1, <1>5, <1>3, <1>2
<1>10. rest # <<>> => Cardinality(a \cup Range(first)) >= MaxConcurrent[k]
  BY <1>8, <1>9, <1>3, <1>2
<1>11. Cardinality(a \cup Range(first)) <= MaxConcurrent[k]
  BY <1>8, <1>3
<1>12. Pumped(k, q, a, p, rest, Range(first))
  BY <1>4, <1>5, <1>10, <1>11 DEF Pumped
<1> QED BY <1>5, <1>7, <1>12

\* Pumping a lane whose queue and active set agree with the phases p keeps
\* the lanes sound.
LEMMA PumpLane ==
  ASSUME TypeOK, LanesInv,
         NEW k \in Lanes, NEW q \in Seq(Tasks), NEW a \in SUBSET Tasks,
         NEW p \in [Tasks -> Phases],
         IsInjective(q), Cardinality(a) <= MaxConcurrent[k],
         Range(q) = {t \in Tasks : p[t] = "queued" /\ LaneOf[t] = k},
         \A t \in a : p[t] = "running" /\ LaneOf[t] = k /\ t \notin stale,
         \A t \in Tasks : p[t] = "running" /\ LaneOf[t] = k /\ t \notin stale => t \in a,
         \A t \in Tasks : LaneOf[t] # k => p[t] = phase[t],
         \A t \in stale : p[t] \notin {"new", "queued"},
         Pump(k, q, a, p), stale' = stale, drain' = drain
  PROVE  TypeOK' /\ LanesInv'
<1>1. Range(q) \cap a = {}
  OBVIOUS
<1>a. PICK rest \in Seq(Tasks), shifted \in SUBSET Tasks : Pumped(k, q, a, p, rest, shifted)
  BY <1>1, PumpKeeps
<1>2. /\ queue' = [queue EXCEPT ![k] = rest]
      /\ active' = [active EXCEPT ![k] = a \cup shifted]
      /\ phase' = [t \in Tasks |-> IF t \in shifted THEN "running" ELSE p[t]]
      /\ IsInjective(rest)
      /\ shifted \cup Range(rest) = Range(q)
      /\ shifted \cap Range(rest) = {}
      /\ Cardinality(a \cup shifted) <= MaxConcurrent[k]
      /\ rest # <<>> => Cardinality(a \cup shifted) >= MaxConcurrent[k]
  BY <1>a DEF Pumped
<1>3. /\ queue \in [Lanes -> Seq(Tasks)] /\ active \in [Lanes -> SUBSET Tasks]
      /\ phase \in [Tasks -> Phases] /\ stale \subseteq Tasks
  BY DEF TypeOK
<1>4. /\ queue'[k] = rest /\ \A l \in Lanes : l # k => queue'[l] = queue[l]
      /\ active'[k] = a \cup shifted /\ \A l \in Lanes : l # k => active'[l] = active[l]
  BY <1>2, <1>3
<1>5. \A t \in Tasks : phase'[t] = IF t \in shifted THEN "running" ELSE p[t]
  BY <1>2
<1>6. \A t \in shifted : p[t] = "queued" /\ LaneOf[t] = k /\ t \notin stale
  BY <1>2
<1>7. \A t \in Tasks : LaneOf[t] # k => phase'[t] = phase[t]
  BY <1>5, <1>6
<1>8. TypeOK'
  <2>1. queue' \in [Lanes -> Seq(Tasks)] /\ active' \in [Lanes -> SUBSET Tasks]
    BY <1>2, <1>3
  <2>2. "running" \in Phases
    BY DEF Phases
  <2>3. phase' \in [Tasks -> Phases]
    BY <1>2, <2>2
  <2> QED BY <2>1, <2>3, <1>3 DEF TypeOK
<1>9. CountedAndBounded'
  <2>1. ASSUME NEW l \in Lanes
        PROVE  /\ Cardinality(active'[l]) <= MaxConcurrent[l]
               /\ \A t \in active'[l] : phase'[t] = "running" /\ LaneOf[t] = l /\ t \notin stale
    <3>1. CASE l = k
      <4>1. Cardinality(active'[l]) <= MaxConcurrent[l]
        BY <1>2, <1>4, <3>1
      <4>2. \A t \in a \cup shifted : phase'[t] = "running" /\ LaneOf[t] = k /\ t \notin stale
        BY <1>5, <1>6
      <4> QED BY <4>1, <4>2, <1>4, <3>1
    <3>2. CASE l # k
      <4>1. /\ Cardinality(active[l]) <= MaxConcurrent[l]
            /\ \A t \in active[l] : phase[t] = "running" /\ LaneOf[t] = l /\ t \notin stale
        BY DEF LanesInv, CountedAndBounded
      <4>2. active'[l] = active[l] /\ active[l] \subseteq Tasks
        BY <1>3, <1>4, <3>2
      <4> QED BY <4>1, <4>2, <1>7, <3>2
    <3> QED BY <3>1, <3>2
  <2>2. ASSUME NEW t \in Tasks, phase'[t] = "running", t \notin stale
        PROVE  t \in active'[LaneOf[t]]
    <3>1. CASE LaneOf[t] = k
      BY <1>4, <1>5, <2>2, <3>1
    <3>2. CASE LaneOf[t] # k
      <4>1. phase[t] = "running"
        BY <1>7, <2>2, <3>2
      <4>2. t \in active[LaneOf[t]]
        BY <4>1, <2>2 DEF LanesInv, CountedAndBounded
      <4> QED BY <4>2, <1>4, <3>2, LaneOfTask
    <3> QED BY <3>1, <3>2
  <2> QED BY <2>1, <2>2 DEF CountedAndBounded
<1>10. QueuedOnce'
  <2> SUFFICES ASSUME NEW l \in Lanes
               PROVE  /\ IsInjective(queue'[l])
                      /\ Range(queue'[l]) = {t \in Tasks : phase'[t] = "queued" /\ LaneOf[t] = l}
    BY DEF QueuedOnce
  <2>1. CASE l = k
    <3>1. Range(rest) = {t \in Tasks : phase'[t] = "queued" /\ LaneOf[t] = k}
      BY <1>2, <1>5
    <3> QED BY <3>1, <2>1, <1>2, <1>4
  <2>2. CASE l # k
    <3>1. /\ IsInjective(queue[l])
          /\ Range(queue[l]) = {t \in Tasks : phase[t] = "queued" /\ LaneOf[t] = l}
      BY DEF LanesInv, QueuedOnce
    <3>2. queue'[l] = queue[l]
      BY <1>4, <2>2
    <3> QED BY <3>1, <3>2, <1>7, <2>2
  <2> QED BY <2>1, <2>2
<1>11. WorkConserving'
  <2> SUFFICES ASSUME NEW l \in Lanes, queue'[l] # <<>>
               PROVE  Cardinality(active'[l]) >= MaxConcurrent[l]
    BY DEF WorkConserving
  <2> QED BY <1>2, <1>4 DEF LanesInv, WorkConserving
<1>12. StaleHasStarted'
  BY <1>3, <1>5 DEF StaleHasStarted
<1> QED BY <1>8, <1>9, <1>10, <1>11, <1>12 DEF LanesInv

\* enqueue() and the end of a task keep the lanes sound.
LEMMA LaneStepKeeps == TypeOK /\ LanesInv /\ LaneStep => TypeOK' /\ LanesInv'
<1> SUFFICES ASSUME TypeOK, LanesInv, LaneStep PROVE TypeOK' /\ LanesInv'
  OBVIOUS
<1>0. /\ queue \in [Lanes -> Seq(Tasks)] /\ active \in [Lanes -> SUBSET Tasks]
      /\ phase \in [Tasks -> Phases] /\ stale \subseteq Tasks
      /\ CountedAndBounded /\ QueuedOnce /\ WorkConserving /\ StaleHasStarted
  BY DEF TypeOK, LanesInv
<1>1. ASSUME NEW t \in Tasks, Enqueue(t) PROVE TypeOK' /\ LanesInv'
  <2> DEFINE k == LaneOf[t]
  <2> DEFINE q == Append(queue[k], t)
  <2> DEFINE a == active[k]
  <2> DEFINE p == [phase EXCEPT ![t] = "queued"]
  <2>1. k \in Lanes /\ queue[k] \in Seq(Tasks) /\ a \in SUBSET Tasks /\ phase[t] = "new"
    BY <1>0, <1>1, LaneOfTask DEF Enqueue
  <2>2. /\ IsInjective(queue[k])
        /\ Range(queue[k]) = {u \in Tasks : phase[u] = "queued" /\ LaneOf[u] = k}
    BY <1>0, <2>1 DEF QueuedOnce
  <2>3. q \in Seq(Tasks) /\ IsInjective(q) /\ Range(q) = Range(queue[k]) \cup {t}
    BY <2>1, <2>2, RangeAppend
  <2>4. p \in [Tasks -> Phases] /\ \A u \in Tasks : p[u] = IF u = t THEN "queued" ELSE phase[u]
    <3>1. "queued" \in Phases
      BY DEF Phases
    <3> QED BY <3>1, <1>0
  <2>5. t \notin stale
    BY <1>0, <2>1 DEF StaleHasStarted
  <2>6. Cardinality(a) <= MaxConcurrent[k]
        /\ \A u \in a : phase[u] = "running" /\ LaneOf[u] = k /\ u \notin stale
    BY <1>0, <2>1 DEF CountedAndBounded
  <2>7. \A u \in a : p[u] = "running" /\ LaneOf[u] = k /\ u \notin stale
    BY <2>1, <2>4, <2>6
  <2>8. \A u \in Tasks : p[u] = "running" /\ LaneOf[u] = k /\ u \notin stale => u \in a
    BY <1>0, <2>4 DEF CountedAndBounded
  <2>9. Range(q) = {u \in Tasks : p[u] = "queued" /\ LaneOf[u] = k}
    BY <2>2, <2>3, <2>4
  <2>10. \A u \in Tasks : LaneOf[u] # k => p[u] = phase[u]
    BY <2>4
  <2>11. \A u \in stale : p[u] \notin {"new", "queued"}
    BY <1>0, <2>4, <2>5 DEF StaleHasStarted
  <2>12. Pump(k, q, a, p) /\ stale' = stale /\ drain' = drain
    BY <1>1 DEF Enqueue
  <2> HIDE DEF k, q, a, p
  <2> QED BY <2>1, <2>3, <2>4, <2>6, <2>7, <2>8, <2>9, <2>10, <2>11, <2>12, PumpLane
<1>2. ASSUME NEW t \in Tasks, EnqueueRefused(t) PROVE TypeOK' /\ LanesInv'
  <2>1. /\ phase[t] = "new" /\ phase' = [phase EXCEPT ![t] = "rejected"]
        /\ UNCHANGED <<queue, active, stale, drain>>
    BY <1>2 DEF EnqueueRefused
  <2>2. \A u \in Tasks : phase'[u] = IF u = t THEN "rejected" ELSE phase[u]
    BY <2>1, <1>0
  <2>3. TypeOK'
    <3>1. "rejected" \in Phases
      BY DEF Phases, Settled
    <3> QED BY <3>1, <2>1, <1>0 DEF TypeOK
  <2>4. CountedAndBounded'
    <3>1. \A k \in Lanes : /\ Cardinality(active[k]) <= MaxConcurrent[k]
                           /\ \A u \in active[k] : /\ u \in Tasks /\ u # t
                                                   /\ phase[u] = "running" /\ LaneOf[u] = k /\ u \notin stale
      BY <1>0, <2>1 DEF CountedAndBounded
    <3>2. \A u \in Tasks : phase'[u] = "running" /\ u \notin stale => u \in active[LaneOf[u]]
      BY <1>0, <2>2 DEF CountedAndBounded
    <3> QED BY <3>1, <3>2, <2>1, <2>2 DEF CountedAndBounded
  <2>5. QueuedOnce'
    <3>1. \A k \in Lanes : {u \in Tasks : phase'[u] = "queued" /\ LaneOf[u] = k}
                             = {u \in Tasks : phase[u] = "queued" /\ LaneOf[u] = k}
      BY <2>1, <2>2
    <3> QED BY <3>1, <2>1, <1>0 DEF QueuedOnce
  <2>6. WorkConserving' /\ StaleHasStarted'
    BY <1>0, <2>1, <2>2 DEF WorkConserving, StaleHasStarted
  <2> QED BY <2>3, <2>4, <2>5, <2>6 DEF LanesInv
<1>3. ASSUME NEW t \in Tasks, NEW outcome \in Settled, Complete(t, outcome)
      PROVE  TypeOK' /\ LanesInv'
  <2> DEFINE k == LaneOf[t]
  <2> DEFINE q == queue[k]
  <2> DEFINE a == active[k] \ {t}
  <2> DEFINE p == [phase EXCEPT ![t] = outcome]
  <2>1. /\ k \in Lanes /\ q \in Seq(Tasks) /\ a \in SUBSET Tasks /\ phase[t] = "running"
        /\ active[k] \in SUBSET Tasks
    BY <1>0, <1>3, LaneOfTask DEF Complete
  <2>2. IsInjective(q) /\ Range(q) = {u \in Tasks : phase[u] = "queued" /\ LaneOf[u] = k}
    BY <1>0, <2>1 DEF QueuedOnce
  <2>3. outcome \notin {"new", "queued", "running"} /\ outcome \in Phases
    BY DEF Settled, Phases
  <2>4. p \in [Tasks -> Phases] /\ \A u \in Tasks : p[u] = IF u = t THEN outcome ELSE phase[u]
    BY <1>0, <2>3
  <2>5. Cardinality(active[k]) <= MaxConcurrent[k]
        /\ \A u \in active[k] : phase[u] = "running" /\ LaneOf[u] = k /\ u \notin stale
    BY <1>0, <2>1 DEF CountedAndBounded
  <2>6. Cardinality(a) <= MaxConcurrent[k]
    <3>1. IsFiniteSet(active[k])
      BY <2>1, TasksFinite, FS_Subset
    <3>2. IsFiniteSet(a) /\ Cardinality(a) <= Cardinality(active[k])
      BY <3>1, FS_Subset
    <3>3. Cardinality(a) \in Nat /\ Cardinality(active[k]) \in Nat /\ MaxConcurrent[k] \in Nat
      BY <3>1, <3>2, FS_CardinalityType, LimitsPositive, <2>1
    <3> QED BY <3>2, <3>3, <2>5
  <2>7. \A u \in a : p[u] = "running" /\ LaneOf[u] = k /\ u \notin stale
    BY <2>1, <2>4, <2>5
  <2>8. \A u \in Tasks : p[u] = "running" /\ LaneOf[u] = k /\ u \notin stale => u \in a
    BY <1>0, <2>3, <2>4 DEF CountedAndBounded
  <2>9. Range(q) = {u \in Tasks : p[u] = "queued" /\ LaneOf[u] = k}
    BY <2>1, <2>2, <2>3, <2>4
  <2>10. \A u \in Tasks : LaneOf[u] # k => p[u] = phase[u]
    BY <2>4
  <2>11. \A u \in stale : p[u] \notin {"new", "queued"}
    BY <1>0, <2>3, <2>4 DEF StaleHasStarted
  <2>12. Pump(k, q, a, p) /\ stale' = stale /\ drain' = drain
    BY <1>3 DEF Complete
  <2> HIDE DEF k, q, a, p
  <2> QED BY <2>1, <2>2, <2>4, <2>6, <2>7, <2>8, <2>9, <2>10, <2>11, <2>12, PumpLane
<1> QED BY <1>1, <1>2, <1>3 DEF LaneStep

\* resetAll() keeps the lanes sound and leaves them idle.
LEMMA ResetKeeps ==
  ASSUME TypeOK, LanesInv, ResetAll, drain' \in {"idle", "draining", "drained"}
  PROVE  TypeOK' /\ LanesInv' /\ IsIdle'
<1>0. /\ queue \in [Lanes -> Seq(Tasks)] /\ active \in [Lanes -> SUBSET Tasks]
      /\ phase \in [Tasks -> Phases] /\ stale \subseteq Tasks
      /\ CountedAndBounded /\ StaleHasStarted
  BY DEF TypeOK, LanesInv
<1>1. /\ \A k \in Lanes : queue'[k] = <<>> /\ active'[k] = {}
      /\ stale' = stale \cup {t \in Tasks : phase[t] = "running"}
      /\ \A t \in Tasks : phase'[t] = IF phase[t] = "queued" THEN "rejected" ELSE phase[t]
  BY <1>0 DEF ResetAll
<1>2. <<>> \in Seq(Tasks) /\ Range(<<>>) = {} /\ IsInjective(<<>>)
  <2>1. <<>> \in Seq(Tasks)
    OBVIOUS
  <2> QED BY <2>1, RangeEmpty
<1>3. TypeOK'
  <2>1. "rejected" \in Phases
    BY DEF Phases, Settled
  <2> QED BY <2>1, <1>0, <1>2 DEF TypeOK, ResetAll
<1>4. CountedAndBounded'
  <2>1. Cardinality({}) = 0
    BY FS_EmptySet
  <2>2. \A k \in Lanes : Cardinality(active'[k]) <= MaxConcurrent[k]
    <3>1. \A k \in Lanes : active'[k] = {}
      BY <1>1
    <3>2. \A k \in Lanes : 0 <= MaxConcurrent[k]
      BY LimitsPositive
    <3> QED BY <2>1, <3>1, <3>2
  <2>3. \A t \in Tasks : phase'[t] = "running" => t \in stale'
    BY <1>1
  <2> QED BY <1>1, <2>2, <2>3 DEF CountedAndBounded
<1>5. QueuedOnce'
  <2>1. \A t \in Tasks : phase'[t] # "queued"
    BY <1>1
  <2> QED BY <1>1, <1>2, <2>1 DEF QueuedOnce
<1>6. WorkConserving' /\ IsIdle'
  BY <1>1 DEF WorkConserving, IsIdle
<1>7. StaleHasStarted'
  BY <1>0, <1>1 DEF StaleHasStarted
<1> QED BY <1>3, <1>4, <1>5, <1>6, <1>7 DEF LanesInv

\* When no task is active nothing waits either, and nothing runs but what a
\* reset forgot: no pump was missed.
LEMMA IdleIsQuiet == TypeOK /\ LanesInv => IdleMeansQuiet
<1> SUFFICES ASSUME TypeOK, LanesInv, IsIdle, NEW t \in Tasks
             PROVE  phase[t] # "queued" /\ (phase[t] = "running" => t \in stale)
  BY DEF IdleMeansQuiet
<1>1. LaneOf[t] \in Lanes /\ active[LaneOf[t]] = {}
  BY LaneOfTask DEF IsIdle
<1>2. phase[t] = "running" => t \in stale
  BY <1>1 DEF LanesInv, CountedAndBounded
<1>3. queue[LaneOf[t]] = <<>>
  <2>1. Cardinality({}) = 0 /\ ~(0 >= MaxConcurrent[LaneOf[t]])
    BY <1>1, FS_EmptySet, LimitsPositive
  <2> QED BY <1>1, <2>1 DEF LanesInv, WorkConserving
<1>4. Range(queue[LaneOf[t]]) = {}
  <2>1. <<>> \in Seq(Tasks)
    OBVIOUS
  <2> QED BY <1>3, <2>1, RangeEmpty
<1>5. phase[t] # "queued"
  BY <1>1, <1>4 DEF LanesInv, QueuedOnce
<1> QED BY <1>2, <1>5

\* While the gate is closed idle lanes stay idle.
LEMMA IdleIsStable ==
  ASSUME TypeOK, LanesInv, LaneStep, IsIdle, drain # "idle"
  PROVE  IsIdle'
<1>1. ASSUME NEW t \in Tasks, NEW outcome \in Settled, Complete(t, outcome)
      PROVE  IsIdle'
  <2> DEFINE k == LaneOf[t]
  <2> DEFINE p == [phase EXCEPT ![t] = outcome]
  <2>1. k \in Lanes /\ active[k] = {} /\ queue[k] \in Seq(Tasks)
    BY LaneOfTask DEF IsIdle, TypeOK
  <2>2. Cardinality({}) = 0 /\ ~(0 >= MaxConcurrent[k]) /\ 0 <= MaxConcurrent[k]
    BY <2>1, FS_EmptySet, LimitsPositive
  <2>3. queue[k] = <<>>
    BY <2>1, <2>2 DEF LanesInv, WorkConserving
  <2>4. <<>> \in Seq(Tasks) /\ Range(<<>>) = {} /\ IsInjective(<<>>)
    <3>1. <<>> \in Seq(Tasks)
      OBVIOUS
    <3> QED BY <3>1, RangeEmpty
  <2>5. p \in [Tasks -> Phases]
    <3>1. outcome \in Phases /\ phase \in [Tasks -> Phases]
      BY DEF TypeOK, Phases
    <3> QED BY <3>1
  <2>6. Pump(k, <<>>, {}, p)
    <3>1. active[k] \ {t} = {}
      BY <2>1
    <3> QED BY <1>1, <2>3, <3>1 DEF Complete
  <2> HIDE DEF k, p
  <2>7. PICK rest \in Seq(Tasks), shifted \in SUBSET Tasks : Pumped(k, <<>>, {}, p, rest, shifted)
    BY <2>1, <2>2, <2>4, <2>5, <2>6, PumpKeeps
  <2>8. shifted = {} /\ active' = [active EXCEPT ![k] = {} \cup shifted]
    BY <2>4, <2>7 DEF Pumped
  <2> QED BY <2>1, <2>8 DEF IsIdle, TypeOK
<1>2. ASSUME NEW t \in Tasks, EnqueueRefused(t) PROVE IsIdle'
  BY <1>2 DEF EnqueueRefused, IsIdle
<1> QED BY <1>1, <1>2 DEF LaneStep, Enqueue

\* A task that ends makes room for what waits, never for what was not offered.
LEMMA CompleteStartsQueued ==
  ASSUME TypeOK, LanesInv, NEW t \in Tasks, NEW outcome \in Settled, Complete(t, outcome),
         NEW u \in Tasks, phase[u] = "new"
  PROVE  phase'[u] = "new"
<1> DEFINE k == LaneOf[t]
<1> DEFINE q == queue[k]
<1> DEFINE a == active[k] \ {t}
<1> DEFINE p == [phase EXCEPT ![t] = outcome]
<1>1. k \in Lanes /\ q \in Seq(Tasks) /\ active[k] \in SUBSET Tasks /\ phase[t] = "running"
  BY LaneOfTask DEF TypeOK, Complete
<1>2. IsInjective(q) /\ Range(q) = {v \in Tasks : phase[v] = "queued" /\ LaneOf[v] = k}
  BY <1>1 DEF LanesInv, QueuedOnce
<1>3. Cardinality(active[k]) <= MaxConcurrent[k] /\ \A v \in active[k] : phase[v] = "running"
  BY <1>1 DEF LanesInv, CountedAndBounded
<1>4. Cardinality(a) <= MaxConcurrent[k]
  <2>1. IsFiniteSet(active[k])
    BY <1>1, TasksFinite, FS_Subset
  <2>2. IsFiniteSet(a) /\ Cardinality(a) <= Cardinality(active[k])
    BY <2>1, FS_Subset
  <2>3. Cardinality(a) \in Nat /\ Cardinality(active[k]) \in Nat /\ MaxConcurrent[k] \in Nat
    BY <2>1, <2>2, FS_CardinalityType, LimitsPositive, <1>1
  <2> QED BY <2>2, <2>3, <1>3
<1>5. p \in [Tasks -> Phases] /\ p[u] = "new"
  BY <1>1 DEF TypeOK, Settled, Phases
<1>6. Range(q) \cap a = {} /\ a \in SUBSET Tasks
  BY <1>1, <1>2, <1>3
<1>7. Pump(k, q, a, p)
  BY DEF Complete
<1> HIDE DEF k, q, a, p
<1>8. PICK rest \in Seq(Tasks), shifted \in SUBSET Tasks : Pumped(k, q, a, p, rest, shifted)
  BY <1>1, <1>2, <1>4, <1>5, <1>6, <1>7, PumpKeeps
<1>9. u \notin shifted /\ phase'[u] = IF u \in shifted THEN "running" ELSE p[u]
  BY <1>2, <1>8 DEF Pumped
<1> QED BY <1>5, <1>9

-----------------------------------------------------------------------------
(* The daemon *)

\* Where the handler stands in each state of the daemon, and what holds there.
PlacesInv ==
  /\ daemon = "stopped" => at = "rest" /\ ~signals
  /\ daemon = "starting" => at \in {"lock", "recover"} /\ drain = "idle"
  /\ daemon = "running" => at = "rest" /\ drain = "idle" /\ signals /\ lockFile = "own"
  /\ daemon = "draining" => at \in {"waitShutdown", "release"} /\ lockFile = "own"
  /\ daemon = "restarting" =>
       at \in {"waitRestart", "reacquire", "rest"} /\ lockFile = "own" /\ signals
  /\ proc = "booting" => daemon \in {"stopped", "starting"} /\ drain = "idle"
  /\ proc = "booting" /\ daemon = "stopped" => lockFile # "own"
  /\ daemon \in {"draining", "restarting"} => drain # "idle"
  /\ at = "lock" => lockFile # "own" /\ ~signals
  /\ at = "recover" => lockFile = "own" /\ signals
  /\ at = "release" => ~signals
  /\ at \in {"waitShutdown", "waitRestart"} => drain # "idle"
  /\ at \in {"release", "reacquire"} => drain = "drained"
  /\ at = "release" /\ ~timedOut => IsIdle
  /\ at = "reacquire" => IsIdle

DaemonInv == DaemonTypeOK /\ LanesInv /\ PlacesInv

\* The initial states satisfy the invariant.
LEMMA DaemonInit == Init => DaemonInv
<1> SUFFICES ASSUME Init PROVE DaemonInv
  OBVIOUS
<1>1. <<>> \in Seq(Tasks) /\ Range(<<>>) = {} /\ IsInjective(<<>>)
  <2>1. <<>> \in Seq(Tasks)
    OBVIOUS
  <2> QED BY <2>1, RangeEmpty
<1>2. DaemonTypeOK
  BY <1>1 DEF Init, LanesInit, DaemonTypeOK, TypeOK, Phases
<1>3. Cardinality({}) = 0
  BY FS_EmptySet
<1>4. CountedAndBounded
  BY <1>3, LimitsPositive DEF Init, LanesInit, CountedAndBounded
<1>5. QueuedOnce /\ WorkConserving /\ StaleHasStarted
  BY <1>1 DEF Init, LanesInit, QueuedOnce, WorkConserving, StaleHasStarted
<1>6. PlacesInv
  BY DEF Init, LanesInit, PlacesInv
<1> QED BY <1>2, <1>4, <1>5, <1>6 DEF DaemonInv, LanesInv

\* A step that leaves the lanes alone keeps them sound and as idle as they were.
LEMMA LanesUntouched ==
  UNCHANGED laneVars => LanesInv' = LanesInv /\ IsIdle' = IsIdle
BY DEF laneVars, LanesInv, CountedAndBounded, QueuedOnce, WorkConserving,
       StaleHasStarted, IsIdle

\* Every step of the daemon and its surroundings keeps the invariant.
LEMMA DaemonStep == DaemonInv /\ [Next]_vars => DaemonInv'
<1> SUFFICES ASSUME DaemonInv, [Next]_vars PROVE DaemonInv'
  OBVIOUS
<1> USE DEF DaemonInv
\* Steps that leave the lanes alone.
<1>1. ASSUME UNCHANGED laneVars, DaemonTypeOK', PlacesInv' PROVE DaemonInv'
  BY <1>1, LanesUntouched
<1>2. CASE Start \/ LockAcquired \/ LockRefused
  <2>1. UNCHANGED laneVars /\ IsIdle' = IsIdle
    BY <1>2, LanesUntouched DEF Start, LockAcquired, LockRefused
  <2>2. DaemonTypeOK'
    BY <1>2, <2>1 DEF Start, LockAcquired, LockRefused, DaemonTypeOK, TypeOK, laneVars
  <2>3. PlacesInv'
    BY <1>2, <2>1 DEF Start, LockAcquired, LockRefused, DaemonTypeOK, PlacesInv, Alive
  <2> QED BY <1>1, <2>1, <2>2, <2>3
<1>3. CASE Started \/ StartFailed \/ Serve \/ Exit \/ Killed
  <2>1. UNCHANGED laneVars /\ IsIdle' = IsIdle
    BY <1>3, LanesUntouched DEF Started, StartFailed, Serve, Exit, Killed
  <2>2. DaemonTypeOK'
    BY <1>3, <2>1 DEF Started, StartFailed, Serve, Exit, Killed, DaemonTypeOK, TypeOK, laneVars
  <2>3. PlacesInv'
    BY <1>3, <2>1 DEF Started, StartFailed, Serve, Exit, Killed, DaemonTypeOK, PlacesInv, Alive
  <2> QED BY <1>1, <2>1, <2>2, <2>3
<1>4. CASE Terminate \/ Restart
  <2>1. UNCHANGED laneVars /\ IsIdle' = IsIdle
    BY <1>4, LanesUntouched DEF Terminate, Restart
  <2>2. DaemonTypeOK'
    BY <1>4, <2>1 DEF Terminate, Restart, BeginShutdown, EnterDrain, DaemonTypeOK, TypeOK, laneVars
  <2>3. PlacesInv'
    BY <1>4, <2>1 DEF Terminate, Restart, BeginShutdown, EnterDrain, DaemonTypeOK, PlacesInv,
                      Alive, AppIsUp
  <2> QED BY <1>1, <2>1, <2>2, <2>3
<1>5. CASE ShutdownDrained \/ Released
  <2>1. UNCHANGED laneVars /\ IsIdle' = IsIdle
    BY <1>5, LanesUntouched DEF ShutdownDrained, Released
  <2>2. DaemonTypeOK'
    BY <1>5, <2>1 DEF ShutdownDrained, Released, WaitOver, DaemonTypeOK, TypeOK, laneVars
  <2>3. PlacesInv'
    BY <1>5, <2>1 DEF ShutdownDrained, Released, WaitOver, DaemonTypeOK, PlacesInv, Alive
  <2> QED BY <1>1, <2>1, <2>2, <2>3
<1>6. CASE Reacquired \/ ReacquireFailed
  <2>1. UNCHANGED laneVars /\ IsIdle' = IsIdle
    BY <1>6, LanesUntouched DEF Reacquired, ReacquireFailed
  <2>2. DaemonTypeOK'
    BY <1>6, <2>1 DEF Reacquired, ReacquireFailed, DaemonTypeOK, TypeOK, laneVars
  <2>3. PlacesInv'
    BY <1>6, <2>1 DEF Reacquired, ReacquireFailed, DaemonTypeOK, PlacesInv, Alive
  <2> QED BY <1>1, <2>1, <2>2, <2>3
<1>7. CASE OtherProcess
  <2>1. UNCHANGED laneVars /\ IsIdle' = IsIdle
    BY <1>7, LanesUntouched DEF OtherProcess
  <2>2. DaemonTypeOK'
    BY <1>7, <2>1 DEF OtherProcess, DaemonTypeOK, TypeOK, laneVars
  <2>3. PlacesInv'
    BY <1>7, <2>1 DEF OtherProcess, DaemonTypeOK, PlacesInv
  <2> QED BY <1>1, <2>1, <2>2, <2>3
<1>8. CASE \E t \in Tasks : Fallback(t)
  <2>1. UNCHANGED laneVars /\ IsIdle' = IsIdle
    BY <1>8, LanesUntouched DEF Fallback
  <2>2. UNCHANGED <<drain, daemon, at, proc, lockFile, signals, timedOut>>
    BY <1>8 DEF Fallback, lifeVars
  <2>3. direct' \subseteq Tasks
    BY <1>8 DEF Fallback, DaemonTypeOK
  <2>4. DaemonTypeOK'
    BY <2>1, <2>2, <2>3 DEF DaemonTypeOK, TypeOK, laneVars
  <2>5. PlacesInv'
    BY <2>1, <2>2 DEF PlacesInv
  <2> QED BY <1>1, <2>1, <2>4, <2>5
<1>9. CASE UNCHANGED vars
  <2>1. UNCHANGED laneVars /\ IsIdle' = IsIdle
    BY <1>9, LanesUntouched DEF vars
  <2>2. DaemonTypeOK' /\ PlacesInv'
    BY <1>9, <2>1 DEF vars, lifeVars, DaemonTypeOK, TypeOK, laneVars, PlacesInv
  <2> QED BY <1>1, <2>1, <2>2
\* Steps of the lanes.
<1>10. CASE Resume
  <2>1. LaneStep /\ UNCHANGED <<drain, daemon, at, proc, lockFile, signals, timedOut, direct>>
    BY <1>10 DEF Resume, lifeVars, LaneStep, Enqueue, EnqueueRefused, Complete
  <2>2. TypeOK' /\ LanesInv'
    BY <2>1, LaneStepKeeps DEF DaemonTypeOK
  <2>3. DaemonTypeOK'
    BY <2>1, <2>2 DEF DaemonTypeOK
  <2>4. IsIdle /\ drain # "idle" => IsIdle'
    BY <2>1, IdleIsStable DEF DaemonTypeOK
  <2>5. PlacesInv'
    BY <2>1, <2>4 DEF PlacesInv
  <2> QED BY <2>2, <2>3, <2>5
<1>11. CASE RestartDrained
  <2>1. /\ ResetAll /\ drain' = "drained" /\ at = "waitRestart" /\ at' = "reacquire"
        /\ UNCHANGED <<daemon, proc, lockFile, signals, direct>>
    BY <1>11 DEF RestartDrained
  <2>2. TypeOK' /\ LanesInv' /\ IsIdle'
    BY <2>1, ResetKeeps DEF DaemonTypeOK
  <2>3. timedOut' \in BOOLEAN
    BY <1>11 DEF RestartDrained, WaitOver
  <2>4. DaemonTypeOK'
    BY <2>1, <2>2, <2>3 DEF DaemonTypeOK
  <2>5. PlacesInv'
    BY <2>1, <2>2 DEF PlacesInv, DaemonTypeOK
  <2> QED BY <2>2, <2>4, <2>5
<1> QED
  BY <1>2, <1>3, <1>4, <1>5, <1>6, <1>7, <1>8, <1>9, <1>10, <1>11 DEF Next, Handler

\* The invariant holds in every behaviour.
THEOREM DaemonCorrect == Spec => []DaemonInv
<1> QED BY DaemonInit, DaemonStep, PTL DEF Spec

\* The command lanes (daemon/lanes.ts) are sound through every drain, reset and
\* restart: within their limits, each entry queued once, no free place beside a
\* waiting entry.
THEOREM LanesAreSound == Spec => []LanesInv
<1> QED BY DaemonCorrect, PTL DEF DaemonInv

\* isIdle() means quiet: what Drain.waitFor() is told is what it needs to know.
THEOREM IdlePollIsSound == Spec => []IdleMeansQuiet
<1>1. DaemonInv => IdleMeansQuiet
  BY IdleIsQuiet DEF DaemonInv, DaemonTypeOK
<1> QED BY <1>1, DaemonCorrect, PTL

\* A drain (daemon/drain.ts) that did not time out left nothing in the lanes.
THEOREM DrainIsComplete == Spec => []DrainedIsQuiet
<1>1. DaemonInv => DrainedIsQuiet
  BY IdleIsQuiet DEF DaemonInv, DaemonTypeOK, PlacesInv, DrainedIsQuiet, IdleMeansQuiet
<1> QED BY <1>1, DaemonCorrect, PTL

\* A running daemon (daemon/index.ts) holds its lock, hears its signals and
\* lets work in.
THEOREM RunningDaemonWorks == Spec => []RunningIsOperational
<1>1. DaemonInv => RunningIsOperational
  BY DEF DaemonInv, PlacesInv, RunningIsOperational
<1> QED BY <1>1, DaemonCorrect, PTL

\* While the daemon drains or restarts nothing that is new gets into a lane: what
\* its wait is for only becomes less.
THEOREM NothingEntersADrain == Spec => GateIsClosed
<1>1. ASSUME DaemonInv, [Next]_vars, NEW t \in Tasks, daemon \in {"draining", "restarting"},
             daemon' = daemon, phase[t] = "new"
      PROVE  phase'[t] \in {"new", "rejected"}
  <2>1. TypeOK /\ LanesInv /\ drain # "idle"
    BY <1>1 DEF DaemonInv, DaemonTypeOK, PlacesInv
  <2>2. CASE Resume
    <3>1. ASSUME NEW u \in Tasks, EnqueueRefused(u) PROVE phase'[t] \in {"new", "rejected"}
      BY <1>1, <2>1, <3>1 DEF EnqueueRefused, TypeOK
    <3>2. ASSUME NEW u \in Tasks, NEW outcome \in Settled, Complete(u, outcome) PROVE phase'[t] = "new"
      BY <1>1, <2>1, <3>2, CompleteStartsQueued
    <3> QED BY <2>1, <2>2, <3>1, <3>2 DEF Resume, LaneStep, Enqueue
  <2>3. CASE RestartDrained
    BY <1>1, <2>3 DEF RestartDrained, ResetAll
  <2>4. CASE ~Resume /\ ~RestartDrained
    <3>1. phase' = phase
      BY <1>1, <2>4 DEF Next, Handler, Start, LockAcquired, LockRefused, Started, StartFailed, Serve,
            ShutdownDrained, Released, Exit, Reacquired, ReacquireFailed, Terminate, Killed, Restart,
            Fallback, OtherProcess, vars, laneVars
    <3> QED BY <1>1, <3>1
  <2> QED BY <2>2, <2>3, <2>4
<1>2. DaemonInv /\ [Next]_vars =>
        \A t \in Tasks :
          daemon \in {"draining", "restarting"} /\ daemon' = daemon /\ phase[t] = "new"
            => phase'[t] \in {"new", "rejected"}
  BY <1>1
<1> QED BY <1>2, DaemonCorrect, PTL DEF Spec, GateIsClosed

-----------------------------------------------------------------------------
(* What the lanes promise *)

\* Which part of a queue a pump leaves: all of it when there is no room, all but
\* its head when there is room for one.
LEMMA QueueParts ==
  ASSUME NEW S, NEW q \in Seq(S)
  PROVE  /\ SubSeq(q, 1, Len(q)) = q /\ Range(SubSeq(q, 1, 0)) = {}
         /\ q # <<>> => /\ Range(SubSeq(q, 1, 1)) = {Head(q)}
                        /\ SubSeq(q, 2, Len(q)) = Tail(q)
<1>1. Len(q) \in Nat /\ DOMAIN q = 1 .. Len(q) /\ q \in [1 .. Len(q) -> S]
  BY LenProperties
<1>2. SubSeq(q, 1, Len(q)) = q
  BY <1>1
<1>3. Range(SubSeq(q, 1, 0)) = {}
  <2>1. SubSeq(q, 1, 0) = <<>> /\ <<>> \in Seq(S)
    OBVIOUS
  <2> QED BY <2>1, RangeEmpty
<1>4. ASSUME q # <<>> PROVE Range(SubSeq(q, 1, 1)) = {Head(q)}
  <2>1. Len(q) >= 1
    BY <1>1, <1>4, EmptySeq
  <2>2. DOMAIN SubSeq(q, 1, 1) = {1} /\ SubSeq(q, 1, 1)[1] = Head(q)
    BY <1>1, <2>1
  <2> QED BY <2>2 DEF Range
<1>5. ASSUME q # <<>> PROVE SubSeq(q, 2, Len(q)) = Tail(q)
  BY <1>1, <1>5, EmptySeq
<1> QED BY <1>2, <1>3, <1>4, <1>5

\* A pump without room changes nothing but what it is given.
LEMMA PumpNothing ==
  ASSUME NEW k \in Lanes, NEW q \in Seq(Tasks), NEW a, NEW p \in [Tasks -> Phases],
         Room(k, q, a) = 0, Pump(k, q, a, p)
  PROVE  queue' = [queue EXCEPT ![k] = q] /\ phase' = p
<1>1. SubSeq(q, 0 + 1, Len(q)) = q /\ Range(SubSeq(q, 1, 0)) = {}
  BY QueueParts
<1>2. queue' = [queue EXCEPT ![k] = q]
  BY <1>1 DEF Pump
<1>3. phase' = [t \in Tasks |-> p[t]]
  BY <1>1 DEF Pump
<1> QED BY <1>2, <1>3

\* A pump with room for one starts whoever has waited longest.
LEMMA PumpHead ==
  ASSUME NEW k \in Lanes, NEW q \in Seq(Tasks), NEW a, NEW p \in [Tasks -> Phases],
         q # <<>>, Room(k, q, a) = 1, Pump(k, q, a, p)
  PROVE  /\ queue' = [queue EXCEPT ![k] = Tail(q)]
         /\ phase' = [t \in Tasks |-> IF t = Head(q) THEN "running" ELSE p[t]]
<1>1. SubSeq(q, 1 + 1, Len(q)) = Tail(q) /\ Range(SubSeq(q, 1, 1)) = {Head(q)}
  BY QueueParts
<1>2. queue' = [queue EXCEPT ![k] = Tail(q)]
  BY <1>1 DEF Pump
<1>3. phase' = [t \in Tasks |-> IF t \in {Head(q)} THEN "running" ELSE p[t]]
  BY <1>1 DEF Pump
<1> QED BY <1>2, <1>3

\* How many entries a pump has room for.
LEMMA Rooms ==
  ASSUME NEW k \in Lanes, NEW q \in Seq(Tasks), NEW a, Cardinality(a) \in Nat
  PROVE  /\ Cardinality(a) = MaxConcurrent[k] => Room(k, q, a) = 0
         /\ q = <<>> /\ Cardinality(a) <= MaxConcurrent[k] => Room(k, q, a) = 0
         /\ q # <<>> /\ Cardinality(a) + 1 = MaxConcurrent[k] => Room(k, q, a) = 1
         /\ Len(q) = 1 /\ Cardinality(a) < MaxConcurrent[k] => Room(k, q, a) = 1
<1>1. MaxConcurrent[k] \in Nat /\ Len(q) \in Nat
  BY LimitsPositive, LenProperties
<1>2. (q = <<>> => Len(q) = 0) /\ (q # <<>> => Len(q) >= 1)
  BY <1>1, EmptySeq
<1>3. Cardinality(a) = MaxConcurrent[k] => Room(k, q, a) = 0
  BY <1>1 DEF Room
<1>4. q = <<>> /\ Cardinality(a) <= MaxConcurrent[k] => Room(k, q, a) = 0
  BY <1>1, <1>2 DEF Room
<1>5. ASSUME q # <<>>, Cardinality(a) + 1 = MaxConcurrent[k] PROVE Room(k, q, a) = 1
  <2>1. MaxConcurrent[k] - Cardinality(a) = 1
    BY <1>1, <1>5
  <2>2. Room(k, q, a) = IF 1 < Len(q) THEN 1 ELSE Len(q)
    BY <2>1 DEF Room
  <2>3. \A n \in Nat : n >= 1 => (IF 1 < n THEN 1 ELSE n) = 1
    OBVIOUS
  <2>4. Len(q) \in Nat /\ Len(q) >= 1
    BY <1>1, <1>2, <1>5
  <2> QED BY <2>2, <2>3, <2>4
<1>6. Len(q) = 1 /\ Cardinality(a) < MaxConcurrent[k] => Room(k, q, a) = 1
  BY <1>1 DEF Room
<1> QED BY <1>3, <1>4, <1>5, <1>6

\* What the abstract lane counts is what the active set holds; behind a waiting
\* entry the lane is full.
LEMMA LanePlaces ==
  ASSUME TypeOK, LanesInv, NEW k \in Lanes
  PROVE  /\ Service!RunningIn(k) = active[k]
         /\ Cardinality(active[k]) \in Nat /\ MaxConcurrent[k] \in Nat
         /\ Cardinality(active[k]) <= MaxConcurrent[k]
         /\ Service!IsFull(k) <=> Cardinality(active[k]) = MaxConcurrent[k]
         /\ queue[k] # <<>> => Cardinality(active[k]) = MaxConcurrent[k]
<1>1. active[k] \in SUBSET Tasks
  BY DEF TypeOK
<1>2. Service!RunningIn(k) = active[k]
  <2>1. \A t \in Tasks : ServiceState[t] = "running" <=> phase[t] = "running" /\ t \notin stale
    BY DEF ServiceState
  <2>2. \A t \in active[k] : phase[t] = "running" /\ LaneOf[t] = k /\ t \notin stale
    BY DEF LanesInv, CountedAndBounded
  <2>3. \A t \in Tasks : phase[t] = "running" /\ t \notin stale => t \in active[LaneOf[t]]
    BY DEF LanesInv, CountedAndBounded
  <2> QED BY <1>1, <2>1, <2>2, <2>3 DEF Service!RunningIn
<1>3. Cardinality(active[k]) \in Nat /\ MaxConcurrent[k] \in Nat
  BY <1>1, TasksFinite, FS_Subset, FS_CardinalityType, LimitsPositive
<1>4. Cardinality(active[k]) <= MaxConcurrent[k]
  BY DEF LanesInv, CountedAndBounded
<1>5. Service!IsFull(k) <=> Cardinality(active[k]) >= MaxConcurrent[k]
  <2>1. Service!IsFull(k) <=> Cardinality(Service!RunningIn(k)) >= MaxConcurrent[k]
    BY DEF Service!IsFull, Service!Cardinality, Cardinality
  <2> QED BY <2>1, <1>2
<1>6. queue[k] # <<>> => Cardinality(active[k]) >= MaxConcurrent[k]
  BY DEF LanesInv, WorkConserving
<1> QED BY <1>2, <1>3, <1>4, <1>5, <1>6

\* enqueue() starts the task or lets it wait behind a full lane.
LEMMA EnqueueIsService ==
  ASSUME TypeOK, LanesInv, NEW t \in Tasks, Enqueue(t)
  PROVE  Service!Start(t) \/ Service!Wait(t)
<1> DEFINE k == LaneOf[t]
<1> DEFINE q == Append(queue[k], t)
<1> DEFINE a == active[k]
<1> DEFINE p == [phase EXCEPT ![t] = "queued"]
<1>1. /\ k \in Lanes /\ queue[k] \in Seq(Tasks) /\ queue \in [Lanes -> Seq(Tasks)]
      /\ phase \in [Tasks -> Phases] /\ phase[t] = "new" /\ drain = "idle"
  BY LaneOfTask DEF TypeOK, Enqueue
<1>2. t \notin stale
  BY <1>1 DEF LanesInv, StaleHasStarted
<1>3. p \in [Tasks -> Phases] /\ p[t] = "queued" /\ \A u \in Tasks : u # t => p[u] = phase[u]
  <2>1. "queued" \in Phases
    BY DEF Phases
  <2> QED BY <2>1, <1>1
<1>4. Pump(k, q, a, p) /\ UNCHANGED <<stale, drain>>
  BY DEF Enqueue
<1>5. /\ q \in Seq(Tasks) /\ q # <<>> /\ Len(q) = Len(queue[k]) + 1
      /\ queue[k] = <<>> => Head(q) = t /\ Tail(q) = <<>> /\ Len(q) = 1
  BY <1>1, AppendProperties
<1>6. ServiceState[t] = "new" /\ (drain = "idle") /\ (drain = "idle")' = (drain = "idle")
  BY <1>1, <1>4 DEF ServiceState
<1>7. CASE Service!IsFull(k)
  <2>1. Room(k, q, a) = 0
    BY <1>1, <1>5, <1>7, LanePlaces, Rooms
  <2>2. queue' = [queue EXCEPT ![k] = q] /\ phase' = p
    <3> HIDE DEF k, q, a, p
    <3> QED BY <1>1, <1>3, <1>4, <1>5, <2>1, PumpNothing
  <2>3. ServiceState' = [ServiceState EXCEPT ![t] = "waiting"]
    BY <1>1, <1>2, <1>3, <1>4, <2>2 DEF ServiceState
  <2>4. queue' = [queue EXCEPT ![k] = Append(@, t)]
    BY <2>2
  <2> QED BY <1>6, <1>7, <2>3, <2>4 DEF Service!Wait
<1>8. CASE ~Service!IsFull(k)
  <2>1. queue[k] = <<>> /\ Cardinality(a) < MaxConcurrent[k]
    BY <1>1, <1>8, LanePlaces
  <2>2. Room(k, q, a) = 1 /\ Head(q) = t /\ Tail(q) = <<>>
    BY <1>1, <1>5, <2>1, LanePlaces, Rooms
  <2>3. /\ queue' = [queue EXCEPT ![k] = Tail(q)]
        /\ phase' = [u \in Tasks |-> IF u = Head(q) THEN "running" ELSE p[u]]
    <3> HIDE DEF k, q, a, p
    <3> QED BY <1>1, <1>3, <1>4, <1>5, <2>2, PumpHead
  <2>4. queue' = queue
    BY <1>1, <2>1, <2>2, <2>3
  <2>5. \A u \in Tasks : phase'[u] = IF u = t THEN "running" ELSE phase[u]
    BY <1>3, <2>2, <2>3
  <2>6. ServiceState' = [ServiceState EXCEPT ![t] = "running"]
    BY <1>2, <1>4, <2>5 DEF ServiceState
  <2> QED BY <1>6, <1>8, <2>4, <2>6 DEF Service!Start
<1> QED BY <1>7, <1>8

\* The end of a task is the end of its promise: the lane starts whoever has waited
\* longest in its place, and nobody in the place of a forgotten one.
LEMMA CompleteIsService ==
  ASSUME TypeOK, LanesInv, NEW t \in Tasks, NEW outcome \in Settled, Complete(t, outcome)
  PROVE  Service!End(t, outcome) \/ Service!HandOver(t, outcome) \/ Service!EndForgotten(t)
<1> DEFINE k == LaneOf[t]
<1> DEFINE q == queue[k]
<1> DEFINE a == active[k] \ {t}
<1> DEFINE p == [phase EXCEPT ![t] = outcome]
<1>1. /\ k \in Lanes /\ q \in Seq(Tasks) /\ queue \in [Lanes -> Seq(Tasks)]
      /\ active[k] \in SUBSET Tasks /\ phase \in [Tasks -> Phases] /\ phase[t] = "running"
  BY LaneOfTask DEF TypeOK, Complete
<1>2. /\ outcome \in Phases /\ outcome \notin {"new", "queued", "running"}
      /\ t \in stale => outcome = "rejected"
  BY DEF Settled, Phases, Complete
<1>3. p \in [Tasks -> Phases] /\ p[t] = outcome /\ \A u \in Tasks : u # t => p[u] = phase[u]
  BY <1>1, <1>2
<1>4. Pump(k, q, a, p) /\ UNCHANGED <<stale, drain>>
  BY DEF Complete
<1>5. /\ Cardinality(active[k]) \in Nat /\ MaxConcurrent[k] \in Nat
      /\ Cardinality(active[k]) <= MaxConcurrent[k]
      /\ q # <<>> => Cardinality(active[k]) = MaxConcurrent[k]
  BY <1>1, LanePlaces
<1>6. t \in active[k] <=> t \notin stale
  BY <1>1 DEF LanesInv, CountedAndBounded
<1>7. IsFiniteSet(active[k])
  BY <1>1, TasksFinite, FS_Subset
<1>8. ASSUME Room(k, q, a) = 0
      PROVE  queue' = queue /\ ServiceState' = [ServiceState EXCEPT ![t] = outcome]
  <2>1. queue' = [queue EXCEPT ![k] = q] /\ phase' = p
    <3> HIDE DEF k, q, a, p
    <3> QED BY <1>1, <1>3, <1>4, <1>8, PumpNothing
  <2>2. queue' = queue
    BY <1>1, <2>1
  <2>3. ServiceState' = [ServiceState EXCEPT ![t] = outcome]
    BY <1>2, <1>3, <1>4, <2>1 DEF ServiceState
  <2> QED BY <2>2, <2>3
<1>9. (drain = "idle")' = (drain = "idle")
  BY <1>4
<1>10. CASE t \in stale
  <2>1. a = active[k]
    BY <1>6, <1>10
  <2>2. Room(k, q, a) = 0
    BY <1>1, <1>5, <2>1, Rooms
  <2>3. ServiceState[t] = "forgotten" /\ outcome = "rejected"
    BY <1>1, <1>2, <1>10 DEF ServiceState
  <2> QED BY <1>8, <1>9, <2>2, <2>3 DEF Service!EndForgotten
<1>11. CASE t \notin stale
  <2>1. ServiceState[t] = "running"
    BY <1>1, <1>11 DEF ServiceState
  <2>2. Cardinality(a) \in Nat /\ Cardinality(a) + 1 = Cardinality(active[k])
    <3>1. IsFiniteSet(a) /\ Cardinality(a) = Cardinality(active[k]) - 1
      BY <1>6, <1>7, <1>11, FS_RemoveElement
    <3>2. Cardinality(a) \in Nat
      BY <3>1, FS_CardinalityType
    <3> QED BY <3>1, <3>2, <1>5
  <2>3. CASE q = <<>>
    <3>1. Cardinality(a) <= MaxConcurrent[k]
      BY <1>5, <2>2
    <3>2. Room(k, q, a) = 0
      BY <1>1, <2>2, <2>3, <3>1, Rooms
    <3> QED BY <1>8, <1>9, <2>1, <2>3, <3>2 DEF Service!End
  <2>4. CASE q # <<>>
    <3> DEFINE h == Head(q)
    <3>1. Room(k, q, a) = 1
      BY <1>1, <1>5, <2>2, <2>4, Rooms
    <3>2. /\ queue' = [queue EXCEPT ![k] = Tail(q)]
          /\ phase' = [u \in Tasks |-> IF u = h THEN "running" ELSE p[u]]
      <4> HIDE DEF k, q, a, p
      <4> QED BY <1>1, <1>3, <1>4, <2>4, <3>1, PumpHead
    <3>3. h \in Tasks /\ phase[h] = "queued"
      <4>1. h \in Range(q)
        BY <1>1, <2>4, RangeEmpty
      <4>2. Range(q) = {u \in Tasks : phase[u] = "queued" /\ LaneOf[u] = k}
        BY <1>1 DEF LanesInv, QueuedOnce
      <4> QED BY <4>1, <4>2
    <3>4. h # t /\ h \notin stale
      BY <1>1, <3>3 DEF LanesInv, StaleHasStarted
    <3>5. \A u \in Tasks : phase'[u] = IF u = h THEN "running" ELSE IF u = t THEN outcome ELSE phase[u]
      BY <1>3, <3>2
    <3>6. \A u \in Tasks : ServiceState'[u] = IF u = h THEN "running"
                                              ELSE IF u = t THEN outcome ELSE ServiceState[u]
      BY <1>2, <1>4, <3>4, <3>5 DEF ServiceState
    <3>7. ServiceState' = [ServiceState EXCEPT ![t] = outcome, ![h] = "running"]
      BY <3>4, <3>6 DEF ServiceState
    <3>8. queue' = [queue EXCEPT ![k] = Tail(@)]
      BY <3>2
    <3> QED BY <1>9, <2>1, <2>4, <3>7, <3>8 DEF Service!HandOver
  <2> QED BY <2>3, <2>4
<1> QED BY <1>10, <1>11

\* Every step of the lanes is a step of the service.
LEMMA LaneStepIsService ==
  ASSUME TypeOK, LanesInv, LaneStep
  PROVE  Service!Next
<1>1. ASSUME NEW t \in Tasks, Enqueue(t) PROVE Service!Next
  BY <1>1, EnqueueIsService DEF Service!Next
<1>2. ASSUME NEW t \in Tasks, EnqueueRefused(t) PROVE Service!Next
  <2>1. /\ phase[t] = "new" /\ phase' = [phase EXCEPT ![t] = "rejected"] /\ drain # "idle"
        /\ UNCHANGED <<queue, stale, drain>> /\ phase \in [Tasks -> Phases]
    BY <1>2 DEF EnqueueRefused, TypeOK
  <2>2. ServiceState[t] = "new" /\ ServiceState' = [ServiceState EXCEPT ![t] = "rejected"]
    BY <2>1 DEF ServiceState
  <2>3. Service!Refuse(t)
    BY <2>1, <2>2 DEF Service!Refuse
  <2> QED BY <2>3 DEF Service!Next
<1>3. ASSUME NEW t \in Tasks, NEW outcome \in Settled, Complete(t, outcome) PROVE Service!Next
  <2>1. outcome \in {"resolved", "rejected"}
    BY DEF Settled
  <2> QED BY <1>3, <2>1, CompleteIsService DEF Service!Next
<1> QED BY <1>1, <1>2, <1>3 DEF LaneStep

\* resetAll() behind the gate clears the service.
LEMMA ResetIsService ==
  ASSUME TypeOK, LanesInv, ResetAll, drain # "idle", drain' # "idle"
  PROVE  Service!Clear
<1>1. /\ phase \in [Tasks -> Phases] /\ queue' = [k \in Lanes |-> <<>>]
      /\ stale' = stale \cup {t \in Tasks : phase[t] = "running"}
      /\ phase' = [t \in Tasks |-> IF phase[t] = "queued" THEN "rejected" ELSE phase[t]]
  BY DEF TypeOK, ResetAll
<1>2. \A t \in stale : phase[t] # "queued"
  BY DEF LanesInv, StaleHasStarted
<1>3. \A t \in Tasks : ServiceState'[t] = IF ServiceState[t] = "waiting" THEN "rejected"
                                          ELSE IF ServiceState[t] = "running" THEN "forgotten"
                                          ELSE ServiceState[t]
  <2> SUFFICES ASSUME NEW t \in Tasks
               PROVE  ServiceState'[t] = IF ServiceState[t] = "waiting" THEN "rejected"
                                         ELSE IF ServiceState[t] = "running" THEN "forgotten"
                                         ELSE ServiceState[t]
    OBVIOUS
  <2>1. phase'[t] = (IF phase[t] = "queued" THEN "rejected" ELSE phase[t]) /\ phase[t] \in Phases
    BY <1>1
  <2>2. t \in stale' <=> t \in stale \/ phase[t] = "running"
    BY <1>1
  <2>3. CASE phase[t] = "queued"
    BY <2>1, <2>3 DEF ServiceState
  <2>4. CASE phase[t] = "running"
    BY <2>1, <2>2, <2>4 DEF ServiceState
  <2>5. CASE phase[t] \notin {"queued", "running"}
    BY <2>1, <2>5 DEF ServiceState, Phases, Settled
  <2> QED BY <2>3, <2>4, <2>5
<1>4. ServiceState' = [t \in Tasks |-> IF ServiceState[t] = "waiting" THEN "rejected"
                                       ELSE IF ServiceState[t] = "running" THEN "forgotten"
                                       ELSE ServiceState[t]]
  BY <1>3 DEF ServiceState
<1> QED BY <1>1, <1>4 DEF Service!Clear

\* A step that leaves the lanes and the side of the gate as they are is invisible.
LEMMA Invisible ==
  ASSUME UNCHANGED laneVars, (drain = "idle")' = (drain = "idle")
  PROVE  UNCHANGED <<ServiceState, queue, drain = "idle">>
BY DEF laneVars, ServiceState

\* A lane that is idle behind a closed gate may be opened again.
LEMMA ReopenIsService ==
  ASSUME TypeOK, LanesInv, IsIdle, UNCHANGED laneVars, drain # "idle", drain' = "idle"
  PROVE  Service!Reopen
<1>1. \A t \in Tasks : phase[t] # "queued" /\ (phase[t] = "running" => t \in stale)
  BY IdleIsQuiet DEF IdleMeansQuiet
<1>2. \A t \in Tasks : ServiceState[t] \notin {"waiting", "running"}
  <2>1. phase \in [Tasks -> Phases]
    BY DEF TypeOK
  <2> QED BY <1>1, <2>1 DEF ServiceState, Phases, Settled
<1>3. ServiceState' = ServiceState /\ queue' = queue
  BY DEF laneVars, ServiceState
<1> QED BY <1>2, <1>3 DEF Service!Reopen

\* Every step of the daemon is a step of the service or is invisible.
LEMMA ServiceStep ==
  ASSUME DaemonInv, [Next]_vars
  PROVE  [Service!Next]_(Service!serviceVars)
<1> USE DEF DaemonInv
<1>1. ASSUME UNCHANGED laneVars, (drain = "idle")' = (drain = "idle")
      PROVE  [Service!Next]_(Service!serviceVars)
  BY <1>1, Invisible DEF Service!serviceVars
<1>2. ASSUME UNCHANGED laneVars, drain = "idle", drain' # "idle" PROVE Service!Next
  <2>1. ServiceState' = ServiceState /\ queue' = queue
    BY <1>2 DEF laneVars, ServiceState
  <2>2. Service!Close
    BY <1>2, <2>1 DEF Service!Close
  <2> QED BY <2>2 DEF Service!Next
<1>3. CASE Start \/ LockAcquired \/ LockRefused \/ Started \/ StartFailed \/ Serve
             \/ Released \/ Exit \/ Killed \/ ReacquireFailed \/ OtherProcess
             \/ (\E t \in Tasks : Fallback(t)) \/ UNCHANGED vars
  <2>1. UNCHANGED <<laneVars, drain>>
    BY <1>3 DEF Start, LockAcquired, LockRefused, Started, StartFailed, Serve, Released, Exit,
                Killed, ReacquireFailed, OtherProcess, Fallback, vars
  <2> QED BY <1>1, <2>1
<1>4. CASE Terminate \/ Restart
  <2>1. UNCHANGED laneVars
    BY <1>4 DEF Terminate, Restart
  <2>2. CASE daemon = "running"
    <3>1. drain = "idle"
      BY <2>2 DEF PlacesInv
    <3>2. drain' = "draining"
      BY <1>4, <2>2 DEF Terminate, Restart, BeginShutdown, EnterDrain
    <3> QED BY <1>2, <2>1, <3>1, <3>2
  <2>3. CASE daemon # "running"
    <3>1. drain' = drain
      BY <1>4, <2>3 DEF Terminate, Restart, BeginShutdown
    <3> QED BY <1>1, <2>1, <3>1
  <2> QED BY <2>2, <2>3
<1>5. CASE ShutdownDrained
  <2>1. UNCHANGED laneVars /\ at = "waitShutdown" /\ drain' = "drained"
    BY <1>5 DEF ShutdownDrained
  <2>2. drain # "idle"
    BY <2>1 DEF PlacesInv, DaemonTypeOK
  <2> QED BY <1>1, <2>1, <2>2
<1>6. CASE Reacquired
  <2>1. UNCHANGED laneVars /\ at = "reacquire" /\ drain' = "idle"
    BY <1>6 DEF Reacquired
  <2>2. TypeOK /\ IsIdle /\ drain # "idle"
    BY <2>1 DEF PlacesInv, DaemonTypeOK
  <2>3. Service!Reopen
    BY <2>1, <2>2, ReopenIsService
  <2> QED BY <2>3 DEF Service!Next
<1>7. CASE RestartDrained
  <2>1. ResetAll /\ at = "waitRestart" /\ drain' = "drained"
    BY <1>7 DEF RestartDrained
  <2>2. TypeOK /\ drain # "idle"
    BY <2>1 DEF PlacesInv, DaemonTypeOK
  <2>3. Service!Clear
    BY <2>1, <2>2, ResetIsService
  <2> QED BY <2>3 DEF Service!Next
<1>8. CASE Resume
  BY <1>8, LaneStepIsService DEF Resume, DaemonTypeOK
<1> QED BY <1>3, <1>4, <1>5, <1>6, <1>7, <1>8 DEF Next, Handler

\* The command lanes (daemon/lanes.ts) under the daemon's drains, resets, restarts
\* and shutdowns keep what they promise whoever offers a task: first come first
\* served, one starts when one ends, nothing enters a drain, and the gate is opened
\* again only over empty lanes.
THEOREM LanesImplementService == Spec => ImplementsService
<1>1. Init => Service!Init
  <2> SUFFICES ASSUME Init PROVE Service!Init
    OBVIOUS
  <2>1. queue = [k \in Lanes |-> <<>>] /\ phase = [t \in Tasks |-> "new"] /\ drain = "idle"
    BY DEF Init, LanesInit
  <2>2. ServiceState = [t \in Tasks |-> "new"]
    BY <2>1 DEF ServiceState
  <2> QED BY <2>1, <2>2 DEF Service!Init
<1>2. DaemonInv /\ [Next]_vars => [Service!Next]_(Service!serviceVars)
  BY ServiceStep
<1> QED BY <1>1, <1>2, DaemonCorrect, PTL DEF Spec, ImplementsService, Service!Spec

=============================================================================
