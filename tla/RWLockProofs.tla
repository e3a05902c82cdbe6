---------------------------- MODULE RWLockProofs ----------------------------
(***************************************************************************)
(* RWLock keeps its promises for every number of scopes, keys and lock     *)
(* objects.  LockInv with TypeOK is inductive: the proof has one lemma per *)
(* kind of step, and the promises follow from it; the last part is that    *)
(* RWLock implements KeyedLock.                                            *)
(***************************************************************************)
EXTENDS RWLock, FiniteSetTheorems, SequenceTheorems, TLAPS

-----------------------------------------------------------------------------
(* Facts about queues: their range, and that a queue without duplicates    *)
(* stays one.                                                              *)

\* A queue is empty exactly when nobody is in it.
LEMMA RangeEmpty ==
  ASSUME NEW S, NEW s \in Seq(S)
  PROVE  /\ Range(<<>>) = {}
         /\ IsInjective(<<>>)
         /\ s # <<>> => Head(s) \in Range(s)
         /\ Range(s) = {} => s = <<>>
<1>1. DOMAIN <<>> = {}
  BY EmptySeq, LenProperties, 1 .. 0 = {}
<1>2. Range(<<>>) = {} /\ IsInjective(<<>>)
  BY <1>1 DEF Range, IsInjective
<1>3. ASSUME s # <<>> PROVE Head(s) \in Range(s)
  <2>1. Len(s) \in Nat \ {0} /\ DOMAIN s = 1 .. Len(s)
    BY <1>3, EmptySeq, LenProperties
  <2>2. Head(s) = s[1] /\ 1 \in DOMAIN s
    BY <2>1
  <2> QED BY <2>2 DEF Range
<1> QED BY <1>2, <1>3

\* Queueing one more element.
LEMMA RangeAppend ==
  ASSUME NEW S, NEW s \in Seq(S), NEW x \in S
  PROVE  /\ Append(s, x) \in Seq(S) /\ Append(s, x) # <<>>
         /\ Range(Append(s, x)) = Range(s) \cup {x}
         /\ IsInjective(s) /\ x \notin Range(s) => IsInjective(Append(s, x))
<1> DEFINE t == Append(s, x)
<1>1. /\ t \in Seq(S) /\ t # <<>> /\ Len(t) = Len(s) + 1
      /\ \A i \in 1 .. Len(s) : t[i] = s[i]
      /\ t[Len(s) + 1] = x
  BY AppendProperties
<1>2. Len(s) \in Nat /\ DOMAIN s = 1 .. Len(s) /\ DOMAIN t = 1 .. Len(s) + 1
  BY <1>1, LenProperties
<1>3. DOMAIN t = DOMAIN s \cup {Len(s) + 1}
  BY <1>2
<1>4. Range(t) = Range(s) \cup {x}
  BY <1>1, <1>2, <1>3 DEF Range
<1>5. ASSUME IsInjective(s), x \notin Range(s) PROVE IsInjective(t)
  BY <1>1, <1>2, <1>3, <1>5 DEF Range, IsInjective
<1> QED BY <1>1, <1>4, <1>5

\* Serving the head of a queue without duplicates.
LEMMA RangeTail ==
  ASSUME NEW S, NEW s \in Seq(S), s # <<>>, IsInjective(s)
  PROVE  /\ Head(s) \in S /\ Tail(s) \in Seq(S)
         /\ Range(Tail(s)) = Range(s) \ {Head(s)}
         /\ IsInjective(Tail(s))
<1> DEFINE t == Tail(s)
<1>1. /\ Head(s) \in S /\ t \in Seq(S) /\ Len(t) = Len(s) - 1
      /\ \A i \in 1 .. Len(t) : t[i] = s[i + 1]
  BY HeadTailProperties
<1>2. Len(s) \in Nat \ {0} /\ DOMAIN s = 1 .. Len(s) /\ DOMAIN t = 1 .. Len(s) - 1
  BY <1>1, LenProperties, EmptySeq
<1>3. Head(s) = s[1]
  OBVIOUS
<1>4. \A i \in DOMAIN t : i + 1 \in DOMAIN s /\ i + 1 # 1 /\ t[i] = s[i + 1]
  BY <1>1, <1>2
<1>5. \A j \in DOMAIN s : j # 1 => j - 1 \in DOMAIN t /\ t[j - 1] = s[j]
  BY <1>1, <1>2
<1>6. 1 \in DOMAIN s
  BY <1>2
<1>7. Range(t) \subseteq Range(s) \ {Head(s)}
  BY <1>3, <1>4, <1>6 DEF Range, IsInjective
<1>8. Range(s) \ {Head(s)} \subseteq Range(t)
  <2> SUFFICES ASSUME NEW j \in DOMAIN s, s[j] # Head(s) PROVE s[j] \in Range(t)
    BY DEF Range
  <2>1. j - 1 \in DOMAIN t /\ t[j - 1] = s[j]
    BY <1>3, <1>5
  <2> QED BY <2>1 DEF Range
<1>9. IsInjective(t)
  <2> SUFFICES ASSUME NEW i \in DOMAIN t, NEW j \in DOMAIN t, t[i] = t[j]
               PROVE  i = j
    BY DEF IsInjective
  <2>1. i + 1 \in DOMAIN s /\ j + 1 \in DOMAIN s /\ s[i + 1] = s[j + 1]
    BY <1>4
  <2>2. i + 1 = j + 1
    BY <2>1 DEF IsInjective
  <2> QED BY <2>2, <1>2
<1> QED BY <1>1, <1>7, <1>8, <1>9

\* A queue without duplicates has as many elements as places.
LEMMA RangeCardinality ==
  ASSUME NEW S, NEW s \in Seq(S), IsInjective(s)
  PROVE  IsFiniteSet(Range(s)) /\ Cardinality(Range(s)) = Len(s)
<1>1. Len(s) \in Nat /\ DOMAIN s = 1 .. Len(s) /\ s \in [1 .. Len(s) -> S]
  BY LenProperties
<1>2. s \in Bijection(1 .. Len(s), Range(s))
  BY <1>1 DEF Bijection, Injection, Surjection, IsInjective, Range
<1>3. ExistsBijection(1 .. Len(s), Range(s))
  BY <1>2 DEF ExistsBijection
<1>4. IsFiniteSet(1 .. Len(s)) /\ Cardinality(1 .. Len(s)) = Len(s)
  <2>1. /\ IsFiniteSet(1 .. Len(s))
        /\ Cardinality(1 .. Len(s)) = IF 1 > Len(s) THEN 0 ELSE Len(s) - 1 + 1
    BY <1>1, FS_Interval
  <2> QED BY <2>1, <1>1
<1> QED BY <1>3, <1>4, FS_Bijection

-----------------------------------------------------------------------------

USE NoObjectFresh

\* Every step keeps every variable in its type.
LEMMA TypeStep == TypeOK /\ LockInv /\ [Next]_vars => TypeOK'
<1> SUFFICES ASSUME TypeOK, LockInv, [Next]_vars PROVE TypeOK'
  OBVIOUS
<1> USE DEF TypeOK, Waiting, Holding
<1>1. ASSUME NEW c \in Clients, NEW k \in Keys, NEW o \in Objects, Call(c, k, o)
      PROVE  TypeOK'
  <2>1. CASE ReadNow(c, k, o)
    BY <2>1 DEF ReadNow, Enter
  <2>2. CASE ReadLater(c, k, o)
    <3>1. Append(waitingReaders[o], c) \in Seq(Clients)
      BY RangeAppend
    <3> QED BY <2>2, <3>1 DEF ReadLater, Enter
  <2>3. CASE WriteNow(c, k, o)
    BY <2>3 DEF WriteNow, Enter
  <2>4. CASE WriteLater(c, k, o)
    <3>1. Append(waitingWriters[o], c) \in Seq(Clients)
      BY RangeAppend
    <3> QED BY <2>4, <3>1 DEF WriteLater, Enter
  <2> QED BY <1>1, <2>1, <2>2, <2>3, <2>4 DEF Call
<1>2. ASSUME NEW c \in Clients, NEW o \in Objects \cup {NoObject},
             NEW rd \in [Objects -> Nat], NEW wr \in [Objects -> BOOLEAN],
             Process(c, o, rd, wr)
      PROVE  TypeOK'
  <2>0. ASSUME NEW W, NEW s \in Holding \cup {"idle"}, Leave(c, W, s)
        PROVE  /\ pc' \in [Clients -> {"idle"} \cup Waiting \cup Holding]
               /\ ref' \in [Clients -> Objects \cup {NoObject}]
               /\ key' \in [Clients -> Keys]
    BY <2>0 DEF Leave
  <2>1. CASE WakeNobody(c, o, rd, wr)
    BY <2>1, <2>0 DEF WakeNobody
  <2>2. CASE WakeWriter(c, o, rd, wr)
    <3>1. o \in Objects /\ waitingWriters[o] # <<>>
      BY <2>2 DEF WakeWriter
    <3>2. Tail(waitingWriters[o]) \in Seq(Clients)
      BY <3>1, RangeTail DEF LockInv, QueueInv
    <3> QED BY <2>2, <2>0, <3>1, <3>2 DEF WakeWriter
  <2>3. CASE WakeReaders(c, o, rd, wr)
    <3>1. o \in Objects /\ Len(waitingReaders[o]) \in Nat
      BY <2>3, LenProperties DEF WakeReaders
    <3>2. <<>> \in Seq(Clients)
      BY EmptySeq
    <3> QED BY <2>3, <2>0, <3>1, <3>2 DEF WakeReaders
  <2>4. CASE DeleteLock(c, o, rd, wr)
    BY <2>4, <2>0 DEF DeleteLock
  <2> QED BY <1>2, <2>1, <2>2, <2>3, <2>4 DEF Process
<1>3. ASSUME NEW c \in Clients, DisposeRead(c) PROVE TypeOK'
  <2>1. ref[c] \in Objects /\ readers[ref[c]] - 1 \in Nat
    <3>1. ref[c] \in Objects
      BY <1>3 DEF DisposeRead, LockInv, RefInv
    <3>2. c \in With(ref[c], "reading")
      BY <1>3 DEF DisposeRead, With
    <3>3. IsFiniteSet(With(ref[c], "reading"))
      BY ClientsFinite, FS_Subset DEF With
    <3>4. Cardinality(With(ref[c], "reading")) # 0
      BY <3>2, <3>3, FS_EmptySet
    <3> QED BY <3>1, <3>4 DEF LockInv, HolderInv
  <2>2. [readers EXCEPT ![ref[c]] = @ - 1] \in [Objects -> Nat]
    BY <2>1
  <2>3. locks[key[c]] \in Objects \cup {NoObject}
    OBVIOUS
  <2> QED BY <1>2, <1>3, <2>2, <2>3 DEF DisposeRead
<1>4. ASSUME NEW c \in Clients, DisposeWrite(c) PROVE TypeOK'
  <2>1. [writer EXCEPT ![ref[c]] = FALSE] \in [Objects -> BOOLEAN]
    OBVIOUS
  <2>2. locks[key[c]] \in Objects \cup {NoObject}
    OBVIOUS
  <2> QED BY <1>2, <1>4, <2>1, <2>2 DEF DisposeWrite
<1>5. CASE UNCHANGED vars
  BY <1>5 DEF vars
<1> QED BY <1>1, <1>3, <1>4, <1>5 DEF Next, Dispose

\* What a call does to the classes of scopes: it adds its scope to one class
\* of its object and disturbs no other.
Entered(c, o, status) ==
  /\ RefInv' /\ TableInv'
  /\ \A p \in Objects, s \in Waiting \cup Holding :
       /\ c \notin With(p, s)
       /\ With(p, s)' = IF p = o /\ s = status THEN With(p, s) \cup {c} ELSE With(p, s)
  /\ \A k \in Keys : locks'[k] = o \/ locks'[k] = locks[k]

\* Every call has that effect.
LEMMA EnterFacts ==
  ASSUME TypeOK, LockInv, NEW c \in Clients, NEW k \in Keys, NEW o \in Objects,
         NEW status \in Waiting \cup Holding, Enter(c, k, o, status)
  PROVE  Entered(c, o, status)
<1>1. ref[c] = NoObject /\ pc[c] = "idle"
  BY DEF LockInv, RefInv, Enter
<1>2. \A d \in Clients \ {c} : pc'[d] = pc[d] /\ ref'[d] = ref[d] /\ key'[d] = key[d]
  BY DEF Enter, TypeOK
<1>3. pc'[c] = status /\ ref'[c] = o /\ key'[c] = k
  BY DEF Enter, TypeOK
<1>4. locks'[k] = o /\ \A k1 \in Keys \ {k} : locks'[k1] = locks[k1]
  BY DEF Enter, TypeOK
<1>5. locks[k] = o \/ (locks[k] = NoObject /\ ~Reachable(o))
  <2>1. Get(k, o)
    BY DEF Enter
  <2> QED BY <2>1 DEF Get
<1>6. RefInv'
  <2> SUFFICES ASSUME NEW d \in Clients
               PROVE  /\ pc'[d] = "idle" <=> ref'[d] = NoObject
                      /\ pc'[d] # "idle" => locks'[key'[d]] = ref'[d]
    BY DEF RefInv
  <2>1. CASE d = c
    BY <2>1, <1>3, <1>4 DEF Waiting, Holding
  <2>2. CASE d # c
    <3>1. /\ pc[d] = "idle" <=> ref[d] = NoObject
          /\ pc[d] # "idle" => locks[key[d]] = ref[d]
      BY DEF LockInv, RefInv
    <3>2. key[d] \in Keys
      BY DEF TypeOK
    <3>3. pc[d] # "idle" => locks'[key[d]] = ref[d]
      <4>1. CASE key[d] # k
        BY <4>1, <3>1, <3>2, <1>4
      <4>2. CASE key[d] = k /\ pc[d] # "idle"
        BY <4>2, <3>1, <1>4, <1>5
      <4> QED BY <4>1, <4>2
    <3> QED BY <2>2, <3>1, <3>3, <1>2
  <2> QED BY <2>1, <2>2
<1>7. TableInv'
  <2> SUFFICES ASSUME NEW k1 \in Keys, NEW k2 \in Keys,
                      locks'[k1] = locks'[k2], locks'[k1] # NoObject
               PROVE  k1 = k2
    BY DEF TableInv
  <2>1. \A k3 \in Keys : locks[k3] = o => k3 = k
    BY <1>5 DEF LockInv, TableInv, Reachable
  <2> QED BY <1>4, <2>1 DEF LockInv, TableInv
<1>8. ASSUME NEW p \in Objects, NEW s \in Waiting \cup Holding
      PROVE  /\ c \notin With(p, s)
             /\ With(p, s)' = IF p = o /\ s = status THEN With(p, s) \cup {c}
                                                     ELSE With(p, s)
  BY <1>1, <1>2, <1>3 DEF With
<1> QED BY <1>4, <1>6, <1>7, <1>8 DEF Entered

\* The readers of an object can be counted.
LEMMA ReadersFinite ==
  ASSUME NEW p, NEW s PROVE IsFiniteSet(With(p, s))
BY ClientsFinite, FS_Subset DEF With

\* Calls keep the invariant.
LEMMA CallStep ==
  ASSUME TypeOK, LockInv, NEW c \in Clients, NEW k \in Keys, NEW o \in Objects,
         Call(c, k, o)
  PROVE  LockInv'
<1>1. CASE ReadNow(c, k, o)
  <2>1. /\ ~writer[o] /\ waitingWriters[o] = <<>>
        /\ readers' = [readers EXCEPT ![o] = @ + 1]
        /\ Enter(c, k, o, "reading")
        /\ UNCHANGED <<writer, waitingReaders, waitingWriters>>
    BY <1>1 DEF ReadNow, MayRead
  <2>0. Entered(c, o, "reading")
    BY <2>1, EnterFacts DEF Waiting, Holding
  <2>2. Cardinality(With(o, "reading") \cup {c}) = Cardinality(With(o, "reading")) + 1
    BY <2>1, <2>0, ReadersFinite, FS_AddElement DEF Entered, Holding
  <2>3. HolderInv'
    <3>1. \A p \in Objects :
            /\ With(p, "writing")' = With(p, "writing")
            /\ With(p, "reading")' = IF p = o THEN With(p, "reading") \cup {c}
                                              ELSE With(p, "reading")
            /\ readers'[p] = IF p = o THEN readers[p] + 1 ELSE readers[p]
      BY <2>0, <2>1 DEF Entered, Waiting, Holding, TypeOK
    <3>2. \A p \in Objects : readers'[p] = Cardinality(With(p, "reading")')
      <4> SUFFICES ASSUME NEW p \in Objects
                   PROVE  readers'[p] = Cardinality(With(p, "reading")')
        OBVIOUS
      <4>1. readers[p] = Cardinality(With(p, "reading"))
        BY DEF LockInv, HolderInv
      <4>2. CASE p = o
        BY <4>1, <4>2, <3>1, <2>2
      <4>3. CASE p # o
        BY <4>1, <4>3, <3>1
      <4> QED BY <4>2, <4>3
    <3> QED BY <2>1, <3>1, <3>2 DEF LockInv, HolderInv
  <2>4. QueueInv'
    BY <2>1, <2>0 DEF Entered, LockInv, QueueInv, TypeOK, Waiting, Holding
  <2>5. WakeInv' /\ EntryInv'
    BY <2>1, <2>0 DEF Entered, LockInv, WakeInv, EntryInv, TypeOK
  <2> QED BY <2>1, <2>3, <2>4, <2>5, <2>0 DEF Entered, LockInv
<1>2. CASE ReadLater(c, k, o)
  <2>1. /\ writer[o] \/ waitingWriters[o] # <<>>
        /\ waitingReaders' = [waitingReaders EXCEPT ![o] = Append(@, c)]
        /\ Enter(c, k, o, "waitRead")
        /\ UNCHANGED <<readers, writer, waitingWriters>>
    BY <1>2 DEF ReadLater, MayRead
  <2>0. Entered(c, o, "waitRead")
    BY <2>1, EnterFacts DEF Waiting, Holding
  <2>2. writer[o] \/ readers[o] > 0
    BY <2>1 DEF LockInv, WakeInv
  <2>3. HolderInv'
    BY <2>1, <2>0 DEF Entered, LockInv, HolderInv, TypeOK, Waiting, Holding
  <2>4. /\ Range(waitingReaders'[o]) = Range(waitingReaders[o]) \cup {c}
        /\ IsInjective(waitingReaders'[o])
    BY <2>1, <2>0, RangeAppend DEF Entered, LockInv, QueueInv, TypeOK, Waiting, Holding
  <2>5. QueueInv'
    BY <2>1, <2>4, <2>0 DEF Entered, LockInv, QueueInv, TypeOK, Waiting, Holding
  <2>6. WakeInv' /\ EntryInv'
    BY <2>1, <2>2, <2>0 DEF Entered, LockInv, WakeInv, EntryInv, TypeOK
  <2> QED BY <2>1, <2>3, <2>5, <2>6, <2>0 DEF Entered, LockInv
<1>3. CASE WriteNow(c, k, o)
  <2>1. /\ ~writer[o] /\ readers[o] = 0
        /\ writer' = [writer EXCEPT ![o] = TRUE]
        /\ Enter(c, k, o, "writing")
        /\ UNCHANGED <<readers, waitingReaders, waitingWriters>>
    BY <1>3 DEF WriteNow, MayWrite
  <2>0. Entered(c, o, "writing")
    BY <2>1, EnterFacts DEF Waiting, Holding
  <2>2. With(o, "writing") = {}
    BY <2>1 DEF LockInv, HolderInv
  <2>3. HolderInv'
    <3>1. \A p \in Objects :
            /\ With(p, "reading")' = With(p, "reading")
            /\ With(p, "writing")' = IF p = o THEN With(p, "writing") \cup {c}
                                              ELSE With(p, "writing")
            /\ writer'[p] = IF p = o THEN TRUE ELSE writer[p]
      BY <2>0, <2>1 DEF Entered, Waiting, Holding, TypeOK
    <3>2. \A p \in Objects : readers'[p] = readers[p]
      BY <2>1
    <3>3. readers[o] = 0
      BY <2>1
    <3>4. \A p \in Objects :
            /\ readers[p] = Cardinality(With(p, "reading"))
            /\ writer[p] => readers[p] = 0
            /\ writer[p] <=> With(p, "writing") # {}
            /\ \A d, e \in With(p, "writing") : d = e
      BY DEF LockInv, HolderInv
    <3>5. \A p \in Objects : readers'[p] = Cardinality(With(p, "reading")')
      BY <3>1, <3>2, <3>4
    <3>6. \A p \in Objects : writer'[p] <=> With(p, "writing")' # {}
      BY <2>2, <3>1, <3>4
    <3>7. \A p \in Objects : writer'[p] => readers'[p] = 0
      BY <3>1, <3>2, <3>3, <3>4
    <3>8. ASSUME NEW p \in Objects PROVE \A d, e \in With(p, "writing")' : d = e
      <4>1. CASE p = o
        <5>1. With(p, "writing")' = {c}
          BY <2>2, <3>1, <4>1
        <5> QED BY <5>1
      <4>2. CASE p # o
        <5>1. With(p, "writing")' = With(p, "writing")
          BY <3>1, <4>2
        <5>2. \A d, e \in With(p, "writing") : d = e
          BY <3>4
        <5> QED BY <5>1, <5>2
      <4> QED BY <4>1, <4>2
    <3> QED BY <3>5, <3>6, <3>7, <3>8 DEF HolderInv
  <2>4. QueueInv'
    BY <2>1, <2>0 DEF Entered, LockInv, QueueInv, TypeOK, Waiting, Holding
  <2>5. WakeInv' /\ EntryInv'
    BY <2>1, <2>0 DEF Entered, LockInv, WakeInv, EntryInv, TypeOK
  <2> QED BY <2>1, <2>3, <2>4, <2>5, <2>0 DEF Entered, LockInv
<1>4. CASE WriteLater(c, k, o)
  <2>1. /\ writer[o] \/ readers[o] > 0
        /\ waitingWriters' = [waitingWriters EXCEPT ![o] = Append(@, c)]
        /\ Enter(c, k, o, "waitWrite")
        /\ UNCHANGED <<readers, writer, waitingReaders>>
    BY <1>4 DEF WriteLater, MayWrite, TypeOK
  <2>0. Entered(c, o, "waitWrite")
    BY <2>1, EnterFacts DEF Waiting, Holding
  <2>3. HolderInv'
    BY <2>1, <2>0 DEF Entered, LockInv, HolderInv, TypeOK, Waiting, Holding
  <2>4. /\ Range(waitingWriters'[o]) = Range(waitingWriters[o]) \cup {c}
        /\ IsInjective(waitingWriters'[o])
    BY <2>1, <2>0, RangeAppend DEF Entered, LockInv, QueueInv, TypeOK, Waiting, Holding
  <2>5. QueueInv'
    BY <2>1, <2>4, <2>0 DEF Entered, LockInv, QueueInv, TypeOK, Waiting, Holding
  <2>6. WakeInv' /\ EntryInv'
    BY <2>1, <2>0 DEF Entered, LockInv, WakeInv, EntryInv, TypeOK
  <2> QED BY <2>1, <2>3, <2>5, <2>6, <2>0 DEF Entered, LockInv
<1> QED BY <1>1, <1>2, <1>3, <1>4 DEF Call

\* What a disposal of scope c, which holds object o, does to the classes: the
\* woken scopes move from their waiting class to a holding one.
Left(c, woken, status) ==
  \A p \in Objects, s \in Waiting \cup Holding :
    With(p, s)' = {d \in With(p, s) \ {c} : d \notin woken}
                    \cup IF s = status THEN {d \in woken : ref[d] = p /\ d # c} ELSE {}

\* A disposal keeps the parts of the invariant about the table and the classes.
LEMMA LeaveFacts ==
  ASSUME TypeOK, LockInv, NEW c \in Clients, NEW woken \in SUBSET Clients,
         NEW status, status \in Holding \/ woken = {},
         \A d \in woken : pc[d] \in Waiting,
         pc[c] \in Holding, Leave(c, woken, status)
  PROVE  /\ Left(c, woken, status)
         /\ UNCHANGED locks => RefInv' /\ TableInv'
<1>1. \A d \in Clients : pc'[d] = IF d = c THEN "idle" ELSE IF d \in woken THEN status ELSE pc[d]
  BY DEF Leave
<1>2. \A d \in Clients : ref'[d] = IF d = c THEN NoObject ELSE ref[d]
  BY DEF Leave, TypeOK
<1>3. UNCHANGED key
  BY DEF Leave
<1>4. Left(c, woken, status)
  BY <1>1, <1>2 DEF Left, With, Waiting, Holding, TypeOK
<1>5. ASSUME UNCHANGED locks PROVE RefInv' /\ TableInv'
  <2>1. RefInv'
    BY <1>1, <1>2, <1>3, <1>5 DEF LockInv, RefInv, TypeOK, Waiting, Holding
  <2>2. TableInv'
    BY <1>1, <1>2, <1>3, <1>5 DEF LockInv, TableInv, TypeOK, Waiting, Holding
  <2> QED BY <2>1, <2>2
<1> QED BY <1>4, <1>5

\* A disposal of scope c has taken c out of the counters of its object: rd and
\* wr count the holders other than c.
Discounted(c, rd, wr) ==
  /\ rd \in [Objects -> Nat] /\ wr \in [Objects -> BOOLEAN]
  /\ \A p \in Objects :
       /\ rd[p] = Cardinality(With(p, "reading") \ {c})
       /\ wr[p] <=> With(p, "writing") \ {c} # {}
       /\ wr[p] => rd[p] = 0
       /\ p # ref[c] => rd[p] = readers[p] /\ wr[p] = writer[p]

\* A disposal that wakes nobody only removes its scope.
LEMMA NobodyWoken ==
  ASSUME NEW c \in Clients, pc[c] \in Holding, Left(c, {}, "idle"), NEW p \in Objects
  PROVE  /\ With(p, "reading")' = With(p, "reading") \ {c}
         /\ With(p, "writing")' = With(p, "writing") \ {c}
         /\ With(p, "waitRead")' = With(p, "waitRead")
         /\ With(p, "waitWrite")' = With(p, "waitWrite")
<1>1. \A s \in Waiting \cup Holding : With(p, s)' = With(p, s) \ {c}
  BY DEF Left, Waiting, Holding
<1>2. c \notin With(p, "waitRead") /\ c \notin With(p, "waitWrite")
  BY DEF With, Holding
<1>3. /\ With(p, "waitRead") \ {c} = With(p, "waitRead")
      /\ With(p, "waitWrite") \ {c} = With(p, "waitWrite")
  BY <1>2
<1> QED BY <1>1, <1>3 DEF Waiting, Holding

\* An object that process() finds free is held by nobody but the disposing scope.
LEMMA FreeObject ==
  ASSUME NEW c, NEW o \in Objects, NEW rd, NEW wr, Discounted(c, rd, wr),
         ~StillHeld(o, rd, wr)
  PROVE  /\ rd[o] = 0 /\ ~wr[o]
         /\ With(o, "reading") \ {c} = {} /\ With(o, "writing") \ {c} = {}
<1>1. rd[o] = 0 /\ ~wr[o]
  BY DEF Discounted, StillHeld
<1>2. IsFiniteSet(With(o, "reading") \ {c})
  BY ReadersFinite, FS_RemoveElement
<1> QED BY <1>1, <1>2, FS_EmptySet DEF Discounted

\* process() keeps the invariant, whomever it wakes.
LEMMA ProcessStep ==
  ASSUME TypeOK, LockInv, NEW c \in Clients, pc[c] \in Holding,
         NEW rd, NEW wr, Discounted(c, rd, wr),
         Process(c, locks[key[c]], rd, wr)
  PROVE  LockInv'
<1> DEFINE o == locks[key[c]]
<1>1. o = ref[c] /\ o \in Objects /\ key[c] \in Keys
  BY DEF LockInv, RefInv, TypeOK, Holding
<1>2. \A p \in Objects : \A d, e \in With(p, "writing") : d = e
  BY DEF LockInv, HolderInv
<1>3. \A p \in Objects : c \notin With(p, "waitRead") /\ c \notin With(p, "waitWrite")
  BY DEF With, Holding
<1>4. \A p \in Objects : waitingReaders[p] \in Seq(Clients) /\ waitingWriters[p] \in Seq(Clients)
  BY DEF TypeOK
<1>5. ASSUME WakeNobody(c, o, rd, wr) PROVE LockInv'
  <2>1. /\ StillHeld(o, rd, wr)
        /\ readers' = rd /\ writer' = wr
        /\ Leave(c, {}, "idle")
        /\ UNCHANGED <<locks, waitingReaders, waitingWriters>>
    BY <1>1, <1>5, NoObjectFresh DEF WakeNobody
  <2>2. Left(c, {}, "idle") /\ RefInv' /\ TableInv'
    BY <2>1, LeaveFacts
  <2>3. \A p \in Objects :
          /\ With(p, "reading")' = With(p, "reading") \ {c}
          /\ With(p, "writing")' = With(p, "writing") \ {c}
          /\ With(p, "waitRead")' = With(p, "waitRead")
          /\ With(p, "waitWrite")' = With(p, "waitWrite")
    BY <2>2, NobodyWoken
  <2>4. HolderInv'
    <3>1. \A p \in Objects : /\ readers'[p] = rd[p] /\ writer'[p] = wr[p]
                             /\ readers'[p] = Cardinality(With(p, "reading")')
      BY <2>1, <2>3 DEF Discounted
    <3> QED BY <1>2, <2>3, <3>1 DEF HolderInv, Discounted
  <2>5. QueueInv'
    BY <2>1, <2>3 DEF LockInv, QueueInv
  <2>6. WakeInv' /\ EntryInv'
    <3>1. \A p \in Objects : (writer[p] \/ readers[p] > 0) => (writer'[p] \/ readers'[p] > 0)
      BY <1>1, <2>1 DEF Discounted, StillHeld
    <3>2. \A k \in Keys : locks[k] # NoObject => locks[k] \in Objects
      BY DEF TypeOK
    <3> QED BY <2>1, <3>1, <3>2 DEF LockInv, WakeInv, EntryInv
  <2> QED BY <2>2, <2>4, <2>5, <2>6 DEF LockInv
<1>6. ASSUME DeleteLock(c, o, rd, wr) PROVE LockInv'
  <2>1. /\ ~StillHeld(o, rd, wr)
        /\ waitingWriters[o] = <<>> /\ waitingReaders[o] = <<>>
        /\ locks' = [locks EXCEPT ![key[c]] = NoObject]
        /\ readers' = rd /\ writer' = wr
        /\ Leave(c, {}, "idle")
        /\ UNCHANGED <<waitingReaders, waitingWriters>>
    BY <1>6 DEF DeleteLock
  <2>2. Left(c, {}, "idle")
    BY <2>1, LeaveFacts
  <2>3. \A p \in Objects :
          /\ With(p, "reading")' = With(p, "reading") \ {c}
          /\ With(p, "writing")' = With(p, "writing") \ {c}
          /\ With(p, "waitRead")' = With(p, "waitRead")
          /\ With(p, "waitWrite")' = With(p, "waitWrite")
    BY <2>2, NobodyWoken
  <2>4. \A d \in Clients \ {c} : ref[d] # o
    <3> SUFFICES ASSUME NEW d \in Clients \ {c}, ref[d] = o PROVE FALSE
      OBVIOUS
    <3>1. pc[d] \in Waiting \cup Holding
      BY <1>1, NoObjectFresh DEF LockInv, RefInv, TypeOK
    <3>2. d \in With(o, pc[d])
      BY DEF With
    <3>3. With(o, "waitRead") = {} /\ With(o, "waitWrite") = {}
      BY <1>1, <1>4, <2>1, RangeEmpty DEF LockInv, QueueInv
    <3>4. With(o, "reading") \ {c} = {} /\ With(o, "writing") \ {c} = {}
      BY <1>1, <2>1, FreeObject
    <3> QED BY <3>1, <3>2, <3>3, <3>4 DEF Waiting, Holding
  <2>5. RefInv' /\ TableInv'
    <3>1. \A d \in Clients : /\ pc'[d] = IF d = c THEN "idle" ELSE pc[d]
                             /\ ref'[d] = IF d = c THEN NoObject ELSE ref[d]
      BY <2>1 DEF Leave, TypeOK
    <3>2. key' = key
      BY <2>1 DEF Leave
    <3>3. \A k \in Keys : locks'[k] = IF k = key[c] THEN NoObject ELSE locks[k]
      BY <2>1 DEF TypeOK
    <3>4. \A d \in Clients \ {c} : pc[d] # "idle" => key[d] # key[c]
      BY <1>1, <2>4 DEF LockInv, RefInv
    <3>5. RefInv'
      BY <3>1, <3>2, <3>3, <3>4 DEF LockInv, RefInv, TypeOK
    <3>6. TableInv'
      BY <3>3 DEF LockInv, TableInv
    <3> QED BY <3>5, <3>6
  <2>6. HolderInv'
    <3>1. \A p \in Objects : /\ readers'[p] = rd[p] /\ writer'[p] = wr[p]
                             /\ readers'[p] = Cardinality(With(p, "reading")')
      BY <2>1, <2>3 DEF Discounted
    <3> QED BY <1>2, <2>3, <3>1 DEF HolderInv, Discounted
  <2>7. QueueInv'
    BY <2>1, <2>3 DEF LockInv, QueueInv
  <2>8. WakeInv' /\ EntryInv'
    <3>1. \A p \in Objects \ {o} : (writer[p] \/ readers[p] > 0) => (writer'[p] \/ readers'[p] > 0)
      BY <1>1, <2>1 DEF Discounted
    <3>2. \A k \in Keys : locks'[k] # NoObject => locks'[k] = locks[k] /\ locks[k] \in Objects \ {o}
      BY <1>1, <2>1 DEF LockInv, TableInv, TypeOK
    <3>3. WakeInv'
      BY <2>1, <3>1 DEF LockInv, WakeInv
    <3>4. EntryInv'
      BY <3>1, <3>2 DEF LockInv, EntryInv
    <3> QED BY <3>3, <3>4
  <2> QED BY <2>5, <2>6, <2>7, <2>8 DEF LockInv
<1>7. ASSUME WakeWriter(c, o, rd, wr) PROVE LockInv'
  <2> DEFINE w == Head(waitingWriters[o])
  <2>1. /\ ~StillHeld(o, rd, wr) /\ waitingWriters[o] # <<>>
        /\ waitingWriters' = [waitingWriters EXCEPT ![o] = Tail(@)]
        /\ writer' = [wr EXCEPT ![o] = TRUE]
        /\ readers' = rd
        /\ Leave(c, {w}, "writing")
        /\ UNCHANGED <<locks, waitingReaders>>
    BY <1>7 DEF WakeWriter
  <2>2. rd[o] = 0 /\ With(o, "reading") \ {c} = {} /\ With(o, "writing") \ {c} = {}
    <3>1. o \in Objects /\ ~StillHeld(o, rd, wr)
      BY <1>1, <2>1
    <3> HIDE DEF o
    <3> QED BY <3>1, FreeObject
  <2>3. /\ IsInjective(waitingWriters[o]) /\ Range(waitingWriters[o]) = With(o, "waitWrite")
        /\ w \in Clients /\ w \in Range(waitingWriters[o])
        /\ Range(Tail(waitingWriters[o])) = Range(waitingWriters[o]) \ {w}
        /\ IsInjective(Tail(waitingWriters[o]))
    BY <1>1, <1>4, <2>1, RangeTail, RangeEmpty DEF LockInv, QueueInv
  <2>4. w # c /\ pc[w] = "waitWrite" /\ ref[w] = o
    BY <1>1, <1>3, <2>3 DEF With
  <2>5. Left(c, {w}, "writing") /\ RefInv' /\ TableInv'
    BY <2>1, <2>3, <2>4, LeaveFacts DEF Waiting, Holding
  <2>6. \A p \in Objects :
          /\ With(p, "reading")' = With(p, "reading") \ {c}
          /\ With(p, "writing")' = IF p = o THEN {w} ELSE With(p, "writing") \ {c}
          /\ With(p, "waitRead")' = With(p, "waitRead")
          /\ With(p, "waitWrite")' = With(p, "waitWrite") \ {w}
    <3>0. \A p \in Objects : {d \in {w} : ref[d] = p /\ d # c} = IF p = o THEN {w} ELSE {}
      BY <1>1, <2>4
    <3>1. \A p \in Objects :
            /\ w \notin With(p, "reading") /\ w \notin With(p, "writing")
            /\ w \notin With(p, "waitRead")
      BY <2>4 DEF With
    <3>2. \A p \in Objects : With(p, "writing")' =
            {d \in With(p, "writing") \ {c} : d \notin {w}} \cup
            {d \in {w} : ref[d] = p /\ d # c}
      BY <2>5 DEF Left, Waiting, Holding
    <3>3. \A p \in Objects, s \in {"reading", "waitRead", "waitWrite"} :
            With(p, s)' = {d \in With(p, s) \ {c} : d \notin {w}}
      BY <2>5 DEF Left, Waiting, Holding
    <3>4. \A p \in Objects : With(p, "writing")' = IF p = o THEN {w} ELSE With(p, "writing") \ {c}
      BY <2>2, <3>0, <3>1, <3>2
    <3>5. ASSUME NEW p \in Objects
          PROVE  /\ {d \in With(p, "reading") \ {c} : d \notin {w}} = With(p, "reading") \ {c}
                 /\ {d \in With(p, "waitRead") \ {c} : d \notin {w}} = With(p, "waitRead")
                 /\ {d \in With(p, "waitWrite") \ {c} : d \notin {w}} = With(p, "waitWrite") \ {w}
      BY <1>3, <3>1
    <3> QED BY <3>3, <3>4, <3>5
  <2>7. HolderInv'
    <3>1. \A p \in Objects : /\ readers'[p] = rd[p]
                             /\ writer'[p] = IF p = o THEN TRUE ELSE wr[p]
                             /\ readers'[p] = Cardinality(With(p, "reading")')
      BY <2>1, <2>6 DEF Discounted
    <3>2. ASSUME NEW p \in Objects
          PROVE  /\ writer'[p] <=> With(p, "writing")' # {}
                 /\ writer'[p] => readers'[p] = 0
                 /\ \A d, e \in With(p, "writing")' : d = e
      <4>1. CASE p = o
        <5>1. With(p, "writing")' = {w}
          BY <2>6, <4>1
        <5>2. writer'[p] /\ readers'[p] = 0
          BY <2>2, <3>1, <4>1
        <5> QED BY <5>1, <5>2
      <4>2. CASE p # o
        <5>1. With(p, "writing")' = With(p, "writing") \ {c}
          BY <2>6, <4>2
        <5>2. writer'[p] = wr[p] /\ readers'[p] = rd[p]
          BY <3>1, <4>2
        <5> QED BY <1>2, <5>1, <5>2 DEF Discounted
      <4> QED BY <4>1, <4>2
    <3> QED BY <3>1, <3>2 DEF HolderInv
  <2>8. QueueInv'
    <3>1. \A p \in Objects \ {o} : w \notin With(p, "waitWrite")
      BY <2>4 DEF With
    <3>2. \A p \in Objects : waitingWriters'[p] = IF p = o THEN Tail(waitingWriters[o])
                                                            ELSE waitingWriters[p]
      BY <2>1 DEF TypeOK
    <3>3. ASSUME NEW p \in Objects
          PROVE  /\ IsInjective(waitingWriters'[p])
                 /\ Range(waitingWriters'[p]) = With(p, "waitWrite")'
      <4>1. CASE p = o
        BY <2>3, <2>6, <3>2, <4>1
      <4>2. CASE p # o
        <5>1. With(p, "waitWrite") \ {w} = With(p, "waitWrite")
          BY <3>1, <4>2
        <5> QED BY <2>6, <3>2, <4>2, <5>1 DEF LockInv, QueueInv
      <4> QED BY <4>1, <4>2
    <3>4. \A p \in Objects : /\ waitingReaders'[p] = waitingReaders[p]
                             /\ With(p, "waitRead")' = With(p, "waitRead")
      BY <2>1, <2>6
    <3> QED BY <3>3, <3>4 DEF LockInv, QueueInv
  <2>9. WakeInv' /\ EntryInv'
    <3>1. \A p \in Objects : (writer[p] \/ readers[p] > 0) => (writer'[p] \/ readers'[p] > 0)
      BY <1>1, <2>1 DEF Discounted
    <3>2. \A k \in Keys : locks[k] # NoObject => locks[k] \in Objects
      BY DEF TypeOK
    <3>3. writer'[o]
      BY <1>1, <2>1 DEF Discounted
    <3>4. \A p \in Objects \ {o} : waitingWriters'[p] = waitingWriters[p]
      BY <2>1 DEF TypeOK
    <3> QED BY <2>1, <3>1, <3>2, <3>3, <3>4 DEF LockInv, WakeInv, EntryInv
  <2> QED BY <2>5, <2>7, <2>8, <2>9 DEF LockInv
<1>8. ASSUME WakeReaders(c, o, rd, wr) PROVE LockInv'
  <2> DEFINE q == waitingReaders[o]
  <2>1. /\ ~StillHeld(o, rd, wr) /\ waitingWriters[o] = <<>> /\ q # <<>>
        /\ readers' = [rd EXCEPT ![o] = @ + Len(q)]
        /\ waitingReaders' = [waitingReaders EXCEPT ![o] = <<>>]
        /\ writer' = wr
        /\ Leave(c, Range(q), "reading")
        /\ UNCHANGED <<locks, waitingWriters>>
    BY <1>8 DEF WakeReaders
  <2>2. rd[o] = 0 /\ With(o, "reading") \ {c} = {} /\ With(o, "writing") \ {c} = {}
    <3>1. ~StillHeld(o, rd, wr)
      BY <2>1
    <3> HIDE DEF o, q
    <3> QED BY <1>1, <3>1, FreeObject
  <2>3. /\ Range(q) = With(o, "waitRead")
        /\ Cardinality(Range(q)) = Len(q) /\ Len(q) \in Nat \ {0}
    BY <1>1, <1>4, <2>1, RangeCardinality, EmptySeq DEF LockInv, QueueInv
  <2>4. /\ Range(q) \in SUBSET Clients /\ c \notin Range(q)
        /\ \A d \in Range(q) : pc[d] = "waitRead" /\ ref[d] = o
    BY <1>1, <1>3, <2>3 DEF With
  <2>5. Left(c, Range(q), "reading") /\ RefInv' /\ TableInv'
    BY <2>1, <2>4, LeaveFacts DEF Waiting, Holding
  <2>6. \A p \in Objects :
          /\ With(p, "reading")' = IF p = o THEN Range(q) ELSE With(p, "reading") \ {c}
          /\ With(p, "writing")' = With(p, "writing") \ {c}
          /\ With(p, "waitRead")' = IF p = o THEN {} ELSE With(p, "waitRead")
          /\ With(p, "waitWrite")' = With(p, "waitWrite")
    <3>0. \A p \in Objects : {d \in Range(q) : ref[d] = p /\ d # c} = IF p = o THEN Range(q) ELSE {}
      BY <1>1, <2>4
    <3>1. \A p \in Objects : \A d \in Range(q) :
            /\ d \notin With(p, "reading") /\ d \notin With(p, "writing")
            /\ d \notin With(p, "waitWrite")
            /\ p # o => d \notin With(p, "waitRead")
      BY <2>4 DEF With
    <3>2. \A p \in Objects : With(p, "reading")' =
            {d \in With(p, "reading") \ {c} : d \notin Range(q)} \cup
            {d \in Range(q) : ref[d] = p /\ d # c}
      BY <2>5 DEF Left, Waiting, Holding
    <3>3. \A p \in Objects, s \in {"writing", "waitRead", "waitWrite"} :
            With(p, s)' = {d \in With(p, s) \ {c} : d \notin Range(q)}
      BY <2>5 DEF Left, Waiting, Holding
    <3>4. \A p \in Objects : With(p, "reading")' = IF p = o THEN Range(q) ELSE With(p, "reading") \ {c}
      BY <2>2, <3>0, <3>1, <3>2
    <3>5. \A p \in Objects : With(p, "waitRead")' = IF p = o THEN {} ELSE With(p, "waitRead")
      <4>1. \A p \in Objects : With(p, "waitRead")' =
              {d \in With(p, "waitRead") \ {c} : d \notin Range(q)}
        BY <3>3
      <4>2. {d \in With(o, "waitRead") \ {c} : d \notin Range(q)} = {}
        BY <2>3
      <4>3. ASSUME NEW p \in Objects, p # o
            PROVE  {d \in With(p, "waitRead") \ {c} : d \notin Range(q)} = With(p, "waitRead")
        BY <1>3, <3>1, <4>3
      <4> QED BY <4>1, <4>2, <4>3
    <3>6. ASSUME NEW p \in Objects
          PROVE  /\ {d \in With(p, "writing") \ {c} : d \notin Range(q)} = With(p, "writing") \ {c}
                 /\ {d \in With(p, "waitWrite") \ {c} : d \notin Range(q)} = With(p, "waitWrite")
      BY <1>3, <3>1
    <3> QED BY <3>3, <3>4, <3>5, <3>6
  <2>7. HolderInv'
    <3>1. \A p \in Objects : /\ readers'[p] = IF p = o THEN Len(q) ELSE rd[p]
                             /\ writer'[p] = wr[p]
      BY <2>1, <2>2, <2>3 DEF Discounted
    <3>2. \A p \in Objects : readers'[p] = Cardinality(With(p, "reading")')
      BY <2>3, <2>6, <3>1 DEF Discounted
    <3>3. \A p \in Objects : /\ writer'[p] <=> With(p, "writing")' # {}
                             /\ \A d, e \in With(p, "writing")' : d = e
      <4> SUFFICES ASSUME NEW p \in Objects
                   PROVE  /\ writer'[p] <=> With(p, "writing")' # {}
                          /\ \A d, e \in With(p, "writing")' : d = e
        OBVIOUS
      <4>1. writer'[p] = wr[p] /\ With(p, "writing")' = With(p, "writing") \ {c}
        BY <2>6, <3>1
      <4> QED BY <1>2, <4>1 DEF Discounted
    <3>4. \A p \in Objects : writer'[p] => readers'[p] = 0
      <4>1. ~wr[o]
        BY <1>1, <2>2 DEF Discounted
      <4> QED BY <3>1, <4>1 DEF Discounted
    <3> QED BY <3>2, <3>3, <3>4 DEF HolderInv
  <2>8. QueueInv'
    <3>1. \A p \in Objects : waitingReaders'[p] = IF p = o THEN <<>> ELSE waitingReaders[p]
      BY <2>1 DEF TypeOK
    <3>2. Range(<<>>) = {} /\ IsInjective(<<>>)
      BY <1>1, <1>4, RangeEmpty
    <3>3. ASSUME NEW p \in Objects
          PROVE  /\ IsInjective(waitingReaders'[p])
                 /\ Range(waitingReaders'[p]) = With(p, "waitRead")'
      <4>1. CASE p = o
        BY <2>6, <3>1, <3>2, <4>1
      <4>2. CASE p # o
        BY <2>6, <3>1, <4>2 DEF LockInv, QueueInv
      <4> QED BY <4>1, <4>2
    <3>4. \A p \in Objects : /\ waitingWriters'[p] = waitingWriters[p]
                             /\ With(p, "waitWrite")' = With(p, "waitWrite")
      BY <2>1, <2>6
    <3> QED BY <3>3, <3>4 DEF LockInv, QueueInv
  <2>9. WakeInv' /\ EntryInv'
    <3>1. readers'[o] > 0
      BY <1>1, <2>1, <2>2, <2>3 DEF Discounted
    <3>2. \A p \in Objects \ {o} : (writer[p] \/ readers[p] > 0) => (writer'[p] \/ readers'[p] > 0)
      BY <1>1, <2>1 DEF Discounted
    <3>3. \A p \in Objects \ {o} : waitingReaders'[p] = waitingReaders[p]
      BY <2>1 DEF TypeOK
    <3>4. \A k \in Keys : locks[k] # NoObject => locks[k] \in Objects
      BY DEF TypeOK
    <3> QED BY <2>1, <3>1, <3>2, <3>3, <3>4 DEF LockInv, WakeInv, EntryInv
  <2> QED BY <2>5, <2>7, <2>8, <2>9 DEF LockInv
<1> QED BY <1>5, <1>6, <1>7, <1>8 DEF Process

\* What disposeRead and disposeWrite do to the counters before process() runs.
LEMMA DiscountFacts ==
  ASSUME TypeOK, LockInv, NEW c \in Clients
  PROVE  /\ pc[c] = "reading" => Discounted(c, [readers EXCEPT ![ref[c]] = @ - 1], writer)
         /\ pc[c] = "writing" => Discounted(c, readers, [writer EXCEPT ![ref[c]] = FALSE])
<1>1. pc[c] \in Holding => ref[c] \in Objects
  BY DEF LockInv, RefInv, TypeOK, Holding
<1>2. \A p \in Objects, s \in Holding :
        p # ref[c] \/ s # pc[c] => With(p, s) \ {c} = With(p, s)
  BY DEF With
<1>3. \A p \in Objects : /\ readers[p] = Cardinality(With(p, "reading"))
                         /\ writer[p] <=> With(p, "writing") # {}
                         /\ writer[p] => readers[p] = 0
  BY DEF LockInv, HolderInv
<1>4. ASSUME pc[c] = "reading"
      PROVE  Discounted(c, [readers EXCEPT ![ref[c]] = @ - 1], writer)
  <2> DEFINE o == ref[c]
             rd == [readers EXCEPT ![o] = @ - 1]
  <2>1. o \in Objects /\ c \in With(o, "reading")
    BY <1>1, <1>4 DEF Holding, With
  <2>2. IsFiniteSet(With(o, "reading"))
    BY ReadersFinite
  <2>3. Cardinality(With(o, "reading") \ {c}) = readers[o] - 1
    <3>1. Cardinality(With(o, "reading") \ {c}) = Cardinality(With(o, "reading")) - 1
      BY <2>1, <2>2, FS_RemoveElement
    <3> QED BY <1>3, <2>1, <3>1
  <2>4. readers[o] \in Nat /\ readers[o] # 0
    BY <1>3, <2>1, <2>2, FS_EmptySet DEF TypeOK
  <2>5. rd \in [Objects -> Nat] /\ \A p \in Objects : rd[p] = IF p = o THEN readers[o] - 1 ELSE readers[p]
    BY <2>1, <2>4 DEF TypeOK
  <2>6. ASSUME NEW p \in Objects
        PROVE  /\ rd[p] = Cardinality(With(p, "reading") \ {c})
               /\ writer[p] <=> With(p, "writing") \ {c} # {}
               /\ writer[p] => rd[p] = 0
               /\ p # ref[c] => rd[p] = readers[p]
    <3>1. With(p, "writing") \ {c} = With(p, "writing")
      BY <1>2, <1>4 DEF Holding
    <3>2. p # o => With(p, "reading") \ {c} = With(p, "reading")
      BY <1>2 DEF Holding
    <3>3. rd[p] = Cardinality(With(p, "reading") \ {c})
      BY <1>3, <2>3, <2>5, <3>2
    <3>4. writer[p] => p # o
      BY <1>3, <2>4
    <3> HIDE DEF rd
    <3> QED BY <1>3, <2>5, <3>1, <3>3, <3>4
  <2> HIDE DEF rd
  <2> QED BY <2>5, <2>6 DEF Discounted, TypeOK
<1>5. ASSUME pc[c] = "writing"
      PROVE  Discounted(c, readers, [writer EXCEPT ![ref[c]] = FALSE])
  <2> DEFINE o == ref[c]
             wr == [writer EXCEPT ![o] = FALSE]
  <2>1. o \in Objects /\ With(o, "writing") = {c}
    <3>1. o \in Objects /\ c \in With(o, "writing")
      BY <1>1, <1>5 DEF Holding, With
    <3> QED BY <3>1 DEF LockInv, HolderInv
  <2>2. wr \in [Objects -> BOOLEAN] /\ ~wr[o] /\ \A p \in Objects \ {o} : wr[p] = writer[p]
    BY <2>1 DEF TypeOK
  <2>3. ASSUME NEW p \in Objects
        PROVE  /\ readers[p] = Cardinality(With(p, "reading") \ {c})
               /\ wr[p] <=> With(p, "writing") \ {c} # {}
               /\ wr[p] => readers[p] = 0
               /\ p # ref[c] => wr[p] = writer[p]
    <3>1. With(p, "reading") \ {c} = With(p, "reading")
      BY <1>2, <1>5 DEF Holding
    <3>2. p # o => With(p, "writing") \ {c} = With(p, "writing")
      BY <1>2 DEF Holding
    <3> HIDE DEF wr
    <3>3. CASE p = o
      BY <1>3, <2>1, <2>2, <3>1, <3>3
    <3>4. CASE p # o
      BY <1>3, <2>2, <3>1, <3>2, <3>4
    <3> QED BY <3>3, <3>4
  <2>4. readers \in [Objects -> Nat]
    BY DEF TypeOK
  <2>5. ASSUME NEW w, w \in [Objects -> BOOLEAN],
               \A p \in Objects : /\ readers[p] = Cardinality(With(p, "reading") \ {c})
                                  /\ w[p] <=> With(p, "writing") \ {c} # {}
                                  /\ w[p] => readers[p] = 0
                                  /\ p # ref[c] => w[p] = writer[p]
        PROVE  Discounted(c, readers, w)
    BY <2>4, <2>5 DEF Discounted
  <2> QED BY <2>2, <2>3, <2>5
<1> QED BY <1>4, <1>5

-----------------------------------------------------------------------------
(* The theorems *)

\* TypeOK and LockInv hold in every reachable state of RWLock.
THEOREM LockCorrect == Spec => [](TypeOK /\ LockInv)
<1>1. Init => TypeOK /\ LockInv
  <2> SUFFICES ASSUME Init PROVE TypeOK /\ LockInv
    OBVIOUS
  <2>1. TypeOK
    BY EmptySeq DEF Init, TypeOK
  <2>2. \A o \in Objects, s \in Waiting \cup Holding : With(o, s) = {}
    BY DEF Init, With, Waiting, Holding
  <2>3. Cardinality({}) = 0 /\ Range(<<>>) = {} /\ IsInjective(<<>>)
    BY FS_EmptySet, EmptySeq, RangeEmpty
  <2>4. HolderInv
    <3>1. \A o \in Objects : With(o, "reading") = {} /\ With(o, "writing") = {}
      BY <2>2 DEF Holding
    <3> QED BY <2>3, <3>1 DEF Init, HolderInv
  <2>5. QueueInv
    BY <2>2, <2>3 DEF Init, QueueInv, Waiting
  <2>6. RefInv /\ TableInv /\ WakeInv /\ EntryInv
    BY DEF Init, RefInv, TableInv, WakeInv, EntryInv
  <2> QED BY <2>1, <2>4, <2>5, <2>6 DEF LockInv
<1>2. TypeOK /\ LockInv /\ [Next]_vars => TypeOK' /\ LockInv'
  <2> SUFFICES ASSUME TypeOK, LockInv, [Next]_vars PROVE LockInv'
    BY TypeStep
  <2>1. ASSUME NEW c \in Clients, NEW k \in Keys, NEW o \in Objects, Call(c, k, o)
        PROVE  LockInv'
    BY <2>1, CallStep
  <2>2. ASSUME NEW c \in Clients, Dispose(c) PROVE LockInv'
    <3>1. CASE DisposeRead(c)
      BY <3>1, DiscountFacts, ProcessStep DEF DisposeRead, Holding
    <3>2. CASE DisposeWrite(c)
      BY <3>2, DiscountFacts, ProcessStep DEF DisposeWrite, Holding
    <3> QED BY <2>2, <3>1, <3>2 DEF Dispose
  <2>3. CASE UNCHANGED vars
    <3>1. \A o, s : With(o, s)' = With(o, s)
      BY <2>3 DEF vars, With
    <3>2. RefInv' /\ TableInv' /\ WakeInv' /\ EntryInv'
      BY <2>3 DEF vars, LockInv, RefInv, TableInv, WakeInv, EntryInv
    <3>3. HolderInv' /\ QueueInv'
      BY <2>3, <3>1 DEF vars, LockInv, HolderInv, QueueInv
    <3> QED BY <3>2, <3>3 DEF LockInv
  <2> QED BY <2>1, <2>2, <2>3 DEF Next
<1> QED BY <1>1, <1>2, PTL DEF Spec

\* Every variable of the lock keeps its type; the counters of readers, for one,
\* do not go below zero.
THEOREM LockTyped == Spec => []TypeOK
<1> QED BY LockCorrect, PTL

\* Readers share a key, a writer has it alone, for any number of scopes.
THEOREM MutualExclusionHolds == Spec => []MutualExclusion
<1>1. TypeOK /\ LockInv => MutualExclusion
  <2> SUFFICES ASSUME TypeOK, LockInv, NEW c \in Clients, NEW d \in Clients,
                      pc[c] = "writing", pc[d] \in Holding, key[c] = key[d]
               PROVE  c = d
    BY DEF MutualExclusion
  <2>1. ref[c] = ref[d] /\ ref[c] \in Objects
    BY DEF LockInv, RefInv, TypeOK, Holding
  <2>2. c \in With(ref[c], "writing")
    BY DEF With
  <2>3. writer[ref[c]] /\ readers[ref[c]] = 0
    BY <2>1, <2>2 DEF LockInv, HolderInv
  <2>4. With(ref[c], "reading") = {}
    BY <2>1, <2>3, ReadersFinite, FS_EmptySet DEF LockInv, HolderInv
  <2>5. d \in With(ref[c], "writing")
    BY <2>1, <2>4 DEF With, Holding
  <2> QED BY <2>1, <2>2, <2>5 DEF LockInv, HolderInv
<1> QED BY <1>1, LockCorrect, PTL

\* Whoever waits for a key waits behind a scope that holds it, so no wake-up
\* is ever lost.
THEOREM NoLostWakeup == Spec => []WaitersHaveHolder
<1>1. TypeOK /\ LockInv => WaitersHaveHolder
  <2> SUFFICES ASSUME TypeOK, LockInv, NEW k \in Keys, NEW c \in OnKey(k, Waiting)
               PROVE  OnKey(k, Holding) # {}
    BY DEF WaitersHaveHolder
  <2> DEFINE o == ref[c]
  <2>1. c \in Clients /\ key[c] = k /\ pc[c] \in Waiting
    BY DEF OnKey
  <2>2. o \in Objects /\ locks[k] = o
    BY <2>1 DEF LockInv, RefInv, TypeOK, Waiting
  <2>3. c \in With(o, pc[c])
    BY <2>1 DEF With
  <2>4. waitingReaders[o] # <<>> \/ waitingWriters[o] # <<>>
    <3>1. waitingReaders[o] \in Seq(Clients)
      BY <2>2 DEF TypeOK
    <3>2. Range(<<>>) = {}
      BY <3>1, RangeEmpty
    <3>3. c \in Range(waitingReaders[o]) \/ c \in Range(waitingWriters[o])
      BY <2>1, <2>2, <2>3 DEF LockInv, QueueInv, Waiting
    <3> QED BY <3>2, <3>3
  <2>5. writer[o] \/ readers[o] > 0
    BY <2>2, <2>4 DEF LockInv, WakeInv
  <2>6. PICK s \in Holding : With(o, s) # {}
    <3>1. writer[o] => With(o, "writing") # {}
      BY <2>2 DEF LockInv, HolderInv
    <3>2. readers[o] > 0 => With(o, "reading") # {}
      <4>1. readers[o] = Cardinality(With(o, "reading"))
        BY <2>2 DEF LockInv, HolderInv
      <4>2. readers[o] > 0 => readers[o] # 0
        BY <2>2 DEF TypeOK
      <4> QED BY <4>1, <4>2, FS_EmptySet
    <3> QED BY <2>5, <3>1, <3>2 DEF Holding
  <2>7. PICK d \in Clients : ref[d] = o /\ pc[d] = s
    BY <2>6 DEF With
  <2>8. locks[key[d]] = o /\ key[d] \in Keys
    BY <2>2, <2>7, NoObjectFresh DEF LockInv, RefInv, TypeOK
  <2>9. key[d] = k
    BY <2>2, <2>8, NoObjectFresh DEF LockInv, TableInv
  <2> QED BY <2>6, <2>7, <2>9 DEF OnKey
<1> QED BY <1>1, LockCorrect, PTL

\* An entry of the table is in use: the table does not grow with the keys that
\* were ever locked.
THEOREM TableStaysSmall == Spec => []TableIsCollected
<1>1. TypeOK /\ LockInv => TableIsCollected
  <2> SUFFICES ASSUME TypeOK, LockInv, NEW k \in Keys, locks[k] # NoObject
               PROVE  OnKey(k, Waiting \cup Holding) # {}
    BY DEF TableIsCollected
  <2>1. PICK o \in Objects : o = locks[k]
    BY DEF TypeOK
  <2>2. writer[o] \/ readers[o] > 0
    BY <2>1 DEF LockInv, EntryInv
  <2>3. PICK s \in Holding : With(o, s) # {}
    <3>1. writer[o] => With(o, "writing") # {}
      BY <2>1 DEF LockInv, HolderInv
    <3>2. readers[o] > 0 => With(o, "reading") # {}
      <4>1. readers[o] = Cardinality(With(o, "reading"))
        BY <2>1 DEF LockInv, HolderInv
      <4>2. readers[o] > 0 => readers[o] # 0
        BY <2>1 DEF TypeOK
      <4> QED BY <4>1, <4>2, FS_EmptySet
    <3> QED BY <2>2, <3>1, <3>2 DEF Holding
  <2>4. PICK d \in Clients : ref[d] = o /\ pc[d] = s
    BY <2>3 DEF With
  <2>5. locks[key[d]] = o /\ key[d] \in Keys
    BY <2>1, <2>4, NoObjectFresh DEF LockInv, RefInv, TypeOK
  <2>6. key[d] = k
    BY <2>1, <2>5, NoObjectFresh DEF LockInv, TableInv
  <2> QED BY <2>3, <2>4, <2>6 DEF OnKey
<1> QED BY <1>1, LockCorrect, PTL

\* No reader starts to read a key that a writer was waiting for.
THEOREM WritersFirst == Spec => ReadersYieldToWriters
<1> DEFINE Yield == \A c, d \in Clients :
       /\ pc[c] # "reading" /\ pc'[c] = "reading"
       /\ pc[d] = "waitWrite"
       => key[d] # key'[c]
<1>1. TypeOK /\ LockInv /\ [Next]_vars => [Yield]_vars
  <2> SUFFICES ASSUME TypeOK, LockInv, Next,
                      NEW c \in Clients, NEW d \in Clients,
                      pc[c] # "reading", pc'[c] = "reading",
                      pc[d] = "waitWrite", key[d] = key'[c]
               PROVE  FALSE
    OBVIOUS
  <2>0. /\ ref[d] \in Objects /\ locks[key[d]] = ref[d]
        /\ waitingWriters[ref[d]] # <<>>
    <3>1. ref[d] \in Objects /\ locks[key[d]] = ref[d]
      BY DEF LockInv, RefInv, TypeOK
    <3>2. d \in Range(waitingWriters[ref[d]])
      BY <3>1 DEF LockInv, QueueInv, With
    <3> QED BY <3>1, <3>2, RangeEmpty DEF TypeOK
  <2>1. ASSUME NEW e \in Clients, NEW k \in Keys, NEW o \in Objects, Call(e, k, o)
        PROVE  FALSE
    <3>1. Enter(e, k, o, "reading") /\ waitingWriters[o] = <<>> /\ e = c
      BY <2>1 DEF Call, ReadNow, ReadLater, WriteNow, WriteLater, MayRead, Enter, TypeOK
    <3>2. key'[c] = k /\ Get(k, o)
      BY <3>1 DEF Enter, TypeOK
    <3> QED BY <2>0, <3>1, <3>2, NoObjectFresh DEF Get
  <2>2. ASSUME NEW e \in Clients, NEW rd, NEW wr, pc[e] \in Holding,
               Process(e, locks[key[e]], rd, wr)
        PROVE  FALSE
    <3> DEFINE o == locks[key[e]]
    <3>1. key' = key
      BY <2>2 DEF Process, WakeNobody, WakeWriter, WakeReaders, DeleteLock, Leave
    <3>2. c \in Range(waitingReaders[o]) /\ waitingWriters[o] = <<>>
      BY <2>2 DEF Process, WakeNobody, WakeWriter, WakeReaders, DeleteLock, Leave
    <3>3. o \in Objects
      BY <2>2 DEF LockInv, RefInv, TypeOK, Holding
    <3>4. ref[c] = o /\ pc[c] = "waitRead"
      BY <3>2, <3>3 DEF LockInv, QueueInv, With
    <3>5. locks[key[c]] = o
      BY <3>4 DEF LockInv, RefInv
    <3> QED BY <2>0, <3>1, <3>2, <3>5
  <2>3. ASSUME NEW e \in Clients, Dispose(e) PROVE FALSE
    <3>1. CASE DisposeRead(e)
      BY <2>2, <3>1 DEF DisposeRead, Holding
    <3>2. CASE DisposeWrite(e)
      BY <2>2, <3>2 DEF DisposeWrite, Holding
    <3> QED BY <2>3, <3>1, <3>2 DEF Dispose
  <2> QED BY <2>1, <2>3 DEF Next
<1> QED BY <1>1, LockCorrect, PTL DEF Spec, ReadersYieldToWriters

-----------------------------------------------------------------------------
(* The refinement: the classes of scopes that KeyedLock reads off the      *)
(* scopes themselves are the ones that the counters and queues of the      *)
(* key's lock object stand for.                                            *)

\* The class of scopes of key k in status s, as the abstract lock sees it.
Class(k, s) == {c \in Clients : key[c] = k /\ pc[c] = s}

\* The scopes of a key are those that captured the key's lock object, and a
\* key whose object is yet to be created has none.
LEMMA ClassIsWith ==
  ASSUME TypeOK, LockInv, NEW k \in Keys, NEW o \in Objects,
         locks[k] = o \/ (locks[k] = NoObject /\ ~Reachable(o)),
         NEW s \in Waiting \cup Holding
  PROVE  Class(k, s) = With(o, s)
<1>1. \A c \in Clients : pc[c] = s => ref[c] # NoObject /\ locks[key[c]] = ref[c]
  BY DEF LockInv, RefInv, Waiting, Holding
<1>2. \A c \in Clients : key[c] \in Keys
  BY DEF TypeOK
<1>3. CASE locks[k] = o
  BY <1>1, <1>2, <1>3 DEF LockInv, TableInv, Class, With
<1>4. CASE locks[k] = NoObject /\ ~Reachable(o)
  <2>1. With(o, s) = {}
    BY <1>4 DEF With, Reachable
  <2>2. Class(k, s) = {}
    BY <1>1, <1>4 DEF Class
  <2> QED BY <2>1, <2>2
<1> QED BY <1>3, <1>4

\* What the object's counters and queues say about its classes.
LEMMA ObjectFacts ==
  ASSUME TypeOK, LockInv, NEW o \in Objects
  PROVE  /\ writer[o] <=> With(o, "writing") # {}
         /\ readers[o] = 0 <=> With(o, "reading") = {}
         /\ waitingWriters[o] = <<>> <=> With(o, "waitWrite") = {}
         /\ Range(waitingReaders[o]) = With(o, "waitRead")
         /\ waitingWriters[o] # <<>> => Head(waitingWriters[o]) \in With(o, "waitWrite")
<1>1. writer[o] <=> With(o, "writing") # {}
  BY DEF LockInv, HolderInv
<1>2. readers[o] = 0 <=> With(o, "reading") = {}
  <2>1. readers[o] = Cardinality(With(o, "reading"))
    BY DEF LockInv, HolderInv
  <2> QED BY <2>1, ReadersFinite, FS_EmptySet
<1>3. /\ Range(waitingReaders[o]) = With(o, "waitRead")
      /\ Range(waitingWriters[o]) = With(o, "waitWrite")
  BY DEF LockInv, QueueInv
<1>4. waitingWriters[o] \in Seq(Clients)
  BY DEF TypeOK
<1>5. waitingWriters[o] = <<>> <=> With(o, "waitWrite") = {}
  BY <1>3, <1>4, RangeEmpty
<1>6. waitingWriters[o] # <<>> => Head(waitingWriters[o]) \in With(o, "waitWrite")
  BY <1>3, <1>4, RangeEmpty
<1> QED BY <1>1, <1>2, <1>3, <1>5, <1>6

\* Every call is a call of the abstract lock, granted in the same cases.
LEMMA CallImplements ==
  ASSUME TypeOK, LockInv, NEW c \in Clients, NEW k \in Keys, NEW o \in Objects,
         Call(c, k, o)
  PROVE  Abs!Next
<1>1. Get(k, o)
  BY DEF Call, ReadNow, ReadLater, WriteNow, WriteLater, Enter
<1>2. \A s \in Waiting \cup Holding : Class(k, s) = With(o, s)
  BY <1>1, ClassIsWith DEF Get
<1>3. Abs!Scopes(k, {"writing", "waitWrite"}) = With(o, "writing") \cup With(o, "waitWrite")
  BY <1>2 DEF Abs!Scopes, Class, Waiting, Holding
<1>4. Abs!Holders(k) = With(o, "reading") \cup With(o, "writing")
  BY <1>2 DEF Abs!Holders, Abs!Scopes, Class, Waiting, Holding
<1>5. MayRead(o) <=> Abs!Scopes(k, {"writing", "waitWrite"}) = {}
  BY <1>3, ObjectFacts DEF MayRead
<1>6. MayWrite(o) <=> Abs!Holders(k) = {}
  BY <1>4, ObjectFacts DEF MayWrite
<1>7. CASE ReadNow(c, k, o)
  BY <1>5, <1>7 DEF ReadNow, Enter, Abs!Next, Abs!Read, Abs!Ask
<1>8. CASE ReadLater(c, k, o)
  BY <1>5, <1>8 DEF ReadLater, Enter, Abs!Next, Abs!Read, Abs!Ask
<1>9. CASE WriteNow(c, k, o)
  BY <1>6, <1>9 DEF WriteNow, Enter, Abs!Next, Abs!Write, Abs!Ask
<1>10. CASE WriteLater(c, k, o)
  BY <1>6, <1>10 DEF WriteLater, Enter, Abs!Next, Abs!Write, Abs!Ask
<1> QED BY <1>7, <1>8, <1>9, <1>10 DEF Call

\* Every disposal is the abstract release, which hands the key to the same
\* scopes: process() finds the object of its key again, and the object's
\* counters without the leaving scope are zero iff nobody else holds the key.
LEMMA ProcessImplements ==
  ASSUME TypeOK, LockInv, NEW c \in Clients, pc[c] \in Holding,
         NEW rd, NEW wr, Discounted(c, rd, wr),
         Process(c, locks[key[c]], rd, wr)
  PROVE  Abs!Release(c)
<1> DEFINE o == locks[key[c]]
           k == key[c]
<1>1. o = ref[c] /\ o \in Objects /\ k \in Keys
  BY DEF LockInv, RefInv, TypeOK, Holding
<1>2. \A s \in Waiting \cup Holding : Class(k, s) = With(o, s)
  BY <1>1, ClassIsWith
<1>3. /\ Abs!Holders(k) = With(o, "reading") \cup With(o, "writing")
      /\ Abs!Scopes(k, {"waitWrite"}) = With(o, "waitWrite")
      /\ Abs!Scopes(k, {"waitRead"}) = With(o, "waitRead")
  <2>1. Abs!Holders(k) = Class(k, "reading") \cup Class(k, "writing")
    BY DEF Abs!Holders, Abs!Scopes, Class
  <2>2. /\ Abs!Scopes(k, {"waitWrite"}) = Class(k, "waitWrite")
        /\ Abs!Scopes(k, {"waitRead"}) = Class(k, "waitRead")
    BY DEF Abs!Scopes, Class
  <2> QED BY <1>2, <2>1, <2>2 DEF Waiting, Holding
<1>4. c \in Abs!Holders(k)
  BY DEF Abs!Holders, Abs!Scopes, Holding
<1>5. StillHeld(o, rd, wr) <=> Abs!Holders(k) # {c}
  <2>1. IsFiniteSet(With(o, "reading") \ {c})
    BY ReadersFinite, FS_RemoveElement
  <2>2. /\ rd[o] = Cardinality(With(o, "reading") \ {c})
        /\ wr[o] <=> With(o, "writing") \ {c} # {}
    BY <1>1 DEF Discounted
  <2>3. Cardinality(With(o, "reading") \ {c}) \in Nat
    BY <2>1, FS_CardinalityType
  <2>4. rd[o] > 0 <=> With(o, "reading") \ {c} # {}
    BY <2>1, <2>2, <2>3, FS_EmptySet
  <2>5. Abs!Holders(k) # {c} <=> Abs!Holders(k) \ {c} # {}
    BY <1>4
  <2> QED BY <1>3, <2>2, <2>4, <2>5 DEF StillHeld
<1>6. ASSUME NEW woken, NEW status, Leave(c, woken, status)
      PROVE  Abs!HandOver(c, woken, status)
  BY <1>6 DEF Leave, Abs!HandOver
<1>7. pc[c] \in {"reading", "writing"}
  BY DEF Holding
<1>8. CASE WakeNobody(c, o, rd, wr)
  <2>1. Abs!Holders(k) # {c} /\ Abs!HandOver(c, {}, "idle")
    BY <1>1, <1>5, <1>6, <1>8, NoObjectFresh DEF WakeNobody
  <2> QED BY <1>7, <2>1 DEF Abs!Release
<1>9. CASE WakeWriter(c, o, rd, wr)
  <2> DEFINE w == Head(waitingWriters[o])
  <2>1. Abs!Holders(k) = {c} /\ Abs!HandOver(c, {w}, "writing")
    BY <1>5, <1>6, <1>9 DEF WakeWriter
  <2>2. w \in Abs!Scopes(k, {"waitWrite"})
    BY <1>1, <1>3, <1>9, ObjectFacts DEF WakeWriter
  <2> QED BY <1>7, <2>1, <2>2 DEF Abs!Release
<1>10. CASE WakeReaders(c, o, rd, wr)
  <2>1. Abs!Holders(k) = {c} /\ Abs!HandOver(c, Range(waitingReaders[o]), "reading")
    BY <1>5, <1>6, <1>10 DEF WakeReaders
  <2>2. /\ Abs!Scopes(k, {"waitWrite"}) = {}
        /\ Abs!Scopes(k, {"waitRead"}) = Range(waitingReaders[o])
    BY <1>1, <1>3, <1>10, ObjectFacts DEF WakeReaders
  <2> QED BY <1>7, <2>1, <2>2 DEF Abs!Release
<1>11. CASE DeleteLock(c, o, rd, wr)
  <2>1. Abs!Holders(k) = {c} /\ Abs!HandOver(c, {}, "idle")
    BY <1>5, <1>6, <1>11 DEF DeleteLock
  <2>2. Abs!Scopes(k, {"waitWrite"}) = {} /\ Abs!Scopes(k, {"waitRead"}) = {}
    <3>1. waitingReaders[o] = <<>> /\ waitingWriters[o] = <<>>
      BY <1>11 DEF DeleteLock
    <3>2. Range(<<>>) = {}
      BY EmptySeq, RangeEmpty
    <3> QED BY <1>1, <1>3, <3>1, <3>2, ObjectFacts
  <2>3. Abs!HandOver(c, {}, "reading")
    BY <2>1 DEF Abs!HandOver
  <2> QED BY <1>7, <2>1, <2>2, <2>3 DEF Abs!Release
<1> QED BY <1>8, <1>9, <1>10, <1>11 DEF Process

\* Lock objects, counters and queues are invisible: what the scopes see is the
\* abstract lock, for any number of scopes, keys and objects.
THEOREM LockImplementsKeyedLock == Spec => ImplementsKeyedLock
<1>1. Init => Abs!Init
  BY DEF Init, Abs!Init
<1>2. TypeOK /\ LockInv /\ [Next]_vars => [Abs!Next]_<<pc, key>>
  <2> SUFFICES ASSUME TypeOK, LockInv, [Next]_vars PROVE [Abs!Next]_<<pc, key>>
    OBVIOUS
  <2>1. ASSUME NEW c \in Clients, NEW k \in Keys, NEW o \in Objects, Call(c, k, o)
        PROVE  Abs!Next
    BY <2>1, CallImplements
  <2>2. ASSUME NEW c \in Clients, Dispose(c) PROVE Abs!Next
    <3>1. Abs!Release(c)
      <4>1. CASE DisposeRead(c)
        BY <4>1, DiscountFacts, ProcessImplements DEF DisposeRead, Holding
      <4>2. CASE DisposeWrite(c)
        BY <4>2, DiscountFacts, ProcessImplements DEF DisposeWrite, Holding
      <4> QED BY <2>2, <4>1, <4>2 DEF Dispose
    <3> QED BY <3>1 DEF Abs!Next
  <2>3. CASE UNCHANGED vars
    BY <2>3 DEF vars
  <2> QED BY <2>1, <2>2, <2>3 DEF Next
<1> QED BY <1>1, <1>2, LockCorrect, PTL DEF Spec, ImplementsKeyedLock, Abs!Spec
=============================================================================
