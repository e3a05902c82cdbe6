-------------------------- MODULE GatewayLockProofs --------------------------
(***************************************************************************)
(* For any set of processes: while starts do not overlap, one daemon has   *)
(* the lock at a time, and a release removes its own file only, whatever   *)
(* crashes and releases interleave with the starts.                        *)
(***************************************************************************)
EXTENDS GatewayLock, TLAPS

\* The initial state satisfies the types and the invariant.
LEMMA SerialInit == Init => TypeOK /\ SerialInv
BY DEF Init, TypeOK, SerialInv, OneStartAtATime, FileNamesHolder, WriterIsAlone,
       Acquiring, Running

\* Every step of the serial next-state relation keeps the types.
LEMMA TypeStep == TypeOK /\ [SerialNext]_vars => TypeOK'
<1> SUFFICES ASSUME TypeOK, [SerialNext]_vars PROVE TypeOK'
  OBVIOUS
<1> USE DEF TypeOK, Running, Acquiring
<1>1. CASE UNCHANGED vars
  BY <1>1 DEF vars
<1>2. CASE SerialNext
  <2> PICK p \in Procs : Step(p)
    BY <1>2 DEF SerialNext, Next
  <2>1. CASE Begin(p) \/ FindsFree(p) \/ FindsHeld(p)
    BY <2>1 DEF Begin, FindsFree, FindsHeld, Goto
  <2>2. CASE Truncate(p) \/ WriteText(p)
    BY <2>2 DEF Truncate, WriteText, Goto
  <2>3. CASE Release(p) \/ Unlink(p)
    BY <2>3 DEF Release, Unlink, Goto
  <2>4. CASE ReadBack(p) \/ ReleaseFails(p)
    BY <2>4 DEF ReadBack, ReleaseFails, Goto
  <2>5. CASE Crash(p)
    BY <2>5 DEF Crash
  <2> QED
    BY <2>1, <2>2, <2>3, <2>4, <2>5 DEF Step
<1> QED
  BY <1>1, <1>2

\* Every step of the serial next-state relation keeps the invariant.
LEMMA SerialStep == TypeOK /\ SerialInv /\ [SerialNext]_vars => SerialInv'
<1> SUFFICES ASSUME TypeOK, SerialInv, [SerialNext]_vars PROVE SerialInv'
  OBVIOUS
<1> USE DEF TypeOK, SerialInv, FileNamesHolder, WriterIsAlone
<1>1. CASE UNCHANGED vars
  BY <1>1 DEF vars, OneStartAtATime
<1>2. CASE SerialNext
  <2> PICK p \in Procs : Step(p)
    BY <1>2 DEF SerialNext, Next
  <2>0. OneStartAtATime'
    BY <1>2 DEF SerialNext
  <2>1. CASE Begin(p) \/ FindsHeld(p)
    BY <2>0, <2>1 DEF Begin, FindsHeld, Goto, Acquiring
  <2>2. CASE FindsFree(p)
    <3>1. pc[p] = "read" /\ pc' = [pc EXCEPT ![p] = "write"] /\ file' = file
      BY <2>2 DEF FindsFree, Goto
    \* Whoever has the lock is running and named by the file.
    <3>2. \A q \in Procs : pc[q] \notin {"held", "releasing", "unlink"}
      BY <2>2 DEF FindsFree, IsProcessRunning, Running
    <3> QED
      BY <2>0, <3>1, <3>2 DEF Acquiring
  <2>3. CASE Truncate(p)
    BY <2>0, <2>3 DEF Truncate, Goto, Acquiring
  <2>4. CASE WriteText(p)
    <3>1. pc[p] = "text" /\ pc' = [pc EXCEPT ![p] = "held"] /\ file' = p
      BY <2>4 DEF WriteText, Goto
    <3>2. \A q \in Procs : pc[q] \notin {"held", "releasing", "unlink"}
      BY <3>1 DEF Acquiring
    <3>3. \A q \in Procs : pc[q] \in Acquiring => q = p
      BY <3>1 DEF OneStartAtATime, Acquiring
    <3> QED
      BY <2>0, <3>1, <3>2, <3>3 DEF Acquiring
  <2>5. CASE Release(p) \/ ReadBack(p) \/ ReleaseFails(p)
    BY <2>0, <2>5 DEF Release, ReadBack, ReleaseFails, Goto, Acquiring
  <2>6. CASE Unlink(p)
    <3>1. pc[p] = "unlink" /\ pc' = [pc EXCEPT ![p] = "free"] /\ file' = NoFile
      BY <2>6 DEF Unlink, Goto
    <3>2. \A q \in Procs : pc[q] \in {"held", "releasing", "unlink"} => q = p
      BY <3>1
    <3> QED
      BY <2>0, <3>1, <3>2 DEF Acquiring
  <2>7. CASE Crash(p)
    BY <2>0, <2>7 DEF Crash, Acquiring
  <2> QED
    BY <2>1, <2>2, <2>3, <2>4, <2>5, <2>6, <2>7 DEF Step
<1> QED
  BY <1>1, <1>2

\* The types and the invariant hold in every serial behaviour.
THEOREM SerialCorrect == SerialSpec => [](TypeOK /\ SerialInv)
<1> QED
  BY SerialInit, TypeStep, SerialStep, PTL DEF SerialSpec

\* One daemon at a time (daemon/gateway-lock.ts, "file-based singleton"), when
\* starts do not overlap.
THEOREM SerialStartsExclude == SerialSpec => []OnlyOneDaemon
<1>1. SerialInv => OnlyOneDaemon
  BY DEF SerialInv, FileNamesHolder, OnlyOneDaemon, Owning
<1> QED
  BY <1>1, SerialCorrect, PTL

\* release() removes its own lock file only, when starts do not overlap.
THEOREM ReleaseIsOwn == SerialSpec => []UnlinksItsOwn
<1>1. SerialInv => UnlinksItsOwn
  BY DEF SerialInv, FileNamesHolder, UnlinksItsOwn
<1> QED
  BY <1>1, SerialCorrect, PTL
=============================================================================
