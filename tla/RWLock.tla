------------------------------- MODULE RWLock -------------------------------
(***************************************************************************)
(* The in-process readers/writer lock of util/lock.ts: a table from keys   *)
(* to lock objects.  An object is created by the first caller of a key,    *)
(* captured by the closures of the callers that wait for it or hold it,    *)
(* and dropped from the table when a release leaves it empty.              *)
(*                                                                         *)
(* JavaScript runs one turn at a time, so read(), write() and a disposal   *)
(* are atomic.  What interleaves is the order of the turns.  A client is   *)
(* one `using _ = await Lock.read/write(key)` scope; it uses one key at a  *)
(* time.  A lock object that nobody can reach any more may be reused,      *)
(* which stands for garbage collection and a fresh allocation.             *)
(***************************************************************************)
EXTENDS Naturals, Sequences, FiniteSets, Functions

CONSTANTS
  Clients,     \* the concurrent `using` scopes
  Keys,        \* lock keys (storage paths, "resume" and "assign" locks, ...)
  Objects,     \* identities of lock objects
  NoObject     \* the table has no entry; a client has no lock object

ASSUME ClientsFinite == IsFiniteSet(Clients)
ASSUME NoObjectFresh == NoObject \notin Objects

VARIABLES
  locks,           \* the table: key -> lock object or NoObject
  readers,         \* object -> number of readers that hold it
  writer,          \* object -> a writer holds it
  waitingReaders,  \* object -> queue of readers to wake
  waitingWriters,  \* object -> queue of writers to wake
  pc,              \* client -> where its scope stands
  key,             \* client -> key of its last call (captured by the closure)
  ref              \* client -> lock object captured by the closure

vars == <<locks, readers, writer, waitingReaders, waitingWriters, pc, key, ref>>

Waiting == {"waitRead", "waitWrite"}
Holding == {"reading", "writing"}

\* State every variable has its type.
TypeOK ==
  /\ locks \in [Keys -> Objects \cup {NoObject}]
  /\ readers \in [Objects -> Nat]
  /\ writer \in [Objects -> BOOLEAN]
  /\ waitingReaders \in [Objects -> Seq(Clients)]
  /\ waitingWriters \in [Objects -> Seq(Clients)]
  /\ pc \in [Clients -> {"idle"} \cup Waiting \cup Holding]
  /\ key \in [Clients -> Keys]
  /\ ref \in [Clients -> Objects \cup {NoObject}]

Init ==
  /\ locks = [k \in Keys |-> NoObject]
  /\ readers = [o \in Objects |-> 0]
  /\ writer = [o \in Objects |-> FALSE]
  /\ waitingReaders = [o \in Objects |-> <<>>]
  /\ waitingWriters = [o \in Objects |-> <<>>]
  /\ pc = [c \in Clients |-> "idle"]
  /\ key \in [Clients -> Keys]
  /\ ref = [c \in Clients |-> NoObject]

-----------------------------------------------------------------------------
(* get(key): the table's object, or a fresh empty one put in the table.    *)

Reachable(o) == (\E k \in Keys : locks[k] = o) \/ (\E c \in Clients : ref[c] = o)

IsEmpty(o) ==
  /\ readers[o] = 0 /\ ~writer[o]
  /\ waitingReaders[o] = <<>> /\ waitingWriters[o] = <<>>

Get(k, o) ==
  \/ locks[k] = o /\ o # NoObject
  \/ locks[k] = NoObject /\ ~Reachable(o) /\ IsEmpty(o)

Enter(c, k, o, status) ==
  /\ pc[c] = "idle"
  /\ Get(k, o)
  /\ locks' = [locks EXCEPT ![k] = o]
  /\ key' = [key EXCEPT ![c] = k]
  /\ ref' = [ref EXCEPT ![c] = o]
  /\ pc' = [pc EXCEPT ![c] = status]

-----------------------------------------------------------------------------
(* read(key): shared grant unless a writer holds it or waits for it.       *)

\* Mutant: waiting writers are not looked at.
MayReadBeforeWriters(o) == ~writer[o]

MayRead(o) == ~writer[o] /\ waitingWriters[o] = <<>>

ReadNow(c, k, o) ==
  /\ Enter(c, k, o, "reading")
  /\ MayRead(o)
  /\ readers' = [readers EXCEPT ![o] = @ + 1]
  /\ UNCHANGED <<writer, waitingReaders, waitingWriters>>

ReadLater(c, k, o) ==
  /\ Enter(c, k, o, "waitRead")
  /\ ~MayRead(o)
  /\ waitingReaders' = [waitingReaders EXCEPT ![o] = Append(@, c)]
  /\ UNCHANGED <<readers, writer, waitingWriters>>

(* write(key): exclusive grant if nobody holds it.                         *)

\* Mutant: readers are not counted.
MayWriteBesideReaders(o) == ~writer[o]

MayWrite(o) == ~writer[o] /\ readers[o] = 0

WriteNow(c, k, o) ==
  /\ Enter(c, k, o, "writing")
  /\ MayWrite(o)
  /\ writer' = [writer EXCEPT ![o] = TRUE]
  /\ UNCHANGED <<readers, waitingReaders, waitingWriters>>

WriteLater(c, k, o) ==
  /\ Enter(c, k, o, "waitWrite")
  /\ ~MayWrite(o)
  /\ waitingWriters' = [waitingWriters EXCEPT ![o] = Append(@, c)]
  /\ UNCHANGED <<readers, writer, waitingReaders>>

-----------------------------------------------------------------------------
(* process(key), run by a disposal after it has updated the counters of    *)
(* its own object to rd and wr.  It looks the key up again.                *)

Leave(c, woken, status) ==
  /\ pc' = [d \in Clients |-> IF d = c THEN "idle"
                              ELSE IF d \in woken THEN status ELSE pc[d]]
  /\ ref' = [ref EXCEPT ![c] = NoObject]
  /\ UNCHANGED key

\* Mutant: readers that still hold the key are not counted.
StillWritten(o, rd, wr) == wr[o]

StillHeld(o, rd, wr) == wr[o] \/ rd[o] > 0

WakeNobody(c, o, rd, wr) ==
  /\ o = NoObject \/ StillHeld(o, rd, wr)
  /\ readers' = rd
  /\ writer' = wr
  /\ Leave(c, {}, "idle")
  /\ UNCHANGED <<locks, waitingReaders, waitingWriters>>

\* Mutant: the queue of writers is popped at its end.
WakeLastWriter(c, o, rd, wr) ==
  LET q == waitingWriters[o] IN
  /\ o # NoObject /\ ~StillHeld(o, rd, wr)
  /\ q # <<>>
  /\ waitingWriters' = [waitingWriters EXCEPT ![o] = SubSeq(q, 1, Len(q) - 1)]
  /\ writer' = [wr EXCEPT ![o] = TRUE]
  /\ readers' = rd
  /\ Leave(c, {q[Len(q)]}, "writing")
  /\ UNCHANGED <<locks, waitingReaders>>

WakeWriter(c, o, rd, wr) ==
  /\ o # NoObject /\ ~StillHeld(o, rd, wr)
  /\ waitingWriters[o] # <<>>
  /\ waitingWriters' = [waitingWriters EXCEPT ![o] = Tail(@)]
  /\ writer' = [wr EXCEPT ![o] = TRUE]
  /\ readers' = rd
  /\ Leave(c, {Head(waitingWriters[o])}, "writing")
  /\ UNCHANGED <<locks, waitingReaders>>

WakeReaders(c, o, rd, wr) ==
  /\ o # NoObject /\ ~StillHeld(o, rd, wr)
  /\ waitingWriters[o] = <<>> /\ waitingReaders[o] # <<>>
  /\ readers' = [rd EXCEPT ![o] = @ + Len(waitingReaders[o])]
  /\ waitingReaders' = [waitingReaders EXCEPT ![o] = <<>>]
  /\ writer' = wr
  /\ Leave(c, Range(waitingReaders[o]), "reading")
  /\ UNCHANGED <<locks, waitingWriters>>

\* Mutant: the clean-up does not look at the waiting readers.
DeleteLockEarly(c, o, rd, wr) ==
  /\ o # NoObject /\ ~StillHeld(o, rd, wr)
  /\ waitingWriters[o] = <<>>
  /\ locks' = [locks EXCEPT ![key[c]] = NoObject]
  /\ readers' = rd
  /\ writer' = wr
  /\ Leave(c, {}, "idle")
  /\ UNCHANGED <<waitingReaders, waitingWriters>>

\* Mutant: there is no clean-up.
DeleteLockNever(c, o, rd, wr) ==
  /\ o # NoObject /\ ~StillHeld(o, rd, wr)
  /\ waitingWriters[o] = <<>> /\ waitingReaders[o] = <<>>
  /\ readers' = rd
  /\ writer' = wr
  /\ Leave(c, {}, "idle")
  /\ UNCHANGED <<locks, waitingReaders, waitingWriters>>

DeleteLock(c, o, rd, wr) ==
  /\ o # NoObject /\ ~StillHeld(o, rd, wr)
  /\ waitingWriters[o] = <<>> /\ waitingReaders[o] = <<>>
  /\ locks' = [locks EXCEPT ![key[c]] = NoObject]
  /\ readers' = rd
  /\ writer' = wr
  /\ Leave(c, {}, "idle")
  /\ UNCHANGED <<waitingReaders, waitingWriters>>

Process(c, o, rd, wr) ==
  \/ WakeNobody(c, o, rd, wr)
  \/ WakeWriter(c, o, rd, wr)
  \/ WakeReaders(c, o, rd, wr)
  \/ DeleteLock(c, o, rd, wr)

DisposeRead(c) ==
  /\ pc[c] = "reading"
  /\ Process(c, locks[key[c]], [readers EXCEPT ![ref[c]] = @ - 1], writer)

DisposeWrite(c) ==
  /\ pc[c] = "writing"
  /\ Process(c, locks[key[c]], readers, [writer EXCEPT ![ref[c]] = FALSE])

Dispose(c) == DisposeRead(c) \/ DisposeWrite(c)

Call(c, k, o) ==
  \/ ReadNow(c, k, o) \/ ReadLater(c, k, o)
  \/ WriteNow(c, k, o) \/ WriteLater(c, k, o)

Next ==
  \/ \E c \in Clients, k \in Keys, o \in Objects : Call(c, k, o)
  \/ \E c \in Clients : Dispose(c)

Spec == Init /\ [][Next]_vars

\* Every `using` scope ends: its body is finite and disposal runs on every
\* exit, exceptions included.
FairSpec == Spec /\ \A c \in Clients : WF_vars(Dispose(c))

-----------------------------------------------------------------------------
(* Properties *)

OnKey(k, S) == {c \in Clients : key[c] = k /\ pc[c] \in S}

\* At any moment a key is held by readers only, or by one writer alone,
\* although the object that decides this is created and dropped on the fly.
MutualExclusion ==
  \A c, d \in Clients :
    pc[c] = "writing" /\ pc[d] \in Holding /\ key[c] = key[d] => c = d

\* No lost wake-up: whoever waits for a key, waits while somebody else holds
\* it, so a disposal that calls process() is still to come.
WaitersHaveHolder ==
  \A k \in Keys : OnKey(k, Waiting) # {} => OnKey(k, Holding) # {}

\* The table holds no entry that no scope uses ("Clean up empty locks").
TableIsCollected ==
  \A k \in Keys : locks[k] # NoObject => OnKey(k, Waiting \cup Holding) # {}

\* "Prioritize writers to prevent starvation": a reader never starts to read
\* a key in a step before which a writer was waiting for that key.
ReadersYieldToWriters ==
  [][\A c, d \in Clients :
       /\ pc[c] # "reading" /\ pc'[c] = "reading"
       /\ pc[d] = "waitWrite"
       => key[d] # key'[c]]_vars

\* A writer that waits is eventually granted the key, whatever the others ask.
WriterIsGranted == \A c \in Clients : pc[c] = "waitWrite" ~> pc[c] = "writing"
-----------------------------------------------------------------------------
(* The inductive invariant.  Each lock object's counters and queues say    *)
(* exactly which scopes hold it and wait for it, and the table leads every *)
(* scope that is not idle to the object it captured.                       *)

With(o, status) == {c \in Clients : ref[c] = o /\ pc[c] = status}

RefInv ==
  \A c \in Clients :
    /\ pc[c] = "idle" <=> ref[c] = NoObject
    /\ pc[c] # "idle" => locks[key[c]] = ref[c]

TableInv ==
  \A k1, k2 \in Keys : locks[k1] = locks[k2] /\ locks[k1] # NoObject => k1 = k2

HolderInv ==
  \A o \in Objects :
    /\ readers[o] = Cardinality(With(o, "reading"))
    /\ writer[o] <=> With(o, "writing") # {}
    /\ writer[o] => readers[o] = 0
    /\ \A c, d \in With(o, "writing") : c = d

QueueInv ==
  \A o \in Objects :
    /\ IsInjective(waitingReaders[o]) /\ Range(waitingReaders[o]) = With(o, "waitRead")
    /\ IsInjective(waitingWriters[o]) /\ Range(waitingWriters[o]) = With(o, "waitWrite")

WakeInv ==
  \A o \in Objects :
    waitingReaders[o] # <<>> \/ waitingWriters[o] # <<>> => writer[o] \/ readers[o] > 0

EntryInv ==
  \A k \in Keys : locks[k] # NoObject => writer[locks[k]] \/ readers[locks[k]] > 0

\* The queues and counters of every lock object agree with the scopes, every
\* waiter of an object waits behind a holder, and an entry of the table is held.
LockInv == RefInv /\ TableInv /\ HolderInv /\ QueueInv /\ WakeInv /\ EntryInv

-----------------------------------------------------------------------------
(* The abstract lock, which has neither objects nor queues.                *)

Abs == INSTANCE KeyedLock WITH state <- pc, on <- key

\* Creating, capturing, looking up again and deleting lock objects is not
\* visible to the scopes: every call and every disposal is one of the abstract
\* lock, decided by who holds the key and who waits for it alone.
ImplementsKeyedLock == Abs!Spec
=============================================================================
