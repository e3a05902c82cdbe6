----------------------------- MODULE GatewayLock -----------------------------
(***************************************************************************)
(* The daemon lock file of daemon/gateway-lock.ts, shared by processes     *)
(* that start, stop and crash.  Every file operation is an await, at which *)
(* the other processes step; a write is a truncation and then the text, so *)
(* a reader between the two gets a file that does not parse.               *)
(*                                                                         *)
(* A process starts the daemon once; process identifiers are not reused.   *)
(***************************************************************************)
EXTENDS Naturals, FiniteSets

CONSTANTS
  Procs,    \* processes that will ever be started as a daemon
  NoFile,   \* daemon.lock does not exist
  Torn      \* it exists and does not parse

ASSUME ProcsFinite == IsFiniteSet(Procs)
ASSUME MarksAreNotProcs == NoFile \notin Procs /\ Torn \notin Procs /\ NoFile # Torn

VARIABLES
  file,   \* NoFile, Torn, or the process the lock file names
  pc      \* process -> the operation it does next

vars == <<file, pc>>

Acquiring == {"write", "text"}
Owning    == {"held", "unlink"}
Running   == {"read", "held", "releasing", "unlink", "free"} \cup Acquiring

\* State every variable has its type.
TypeOK ==
  /\ file \in Procs \cup {NoFile, Torn}
  /\ pc \in [Procs -> Running \cup {"unborn", "refused", "dead"}]

Init ==
  /\ file = NoFile
  /\ pc = [p \in Procs |-> "unborn"]

\* Mutant: any identifier is taken for a running process.
NamesProcess(r) == r \in Procs

\* Mutant: a daemon that is shutting down is taken for gone.
HoldsOrStarts(r) == r \in Procs /\ pc[r] \in {"held"} \cup Acquiring

\* isProcessRunning() of what readLock() returned.
IsProcessRunning(r) == r \in Procs /\ pc[r] \in Running

Goto(p, from, to) ==
  /\ pc[p] = from
  /\ pc' = [pc EXCEPT ![p] = to]

-----------------------------------------------------------------------------
(* acquire() *)

Begin(p) == Goto(p, "unborn", "read") /\ UNCHANGED file

\* Mutant: every lock file is taken for stale.
FindsStale(p) == Goto(p, "read", "write") /\ UNCHANGED file

\* The file is absent, torn or stale.
FindsFree(p) ==
  /\ ~IsProcessRunning(file)
  /\ Goto(p, "read", "write")
  /\ UNCHANGED file

\* acquire() returns false, start() fails and the process exits.
FindsHeld(p) ==
  /\ IsProcessRunning(file)
  /\ Goto(p, "read", "refused")
  /\ UNCHANGED file

Truncate(p) == Goto(p, "write", "text") /\ file' = Torn

WriteText(p) == Goto(p, "text", "held") /\ file' = p

-----------------------------------------------------------------------------
(* release() *)

Release(p) == Goto(p, "held", "releasing") /\ UNCHANGED file

\* readLock(), and whether it names this process.
ReadBack(p) ==
  Goto(p, "releasing", IF file = p THEN "unlink" ELSE "free") /\ UNCHANGED file

Unlink(p) == Goto(p, "unlink", "free") /\ file' = NoFile

\* A read or an unlink that fails is swallowed: release() returns with the file
\* in place.
ReleaseFails(p) ==
  /\ Goto(p, "releasing", "free") \/ Goto(p, "unlink", "free")
  /\ UNCHANGED file

\* The process ends, as it should or not, wherever it is: the file stays.
Crash(p) ==
  /\ pc[p] \in Running
  /\ pc' = [pc EXCEPT ![p] = "dead"]
  /\ UNCHANGED file

Step(p) ==
  \/ Begin(p) \/ FindsFree(p) \/ FindsHeld(p) \/ Truncate(p) \/ WriteText(p)
  \/ Release(p) \/ ReadBack(p) \/ Unlink(p) \/ ReleaseFails(p)
  \/ Crash(p)

Next == \E p \in Procs : Step(p)

Spec == Init /\ [][Next]_vars

\* Two starts never overlap: the lock's environment when one client at a time
\* spawns the daemon and waits for it.
OneStartAtATime ==
  \A p, q \in Procs :
    pc[p] \in {"read"} \cup Acquiring /\ pc[q] \in {"read"} \cup Acquiring => p = q

SerialNext == Next /\ OneStartAtATime'

SerialSpec ==
  /\ Init /\ [][SerialNext]_vars
  /\ \A p \in Procs : WF_vars((FindsFree(p) \/ FindsHeld(p) \/ Truncate(p) \/ WriteText(p)) /\ OneStartAtATime')

-----------------------------------------------------------------------------
(* Properties *)

\* daemon/gateway-lock.ts: "file-based singleton to ensure only one daemon
\* instance": no two processes have acquired the lock and not released it.
OnlyOneDaemon == \A p, q \in Procs : pc[p] \in Owning /\ pc[q] \in Owning => p = q

\* release() removes no lock file but its own, though others step between its
\* read and its unlink.
UnlinksItsOwn == \A p \in Procs : pc[p] = "unlink" => file = p

\* Why the lock is exclusive when starts do not overlap: the file names whoever
\* has it until the unlink, and nobody has it while another is about to write.
FileNamesHolder == \A p \in Procs : pc[p] \in {"held", "releasing", "unlink"} => file = p

WriterIsAlone ==
  \A p, q \in Procs :
    pc[p] \in Acquiring => pc[q] \notin {"held", "releasing", "unlink"}

SerialInv == OneStartAtATime /\ FileNamesHolder /\ WriterIsAlone

\* No crash blocks later starts: a process that starts while no other runs
\* gets the lock, unless it crashes itself.
StaleLockIsBroken ==
  \A p \in Procs :
    pc[p] = "read" /\ (\A q \in Procs \ {p} : pc[q] \notin Running)
      ~> pc[p] \in {"held", "dead"}
=============================================================================
