------------------------------ MODULE KeyedLock ------------------------------
(***************************************************************************)
(* What util/lock.ts promises its callers: a readers/writer lock for every *)
(* key, with neither lock objects, counters, queues nor a table.  A caller *)
(* is granted the key at once or waits behind somebody who holds it.       *)
(* The last holder to leave hands the key over in the same step: to one    *)
(* writer if any waits, otherwise to all the readers that wait.            *)
(***************************************************************************)
CONSTANTS Clients, Keys

VARIABLES
  state,  \* client -> idle, waitRead, waitWrite, reading or writing
  on      \* client -> the key of its last call

Scopes(k, S) == {c \in Clients : on[c] = k /\ state[c] \in S}
Holders(k) == Scopes(k, {"reading", "writing"})

Init ==
  /\ state = [c \in Clients |-> "idle"]
  /\ on \in [Clients -> Keys]

Ask(c, k, status) ==
  /\ state[c] = "idle"
  /\ state' = [state EXCEPT ![c] = status]
  /\ on' = [on EXCEPT ![c] = k]

\* read(key): granted unless a writer holds the key or waits for it.
Read(c, k) ==
  IF Scopes(k, {"writing", "waitWrite"}) = {}
  THEN Ask(c, k, "reading")
  ELSE Ask(c, k, "waitRead")

\* write(key): granted if nobody holds the key.
Write(c, k) ==
  IF Holders(k) = {} THEN Ask(c, k, "writing") ELSE Ask(c, k, "waitWrite")

HandOver(c, woken, status) ==
  /\ state' = [d \in Clients |-> IF d = c THEN "idle"
                                 ELSE IF d \in woken THEN status ELSE state[d]]
  /\ UNCHANGED on

\* The end of a scope that holds its key.
Release(c) ==
  LET k == on[c]
      writers == Scopes(k, {"waitWrite"})
  IN  /\ state[c] \in {"reading", "writing"}
      /\ \/ Holders(k) # {c} /\ HandOver(c, {}, "idle")
         \/ Holders(k) = {c} /\ \E w \in writers : HandOver(c, {w}, "writing")
         \/ Holders(k) = {c} /\ writers = {} /\ HandOver(c, Scopes(k, {"waitRead"}), "reading")

Next == \E c \in Clients : Release(c) \/ \E k \in Keys : Read(c, k) \/ Write(c, k)

Spec == Init /\ [][Next]_<<state, on>>
=============================================================================
