SPECIFICATION FairSpec
CONSTANTS
  Callers = {p1, p2, p3}
  NoRun = NoRun
  MaxWaits = 3
INVARIANTS SlotOwner NoLeakedSlot NoStrandedWaiter QuiescentIsIdle
PROPERTIES AbortedRunEnds WaiterRuns ImplementsSession
