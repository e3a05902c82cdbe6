SPECIFICATION SerialSpec
CONSTANTS
  Procs = {p1, p2, p3}
  NoFile = NoFile
  Torn = Torn
INVARIANTS OnlyOneDaemon UnlinksItsOwn
PROPERTY StaleLockIsBroken
CHECK_DEADLOCK FALSE
