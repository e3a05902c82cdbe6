SPECIFICATION Spec
CONSTANTS
  Procs = {p1, p2, p3}
  NoFile = NoFile
  Torn = Torn
INVARIANT OnlyOneDaemon
CHECK_DEADLOCK FALSE
