SPECIFICATION DisposeFairSpec
CONSTANTS
  Callers = {p1, p2, p3}
  NoRun = NoRun
  MaxWaits = 2
INVARIANT SettlesFree
PROPERTY OthersEnd
