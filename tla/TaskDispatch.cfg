SPECIFICATION FairSpec
CONSTANTS
  Jobs = {j1, j2}
  Workers = {w1, w2, w3}
  NoJob = NoJob
  NoWorker = NoWorker
  PoolMax = 2
  MaxEvents = 1
CHECK_DEADLOCK FALSE
INVARIANTS WorkersAreAccounted RefusalMeansCancel ShownChildIsLive
PROPERTY JobsAreAnswered
