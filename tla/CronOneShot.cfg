SPECIFICATION FairSpec
CONSTANTS
  Jobs = {o}
  OneShots = {o}
  Irregular = {}
  Ticks = {t1}
  NoJob = NoJob
  MaxJobs = 1
  MaxEvents = 1
PROPERTY OneShotRunsOnce
CHECK_DEADLOCK FALSE
