SPECIFICATION FairSpec
CONSTANTS
  Jobs = {r, i, o}
  OneShots = {o}
  Irregular = {i}
  Ticks = {t1, t2}
  NoJob = NoJob
  MaxJobs = 2
  MaxEvents = 3
INVARIANT DowntimeIsSkipped
PROPERTIES OnlyUsersEnable RecurringRuns DisabledJobStops
CHECK_DEADLOCK FALSE
