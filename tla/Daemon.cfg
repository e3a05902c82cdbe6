SPECIFICATION FairSpec
CONSTANTS
  Lanes <- MCLanes
  MaxConcurrent <- MCMaxConcurrent
  Tasks <- MCTasks
  LaneOf <- MCLaneOf
INVARIANTS LanesInv RunningIsOperational DrainedIsQuiet
PROPERTIES ImplementsService GateIsClosed ShutdownCompletes EveryEntrySettles
CHECK_DEADLOCK FALSE
