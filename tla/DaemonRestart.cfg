SPECIFICATION FairSpec
CONSTANTS
  Lanes <- MCLanes
  MaxConcurrent <- MCMaxConcurrent
  Tasks <- FewTasks
  LaneOf <- FewLaneOf
PROPERTY RestartReturns
CHECK_DEADLOCK FALSE
