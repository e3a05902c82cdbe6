SPECIFICATION FairSpec
CONSTANTS
  Jobs = {j1}
  Resumes = {r1, r2}
  NoJob = NoJob
  MaxFailures = 2
  MaxEvents = 1
CHECK_DEADLOCK FALSE
INVARIANTS OneResume NoticeIsKept
PROPERTIES RetryWaits CompletionIsTaken
