SPECIFICATION FairSpec
CONSTANTS
  Sessions = {s1, s2}
  Directories = {{s1, s2}, {}}
  Elsewhere = {s2}
  Requests = {r1, r2}
  NoSwitch = NoSwitch
  NoSession = NoSession
  MaxEvents = 1
INVARIANTS NoListedRunSurvives OnlyEarlierAdmissionsRun
PROPERTY SwitchIsLifted
