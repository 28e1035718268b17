SPECIFICATION FairSpec
CONSTANTS
  Kids = {k1, k2}
  Nobody = Nobody
  Dead = Dead
  Tasks <- TwoTasks
  MaxSpent = 0
  Scopes <- SmallScopes
INVARIANTS
  CompletedJobsFinished
PROPERTIES
  ControlsHold
  StoppedAttemptsStay
  PollingEnds
CHECK_DEADLOCK FALSE
