SPECIFICATION Spec
CONSTANTS
  Kids = {k1, k2}
  Nobody = Nobody
  Dead = Dead
  Tasks <- TwoTasks
  MaxSpent = 0
  Scopes <- LateScope
INVARIANTS
  JobsFinished
CHECK_DEADLOCK FALSE
