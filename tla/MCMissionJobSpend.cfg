SPECIFICATION Spec
CONSTANTS
  Kids = {k1}
  Nobody = Nobody
  Dead = Dead
  Tasks <- TwoTasks
  MaxSpent = 2
  Scopes <- QuietScope
PROPERTIES
  SpendingKept
CHECK_DEADLOCK FALSE
