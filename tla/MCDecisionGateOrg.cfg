SPECIFICATION Spec
CONSTANTS
  s1 = s1
  s2 = s2
  Specialists <- Two
  Claims <- AllClaims
  TaskSteps <- NamedByTasks
  MaxSteps = 2
  OptedIn = TRUE
  HostsListed = TRUE
  TestsAllowed = TRUE
  LocalOnly = FALSE
  RequireApproval = TRUE
  MaxCrashes = 0
INVARIANT OrgChangesApproved
CHECK_DEADLOCK FALSE
