SPECIFICATION Spec
CONSTANTS
  s1 = s1
  s2 = s2
  Specialists <- Two
  Claims <- AllClaims
  TaskSteps <- NamedByTasks
  MaxSteps = 2
  OptedIn = TRUE
  HostsListed = TRUE
  TestsAllowed = TRUE
  LocalOnly = FALSE
  RequireApproval = TRUE
  MaxCrashes = 2
INVARIANTS ApprovedBeforeDone DoneOnEvidence
CHECK_DEADLOCK FALSE
