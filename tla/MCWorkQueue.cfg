SPECIFICATION Spec
CONSTANTS
  o1 = o1
  o2 = o2
  NoOwner = NoOwner
  Owners <- MCOwners
  Jobs <- MCJobs
  Kinds <- MCKinds
  TTLs <- MCTTLs
  RetryDelays <- MCRetryDelays
  MaxClock = 3
  MaxAttempt = 2
INVARIANTS
  ItemLeaseAgree
  SingleLiveHolder
  LiveHoldHonoured
  AttemptsDistinct
PROPERTIES
  TerminalStays
  ReportReleasesLiveLease
  ImplementsExclusiveJobs
SYMMETRY OwnerSymmetry
CHECK_DEADLOCK FALSE
