SPECIFICATION SpecTx
CONSTANTS
  o1 = o1
  o2 = o2
  NoOwner = NoOwner
  Owners <- MCOwners
  Jobs <- MCJobs
  Kinds <- MCKinds
  TTLs <- MCTTLs
  RetryDelays <- MCRetryDelays
  MaxClock = 3
  MaxAttempt = 3
PROPERTY TerminalStaysTx
SYMMETRY OwnerSymmetry
CHECK_DEADLOCK FALSE
