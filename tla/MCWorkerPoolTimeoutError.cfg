SPECIFICATION FairSpec
CONSTANTS
  w1 = w1
  w2 = w2
  Workers <- MCWorkers
  Jobs <- OneJob
  Nobody = Nobody
  LeaseTTL = 2
  Interval = 1
  Outcomes <- AllOutcomes
  MaxFaults = 0
  MaxStarts = 1
PROPERTY HandlerErrorsDurable
CHECK_DEADLOCK FALSE
