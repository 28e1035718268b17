SPECIFICATION FairSpec
CONSTANTS
  w1 = w1
  w2 = w2
  Workers <- MCWorkers
  Jobs <- OneJob
  Nobody = Nobody
  LeaseTTL = 3
  Interval = 2
  Outcomes <- ReportedOutcomes
  MaxFaults = 2
  MaxStarts = 2
PROPERTIES
  JobsEndDespiteRaces
CHECK_DEADLOCK FALSE
