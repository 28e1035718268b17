SPECIFICATION FairSpec
CONSTANTS
  Runtimes <- TwoServers
  Questions <- OneQuestion
  MaxUp = 1
  RequestsYield = FALSE
PROPERTY RestartRecovers
CHECK_DEADLOCK FALSE
