SPECIFICATION FairSpec
CONSTANTS
  Runtimes <- TwoServers
  Questions <- OneQuestion
  MaxUp = 1
  RequestsYield = FALSE
INVARIANT KillLetsMissionContinue
CHECK_DEADLOCK FALSE
