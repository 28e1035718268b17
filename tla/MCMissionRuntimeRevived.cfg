SPECIFICATION FairSpec
CONSTANTS
  Runtimes <- TwoServers
  Questions <- OneQuestion
  MaxUp = 1
  RequestsYield = TRUE
PROPERTY TerminalFinal
CHECK_DEADLOCK FALSE
