SPECIFICATION FairSpec
CONSTANTS
  Runtimes <- TwoServers
  Questions <- OneQuestion
  MaxUp = 1
  RequestsYield = FALSE
PROPERTY AnswersKept
CHECK_DEADLOCK FALSE
