SPECIFICATION FairSpec
CONSTANTS
  Missions = {m1}
  Cloudy = FALSE
  Provider <- MCProvider
  ReplyKinds <- MCReplies
  Pricings = {"default", "fail", "skip"}
  Price = 1
  Budget = 2
  MaxRetries = 1
  MaxPlanners = 3
  Window = 2
INVARIANTS LocalOnlyStaysLocal FailoverOnlyAfterOutage
PROPERTIES OverspendsByOneCall CallsEnd
CHECK_DEADLOCK FALSE
