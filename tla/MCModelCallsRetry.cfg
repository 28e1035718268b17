SPECIFICATION Spec
CONSTANTS
  Missions = {m1}
  Cloudy = TRUE
  Provider <- MCProvider
  ReplyKinds <- MCReplies
  Pricings = {"default", "fail", "skip"}
  Price = 1
  Budget = 2
  MaxRetries = 1
  MaxPlanners = 3
  Window = 2
PROPERTY RetriesStay
CHECK_DEADLOCK FALSE
