SPECIFICATION Spec
CONSTANTS
  Server = Server
  Kid = Kid
  Unread = Unread
  echo = echo
  navigate = navigate
  k1 = k1
  k2 = k2
  Calls <- TwoCalls
  Exfiltrating <- Browsing
  Dangerous <- Browsing
  OptedIn <- Browsing
  LocalOnly = FALSE
  MaxToolCalls = 2
  Payments <- TwoPayments
  Amount <- OneEach
  Budget = 2
  Cap = 1
  Live = FALSE
  MaxCrashes = 2
SYMMETRY Symmetry
INVARIANTS ToolBudget ToldWhatRan PaidTwiceOnlyByCrash
CHECK_DEADLOCK FALSE
