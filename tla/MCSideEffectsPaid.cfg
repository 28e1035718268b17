SPECIFICATION Spec
CONSTANTS
  Server = Server
  Kid = Kid
  Unread = Unread
  echo = echo
  navigate = navigate
  k1 = k1
  k2 = k2
  Calls <- TwoCalls
  Exfiltrating <- Browsing
  Dangerous <- Browsing
  OptedIn <- Browsing
  LocalOnly = FALSE
  MaxToolCalls = 1
  Payments <- TwoPayments
  Amount <- OneEach
  Budget = 1
  Cap = 1
  Live = FALSE
  MaxCrashes = 0
SYMMETRY Symmetry
INVARIANT PaidWithinBudget
CHECK_DEADLOCK FALSE
