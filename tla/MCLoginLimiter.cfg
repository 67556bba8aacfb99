SPECIFICATION LimiterSpec
CONSTANTS
  Clients = {c1, c2, c3}
  MAX_FAILURES = 2
  BASE_DELAY = 1
  MAX_DELAY = 3
  FORGET_AFTER = 4
  MAX_CLIENTS = 2
  MaxTime = 7
INVARIANT BlockedAsPromised
PROPERTY LeastRecentMakesRoom
CHECK_DEADLOCK FALSE
