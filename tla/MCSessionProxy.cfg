CONSTANTS
  Torrents = {t1}
  Keys = {"state", "rate"}
  State = "state"
  KeySets = {{"state", "rate"}}
  Values = {0, 1}
  Mine = {1, 3}
  Others = {2}
  Asks = {"filter", "unknown"}
  MaxChanges = 1
  MaxAdds = 1
  MaxLost = 1
  MaxInFlight = 2
SPECIFICATION Spec
CONSTRAINT NotMixed
INVARIANT CacheHoldsTheSession
INVARIANT StaleIsResent
INVARIANT PostsAreAwaited
PROPERTY PollingCatchesUp
CHECK_DEADLOCK FALSE
