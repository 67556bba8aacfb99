CONSTANTS
  Torrents = {t1}
  Keys = {"state", "rate"}
  State = "state"
  KeySets = {{"state", "rate"}}
  Values = {0, 1}
  Mine = {1}
  Others = {2}
  Asks = {}
  MaxChanges = 1
  MaxAdds = 0
  MaxLost = 0
  MaxInFlight = 2
SPECIFICATION Spec
PROPERTY DiffsServeTheCache
CHECK_DEADLOCK FALSE
