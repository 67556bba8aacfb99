CONSTANTS
  Torrents = {t1, t2}
  None = none
  Options = {o1}
  TextOptions = {}
  NoOption = noOption
  Values = {0, 1}
  MaxActs = 3
  MaxClears = 2
  MaxMessages = 1
SPECIFICATION DetailsSpec
INVARIANT ApplyIsForTheSelected
PROPERTY PanelFollowsSelection
CHECK_DEADLOCK FALSE
