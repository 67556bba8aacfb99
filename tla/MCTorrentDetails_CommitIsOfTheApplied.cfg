CONSTANTS
  Torrents = {t1, t2}
  None = none
  Options = {o1}
  TextOptions = {}
  NoOption = noOption
  Values = {0, 1}
  MaxActs = 4
  MaxClears = 2
  MaxMessages = 2
SPECIFICATION DetailsSpec
PROPERTY CommitIsOfTheApplied
CHECK_DEADLOCK FALSE
