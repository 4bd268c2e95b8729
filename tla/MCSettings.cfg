SPECIFICATION FairSpec
CONSTANTS
  None = None
  Keys = {list, plain}
  Lists = {list}
  Rules = {good, bad}
  BadRules = {bad}
  MaxActions = 2
PROPERTY Repaired
PROPERTY SettlesInSync
CHECK_DEADLOCK FALSE
