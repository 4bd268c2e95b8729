CONSTANTS
  Networks = {wifi, cellular, ethernet}
  None = None
  MaxUpdates = 1
  MaxBacklog = 2
SPECIFICATION Spec
INVARIANT HandoffIsNotMissed
CHECK_DEADLOCK FALSE
