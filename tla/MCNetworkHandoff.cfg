\* Three networks and one update: one is there, another comes, goes or both while
\* the tunnel is built, and a third replaces them.
CONSTANTS
  Networks = {wifi, cellular, ethernet}
  None = None
  MaxUpdates = 1
  MaxBacklog = 2
SPECIFICATION FairSpec
INVARIANT CurrentIsAvailable
INVARIANT LastChangeBuilt
PROPERTY HandoffCompletes
CHECK_DEADLOCK FALSE
