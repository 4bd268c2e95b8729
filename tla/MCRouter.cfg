\* Two flows: one can be dialing or ending while the other is torn down.
CONSTANTS
  Flows = {f1, f2}
SPECIFICATION FairSpec
INVARIANT ListedOnce
PROPERTY ImplementsTable
PROPERTY ClosedFlowEnds
CHECK_DEADLOCK FALSE
