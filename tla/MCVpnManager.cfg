\* Two callers, a buffer of one and two descriptors: the buffer fills, callers
\* block, setups fail between teardowns and descriptors leak.
CONSTANTS
  Callers = {main, ui}
  Capacity = 1
  Descriptors = {3, 4}
  None = None
SPECIFICATION FairSpec
INVARIANT StackOwnsDescriptor
INVARIANT ShutdownAfterTeardown
INVARIANT NoLeak
PROPERTY CallReturns
PROPERTY DisconnectTearsDown
PROPERTY ImplementsTunnel
CHECK_DEADLOCK FALSE
