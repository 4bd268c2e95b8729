\* A buffer of two, two descriptors and three events: a revocation, a consent and
\* a destroyed activity, or two restarts and a stop, meet in every order.
CONSTANTS
  Capacity = 2
  Descriptors = {3, 4}
  None = None
  MaxEvents = 3
SPECIFICATION FairSpec
INVARIANT NoOrphanTunnel
INVARIANT RequestedIsUp
INVARIANT NoTunnelWithoutConsent
PROPERTY EndsInExit
CHECK_DEADLOCK FALSE
