SPECIFICATION FairSpec
CONSTANTS
  None = None
  Undefined = Undefined
  Info = Info
  crash = crash
  leak = leak
  Reports = {crash, leak}
  MaxTaps = 2
INVARIANT ClearedIsKept
INVARIANT InfoWanted
PROPERTY SpinnerGoes
CHECK_DEADLOCK FALSE
