SPECIFICATION Spec
CONSTANTS
  None = None
  Throws = Throws
  a = a
  b = b
  core = core
  spn = spn
  toggle = toggle
  other = other
  hidden = hidden
  Pieces = {a, b}
  Names = {a, b}
  Leaves = {a, b}
  SettingLists <- MCSettingLists
  SubsystemLists <- MCSubsystemLists
  Hidden = {hidden}
  Core = core
  Short = 2
  Long = 4
  Window = 12
  Now = 16
  MaxPoints = 3
INVARIANT RepliesParsed
INVARIANT ProfileAgrees
INVARIANT SettingsShown
INVARIANT LockNeverCalmer
INVARIANT StatsAddUp
INVARIANT ChartFilled
CHECK_DEADLOCK FALSE
