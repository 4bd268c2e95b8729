SPECIFICATION FairSpec
CONSTANTS
  None = None
  Starts <- MCStarts
  MaxResumes = 1
  MaxClicks = 2
  MaxChanges = 1
PROPERTY ButtonSettles
PROPERTY DownloadSeen
CHECK_DEADLOCK FALSE
