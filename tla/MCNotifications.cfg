SPECIFICATION FairSpec
CONSTANTS
  None = None
  Events = {e1, e2}
  Actions <- MCActions
  MaxRaised = 2
  MaxFailures = 1
  MaxOpened = 1
INVARIANT FeedLeadsToData
INVARIANT SelectedWasPerformed
PROPERTY ActionAnswers
CHECK_DEADLOCK FALSE
