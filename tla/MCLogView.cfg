SPECIFICATION FairSpec
CONSTANTS
  Nil = Nil
  BufferSize = 3
  Views = {v1}
  MaxLines = 8
  MaxCalls = 2
INVARIANT LinesInOrder
INVARIANT NoLineSkipped
PROPERTY CatchesUp
CHECK_DEADLOCK FALSE
