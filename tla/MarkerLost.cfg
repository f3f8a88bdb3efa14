SPECIFICATION FairSpec
CONSTANTS
  Depth = 8
  Bufs = 3
  Span = 16
  Lists <- LongLast
  Waits = TRUE
  BusErrors = FALSE
PROPERTIES JobsEnd
CHECK_DEADLOCK FALSE
