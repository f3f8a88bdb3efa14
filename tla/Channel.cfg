SPECIFICATION FairSpec
CONSTANTS
  Depth = 8
  Bufs = 3
  Span = 16
  Lists <- Mixed
  Waits = TRUE
  BusErrors = TRUE
INVARIANTS CopyInStep BurstsFit WrittenInOrder
PROPERTIES Transfers JobsEnd
CHECK_DEADLOCK FALSE
