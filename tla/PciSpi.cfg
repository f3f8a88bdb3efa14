SPECIFICATION FairSpec
CONSTANTS
  W = 3
  FlashSize = 16
  Tools = {"pci", "v4"}
  Boards = {3, 9}
  Files <- TheFiles
  ByteBits = 3
  HeaderSkip = 2
  StaleBytes <- TheStaleBytes
  Before <- TheBefore
  OpSets <- TheOps
  ReadLen = 12
  MaxKills = 1
INVARIANTS WritesImage ReadsBack
PROPERTY Ends
CHECK_DEADLOCK FALSE
