SPECIFICATION FairSpec
CONSTANTS
  W = 3
  FlashSize = 16
  ByteBits = 3
  HeaderSkip = 2
  StaleBytes <- TheStaleBytes
  Bitstream <- TheBitstream
  Scenarios <- TheScenarios
  EepromSize = 9
  EepromFile <- TheEepromFile
  EepromMem <- TheEepromMem
  FifoData <- TheFifoData
  Group = 3
  Packet = 6
  LogPacket = 2
  LogMax = 4
  SPI_MAX_SIZE = 3
  ReadLen = 7
  MaxRounds = 2
  MaxKills = 1
  Prompt = TRUE
INVARIANTS FlashHolds ReadsTruly LoadsTruly StreamsTruly EepromTruly
PROPERTY Ends
CHECK_DEADLOCK FALSE
