SPECIFICATION Spec
CONSTANTS
  Align = 4
  MaxLog2Sli = 1
  FliOffset = 2
  MaxFli = 8
  SizeT = 1024
  Pool <- ThePool
  MoreAreas <- TheAreas
  Sizes = {1, 8, 19}
  MaxLive = 2
INVARIANTS Consistent GoodFit NoLeak
PROPERTIES Allocates
CHECK_DEADLOCK FALSE
