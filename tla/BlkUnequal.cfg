CONSTANTS
  Total = 4
  Cuts <- AllCuts
  MaxReqs = 1
  MaxBlkLoads = 1
SPECIFICATION BlkSpec
INVARIANT
  SizeIsWanted
CHECK_DEADLOCK FALSE
