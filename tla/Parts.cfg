CONSTANTS
  MemLen = 5
  Hello <- HelloMC
  MaxCharCalls = 2
  MaxCharLoads = 1
  Total = 3
  Cuts <- AllCuts
  MaxReqs = 3
  MaxBlkLoads = 1
  Uids = {0, 1, 2}
  Gids = {0, 1}
  MaxPid = 4
  Tasks = {"a", "b"}
  Users = {0, 1}
  UserOf <- UserOfMC
  Pgrp <- PgrpMC
  MinNice = 0
  MaxNice = 1
  EFAULT = 2
  Limits = {1, 2}
  FirstLimits <- FirstLimitsMC
  MaxPrioCalls = 3
  MaxTask = 3
  KernelTasks = {1, 2}
  MaxChanges = 5
  VD_BLOCK_SIZE = 3
  Chars = {"x", "y", "#", "&"}
  Behind <- BehindMC
  MaxTyped = 7
  Moments <- MomentsMC
SPECIFICATION Spec
INVARIANTS
  StaysInside
  HoldsWhatIsUsed
  ReadsWhatIsThere
  NothingMissing
  TransfersExact
  PrivilegeSound
  GroupsNest
  NiceIsEarned
  CallsTell
  CalmIsComplete
  NothingUnread
  EntryIsWritten
  DatesAreTrue
PROPERTIES
  IdsNeverGrow
  PartsEnd
CHECK_DEADLOCK FALSE
