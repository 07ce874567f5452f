CONSTANTS
  VD_BLOCK_NUM = 8
  FCB_NUM = 4
  OFT_MAX_LEN = 3
  DirNames = {"a", "b"}
  FileNames = {"a"}
  Stored <- StoredWhole
  Text = {t}
  Garbled = Garbled
  Rests = {0}
  CtrlArgs = {}
  CdPaths <- ManyPaths
  StrayBlock = 128
  OpenInsideFile = FALSE
SPECIFICATION FairSpec
INVARIANTS
  TypeOK
  ParentOpen
  DirectoriesSound
  CdLands
PROPERTIES
  OnlyWritingOrphans
  CdEnds
