CONSTANTS
  VD_BLOCK_NUM = 8
  FCB_NUM = 4
  OFT_MAX_LEN = 2
  DirNames = {}
  FileNames = {"f"}
  Stored <- StoredWhole
  Text = {t}
  Garbled = Garbled
  Rests = {0, 4}
  CtrlArgs = {}
  CdPaths <- NoPaths
  StrayBlock = 128
  OpenInsideFile = FALSE
SPECIFICATION Spec
INVARIANTS
  NoBlockLost
