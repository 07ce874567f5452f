CONSTANTS
  VD_BLOCK_NUM = 9
  FCB_NUM = 4
  OFT_MAX_LEN = 2
  DirNames = {}
  FileNames = {"f", "g"}
  Stored <- StoredWhole
  Text = {t}
  Garbled = Garbled
  Rests = {0, 4}
  CtrlArgs = {}
  CdPaths <- NoPaths
  StrayBlock = 7
  OpenInsideFile = FALSE
SPECIFICATION Spec
PROPERTIES
  OthersUntouched
