CONSTANTS
  VD_BLOCK_NUM = 8
  FCB_NUM = 4
  OFT_MAX_LEN = 3
  DirNames = {"a"}
  FileNames = {"f", "g"}
  Stored <- StoredWhole
  Text = {t}
  Garbled = Garbled
  Rests = {1}
  CtrlArgs = {}
  CdPaths <- UpDown
  StrayBlock = 128
  OpenInsideFile = TRUE
SPECIFICATION Spec
INVARIANTS
  OpenedInDirectory
