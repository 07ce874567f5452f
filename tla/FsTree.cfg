CONSTANTS
  VD_BLOCK_NUM = 8
  FCB_NUM = 4
  OFT_MAX_LEN = 3
  DirNames = {"a"}
  FileNames = {"f"}
  Stored <- StoredWhole
  Text = {t}
  Garbled = Garbled
  Rests = {3}
  CtrlArgs = {0, 1}
  CdPaths <- UpDown
  StrayBlock = 128
  OpenInsideFile = FALSE
SPECIFICATION Spec
PROPERTIES
  ImplementsTree
