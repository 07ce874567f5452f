CONSTANTS
  VD_BLOCK_NUM = 7
  FCB_NUM = 4
  OFT_MAX_LEN = 3
  DirNames = {"a"}
  FileNames = {"f"}
  Stored <- StoredWhole
  Text = {t}
  Garbled = Garbled
  Rests = {0, 3}
  CtrlArgs = {}
  CdPaths <- Down
  StrayBlock = 128
  OpenInsideFile = FALSE
  TextMode = FALSE
  Breaks <- SomeBreaks
  Spoilt <- Garbage
  MaxSaves = 2
SPECIFICATION SessionSpec
INVARIANTS
  ImageRestorable
