CONSTANTS
  VD_BLOCK_NUM = 8
  FCB_NUM = 4
  OFT_MAX_LEN = 3
  DirNames = {"a"}
  FileNames = {"f"}
  Stored <- StoredWhole
  Text = {t}
  Garbled = Garbled
  Rests = {3}
  CtrlArgs = {}
  CdPaths <- Down
  StrayBlock = 128
  OpenInsideFile = FALSE
  TextMode = TRUE
  Breaks <- SomeBreaks
  Spoilt <- Garbage
  MaxSaves = 2
SPECIFICATION SessionFair
INVARIANTS
  RestoredSound
PROPERTIES
  ExitEnds
