CONSTANTS
  VD_BLOCK_NUM = 8
  FCB_NUM = 4
  OFT_MAX_LEN = 2
  DirNames = {"a"}
  FileNames = {"f", "g"}
  Stored <- StoredWhole
  Text = {t, u}
  Garbled = Garbled
  Rests = {0, 3}
  CtrlArgs = {0, 1, 2}
  CdPaths <- NoPaths
  StrayBlock = 128
  OpenInsideFile = FALSE
SPECIFICATION Spec
SYMMETRY Symmetry
INVARIANTS
  FatsAgree
  BlocksDisjoint
  ChainCoversLength
  OftCoherent
PROPERTIES
  OthersUntouched
  TextIsAppended
