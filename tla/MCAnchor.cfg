SPECIFICATION Spec
CONSTANTS
  Sep <- MCSep
  HeightMax = 9
  MAX_TREE_HEIGHT = 64
  Keys = {1, 2}
  Times = {1, 2}
  Strings <- MCStrings
  StartHeights = {8, 9}
  FirstHeight = 8
  NetworkTarget = 1
  MaxTarget = 2
  MaxLog = 3
  MaxMined = 2
  MaxLeaves = 3
  MaxBlocks = 2
INVARIANTS LogsExact ChainExact InclusionExact AnchoredIsGenuine
CHECK_DEADLOCK FALSE
