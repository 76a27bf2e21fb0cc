SPECIFICATION Spec
CONSTANTS
  MaxDepth = 3
  MaxBreadth = 2
  MaxNodes = 5
  Coords <- MCCoords
  MaxId = 7
  MaxEpoch = 1
INVARIANTS LinksSound BoundsHold PathsSound
PROPERTIES IdsStable
CHECK_DEADLOCK FALSE
