SPECIFICATION Spec
CONSTANTS
  u1 = u1
  u2 = u2
  u3 = u3
  u4 = u4
  u5 = u5
  Users = {u1, u2, u3}
  Founders <- Two
  MaxDepth = 3
  MaxBreadth = 8
  MaxNodes = 8
  MaxId = 20
  MaxRotations = 3
  MaxPending = 2
  Strategies = {"KeyOriented", "UserOriented"}
  MaxFaults = 0
  ReJoin = TRUE
  LeafSponsor = FALSE
INVARIANT DepartedExcluded
CHECK_DEADLOCK FALSE
