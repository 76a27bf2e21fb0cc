SPECIFICATION Spec
CONSTANTS
  u1 = u1
  u2 = u2
  u3 = u3
  u4 = u4
  u5 = u5
  Users = {u1, u2, u3, u4, u5}
  Founders <- Four
  MaxDepth = 3
  MaxBreadth = 8
  MaxNodes = 16
  MaxId = 20
  MaxRotations = 3
  MaxPending = 2
  Strategies = {"KeyOriented", "GroupOriented", "UserOriented"}
  MaxFaults = 1
  ReJoin = FALSE
  LeafSponsor = FALSE
INVARIANTS DepartedExcluded KnowledgeIsMembership MembersCanRead RekeyingSound
CHECK_DEADLOCK FALSE
