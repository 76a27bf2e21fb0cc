SPECIFICATION Spec
CONSTANTS
  Hardened = 4
  DepthMax = 255
  SeedLength <- MCSeedLength
  KeyLen = 2
  CounterMax = 2
  AeadKeys <- MCAeadKeys
  Epochs = {0, 1}
  N = 7
  Privates = {2}
  Ephemerals = {3}
  Aads = {"x", "y"}
  MaxCiphers = 2
  MaxSealed = 3
  MaxMail = 1
  MaxBreadth = 2
  MaxNodes = 3
  GraphDepth = 2
  Coords = {1, 5}
  GrantSets = {1, 2}
  MaxGrants = 2
  Budget = 3
INVARIANTS LeaksContained ResolvingExact MessagesSound
CHECK_DEADLOCK FALSE
