SPECIFICATION WriterSpec
CONSTANTS
  Positions <- MCPositions
  Payloads = {"a"}
  Values = {1}
  CoinsPerPosition = 2
  CoinValue = 1
  ChildLinks = TRUE
  Lossy = TRUE
  MaxDraws = 2
  MaxRestarts = 1
INVARIANTS WrittenIsOnChain OneTxUnlessUnsure
CHECK_DEADLOCK FALSE
