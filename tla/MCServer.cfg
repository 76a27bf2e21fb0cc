SPECIFICATION PoliteSpec
CONSTANTS
  alice = alice
  mallory = mallory
  Callers = {alice, mallory}
  Registered = {alice}
  Nonces = {1, 2}
  Operations <- MCOperations
  Requests <- MCRequests
  Limit = 1
  WindowSecs = 1
  Roots = {}
  ChainRoots = {}
  MaxTime = 1
  MaxAudit = 3
  MaxRestarts = 1
  ClockSteps = FALSE
  Conns = {c1, c2}
  Messages <- MCMessages
  Malformed = Malformed
  NoOne = NoOne
  NodeTimeout = 2
  OpBudget = 1
INVARIANTS AnswersSound RetryIsSafe
PROPERTIES ImplementsApi EveryRequestAnswered
CHECK_DEADLOCK FALSE
