SPECIFICATION Spec
CONSTANTS
  alice = alice
  mallory = mallory
  Callers = {alice, mallory}
  Registered = {alice}
  Nonces = {1, 2, 3}
  Operations <- MCOperations
  Requests <- MCRequests
  Limit = 1
  WindowSecs = 2
  Roots = {"r1", "r2"}
  ChainRoots = {"r1"}
  MaxTime = 2
  MaxAudit = 3
  MaxRestarts = 1
  ClockSteps = FALSE
INVARIANTS NonceAccounting ReplayNeedsRestart RateLimitHolds BudgetExact AuditSound
CHECK_DEADLOCK FALSE
