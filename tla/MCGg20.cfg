SPECIFICATION Spec
CONSTANTS
  Q = 5
  CHALLENGES = 3
  ChallengeElement <- MCChallengeElement
  Hash <- MCHash
  Setups <- MCSetups
  N = 3
  Primes <- MCPrimes
  Bases <- MCBases
  Moduli <- MCModuli
  Secrets = {3, 4}
  Coeffs = {2}
  KDraws = {2, 3}
  GammaDraws = {1, 4}
  BetaDraws = {3}
  Draws <- MCDraws
  XCoord <- MCXCoord
  Hashes = {0, 2}
  Payloads = {1, 2}
INVARIANTS BlameExact SigningExact
CHECK_DEADLOCK FALSE
