SPECIFICATION FrostSpec
CONSTANTS
  Q = 7
  Threshold = 2
  Parties = 3
  Secrets = {3, 6}
  Coeffs = {2, 5}
  Nonces = {1, 4}
  Challenge <- MCChallenge
  Sessions = {1, 2}
  Messages = {1}
  SigningSets <- MCSigningSets
INVARIANTS SessionsExact BelowQuorumNeverSigns ReconstructionSound
CHECK_DEADLOCK FALSE
