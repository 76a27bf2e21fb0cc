SPECIFICATION Spec
CONSTANTS
  m1 = m1
  m2 = m2
  Broadcaster = b
  Stranger = x
  Sessions <- MCSessions
  MembersOf <- MCMembersOf
  Contributions <- MCContributions
  Payloads = {"keys"}
  MemFee = 2
  Expiry = 1
  Threshold = 0
  Width = 2
  BaseMillis = 1
  MaxMillis = 3
  MaxTrouble = 3
INVARIANTS ConsentSound MemberSignatureStands SubmissionSound
PROPERTIES RollbackHonoured RecoveryMonotone 
CHECK_DEADLOCK FALSE
