SPECIFICATION GateSpec
CONSTANTS
  Account = {1, 2}
  Key = {1, 2, 3}
  PolicyGuard = {9}
  InitialSigners = {1, 2}
  InitialThreshold = 2
  UNHALT_DELAY = 3
  SIGNER_TIMELOCK = 4
  MAX_SIGNATURES = 3
  UINT8_MAX = 3
  MAX_TIME = 6
  Caller = {1, 2}
  MAX_TTL = 1
  MAX_FUTURE_SKEW = 1
  Attestation <- MCAttestation
  SignedBy <- MCSignedBy
INVARIANTS
  QuorumConsistent
  PendingStaysExecutable
PROPERTIES
  RotationPaced
  HaltLasts
  QuorumApproved
  HaltRevokesOutstanding
