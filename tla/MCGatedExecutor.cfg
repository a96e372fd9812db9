SPECIFICATION Spec
CONSTANTS
  Account = {2}
  Key = {1}
  PolicyGuard = {}
  InitialSigners = {1}
  InitialThreshold = 1
  UNHALT_DELAY = 2
  SIGNER_TIMELOCK = 3
  MAX_SIGNATURES = 1
  UINT8_MAX = 1
  MAX_TIME = 2
  Caller = {1, 31, 21, 22}
  MAX_TTL = 1
  MAX_FUTURE_SKEW = 0
  Attestation <- MCAttestation
  SignedBy <- MCSignedBy
  Executor = {21, 22}
  EOA = {1}
  Contract = {31}
  Inert = {32}
  Gate = 20
  Data = {"d"}
  restrictTargets <- MCRestrict
  allowedTarget <- MCAllowed
  MaxDenied = 1
INVARIANTS
  OneCallPerAttestation
  AllowedCountExact
PROPERTY KeepsPromise
