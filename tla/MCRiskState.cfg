SPECIFICATION RiskSpec
CONSTANTS
  RECOVERY_COOLDOWN = 2
  SYSTEM_STATE_TTL = 2
  MAX_TIME = 3
  Saver = {s1, s2}
  Balance = {1}
  MarketCri = {50}
SYMMETRY Symmetry
INVARIANTS
  LockBackedByCri
  LatchMeansLocked
PROPERTIES
  OnlyReauthorizationClears
  KvKeepsLock
