SPECIFICATION LedgerSpec
CONSTANTS
  I1 = I1
  I2 = I2
  C1 = C1
  C2 = C2
  Intents = {I1}
  Callers <- TwoCallers
  Gated = {1}
  TTL = 1
  Overlapping = TRUE
  RECOVERY_COOLDOWN = 1
  MAX_TIME = 2
PROPERTY AbortIsFinal
