SPECIFICATION Spec
CONSTANTS
  Intents = {1, 2}
  TTL = 1
  MAX_TIME = 2
  MAX_CRASHES = 2
  Wired = FALSE
INVARIANT AbortedIsFlat
