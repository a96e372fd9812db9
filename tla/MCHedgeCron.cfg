SPECIFICATION HedgeSpec
CONSTANTS
  Tick = {1, 2}
  Deadband = 1
  MinOrder = 3
  Cap = 6
  MaxDelta = 7
  MaxFaults = 2
  MaxMoves = 2
INVARIANTS
  OverhedgeBounded
PROPERTIES
  LandsOnDelta
