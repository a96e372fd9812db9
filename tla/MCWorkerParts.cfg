SPECIFICATION WorkerSpec
CONSTANTS
  Isolate = {i1, i2}
  MaxForwardStep = 2
  Wall = {1, 2, 3, 4, 7}
  MaxVirtual = 7
  Block = {1, 2}
  Stamp = {1, 2, 3}
  Bit = {b1, b2}
  MaxPuts = 2
  Claim = {1, 2}
  OrderId = {1}
  MaxWinners = 2
  Op = {1, 2}
  MaxCost = 2
  MaxRecorded = 2
  Slot = {1, 2}
  DefaultLimit = 2
  RetailLimit = {1, 2}
  MaxCalls = 4
  MaxAttempts = 3
  Size = 2
SYMMETRY Alike
INVARIANTS
  MaskKeepsTrips
  OneWinner
  LedgerAddsUp
  BudgetHolds
  OneOrderOut
PROPERTIES
  ClockFollows
  WatermarkSound
CHECK_DEADLOCK FALSE
