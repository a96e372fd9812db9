SPECIFICATION OrdSpec
CONSTANTS
  Order = {1, 2}
  Ioc = {1}
  ENDPOINTS = 2
  HEARTBEAT = 1
  MAX_TIME = 3
INVARIANTS
  NoncesDistinct
  ExecutedAtMostOnce
PROPERTIES
  KeepsOrderPromise
  OrdersReturn
