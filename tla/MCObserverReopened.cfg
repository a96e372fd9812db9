SPECIFICATION RiskSpec
CONSTANTS
  RECOVERY_COOLDOWN = 2
  SYSTEM_STATE_TTL = 2
  MAX_TIME = 4
  Saver = {s1}
  Balance = {1, 2}
  MarketCri = {50, 100}
PROPERTY ObserverStaysClosed
