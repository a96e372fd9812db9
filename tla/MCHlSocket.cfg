SPECIFICATION SockSpec
CONSTANTS
  Socket = {1, 2, 3}
  Stream = {"userEvents"}
  STALE_THRESHOLD = 1
INVARIANTS
  WatchedWhileConnected
  NoRetryAfterDisconnect
  StreamsCarriedOver
  OneFeed
PROPERTIES
  ComesBack
  SilenceEnds
