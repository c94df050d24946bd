SPECIFICATION FairSpec
CONSTANTS
  Conns = {c1, c2, c3}
  Requests = {r1, r2}
  MaxRetries = 2
  None = None
INVARIANTS
  
  OkIsConnected
  HandlerDataLives
  LostAreReleased
PROPERTIES
  NothingHangs
CHECK_DEADLOCK FALSE
