SPECIFICATION FairSpec
CONSTANTS
  Calls = {c1, c2}
  c1 = c1
  c2 = c2
  MaxOpen = 3
  SendRetries = 2
  MaxDrops = 0
  Timeouts = TRUE
  Spurious = FALSE
  NoOne = NoOne
INVARIANTS
  OkMeansAnswered
  NoDanglingTouch
PROPERTIES
  EveryCallReturns
CHECK_DEADLOCK FALSE
