SPECIFICATION Spec
CONSTANTS
  Calls = {c1, c2}
  c1 = c1
  c2 = c2
  MaxOpen = 2
  SendRetries = 3
  MaxDrops = 2
  Timeouts = TRUE
  Spurious = TRUE
  NoOne = NoOne
SYMMETRY CallSymmetry
INVARIANTS
  TypeOK
  PermitBound
  TableBelowCapacity
  NothingLeftBehind
CHECK_DEADLOCK FALSE
