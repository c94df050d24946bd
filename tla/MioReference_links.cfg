SPECIFICATION Spec
CONSTANTS
  Nodes = {n1, n2, n3}
  Clients = {a, b}
  n1 = n1
  n2 = n2
  n3 = n3
  a = a
  b = b
  AtChild = {TRUE, FALSE}
  MaxOps = 4
  MaxFaults = 1
  None = None
SYMMETRY NodeSymmetry
INVARIANTS
  ListsAreSound
  ParentsKnowTheirChildren
PROPERTIES
  OkMeansDone
CHECK_DEADLOCK FALSE
