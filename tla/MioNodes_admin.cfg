SPECIFICATION Spec
CONSTANTS
  Threads = {t1, t2}
  t1 = t1
  t2 = t2
  n1 = n1
  n2 = n2
  n3 = n3
  Nodes = {n1, n2, n3}
  Me = me
  you = you
  None = None
  Starts <- MCStarts
  Calls <- MCCalls
  MaxCalls = 2
  MaxIds = 3
SYMMETRY Symmetry
INVARIANTS
  ServerIsConsistent

  
CHECK_DEADLOCK FALSE
