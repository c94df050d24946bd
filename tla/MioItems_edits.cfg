SPECIFICATION Spec
CONSTANTS
  Clients = {c1, c2}
  c1 = c1
  c2 = c2
  None = None
  MaxCalls = 2
  Starts <- MCStarts
  Calls <- MCCalls
SYMMETRY ClientSymmetry
INVARIANTS
  PublishedIsSound

  
  
CHECK_DEADLOCK FALSE
