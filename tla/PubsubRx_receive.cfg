SPECIFICATION BusySpec
CONSTANTS
  Receivers = {r1}
  Stoppers = {s1, s2}
  Clearers = {s1}
  Packets = {p1, p2}
  r1 = r1
  s1 = s1
  s2 = s2
  p1 = p1
  p2 = p2
  MaxLen = 2
  MaxOpen = 4
  MaxRequests = 3
  MaxDrops = 1
  Nothing = Nothing
INVARIANTS
  LenExact
  PermitPerListener
PROPERTIES
  ImplementsFifo
  ReceiveReturns
CHECK_DEADLOCK FALSE
