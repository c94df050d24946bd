SPECIFICATION FairSpec
CONSTANTS
  Receivers = {r1}
  Stoppers = {}
  Clearers = {}
  Packets = {p1}
  r1 = r1
  p1 = p1
  MaxLen = 2
  MaxOpen = 2
  MaxRequests = 1
  MaxDrops = 0
  Nothing = Nothing
PROPERTIES
  QueuedPacketIsReceived
CHECK_DEADLOCK FALSE
