SPECIFICATION FairSpec
CONSTANTS
  Size = 2
  MaxItems = 4
  None = None
INVARIANTS
  QueueIsSound
  ReportedOnce
PROPERTIES
  ImplementsStream
  NothingHangs
CHECK_DEADLOCK FALSE
