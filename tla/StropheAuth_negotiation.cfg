SPECIFICATION MCSpec
CONSTANTS
  Jids <- AllJids
  MaxChallenges = 2
  MaxFields = 2
  None = None
  Undefined = Undefined
INVARIANTS
  TypeOK
  NoMethodTwice
  ConnectedIsClean
  ExchangeIsExact
PROPERTIES
  ConnectedMeansAccepted
  NegotiationEnds
CHECK_DEADLOCK FALSE
