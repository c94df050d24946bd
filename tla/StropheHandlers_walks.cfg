SPECIFICATION FairSpec
CONSTANTS
  StanzaHandlers = {error, features, generic}
  IdHandlers = {bind, generic_id}
  TimedHandlers = {missing_features, generic_timed}
  UserHandlers = {generic, generic_id, generic_timed}
  Error = error
  Features = features
  MissingFeatures = missing_features
  Ids = {_xmpp_bind1, pub}
  UserIds = {pub}
  None = None
INVARIANTS
  ListsAreSound
  CalledExactlyOnce
PROPERTIES
  DueIsFired
CHECK_DEADLOCK FALSE
