CONSTANTS
  MaxConnects = 3
  MaxSeq = 3
  MaxAttempts = 2
  None = None
SPECIFICATION FairSpec
INVARIANTS
  CommandsFresh
  LinkIsExact
PROPERTIES
  ReconnectHappens
CHECK_DEADLOCK FALSE
