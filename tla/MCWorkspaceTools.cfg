CONSTANTS
  Committed = {a}
  New = {b}
  OutCap = 2
  MaxChanges = 2
  MaxAsked = 2
  MaxBreaks = 2
  MaxInAll = 3
  Requests = {r1, r2, r3}
  LogCap = 2
SPECIFICATION MCSpec
INVARIANTS
  GitCardIsExact
  LogHoldsNewest
PROPERTIES
  ListCatchesUp
  GitCardIsFreed
CHECK_DEADLOCK FALSE
