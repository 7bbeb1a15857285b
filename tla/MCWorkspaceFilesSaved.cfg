CONSTANTS
  Paths = {a}
  Tracked = {a}
  Texts = {t0, t1}
  Original = t0
  None = None
  Decode <- MCDecode
  Fold <- MCFold
  Alike = {}
  Raw = None
  Replaced = None
  TabCap = 2
  MaxCommands = 2
  MaxEdits = 1
  MaxFaults = 0
  MaxSteps = 3
SPECIFICATION Spec
INVARIANT SavedMeansSaved
CHECK_DEADLOCK FALSE
