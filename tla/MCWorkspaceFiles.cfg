CONSTANTS
  Paths = {a, b, c}
  Tracked = {a, b, c}
  Texts = {t0, t1, raw}
  Original = t0
  None = None
  Decode <- MCDecode
  Fold <- MCFold
  Alike = {a, b}
  Raw = raw
  Replaced = t1
  TabCap = 2
  MaxCommands = 3
  MaxEdits = 2
  MaxFaults = 2
  MaxSteps = 3
SPECIFICATION Spec
SYMMETRY Symmetric
INVARIANTS
  EditorIsConsistent
  TabsAreHonest
PROPERTY EventsSpareEdits
CHECK_DEADLOCK FALSE
