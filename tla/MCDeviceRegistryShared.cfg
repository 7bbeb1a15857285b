CONSTANTS
  Devices = {d1, d2}
  Keys = {k1, k2}
  None = None
  Torn = Torn
  Sessions = {s1, s2}
  Tools = {c1, c2}
  Crashes = TRUE
SPECIFICATION Spec
SYMMETRY Symmetric
INVARIANT RevokeIsFinal
PROPERTY IsAtomic
CHECK_DEADLOCK FALSE
