CONSTANTS
  InCap = 1
  OutCap = 1
  MaxFrames = 4
  MaxEvents = 2
SPECIFICATION FairSpec
INVARIANTS
  HandlesReleased
  FramesAreKept
PROPERTIES
  GoroutinesEnd
  RelayLossEndsSession
CHECK_DEADLOCK FALSE
