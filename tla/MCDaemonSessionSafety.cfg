CONSTANTS
  Devices = {d1}
  Keys = {k1, k2}
  Commands = {"stdin"}
  BadKey = BadKey
  None = None
  BufferCap = 2
  QueueCap = 1
  InboundCap = 1
  MaxEvents = 3
  MaxFrames = 3
  MaxSeq = 2
SPECIFICATION Spec
SYMMETRY Symmetric
INVARIANTS
  SealedInOrder
  EventsInOrder
  BufferHoldsNewest
  SealedForKnownDevice
  RevokeStopsCommands
CHECK_DEADLOCK FALSE
