CONSTANTS
  Devices = {d1}
  Keys = {k1}
  Commands = {"git"}
  BadKey = BadKey
  None = None
  BufferCap = 1
  QueueCap = 1
  InboundCap = 1
  MaxEvents = 1
  MaxFrames = 4
  MaxSeq = 2
SPECIFICATION FairSpec
INVARIANT CommandsOnceInOrder
PROPERTY HandlerProgress
CHECK_DEADLOCK FALSE
