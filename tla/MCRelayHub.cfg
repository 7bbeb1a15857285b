CONSTANTS
  Clients = {c1, c2}
  Sids = {s1, s2}
  Roles = {r1}
  NoSid = NoSid
  NoRole = NoRole
  SendCap = 2
  MaxFrames = 2
SPECIFICATION FairSpec
INVARIANTS
  MapIsExact
  SessionsAreIsolated
  FifoPerSender
PROPERTY HubProgress
CHECK_DEADLOCK FALSE
