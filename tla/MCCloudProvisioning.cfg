CONSTANTS
  Users = {u1}
  Requests = {r1, r2}
  Nobody = Nobody
  ListLimit = 1
  MaxEvents = 2
  MaxFaults = 3
SPECIFICATION MCSpec
INVARIANTS
  TwoRunnersOnlyByOverlap
  FailedHasNoDroplet
  PairingCatchesUp
PROPERTIES
  TrialSparesPaid
  StuckServersEnd
  PollingEnds
CHECK_DEADLOCK FALSE
