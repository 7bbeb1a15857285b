CONSTANTS
  Procs = {p1, p2, p3}
  Callers = {p1, p2, p3}
  Ips = {i1}
  Limit = 1
  MaxMinute = 2
  NoCall = NoCall
  None = None
  MaxLaunches = 2
  MaxFaults = 1
SPECIFICATION FairSpec
INVARIANTS
  MachineIdAgrees
  HostFilesAreTrue
  StopHitsService
  QuotaHolds
PROPERTY ServiceComesBack
CHECK_DEADLOCK FALSE
