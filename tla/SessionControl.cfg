SPECIFICATION Spec
CONSTANTS
  Gws = {"model"}
  Requests = {"r1", "r2"}
  Dev = TRUE
  TTL = 2
  Idle = 1
  MaxRequests = 1
  MaxConcurrent = 1
  MaxSessions = 2
  MaxTime = 2
  MaxFaults = 2
INVARIANTS QuietAfterwards LimitsKept
PROPERTIES AdmittedInTime NoEarlyPause
CHECK_DEADLOCK FALSE
