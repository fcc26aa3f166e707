SPECIFICATION Spec
CONSTANTS
  Gws = {"model"}
  Requests = {"r1"}
  Dev = TRUE
  TTL = 2
  Idle = 1
  MaxRequests = 1
  MaxConcurrent = 1
  MaxSessions = 2
  MaxTime = 2
  MaxFaults = 0
PROPERTIES DeadlineEnds
CHECK_DEADLOCK FALSE
