SPECIFICATION FairSpec
CONSTANTS
  N = 3
  SyncMayFail = FALSE
  MaxFaults = 3
  MaxCrashes = 2
INVARIANTS AllOrNothing Recoverable SuccessIsComplete
PROPERTIES Converges
