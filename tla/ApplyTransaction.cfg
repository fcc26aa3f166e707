SPECIFICATION FairSpec
CONSTANTS
  N = 3
  SyncMayFail = FALSE
  MaxFaults = 2
  MaxCrashes = 2
INVARIANTS TypeOK AllOrNothing OriginalsKept HonestResult
PROPERTIES ImplementsAtomicApply CallReturns
