SPECIFICATION FairSpec
CONSTANTS
  BulkRoots = {"web"}
  Dispositions = {"keep", "discard"}
  CoreFiles <- MCCoreFiles
  DiffPages = 2
  MaxActions = 7
  MaxRev = 3
  MaxContents = 2
INVARIANTS DecidedAsShown TerminalIsFree
PROPERTIES AppliedAsConfirmed StartedAsApproved ExchangeEnds
CHECK_DEADLOCK FALSE
