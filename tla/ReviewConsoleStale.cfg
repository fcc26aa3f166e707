SPECIFICATION FairSpec
CONSTANTS
  BulkRoots = {"web"}
  Dispositions = {"keep"}
  CoreFiles <- MCCoreFiles
  DiffPages = 1
  MaxActions = 8
  MaxRev = 3
  MaxContents = 2
PROPERTIES AppliedAsReviewed
CHECK_DEADLOCK FALSE
