SPECIFICATION FairSpec
CONSTANTS
  Cli = {a}
  M = 2
  Meanwhile = {"status"}
  MaxSets = 1
  MaxRev = 3
  MaxContents = 2
  MaxEdits = 1
  MaxFaults = 2
  MaxCrashes = 2
INVARIANTS KeptDataIsThere CommitIsRecorded
PROPERTIES PendingLeaves Completes
CHECK_DEADLOCK FALSE
