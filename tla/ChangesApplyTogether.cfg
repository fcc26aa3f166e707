SPECIFICATION Spec
CONSTANTS
  Cli = {a, b}
  M = 1
  Meanwhile = {"export", "resolve", "recreate", "discard", "edit"}
  MaxSets = 1
  MaxRev = 3
  MaxContents = 1
  MaxEdits = 1
  MaxFaults = 0
  MaxCrashes = 1
INVARIANTS DeletedOnlyAsApproved
PROPERTIES AppliedOnce
CHECK_DEADLOCK FALSE
SYMMETRY Interchangeable
