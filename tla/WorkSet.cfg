CONSTANTS
  Order <- MCOrder
  Protected = {}
  Excluded = {}
  Explicit <- MCExplicit
  SoftEntries = 1
  HardEntries = 2
  MaxEntries = 4
  DirectoryApply = TRUE
  InitialTrees <- MCTrees
  MaxGuestEdits = 2
  MaxHostEdits = 1
SPECIFICATION Spec
INVARIANTS ResultIsWhole ReplayGivesResult
PROPERTIES BulkKept
CHECK_DEADLOCK FALSE
