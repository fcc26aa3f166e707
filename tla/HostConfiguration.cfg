SPECIFICATION Spec
CONSTANTS
  Procs = {c1, c2}
  Projects = {p, q}
  Registered = {p}
  Settings <- MCSettings
  Default = "plain"
  Shape <- MCShape
  Ids = {i1, i2}
  None = None
  Channel = Channel
  MaxManifest = 2
  MaxCommands = 3
  MaxFaults = 1
  MaxEdits = 1
SYMMETRY MCSymmetry
CHECK_DEADLOCK FALSE
INVARIANTS TransactionIsWhole UpdateKeepsSettings AppliedAsChecked
PROPERTIES JournalEndsWhole PolicyKept
