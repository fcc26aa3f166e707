SPECIFICATION FairSpec
CONSTANTS
  Modes = {"secure","dev"}
  Events = {"slow","console","quiesce","signal","interrupt"}
  MaxVMs = 2
  MaxFaults = 2
  MaxCrashes = 2
INVARIANTS FrozenRecordAdoptable
PROPERTIES RetainedWorkKept OutcomeEndsSupervisor
CHECK_DEADLOCK FALSE
