SPECIFICATION Spec
CONSTANTS
  Refs = {"main"}
  Foreign = {"a"}
  Wishes <- SmallWishes
  Ancestor <- SmallAncestor
  Pushers = {1, 2}
  Users = {"u1"}
  Lifetime = 1
  MaxNonces = 2
  MaxSessions = 2
  MaxTime = 1
  MaxFaults = 1
INVARIANTS OneRequestPerPush GuestSeesUpstream
PROPERTIES Implements
CHECK_DEADLOCK FALSE
