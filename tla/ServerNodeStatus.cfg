\* A node in edge mode is asked for its status.
SPECIFICATION Spec
CONSTANTS
  Modes = {"edge"}
  MaxCalls = 1
  NAddrs = 1
INVARIANTS StatusServed
CHECK_DEADLOCK FALSE
