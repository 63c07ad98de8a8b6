\* One caller is enough.
SPECIFICATION Spec
CONSTANTS
  Callers = {"c1"}
  Owners = {"a1"}
  NoNode = NoNode
INVARIANT RefusedQueryFails
CHECK_DEADLOCK FALSE
