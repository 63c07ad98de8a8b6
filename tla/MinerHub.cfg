\* Three calls, so that two overlap and a third comes before, between or after
\* them; the four types tell their registrations apart.  Everybody has been told
\* something in the end.
SPECIFICATION Spec
CONSTANTS
  Callers = {"c1", "c2", "c3"}
  Owners = {"a1"}
  NoNode = NoNode
INVARIANTS TypeOK LastOkHolds CrashHasCause
PROPERTIES RegistryPromise EveryCallEnds
CHECK_DEADLOCK FALSE
