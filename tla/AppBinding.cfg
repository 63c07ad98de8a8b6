\* Three events and two faults at every moment of the rounds.  A full node stops
\* after its first round, when the application may be at rest too.
SPECIFICATION Spec
CONSTANTS
  Origins = {"o1", "o2"}
  NoOrigin = ""
  MaxEvents = 3
  MaxFaults = 2
INVARIANTS TypeOK OriginFresh
PROPERTIES OriginSettles BindingSettles
CHECK_DEADLOCK FALSE
