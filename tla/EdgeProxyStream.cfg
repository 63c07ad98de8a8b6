\* One request of every kind with every kind of answer, authorization on.
SPECIFICATION Spec
CONSTANTS
  Requests = {r1}
  NoAuth = FALSE
  EdgeNoAuth = TRUE
  MaxPieces = 3
  Methods = {"GET", "POST", "OPTIONS", "PUT"}
  Paths = {"short", "bad", "fine", "odd"}
  Kinds = {"sse", "plain"}
  Entries = {"none", "neither", "malformed", "relay", "direct"}
  Places = {"direct"}
INVARIANTS TypeOK InOrder RefusedNotRun CleanMeansComplete BrokenHasCause
PROPERTIES ServicePromise
CHECK_DEADLOCK FALSE
