\* The edge node asks its application about the bearer.
SPECIFICATION Spec
CONSTANTS
  Requests = {r1}
  NoAuth = TRUE
  EdgeNoAuth = FALSE
  MaxPieces = 1
  Methods = {"POST"}
  Paths = {"fine"}
  Kinds = {"sse", "plain"}
  Entries = {"direct"}
  Places = {"direct"}
PROPERTIES VerdictHonoured
CHECK_DEADLOCK FALSE
