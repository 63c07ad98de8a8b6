\* A request and a telegram for a node whose entry changes and which moves; the
\* edge node refuses the request.
SPECIFICATION PoolSpec
CONSTANTS
  Requests = {r1}
  NoAuth = TRUE
  EdgeNoAuth = FALSE
  MaxPieces = 0
  Methods = {"POST"}
  Paths = {"fine"}
  Kinds = {"plain"}
  Entries = {"none", "malformed", "relay", "direct"}
  Places = {"relay", "direct"}
  Telegrams = {t1}
  Targets = {"other", "badInput", "alive", "idl", "forward"}
  EdgeNoAgent = FALSE
INVARIANTS PoolTypeOK TeleHasRoute FieldsAreAnswered IdlIsAnswered DialHasRoute
CHECK_DEADLOCK FALSE
