\* A telegram for the IDL of a node that is there, with an agent.
SPECIFICATION PoolSpec
CONSTANTS
  Requests = {r1}
  NoAuth = TRUE
  EdgeNoAuth = FALSE
  MaxPieces = 0
  Methods = {"POST"}
  Paths = {"fine"}
  Kinds = {"plain"}
  Entries = {"direct"}
  Places = {"direct"}
  Telegrams = {t1}
  Targets = {"idl"}
  EdgeNoAgent = FALSE
INVARIANTS IdlIsOfApplication
CHECK_DEADLOCK FALSE
