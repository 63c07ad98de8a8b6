\* One request for a plain answer or an event stream, of declared length or not;
\* the application may fall silent, and the node may move while it is asked.
SPECIFICATION HandlerSpec
CONSTANTS
  Requests = {r1}
  NoAuth = TRUE
  EdgeNoAuth = TRUE
  MaxPieces = 2
  Methods = {"POST"}
  Paths = {"fine"}
  Kinds = {"sse", "plain"}
  Entries = {"direct"}
  Places = {"relay", "direct"}
PROPERTIES EveryRequestEnds LinesArePrompt
CHECK_DEADLOCK FALSE
