\* Both modes, every configuration, a call and a command at any time.
SPECIFICATION NodeSpec
CONSTANTS
  Modes = {"full", "edge"}
  MaxCalls = 1
  NAddrs = 2
INVARIANTS TypeOK HandlersFindParts GracefulClosedAll ReportIsTrue
PROPERTIES ServiceFindsParts SignalEndsNode
CHECK_DEADLOCK FALSE
