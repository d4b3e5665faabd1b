SPECIFICATION Spec
CONSTANTS
  Exchanges = {e1}
  Calls = {k1, k2}
  Endpoints = {mcp, rpc}
  DefaultPath = mcp
  MaxCalls = 3
  MaxChanges = 1
  None = None
SYMMETRY Symmetry
INVARIANTS
  TypeOK
  RunsWithRights
  ListenerKept
  AnswersBetweenStops
CHECK_DEADLOCK FALSE
