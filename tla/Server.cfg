SPECIFICATION Spec
CONSTANTS
  Gateways = {g1, g2}
  Reconnecting = {g1}
  Proxied = {g1, g2}
  Tools = {info, echo}
  Info = info
  Resources = {page}
  Callers = {k1, k2}
  MaxClients = 2
  MaxCalls = 3
  MaxChanges = 2
  None = None
SYMMETRY Symmetry
INVARIANTS
  TypeOK
  ToolsCounted
  StatusIsTrue
  ErrorIsRetried
CHECK_DEADLOCK FALSE
