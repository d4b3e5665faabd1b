SPECIFICATION FairSpec
CONSTANTS
  Calls = {c1, c2}
  Stops = {s1, s2}
  MaxFaults = 1
  None = None
INVARIANTS
  TypeOK
  Accounted
  StopDelivers
PROPERTIES
  EventuallyWritten
CHECK_DEADLOCK FALSE
