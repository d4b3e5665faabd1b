SPECIFICATION FairSpec
CONSTANTS
  Callers = {p1, p2, p3}
  Timers = {timer}
  File = file
  Ttls = {0, 1}
  MaxSaves = 2
  MaxTime = 3
  MaxFaults = 1
  None = None
INVARIANTS
  TypeOK
  NoLeftovers
PROPERTIES
  ImplementsSlot
  LapsedLeave
CHECK_DEADLOCK FALSE
