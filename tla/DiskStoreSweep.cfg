SPECIFICATION Spec
CONSTANTS
  Callers = {p1, p2}
  Timers = {timer}
  File = file
  Ttls = {0, 1}
  MaxSaves = 2
  MaxTime = 3
  MaxFaults = 1
  None = None
INVARIANT FreshKept
CHECK_DEADLOCK FALSE
