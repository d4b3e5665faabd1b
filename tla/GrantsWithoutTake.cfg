SPECIFICATION FairSpec
CONSTANTS
  Requests = {r1, r2}
  Clients = {c1}
  Users = {u1}
  Codes = {code1}
  Keys = {k1}
  MaxTokens = 6
  MaxTime = 2
  Lifetimes <- OneLifetime
  CodeLifetime = 1
  ClientLifetime = 0
  AtomicTake = FALSE
  MaxFaults = 0
  None = None
PROPERTIES
  RefreshDecided
CHECK_DEADLOCK FALSE
