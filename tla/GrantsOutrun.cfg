SPECIFICATION Spec
CONSTANTS
  Requests = {r1, r2}
  Clients = {c1}
  Users = {u1}
  Codes = {code1}
  Keys = {k1}
  MaxTokens = 5
  MaxTime = 3
  Lifetimes <- OneLifetime
  CodeLifetime = 3
  ClientLifetime = 0
  AtomicTake = TRUE
  MaxFaults = 0
  None = None
SYMMETRY Symmetry
INVARIANT RevocationEndsSignIns
CHECK_DEADLOCK FALSE
