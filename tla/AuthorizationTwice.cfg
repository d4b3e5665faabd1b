SPECIFICATION Spec
CONSTANTS
  Requests = {r1, r2}
  Transactions = {t1}
  Clients = {c1}
  ConsentRequired = TRUE
  Settings <- OverlappingAnswers
  TransactionLifetime = 2
  ClientLifetime = 3
  MaxTime = 2
  MaxReturns = 2
  MaxFaults = 0
  None = None
INVARIANT CompletedOnce
CHECK_DEADLOCK FALSE
