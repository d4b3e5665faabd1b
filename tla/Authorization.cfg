SPECIFICATION Spec
CONSTANTS
  Requests = {r1, r2, r3}
  Transactions = {t1}
  Clients = {c1}
  ConsentRequired = TRUE
  Settings <- OrderlyOrNeither
  TransactionLifetime = 2
  ClientLifetime = 3
  MaxTime = 4
  MaxReturns = 2
  MaxFaults = 1
  None = None
SYMMETRY Symmetry
INVARIANTS
  TypeOK
  ConsentBeforeCode
  CodesBacked
PROPERTIES
  ImplementsSignIn
CHECK_DEADLOCK FALSE
