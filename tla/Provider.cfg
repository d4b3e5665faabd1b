CONSTANTS
  p = p
  q = q
  Processes = {p, q}
  Deployments <- Mixed
  Tools = {"writes", "admin"}
  RequiredScopes <- Needs
  Asks = {{"read"}}
  Accounts = {"ours", "theirs"}
  AccessLifetime = 1
  RefreshLifetime = 2
  CodeLifetime = 1
  TransactionLifetime = 1
  ClientLifetime = 2
  MaxTime = 3
  MaxLives = 2
  MaxCalls = 2
  MaxEntries = 24
  None = None
SPECIFICATION FairSpec
INVARIANTS
  TypeOK
  SignInLasts
  StepUpAddsUp
  OnlyAccepted
PROPERTY
  Settled
CHECK_DEADLOCK FALSE
