SPECIFICATION Spec
CONSTANTS
  Requests = {r1, r2}
  Clients = {c1, c2}
  Users = {u1}
  Codes = {code1}
  Keys = {k1, k2}
  MaxTokens = 5
  MaxTime = 3
  Lifetimes <- TwoLifetimes
  CodeLifetime = 1
  ClientLifetime = 1
  AtomicTake = TRUE
  MaxFaults = 1
  None = None
SYMMETRY Symmetry
INVARIANTS
  TypeOK
  OneRefreshToken
  CodeRedeemedOnce
  RefreshTokenNotLost
  ProviderTokenCurrent
  RetryNeverExtends
  UpstreamKeptForPair
  RevocationReaches
CHECK_DEADLOCK FALSE
