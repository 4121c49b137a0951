SPECIFICATION FairSpec
CONSTANTS
  i1 = i1
  i2 = i2
  m1 = m1
  Instance = {i1}
  Kind = {snapshot}
  TTL = 1
  Skew <- MCSkew
  NoOwner = NoOwner
  DeadOwner = DeadOwner
  ManualTask = {m1}
  Home <- MCHome
  Enabled = {snapshot}
  Interval <- MCIntervalShort
  LockModes = {TRUE, FALSE}
  StableOwner = FALSE
  MaxAttempts = 2
  Backoff <- MCBackoff
  Grace = 1
  CanDisconnect = TRUE
PROPERTIES
  RunnerSettles
