SPECIFICATION Spec
CONSTANTS
  i1 = i1
  i2 = i2
  m1 = m1
  Instance = {i1, i2}
  Kind = {snapshot, retention}
  TTL = 2
  Skew <- MCSkew
  NoOwner = NoOwner
  DeadOwner = DeadOwner
  ManualTask = {}
  Home <- MCHome
  Enabled = {snapshot}
  Interval <- MCInterval
  LockModes = {TRUE}
  StableOwner = FALSE
  MaxAttempts = 2
  Backoff <- MCBackoff
  Grace = 1
  CanDisconnect = FALSE
INVARIANTS
  LeasedRunsExclusive
  FlagsTruthful
PROPERTIES
  LockDiscipline
