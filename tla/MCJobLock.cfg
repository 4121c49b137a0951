SPECIFICATION PortSpec
CONSTANTS
  i1 = i1
  i2 = i2
  i3 = i3
  Instance = {i1, i2, i3}
  Kind = {snapshot, retention}
  TTL = 3
  Skew <- MCSkew
  NoOwner = NoOwner
  DeadOwner = DeadOwner
  StableOwner = FALSE
SYMMETRY MCSymmetry
INVARIANTS
  LeaseExclusive
