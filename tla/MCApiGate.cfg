\* Requests, keys, quotas and rate limits of the API.
CONSTANTS
  o1 = o1
  o2 = o2
  u1 = u1
  u2 = u2
  k1 = k1
  k2 = k2
  k3 = k3
  k4 = k4
  r1 = r1
  r2 = r2
  None = None
  Org = {o1, o2}
  User = {u1, u2}
  Key = {k1, k2, k3, k4}
  Request = {r1, r2}
  Traffic <- MCTraffic
  Window = 2
  RequestsPerWindow = 1
  MaxWindows = 1
  MaxFacts = 2
  CallTokens = 2
  MaxNow = 4
SYMMETRY Symmetry
SPECIFICATION Spec
INVARIANTS
  KeysRespected
  SlidingBound
  OvershootBounded
  ReportTrue
PROPERTIES
  LockoutFinal
CHECK_DEADLOCK FALSE
