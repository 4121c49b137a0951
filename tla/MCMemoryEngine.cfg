\* Two requests, three items, one failure.
CONSTANTS
  a = a
  b = b
  Request = {r1, r2}
  Id = {1, 2, 3, 4, 5}
  NewId = 3
  Content = {a, b}
  TypeOf <- Types
  DEDUP_SEARCH_LIMIT = 1
  Stored <- Tables
  Exported <- Export
  MaxItems = 2
  MaxWork = 3
  MaxFaults = 1

SPECIFICATION Spec
INVARIANTS
  VectorsFollowFacts
  CacheTold
  NoDuplicates
PROPERTIES
  DeletedStaysDeleted
SYMMETRY Symmetry
CHECK_DEADLOCK FALSE
