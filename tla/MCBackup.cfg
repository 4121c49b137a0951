CONSTANTS
  Proc = {p1, p2}
  MaxFiles = 1
  Requests <- MCRequests
  Migrated = 1
  MaxClock = 1
  MaxWrites = 1
  MaxBegins = 3
  MaxFaults = 2
SYMMETRY Symmetry
SPECIFICATION Spec
INVARIANTS
  SnapshotTrue
  DirectorySound
PROPERTIES
  KeptUntilReplaced
CHECK_DEADLOCK FALSE
