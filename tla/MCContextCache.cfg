\* Two tasks, two keys in a cache of one, one write, all failures.
CONSTANTS
  k1 = k1
  k2 = k2
  Task = {t1, t2}
  Key = {k1, k2}
  Lock = {l1, l2}
  Configs <- AllConfigs
  Ttl = 1
  StaleTtl = 1
  MaxEntries = 1
  MaxVersion = 1

SPECIFICATION FairSpec
INVARIANTS
  InvalidationHolds
  ComputedOnce
  CoordinatorSound
PROPERTIES
  RequestsSettle
CHECK_DEADLOCK FALSE
