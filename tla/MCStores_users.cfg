CONSTANTS
  Wildcards = {9}
  DayLength = 2
  Dimensions = 2
  Kinds = {"facts"}
  Org = {1, 2}
  User = {1, 2}
  Cutoffs = {2, 3}
  Limits = {1, 2}
  Queries <- MCQueries
  FactRows <- MCFactRows
  EventRows <- MCEventRows
  UsageRows <- MCUsageRows
  RunRows <- MCRunRows
  SnapshotRows <- MCSnapshotRows
  KeyRows <- MCKeyRows
  PlanRows <- MCPlanRows
  Points <- MCPoints
SPECIFICATION StoresSpec
INVARIANT UsersPagesContinue
CHECK_DEADLOCK FALSE
