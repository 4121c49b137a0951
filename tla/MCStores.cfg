CONSTANTS
  Wildcards = {9}
  DayLength = 2
  Dimensions = 2
  Kinds = {"facts", "events", "usage", "runs", "snapshots", "keys", "plans", "vectors"}
  Org = {1, 2}
  User = {1, 2}
  Cutoffs = {2, 3}
  Limits = {0, 1, 2, 101}
  Queries <- MCQueries
  FactRows <- MCFactRows
  EventRows <- MCEventRows
  UsageRows <- MCUsageRows
  RunRows <- MCRunRows
  SnapshotRows <- MCSnapshotRows
  KeyRows <- MCKeyRows
  PlanRows <- MCPlanRows
  Points <- MCPoints
SPECIFICATION StoresSpec
INVARIANTS
  AnswersAgree
  PagesComplete
  SummariesMatch
  TablesSound
CHECK_DEADLOCK FALSE
