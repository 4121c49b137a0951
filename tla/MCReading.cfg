CONSTANTS
  Tenant = {"t1", "t2"}
  NoTenant = "none"
  Content = {"a", "b", "c"}
  TypeOf <- MCTypeOf
  Importance <- MCImportance
  Request = {1, 2}
  Id = {1, 2, 3, 4}
  Query = {"x", "y"}
  OrgOf <- MCOrgOf
  Chars <- MCChars
  QueryChars <- MCQueryChars
  Sim <- MCSim
  Match <- MCMatch
  Forbidden = {"c"}
  EXPORT_FACTS_LIMIT = 2
  Options <- MCOptions
  Parts <- MCParts
  Input <- MCInput
  Table <- MCTable
  MaxWork = 2
  MaxFaults = 1
SPECIFICATION Spec
INVARIANTS
  SearchSound
  ContextSound
  UsageSound
  RoundTrip
  AdminHonest
  TokensTrue
CHECK_DEADLOCK FALSE
