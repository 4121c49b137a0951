SPECIFICATION FairSpec
CONSTANTS
  r1 = r1
  r2 = r2
  openai = openai
  groq = groq
  mock = mock
  llm = llm
  embed = embed
  Candidates <- MCCandidates
  Real = {openai, groq}
  BreakerEnabled = TRUE
  FailureThreshold = 1
  ResetTimeout = 1
  HalfOpenMaxCalls = 1
  RealCallsEnabled = TRUE
  Request = {r1, r2}
  Provider = {openai, groq, mock}
  Operation = {llm, embed}
  TotalAttempts = 2
  TestMode = "single_real"
  MaxCallsPerRun = 3
  Source = {"api", "load_test"}
  BlockedSource = {"load_test"}
  CanBeFatal = TRUE
  CanDrop = TRUE
INVARIANTS
  BudgetRespected
  RouterSound
  SingleRealRespected
PROPERTIES
  RefusalJustified
  RouterSettles
