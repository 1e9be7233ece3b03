\* Ticks of five seconds, small budgets.
CONSTANTS
  r1 = r1
  r2 = r2
  None = None
  Attempts = 3
  RetryBudget = 4
  QuotaWait = 2
  MaxTokens = 2
  LongestRequest = 2
  LongestDelay = 6
  MaxIterations = 2
  MinIterations = 2
  Finalisations = 3
  CheckpointWindow = 1
  ErrorLimit = 2
  DefaultTokens = 1
  StageTokens = 1
  MaxWall = 1
  ContextLimit = 12
  Reports = {r1, r2}
  MaxCalls = 2
  LongestTool = 1
  Horizon = 0
  BigResult = 5
SPECIFICATION Spec
CHECK_DEADLOCK FALSE
INVARIANTS
  LoopTypeOK
  CompletedDelivers
  ContextKept
  OverrunIsOneRequest
  UsageIsHonest
PROPERTIES
  TokensSurvive
  LoopEnds
