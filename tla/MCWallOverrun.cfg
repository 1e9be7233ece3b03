\* One iteration begun in time, then the forced finalisation.
CONSTANTS
  r1 = r1
  r2 = r2
  None = None
  Attempts = 1
  RetryBudget = 1
  QuotaWait = 0
  MaxTokens = 2
  LongestRequest = 2
  LongestDelay = 2
  MaxIterations = 1
  MinIterations = 1
  Finalisations = 3
  CheckpointWindow = 1
  ErrorLimit = 2
  DefaultTokens = 1
  StageTokens = 1
  MaxWall = 1
  ContextLimit = 12
  Reports = {r1}
  MaxCalls = 2
  LongestTool = 2
  Horizon = 12
  BigResult = 5
SPECIFICATION Spec
CHECK_DEADLOCK FALSE
INVARIANT WallOverrunBounded
