CONSTANTS
  Contents = {a, b}
  AttemptLimits <- MCAttemptLimits
  MaxRuns = 1
  MaxStrays = 1
  None = None
SPECIFICATION Spec
INVARIANT FailedRunLeavesNoMarker
