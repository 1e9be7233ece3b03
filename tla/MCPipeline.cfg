CONSTANTS
  Contents = {a, b}
  AttemptLimits <- MCAttemptLimits
  MaxRuns = 2
  MaxStrays = 1
  None = None
SPECIFICATION Spec
INVARIANT TypeOK
INVARIANT MarkerEarned
INVARIANT MarkerMatchesManifest
INVARIANT MarkerBesideOwnReport
INVARIANT ExitZeroSigned
PROPERTY NoAttemptAfterSuccess
PROPERTY InvocationEnds
