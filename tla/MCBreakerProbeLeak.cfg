SPECIFICATION FairSpec
CONSTANTS
  FailureThreshold = 2
  ResetTicks = 2
  Requests = {r1, r2}
PROPERTY
  Recovers
