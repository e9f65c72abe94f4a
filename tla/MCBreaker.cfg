SPECIFICATION FairSpec
CONSTANTS
  FailureThreshold = 3
  ResetTicks = 3
  Requests = {r1, r2, r3, r4}
INVARIANTS
  ProbeSlotOwned
PROPERTIES
  OpensOnConsecutiveFailures
  ProbesAreSpaced
  RecoversUnlessLost
