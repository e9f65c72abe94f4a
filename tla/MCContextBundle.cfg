SPECIFICATION Spec
CONSTANTS
  Dim = 2
  Bucket <- MCBucket
  Sign <- MCSign
  One = 16
  WeightSimilarity = 3
  WeightRecency = 1
  NeverSeen = NeverSeen
  Memories = {m1, m2}
  Texts <- MCTexts
  Signals <- MCSignals
  Window = 1
  TopK = 2
  Skew = 1
  MaxClock = 1
  None = None
INVARIANTS
  TypeOK
  ForgottenStaysForgotten
  BundleIsCoherent
  PreferencesHonoured
  OrderIsBalanced
  NoZeroVector
