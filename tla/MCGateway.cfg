SPECIFICATION Spec
CONSTANTS
  FailureThreshold = 1
  ResetTicks = 1
  Burst = 1
  Rate = 2
  Token = 3
  RetryTicks = 2
  MaxClock = 3
  UserIds = {u1, Empty}
  Upstreams = {memory, session}
  Requests = {r1, r2}
  Empty = Empty
  None = None
SYMMETRY Symmetry
INVARIANTS
  TypeOK
  
  WindowBound
  RetryAfterSuffices
PROPERTIES
  ImplementsSlidingLog
  ImplementsBreakers
