SPECIFICATION Spec
CONSTANTS
  FailureThreshold = 2
  ResetTicks = 2
  Requests = {r1, r2}
  GatewayTimeout = 2
  ServiceTimeout = 2
  Retries = 2
PROPERTIES
  FlushIsBestEffort
  UnreachableIsTolerated
