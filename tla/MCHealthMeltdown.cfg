SPECIFICATION FairSpec
CONSTANTS
  Services = 2
  Dependencies = {postgres}
  FailureThreshold = 2
  LivenessPeriod = 2
PROPERTIES
  MeltdownIsContained
