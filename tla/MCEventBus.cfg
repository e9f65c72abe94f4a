SPECIFICATION FairSpec
CONSTANTS
  Handlers = {h1, h2, h3}
  Producers = {p1, p2, p3}
  None = None
INVARIANTS
  StartsBounded
  FailsOnce
PROPERTIES
  Heals
