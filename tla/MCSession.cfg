SPECIFICATION FairSpec
CONSTANTS
  Handlers = {h1, h2, h3}
  Initial = Initial
  Ttl = 2
  Retries = 1
  MayCrash = TRUE
INVARIANTS
  UncontestedPatchKept
  UncontestedEndIsFinal
  FlushedIsStored
PROPERTIES
  NoEarlyExpiry
  AbandonedExpires
  EndIsAnswered
