SPECIFICATION MigrationsFairSpec
CONSTANTS
  Replicas = {r1, r2, r3}
  Releases = {1, 3}
  LastFile = 3
  None = None
INVARIANTS
  AppliedOnce
  AppliedInOrder
  ServesItsSchema
  NeverOvertaken
PROPERTY
  NoStarvation
