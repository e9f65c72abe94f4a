SPECIFICATION Spec
CONSTANTS
  Handlers = {h1, h2, h3, h4, h5}
SYMMETRY HandlerSymmetry
CHECK_DEADLOCK FALSE
INVARIANTS
  ErrorsLeaveNothing
  RemovedOnce
  PatchesKept
PROPERTY
  ImplementsLife
