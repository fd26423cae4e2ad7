SPECIFICATION Spec
CONSTANTS
  Clients = {c1, c2}
  MaxQueuedFrames = 2
SYMMETRY Symmetry
INVARIANTS
  IInv
  NeverMidGop
CHECK_DEADLOCK FALSE
