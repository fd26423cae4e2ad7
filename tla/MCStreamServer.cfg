SPECIFICATION Spec
CONSTANTS
  Clients = {c1, c2}
  MaxQueuedFrames = 1
  Messages = {"keyframe", "report"}
SYMMETRY Symmetry
CONSTRAINTS
  ReportsWhileQuiet
  StopsDrained
INVARIANTS
  RosterInv
PROPERTIES
  ImplementsFanOut
CHECK_DEADLOCK FALSE
