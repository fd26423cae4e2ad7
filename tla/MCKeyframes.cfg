SPECIFICATION Spec
CONSTANTS
  Requesters = {r1, r2}
  Interval = 4
  GopSize = 6
  IdleDivisor = 2
  MaxDelay = 1
  EncodeMayFail = TRUE
SYMMETRY Symmetry
INVARIANTS
  RequestInv
PROPERTIES
  ForcedIdrsSpaced
