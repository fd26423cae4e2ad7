SPECIFICATION LiveSpec
CONSTANTS
  Clients = {c1}
  MaxQueuedFrames = 2
  MayVanish = {c1}
INVARIANTS
  LinkInv
  NoSocketRace
PROPERTIES
  ImplementsFanOut
  BrokenLinkLeaves
CHECK_DEADLOCK FALSE
