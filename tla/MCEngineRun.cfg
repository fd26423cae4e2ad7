SPECIFICATION LiveRunSpec
CONSTANTS
  Lease = 2
  Pause = 1
  MaxSessions = 3
  MaxToggles = 1
  MaxLosses = 1
  SrtServes = TRUE
  Viewers = {"streamClient", "srtClient"}
CONSTRAINT ViewersWhenStopped
INVARIANTS
  RunInv
  NobodyOutlives
  LightsGivenBack
PROPERTIES
  ProcessEnds
  EnabledLights
  DisabledRestores
CHECK_DEADLOCK FALSE
