SPECIFICATION LanesSpec
CONSTANTS
  Groups <- MCGroups
  IdLists <- MCIdLists
  Edits <- MCEdits
  Full = 3
  Delta = 2
  Beat = 4
  Bar = 2
  Length = 9
  Songs = 1
  Grain = 2
  Lowest = 0
  Highest = 3
  Default = 1
  OverrideOnly = FALSE
INVARIANTS
  DriversInv
  LaneRanks
PROPERTIES
  TriggerPeaks
  RateLimited
