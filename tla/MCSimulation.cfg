SPECIFICATION Spec
CONSTANTS
  ripples = ripples
  deep = deep
  choir = choir
  empty = empty
  NoModule = none
  Modules <- MCModules
  Templates <- MCTemplates
  Steps = 3
  Reaches = {0, 1, 9}
  Lives = {1, 3}
  MaxHops = 2
  MaxDeliveries = 9
  MaxWaves = 2
  MaxEmitters = 3
  Fallback = 6
INVARIANTS
  SimulationInv
  RippleIsBall
  DrivenIsNow
