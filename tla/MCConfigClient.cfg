SPECIFICATION LiveConfigSpec
CONSTANTS
  Urls = {a, b}
  Documents <- MCDocuments
  PollPeriod = 2
  MaxSaves = 2
  MaxChoices = 1
  MaxFailures = 1
INVARIANTS
  ClientInv
PROPERTIES
  SelectionNeverRegresses
  CentreImageKept
  ConfigConverges
