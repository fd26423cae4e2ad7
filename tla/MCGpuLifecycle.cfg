SPECIFICATION LiveSpec
CONSTANTS
  IdleRelease = 4
  RetryAfter = 2
  PollAfter = 1
  MaxFailures = 1
  RenderMayFail = TRUE
  SidecarMayFail = TRUE

  
PROPERTIES
  BrowserNotCutOff
  RoomEndsRelease
  ViewerServed
