SPECIFICATION LiveSpec
CONSTANTS
  a = a
  b = b
  Tracks = {a, b}
  NoTrack = NoTrack
  BeatTimes <- MCBeatTimes
  BeatLength = 2
  Stale = 2
  MaxTime = 3
  MaxChanges = 2
  MaxLosses = 1
INVARIANTS
  NowPlayingInv
  PositionTracks
PROPERTIES
  TruncatedIgnored
  CatchesUp
CHECK_DEADLOCK FALSE
