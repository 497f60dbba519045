SPECIFICATION FairSpec
CONSTANTS
  Seats = 2
  MaxConns = 2
  StartDelay = 0
  HelloTimeout = 0
  SpecDelay = 1
  MaxSpectators = 1
  KeyframeTicks = 0
  RaceLimit = 1
  MaxLag = 1
  TrackMayFail = FALSE
PROPERTIES
  NobodyWaitsForEver
  SpectatorsGetResult
CHECK_DEADLOCK FALSE
