SPECIFICATION Spec
CONSTANTS
  Seats = 2
  MaxConns = 3
  StartDelay = 0
  HelloTimeout = 1
  SpecDelay = 0
  MaxSpectators = 0
  KeyframeTicks = 0
  RaceLimit = 1
  MaxLag = 2
  TrackMayFail = TRUE
INVARIANTS
  StartedIsLoaded
CHECK_DEADLOCK FALSE
