SPECIFICATION Spec
CONSTANTS
  Seats = 1
  MaxConns = 3
  StartDelay = 1
  HelloTimeout = 2
  SpecDelay = 2
  MaxSpectators = 1
  KeyframeTicks = 2
  RaceLimit = 5
  MaxLag = 2
  TrackMayFail = FALSE
INVARIANTS
  SeatInv
  WorldsInStep
  SpectatorsBehind
  ResultLast
CHECK_DEADLOCK FALSE
