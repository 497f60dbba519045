SPECIFICATION Spec
CONSTANTS
  MaxConns = 3
  MaxRaceIds = 2
  MaxOpen = 2
  MaxRaces = 2
  MaxSpectators = 1
  RaceSeats = {1, 2}
  MaxBadAttempts = 1
  HelloTimeout = 1
  Abandoned = 1
  Linger = 1
  DrainTimeout = 0
  DrainPause = 0
  MaxLag = 1
INVARIANTS
  LobbyInv
  SavedOnce
PROPERTIES
  ClosedForGood
  NobodyThrownOut
CHECK_DEADLOCK FALSE
