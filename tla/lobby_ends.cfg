SPECIFICATION FairSpec
CONSTANTS
  MaxConns = 2
  MaxRaceIds = 1
  MaxOpen = 2
  MaxRaces = 1
  MaxSpectators = 1
  RaceSeats = {1, 2}
  MaxBadAttempts = 0
  HelloTimeout = 0
  Abandoned = 1
  Linger = 1
  DrainTimeout = 1
  DrainPause = 0
  MaxLag = 1
PROPERTIES
  PlacesComeBack
  DrainEnds
  DrainSparesRunning
CHECK_DEADLOCK FALSE
