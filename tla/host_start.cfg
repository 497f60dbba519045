SPECIFICATION Spec
CONSTANTS
  Seats = 3
  MaxConns = 4
  StartDelay = 0
  HelloTimeout = 0
  SpecDelay = 0
  MaxSpectators = 0
  KeyframeTicks = 0
  RaceLimit = 1
  MaxLag = 2
  TrackMayFail = TRUE
INVARIANTS
  SlotsHeld
  NamesMatch
PROPERTIES
  ImplementsRoom
  StartsWhole
  SeatsSettled
CHECK_DEADLOCK FALSE
