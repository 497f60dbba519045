SPECIFICATION Spec
CONSTANTS
  MaxPlayers = 3
  Bits = {}
  ValidBits = {}
  MaxFutureTicks = 0
  CheckpointTicks = 2
  KMaxTicks = 5
  FreePlayTicks = 3
  Laps = {1, 2}
  TickLimits = {0, 4, 9}
INVARIANTS
  ReplayVerifiable
  LapsAnnouncedOnce
  ResultsRankFinishers
CHECK_DEADLOCK FALSE
