SPECIFICATION Spec
CONSTANTS
  MaxPlayers = 2
  Bits = {thrust, unknown}
  ValidBits = {thrust}
  MaxFutureTicks = 1
  CheckpointTicks = 2
  KMaxTicks = 3
  FreePlayTicks = 2
  Laps = {1}
  TickLimits = {0}
INVARIANTS
  InputInv
PROPERTIES
  NothingRewritten
  ImplementsInputLog
CHECK_DEADLOCK FALSE
