SPECIFICATION FairSpec
CONSTANTS
  Roles = {TRUE, FALSE}
  RaceTicks = 2
  KeyframeTicks = 2
  Chunks = 2
  SnapshotsPerMinute = 1
  SnapshotWait = 0
  ReconnectWait = 1
  MaxAttempts = 1
  MaxFaults = 2
  MaxUnread = 2
INVARIANTS
  ClientInv
  PredictsFromConfirmed
  SavedWhole
PROPERTIES
  NeverBack
  Resynchronises
CHECK_DEADLOCK FALSE
