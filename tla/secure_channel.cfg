SPECIFICATION FairSpec
CONSTANTS
  MaxFrames = 3
  MaxPlain = 3
  MaxFaults = 1
INVARIANTS
  ChannelInv
PROPERTIES
  ImplementsStream
  EverythingArrives
CHECK_DEADLOCK FALSE
