SPECIFICATION FairSpec
CONSTANTS
  Clients = {plain, secure, browser}
  Secures = {secure}
  Browsers = {browser}
  Handshake = 2
  MaxConnections = 1
  MaxPending = 1
  SendBuffer = 1
  MaxSessions = 1
  MaxSent = 3
  MaxPings = 2
  MaxSaid = 4
INVARIANTS
  SocketInv
  LastWords
  BacklogBounded
PROPERTIES
  PlacesComeBack
