SPECIFICATION Spec
CONSTANTS
  MaxRecords = 4
  MaxWriteFaults = 3
  MaxDay = 1
  Retention = 0
  MaxRaces = 3
  MaxSecond = 2
  DaySeconds = 2
  Pairs = {ab}
  Times = {1, 2}
  DuelsPerDay = 1
  Keep = 2
  MaxFaults = 1
  RacesBeside = 1
  MaxTrouble = 1
INVARIANTS
  LogHonest
  LeagueKept
  StoreTrue
  BoardsAgree
CHECK_DEADLOCK FALSE
