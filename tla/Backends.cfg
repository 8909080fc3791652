SPECIFICATION Spec
CONSTANTS
  Sessions = {s1, s2}
  Conns = {c1, c2, c3}
  Size = 1
  MaxTries = 2
  MaxRefreshes = 1
  Confs <- Watched
  MaxFaults = 2
  MaxQueue = 1
  MaxPubs = 2
  Logins <- AllLogins
  Charsets = {"c1", "c2"}
  MaxCommands = 4
  MaxRows = 1
  MaxFrames = 5
  IdLimit = 6
  Writers = {"w1", "w2"}
  Readers = {"r1"}
  Dbs = {"A", "B"}
  MaxSteps = 4
  MaxSocks = 3
  MaxAsked = 5
  MaxLost = 1
  MaxPerKey = 1
CHECK_DEADLOCK FALSE
INVARIANTS PoolKept LoginsSound RelaySound
PROPERTIES  SessionsSound
