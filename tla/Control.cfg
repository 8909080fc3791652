SPECIFICATION Spec
CONSTANTS
  Scenes = {"leases", "listeners", "portal"}
  Stores = {"memory", "plain", "sealed"}
  Ttls = {0, 1}
  Installers = {i1}
  MaxClock = 2
  MaxLeases = 2
  MaxSaves = 4
  Names <- MCNames
  Docs <- MCDocs
  Start <- MCStart
  Admins = 2
  MaxRequests = 3
  MaxSessions = 1
  MaxRows = 4
  Windows = {1, 3}
  Caps = {1, 2, 3, 5}
CHECK_DEADLOCK FALSE
INVARIANTS LeasesKept BodySound
PROPERTIES ListenersServe
