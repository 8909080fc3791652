CONSTANTS
  Senders = {"t1", "t2"}
  Capacity = 1
  PriorityCapacity = 1
  Policies = {"sample"}
  FileLimit = 1
  RotateKeep = 1
  Retain = 2
  PruneEvery = 1
  Toggles = TRUE
  MaxEvents = 3
  MaxNow = 3
  MaxFaults = 1
SPECIFICATION Spec
CHECK_DEADLOCK FALSE
INVARIANTS Accounted FilesSound
PROPERTIES PriorityIndependent Drained
