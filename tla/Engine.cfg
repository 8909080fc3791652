SPECIFICATION EngineSpec
CONSTANTS
  Plans <- MCPlans
  MaxConcurrency = 2
  Cursors = {c1}
  MaxBatch = 2
  MaxFrames = 3
  MaxSessions = 2
CHECK_DEADLOCK FALSE
INVARIANTS GatesHold CountersSettle OneOutcome
PROPERTIES SessionKept
