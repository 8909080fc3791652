CONSTANTS
  Clients <- HoldingClients
  MaxConns = 2
  MaxStreams = 1
  Sizes = {3}
  Capacity = 2
  MaxTxns = 1
  MaxWrites = 0
SPECIFICATION Spec
CHECK_DEADLOCK FALSE
INVARIANTS ConnectionsKept CompleteResults
PROPERTIES Answered Reclaimed
