CONSTANTS
  Clients <- PlainClients
  MaxConns = 3
  MaxStreams = 2
  Sizes = {0, 4}
  Capacity = 2
  MaxTxns = 2
  MaxWrites = 2
SPECIFICATION Spec
CHECK_DEADLOCK FALSE
INVARIANTS CommitsExact
