SPECIFICATION Spec
CONSTANTS
  MaxItems = 2
  MaxPieces = 3
  MaxHopPieces = 3
  MaxWeight = 4
INVARIANT ParamsDecoded
CHECK_DEADLOCK FALSE
