SPECIFICATION Spec
CONSTANTS
  MaxItems = 2
  MaxPieces = 3
  MaxHopPieces = 3
  MaxWeight = 4
CHECK_DEADLOCK FALSE
INVARIANTS StatementsRead ResultsGoverned StatementsCross StatementsPlaced WiresCarry ConfigSound AdminSound
