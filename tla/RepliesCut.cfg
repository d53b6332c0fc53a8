SPECIFICATION Spec
CONSTANTS
  MaxTurn = 2
  MaxPieces = 2
  MaxParts = 2
  MaxHistory = 2
INVARIANT
  CutIsNotDone
CHECK_DEADLOCK FALSE
