SPECIFICATION Spec
CONSTANTS
  Size <- Words
  Capacity = 7
  Storage <- BothSides
  Ops <- Lists
  Environments <- OneEnvironment
  MaxOperands = 2
  MaxVars = 1
  MaxLiterals = 0
INVARIANTS TypeOK HeapTiled Reclaimed
PROPERTY Unnoticed
CHECK_DEADLOCK FALSE
