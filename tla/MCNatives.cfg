SPECIFICATION Spec
CONSTANTS
  Size <- Words
  Capacity = 3
  Storage <- BothSides
  Ops <- Natives
  Environments <- OneEnvironment
  MaxOperands = 2
  MaxVars = 1
  MaxLiterals = 0
PROPERTIES CollectionEnds Unnoticed
INVARIANT FaultsTraced
CHECK_DEADLOCK FALSE
