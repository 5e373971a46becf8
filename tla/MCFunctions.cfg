SPECIFICATION Spec
CONSTANTS
  Size <- Words
  Capacity = 5
  Storage <- BothSides
  Ops <- Functions
  Environments <- ThreeEnvironments
  MaxOperands = 2
  MaxVars = 1
  MaxLiterals = 1
INVARIANT Unfaulted
PROPERTY Unnoticed
CHECK_DEADLOCK FALSE
