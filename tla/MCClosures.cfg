SPECIFICATION Spec
CONSTANTS
  Size <- Words
  Capacity = 5
  Storage <- BothSides
  Ops <- Closures
  Environments <- ThreeEnvironments
  MaxOperands = 1
  MaxVars = 1
  MaxLiterals = 0
INVARIANTS RefsValid FaultsTraced
PROPERTIES EachStepAdvances OnlyOuterLost
CHECK_DEADLOCK FALSE
