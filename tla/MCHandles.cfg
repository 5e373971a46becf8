SPECIFICATION Spec
CONSTANTS
  Size <- Words
  Capacity = 6
  Storage <- BothSides
  Ops <- Builders
  Environments <- TwoEnvironments
  MaxOperands = 3
  MaxVars = 1
  MaxLiterals = 3
INVARIANT HandlesKeep
CHECK_DEADLOCK FALSE
