SPECIFICATION Spec
CONSTANT MaxInteger = 100
CONSTANT Programs <- MCPrograms
CONSTANT Sessions <- MCSessions
CONSTANT Meanings <- MCMeanings
CHECK_DEADLOCK FALSE
INVARIANT TypeOK
INVARIANT Discipline
INVARIANT MeansSource
INVARIANT StacksHold
INVARIANT EnvironmentsRooted
PROPERTY CallersUndisturbed
PROPERTY Finishes
