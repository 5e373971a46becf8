SPECIFICATION Spec
CONSTANT MaxInteger = 100
CONSTANT Programs <- MCUnbound
CONSTANT Sessions <- CompiledSessions
CHECK_DEADLOCK FALSE
INVARIANT OffsetsValidated
