SPECIFICATION Spec
CONSTANT MaxInteger = 100
CONSTANT Programs <- MCPrograms
CONSTANT Sessions <- CompiledSessions
CHECK_DEADLOCK FALSE
INVARIANT FaultsForetold
INVARIANT ProgramDisciplined
