SPECIFICATION Spec
CONSTANT Sessions <- MCSessions
INVARIANTS VerdictIsTrue OneDocument
