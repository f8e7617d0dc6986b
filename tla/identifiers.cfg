SPECIFICATION Spec
CONSTANT Byte <- Boundary
INVARIANTS TypeOK ConversionAddsTheCode
PROPERTY KindIsFinal
