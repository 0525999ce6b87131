CONSTANT Airs <- SmallAirs
SPECIFICATION Spec
INVARIANTS TypeOK HandsOver ExtractsBits
PROPERTY Detects
