\* Widths as in MCTranscode; every index up to past the last element.
CONSTANTS
    NativeWidth = 1
    FixedWidth = 3
    LenOfLen = 2
    F32Width = 1
    F64Width = 2
    UuidWidth = 2
    MaxExp = 3
    Buffers <- MCBuffers
    Indices = {0, 1, 2, 3}
SPECIFICATION Spec
INVARIANTS
    TypeOK
    ScanSynchronised
PROPERTIES
    AnswersFromTuple
