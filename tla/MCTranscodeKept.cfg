\* Widths as in MCTranscode.
CONSTANTS
    NativeWidth = 1
    FixedWidth = 3
    LenOfLen = 2
    F32Width = 1
    F64Width = 2
    UuidWidth = 2
    MaxExp = 3
    Buffers <- MCBuffers
SPECIFICATION Spec
INVARIANTS
    EveryElementKept
CHECK_DEADLOCK FALSE
