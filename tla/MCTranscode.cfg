\* int64 is one byte, the widest slot three, int32 is -4..3.  A state whose
\* second call returned is final.
CONSTANTS
    NativeWidth = 1
    FixedWidth = 3
    LenOfLen = 2
    F32Width = 1
    F64Width = 2
    UuidWidth = 2
    MaxExp = 3
    Buffers <- MCBuffers
SPECIFICATION Spec
INVARIANTS
    TypeOK
    Idempotent
    ValuesKept
    TranscodesAlike
CHECK_DEADLOCK FALSE
