\* Narrow widths: a fixed slot is below, at, or one or two bytes above the
\* width of the native integer.
CONSTANTS
    NativeWidth = 2
    FixedWidth = 4
    LenOfLen = 2
    F32Width = 1
    F64Width = 2
    UuidWidth = 2
    MaxExp = 3
    Buffers <- MCBuffers
SPECIFICATION PortsSpec
INVARIANTS
    TypeOK
    PosInBounds
    Synchronised
    StrictInts
    CppPosInBounds
PROPERTIES
    Progress
    SelfDelimiting
    PortsAgree
