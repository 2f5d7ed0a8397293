\* Widths as in MCReader.
CONSTANTS
    NativeWidth = 2
    FixedWidth = 4
    LenOfLen = 2
    F32Width = 1
    F64Width = 2
    UuidWidth = 2
    MaxExp = 3
    Buffers <- MCBuffers
SPECIFICATION PortsSpec
INVARIANTS
    ExcessFormExact
