\* The int64, i128 and i32 ranges narrowed to 1 byte, 2 bytes and -4..3.
CONSTANTS
    NativeWidth = 1
    FixedWidth = 2
    LenOfLen = 2
    F32Width = 1
    F64Width = 2
    UuidWidth = 2
    MaxExp = 3
    Writers = {a, b}
    Leaves <- MCLeaves
    Texts <- MCTexts
    InitialCap = 5
    Within <- MCWithin
SPECIFICATION Spec
SYMMETRY WriterSymmetry
VIEW Memory
INVARIANTS
    TypeOK
    WithinAllocation
    Canonical
    ByteOrderIsValueOrder
PROPERTIES
    ImplementsStore
