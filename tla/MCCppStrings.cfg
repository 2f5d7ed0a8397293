\* Widths as in MCSemantic.
CONSTANTS
    NativeWidth = 2
    FixedWidth = 4
    LenOfLen = 2
    F32Width = 2
    F64Width = 2
    UuidWidth = 1
    MaxExp = 63
    ExpShift = 9
    FloatTop = 39
    FloatDepth = 3
    MaxDepth = 2
    Arguments <- MCArguments
SPECIFICATION Spec
INVARIANTS
    CppOrdersByValue
