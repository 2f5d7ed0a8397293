\* int64 is two bytes, the widest slot four, so that the slot between them
\* loses -256^3; a float has eight mantissa bits; decimal exponents reach
\* past every float.
CONSTANTS
    NativeWidth = 2
    FixedWidth = 4
    LenOfLen = 2
    F32Width = 2
    F64Width = 2
    UuidWidth = 1
    MaxExp = 63
    ExpShift = 9
    FloatTop = 39
    FloatDepth = 3
    MaxDepth = 2
    Arguments <- MCArguments
SPECIFICATION Spec
INVARIANTS
    TypeOK
    DepthBounded
    ResultIsExactOrder
    CppBlindToStrings
    Antisymmetric
    AgreesWithBytes
PROPERTIES
    LessToDo
