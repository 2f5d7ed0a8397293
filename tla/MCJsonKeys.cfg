\* int64 is two bytes, the widest slot four, so that the slot between them
\* loses -256^3; a float has nine significant bits and is below 2^16;
\* notations change at a few digits.
CONSTANTS
    NativeWidth = 2
    FixedWidth = 4
    LenOfLen = 2
    F32Width = 2
    F64Width = 2
    UuidWidth = 6
    MaxExp = 63
    ExpShift = 119
    FloatTop = 5
    FloatDepth = 36
    PlainDigits = 3
    PlainZeros = 2
    PlainPad = 3
    MaxDepth = 2
    Texts <- MCTexts
    Buffers <- MCBuffers
SPECIFICATION JsonSpec
INVARIANTS
    StringsKept
