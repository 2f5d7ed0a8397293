\* Any stream: what holds without the keys being sorted.
CONSTANTS
    Streams <- MCStreams
    Values <- MCValues
    Sought <- MCSought
    NoValue = NoValue
    FirstCap = 2
    MaxPairs = 4
SPECIFICATION Spec
INVARIANTS
    TypeOK
    AccessInBounds
    IndexIsStream
    NothingDiscarded
PROPERTIES
    CallsReturn
    ImplementsMap
