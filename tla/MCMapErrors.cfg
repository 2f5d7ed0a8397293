\* As MCMap, with the streams that end badly in view.
CONSTANTS
    Streams <- MCStreams
    Values <- MCValues
    Sought <- MCSought
    NoValue = NoValue
    FirstCap = 2
    MaxPairs = 4
SPECIFICATION Spec
PROPERTIES
    ErrorsReported
