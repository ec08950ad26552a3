CONSTANTS
    h1 = h1
    h2 = h2
    p1 = p1
    p2 = p2
    NoPin = NoPin
    Hosts <- MCHosts
    Pins <- MCPins
    MaxRecs = 1
    Half = 2
    Media <- OtherMedia
    MaxForeign = 0
    ShortReads = FALSE
SYMMETRY MCSymmetry
SPECIFICATION Spec
CHECK_DEADLOCK FALSE
PROPERTY ImplementsRegister
INVARIANT MirrorAgrees
