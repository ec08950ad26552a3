CONSTANTS
    h1 = h1
    h2 = h2
    p1 = p1
    p2 = p2
    NoPin = NoPin
    Hosts <- MCHosts
    Pins <- MCPins
    MaxRecs = 2
    Half = 2
    Media <- NoMedia
    MaxForeign = 2
    ShortReads = FALSE
SYMMETRY MCSymmetry
SPECIFICATION Spec
INVARIANT Loadable
PROPERTY LoadIsCurrent
PROPERTY NoBlindOverwrite
PROPERTY ImplementsRegister
CHECK_DEADLOCK FALSE
