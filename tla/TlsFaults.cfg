CONSTANTS
    k1 = k1
    k2 = k2
    NoKey = NoKey
    Keys <- MCKeys
    OtherCurve = {}
    Policies <- Enforcing
    Honest = TRUE
    Faults <- AllFaults
    MaxConn = 2
    MaxFaults = 1
    MaxFlight = 3
    MaxCoalesce = 2
    MaxSends = 2
    PollBudget = 2
SPECIFICATION Spec
INVARIANT NonceOnce
INVARIANT Agreement
INVARIANT AppDataIntact
INVARIANT HonestServed
PROPERTY ErrorKept
PROPERTY ImplementsSession
CHECK_DEADLOCK FALSE
