CONSTANTS
    k1 = k1
    k2 = k2
    NoKey = NoKey
    Keys <- MCKeys
    OtherCurve <- Curveless
    Policies <- AllPolicies
    Honest = FALSE
    Faults <- Noise
    MaxConn = 1
    MaxFaults = 1
    MaxFlight = 1
    MaxCoalesce = 1
    MaxSends = 1
    PollBudget = 2
SPECIFICATION FairSpec
INVARIANT NothingBeforeAuthentication
PROPERTY ConnectReturns
CHECK_DEADLOCK FALSE
