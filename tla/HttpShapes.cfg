CONSTANTS
    Mod = 16
    Radix = 4
    Bounce = 2
    Bank = 2
    Floor = 3
    Table = Table
    Byte <- MCByte
    Responses <- MCResponses
    Builds <- MCBuilds
    Setup <- MCSetup
    Budget = 2
    MaxSpan = 10
    MaxFetches = 2
SPECIFICATION FairSpec
INVARIANT StoredIsBody
INVARIANT WholeIsComplete
INVARIANT NothingOfTheLast
INVARIANT LowBanksIntact
PROPERTY FetchEnds
