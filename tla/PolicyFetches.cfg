CONSTANTS
    h1 = h1
    h2 = h2
    h3 = h3
    k1 = k1
    k2 = k2
    k3 = k3
    NoHost = NoHost
    NoKey = NoKey
    NoBundle = NoBundle
    Hosts <- MCHosts
    Keys <- ThreeKeys
    OtherCurve = {k3}
    BuildHost = h3
    BuildPin = k1
    PinWarn = FALSE
    Cold = TRUE
    Stores <- TwoStores
    Bundles <- AnyBundle
    MaxFetches = 3
SPECIFICATION FairSpec
INVARIANT NoSilentKey
PROPERTY RecordedOnPurpose
PROPERTY FetchEnds
