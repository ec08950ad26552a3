CONSTANTS
    r1 = r1
    r2 = r2
    NoRig = NoRig
    Rigs = {r1, r2}
    Assign <- Fleet
    Retries = 1
SPECIFICATION Spec
INVARIANTS NoSilentPoison PassMeansFetched RightMachine TidyOrTold
PROPERTIES OnlyTheHolder EveryRigEnds
CHECK_DEADLOCK FALSE
