CONSTANTS
    r1 = r1
    r2 = r2
    NoRig = NoRig
    Rigs = {r1, r2}
    Assign <- Untold
    Retries = 1
SPECIFICATION Spec
INVARIANT NeverUntold
CHECK_DEADLOCK FALSE
