CONSTANTS
    Lengths = {0, 3}
    Radix = 2
    Room = 2
    Budget = 4
    StallAbort = 3
    StallGrace = 2
    CloseBudget = 1
    Prompt = TRUE
SPECIFICATION Spec
INVARIANT EarlyStopIsFinal
CHECK_DEADLOCK FALSE
