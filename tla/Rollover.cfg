CONSTANTS
    UINT32 = 4
    TTL = 2
    RaisesStNum = FALSE
    MaxDelay = 1
    ChanCap = 2
    MaxTime = 5
    MaxFaults = 1
SPECIFICATION LinkSpec
INVARIANT ValidWhenInSequence
CHECK_DEADLOCK FALSE
