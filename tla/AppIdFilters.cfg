CONSTANTS
    UINT32 = 3
    TTL = 1
    RaisesStNum = TRUE
    MaxDelay = 1
    ChanCap = 2
    MaxTime = 4
    MaxFaults = 1
    MaxUse = 3
    Subscribers <- MCSubscribers
    Frames <- MCFrames
SPECIFICATION Spec
INVARIANT AppIdFilters
CHECK_DEADLOCK FALSE
