CONSTANTS
    UINT32 = 4
    TTL = 2
    RaisesStNum = FALSE
    MaxDelay = 1
    ChanCap = 2
    MaxTime = 5
    MaxFaults = 0
SPECIFICATION LinkSpec
INVARIANT StateNumberTracksValue
CHECK_DEADLOCK FALSE
