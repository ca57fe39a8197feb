CONSTANTS
    CYCLE_MS = 5
    ZONE2_MS = 9
    PUB_MS = 2
    NetCap = 2
    MaxRestarts = 0
    Windows <- TimedWindows
SPECIFICATION TimedSpec
INVARIANT TransferBound
