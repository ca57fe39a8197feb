CONSTANTS
    CYCLE_MS = 1
    ZONE2_MS = 2
    PUB_MS = 1
    NetCap = 1
    MaxRestarts = 1
    Windows <- LiveWindows
SPECIFICATION FairSpec
PROPERTY TransferHappens
