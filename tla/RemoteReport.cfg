CONSTANTS
    CYCLE_MS = 1
    ZONE2_MS = 2
    PUB_MS = 1
    NetCap = 1
    MaxRestarts = 0
    Windows <- LiveWindows
SPECIFICATION Spec
INVARIANT RemoteReportIsZone1
