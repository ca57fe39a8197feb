CONSTANTS
    CYCLE_MS = 2
    ZONE2_MS = 3
    PUB_MS = 1
    NetCap = 2
    MaxRestarts = 2
    Windows <- SafetyWindows
SPECIFICATION Spec
INVARIANTS TypeOK NoInventedTransfer TripBHasCause ZoneTwoIsDelayed FramesFollowLatch
PROPERTIES TripsLatch ImplementsTransfer
