CONSTANTS
    BUFFER_SIZE = 3
    NUM_CHANNELS = 3
    MaxCalls = 4
    MaxLines = 7
    MaxExports = 2
    LINES = 4
    Flushes = {5, 9}
    Files <- MCFiles
SPECIFICATION Spec
INVARIANTS TypeOK SamplesInPlace CountsWindows NothingPastShortLine WholeOrUntouched
PROPERTY FileConsumed
