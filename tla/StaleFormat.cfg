CONSTANTS
    BUFFER_SIZE = 2
    NUM_CHANNELS = 2
    MaxCalls = 4
    MaxLines = 6
    MaxExports = 2
    LINES = 3
    Flushes = {1, 2, 3, 4, 5}
    Files <- NoFiles
SPECIFICATION Spec
PROPERTY FormatsWhatItRead
