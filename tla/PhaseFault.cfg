CONSTANTS
    BUFFER_SIZE = 8
    MaxSample = 1
    Distances = {5}
    Sources = {5}
    Resolution = 100000
    Reach = 80
    Deviations <- MCDeviations
SPECIFICATION Spec
INVARIANT PhaseFaultOperates
