CONSTANTS
    BUFFER_SIZE = 8
    MaxSample = 1
    Distances = {5, 25, 45, 65, 75, 79, 81, 85, 95, 105, 115, 119, 121, 130}
    Sources = {5, 15, 50, 100, 200, 300}
    Resolution = 100000
    Reach = 80
    Deviations <- MCDeviations
SPECIFICATION Spec
INVARIANTS
    FftIsDft LaterWindowTurns NothingUnseen OneBadSampleTolerated
    LoopsMeasureDistance ReachSeen FaultSelected NoOverreach
    Directional CloserFaultSeen UndefinedRestrains ZoneTwoBacksUp
    PhasesAlike InstantIndependent SidesOpposite BalancedIsThreePhase
