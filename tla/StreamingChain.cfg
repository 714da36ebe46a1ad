SPECIFICATION FairSpec
CONSTANTS
    N = 8
    Count = 3
    SegmentN <- ThreeSegments
    PrefixN <- ThreePrefixes
    RemainingN <- ThreeRemaining
    Batch = 2
    Slots <- RingThenFull
    RoleWorkers <- OneWorkerEach
    WarpSize = 1
    Launches = 2
    StaleWords = {3}
    ClearShare <- StridedShare
INVARIANTS
    WaveCounterExact
PROPERTIES
    EveryLaunchEnds
    ImplementsDataflow
