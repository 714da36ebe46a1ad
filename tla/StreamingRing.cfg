SPECIFICATION Spec
CONSTANTS
    N = 4
    Count = 2
    SegmentN <- TwoSegments
    PrefixN <- TwoPrefixes
    RemainingN <- TwoRemaining
    Batch = 3
    Slots <- TwoSlots
    RoleWorkers <- TwoWorkersEach
    WarpSize = 32
    Launches = 2
    StaleWords = {0, 3}
    ClearShare <- StridedShare
INVARIANTS
    TypeOK
    OperandsFresh
    SlotHandover
    ConsumeCountExact
    OutputComplete
PROPERTIES
    EpochsAdvance
