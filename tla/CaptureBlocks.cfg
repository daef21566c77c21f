SPECIFICATION BlocksSpec
CONSTANTS
    NumFilters = 2
    FilterLength = 5
    Shift = 2
    Head = 1
    Tail = 1
    Window = 3
    Initial = 0
    Converged = 1
    DownSampling = 2
    BlockSize = 2
    Headroom = 3
    Hysteresis = 1
    ConsistentBlocks = 1
    StableBlocks = 1
    InitialLength <- OnePartition
    FullLength <- TwoPartitions
    ChangeBlocks = 2
    PoorBlocks = 2
    InitialBlocks = 2
INVARIANTS
    HistogramMatchesData
    DelayFollowsEstimate
    PartitionsInUseAreSound
    GainChangesAreActedOn
    LearnsWhenSound
    InitialStateIsShared
PROPERTIES
    ImplementsEstimates
    SteadyLagIsFound
    InitialStateEnds
