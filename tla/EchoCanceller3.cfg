SPECIFICATION FairSpec
CONSTANTS
    LowRateBlocks = 6
    FilterBlocks = 5
    SubBlock = 1
    DefaultDelay = 2
    ExcessInterval = 2
    MaxExcess = 1
    Delays = {4}
    StreamDelays = {28}
    QueueSize = 3
    SubFrame = 5
    Block = 4
INVARIANTS
    IndicesInStep
    DelayIsApplied
    JumpsAreTold
    FramingKeepsStep
PROPERTIES
    LatencyRecovers
    DropsAreNoticed
