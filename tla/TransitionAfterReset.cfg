SPECIFICATION RemoverSpec
CONSTANTS
    InitialLength <- OnePartition
    FullLength <- TwoPartitions
    ChangeBlocks = 2
    PoorBlocks = 2
    InitialBlocks = 2
INVARIANTS
    ResetBeginsInitialState
