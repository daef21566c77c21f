SPECIFICATION FairSpec
CONSTANTS
    Mult = 2
    FrameLen = 1
    BufFrames = 5
    FarBufLen = 3
    MaxStuffFrames = 2
    Slack = 1
    StartFrames = 3
    CheckFrames = 5
    HighDiff = 2
    LowDiff = 1
    TargetDiff = 1
    HoldFrames = 2
    FilterWeight = 2
    SoundCardDelays = {0, 5}
    FRAME_LEN = 5
    PART_LEN = 4
    FarEnergies = {0, 1, 3, 9}
    EnergyMin = 2
    EnergyDiff = 3
    VadRegion = 2
    VadReference = 5
    RegionScale = 3
    MseMargin = 1
    Unset = Unset
    Slow = 4
    Fast = 2
    VadUpdates = 2
    ConvLen = 2
    MseCount = 3
    Sums = {2, 6}
    ScaleDown = 8
    TopGain = 1
    InitialGain = 1
    SupGains = {3, 8}
    DefaultSupGain = 3
    GainStep = 3
    Length = 3
    Elements = {0, 1}
    Zero = 0
    MaxCount = 4
    MaxMicLevel = 5
    MinMicLevel = 1
    StartupMinLevel = 2
    ClippedLevelMin = 2
    ClippedLevelStep = 2
    ClippedWaitFrames = 1
    LevelQuantizationSlack = 1
    GainMap <- Gains
    MinCompression = 1
    DefaultCompression = 2
    MaxCompression = 3
    SurplusCompression = 1
    MaxResidualGainChange = 3
    StepsPerDb = 2
    AnalysisFrames = 2
    Chunk = 1
    RmsErrors <- Errors
    StreamLevels = {0, 1, 3, 5, 6}
INVARIANTS
    FramesKeepStep
    SilenceIsNotSpeech
PROPERTIES
    StartFollowsReports
    DelayChangesAreHeld
    ImplementsTape
    UserVolumeIsKept
    StartupEnds
    CompressionSettles
