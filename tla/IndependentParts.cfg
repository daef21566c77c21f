SPECIFICATION PartsSpec
CONSTANTS
    Configs <- CaptureConfigs
    MaxLevel = 1
    Gains = {1, 2}
    Volumes = {1, 2}
    Apps = {a1, a2}
    AppSettings <- ExportSettings
    FarGain = 2
    AssistantGain = 2
    MaxCalls = 3
    Producers = {p1, p2}
    Size = 2
    Attempts = 3
    MaxSettings = 6
    Serialized = TRUE
    Readers = {r1, r2}
    MaxFrames = 6
    Base = 4
    HistTables <- Tables
    Shape <- Logistic
    Reach = 4
    MaxStream = 7
    Limit30 = 7
    Limit60 = 9
    MaxRetries = 1
    MaxSymbols = 4
    Tails = {0, 3}
INVARIANTS
    AgcWorksWithLevelGiven
    LinearOutputIsLive
    SettingsAccountedFor
    NewestLast
    PollIsFresh
    RoundTrip
PROPERTY
    EchoPathChangeFlagged
SYMMETRY Interchangeable
