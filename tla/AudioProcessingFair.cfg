SPECIFICATION FairSpec
CONSTANTS
    Configs <- QuietConfigs
    CaptureFormats = {160, 480}
    RenderFormats = {160, 441}
    Api = {a1}
    ApiCalls = {"ApplyConfig", "InitializeTo"}
    QueueSize = 1
INVARIANT
    QuietBandedInput
PROPERTY
    RenderReturns
