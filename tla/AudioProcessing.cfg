SPECIFICATION Spec
CONSTANTS
    Configs <- CoreConfigs
    CaptureFormats = {160, 480}
    RenderFormats = {0, 160, 441}
    Api = {a1, a2}
    ApiCalls = {"ApplyConfig", "Initialize"}
    QueueSize = 1
INVARIANTS
    NoCircularWait
    SingleConsumer
    RetryAlwaysInserts
    CaptureSeesItsFormat
    RenderSeesItsFormat
    SubmodulesFollowConfig
