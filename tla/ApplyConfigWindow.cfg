SPECIFICATION Spec
CONSTANTS
    Configs <- EchoConfigs
    CaptureFormats = {160, 480}
    RenderFormats = {160, 441}
    Api = {a1}
    ApiCalls = {"ApplyConfig"}
    QueueSize = 1
INVARIANT
    EchoControllerInput
