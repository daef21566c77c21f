SPECIFICATION Spec
CONSTANTS
    Configs <- GainConfigs
    MaxLevel = 1
    Gains = {1, 2}
    Volumes = {1}
INVARIANTS
    LimiterFollowsGain
