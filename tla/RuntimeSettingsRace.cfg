SPECIFICATION SettingsSpec
CONSTANTS
    Producers = {p1}
    Size = 2
    Attempts = 3
    MaxSettings = 5
    Serialized = FALSE
INVARIANTS
    NoUnspecifiedSetting
