SPECIFICATION CoderSpec
CONSTANTS
    Base = 4
    HistTables <- Tables
    Shape <- Logistic
    Reach = 4
    MaxStream = 7
    Limit30 = 7
    Limit60 = 9
    MaxRetries = 1
    MaxSymbols = 4
    Tails = {0, 3}
INVARIANT
    RetryStartsAfresh
