SPECIFICATION LiveSpec
CONSTANTS
    Pieces = 2
    Period = 3
    WifiPeriod = 1
    WifiTrigger = TRUE
    RetryLimit = 2
    FirstDay = 4
    LastDay = 4
    Faults = {}
PROPERTY DownloadEnds
PROPERTY FailureIsResolved
