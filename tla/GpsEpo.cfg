SPECIFICATION Spec
CONSTANTS
    Pieces = 2
    Period = 3
    WifiPeriod = 1
    WifiTrigger = TRUE
    RetryLimit = 1
    FirstDay = 3
    LastDay = 4
    Faults = {"bad", "append"}
INVARIANT TypeOK
INVARIANT CompleteFileInOrder
INVARIANT CounterMatchesFile
