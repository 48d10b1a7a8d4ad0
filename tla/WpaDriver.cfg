SPECIFICATION LiveSpec
CONSTANTS
    Attrs = {"addr", "rate"}
    Freqs = {2412, 5300, 5720}
    OtherFreqs = {5310}
    Sequential = 1
    ScanTimeout = 2
    MaxCommands = 3
CHECK_DEADLOCK FALSE
INVARIANT TypeOK
INVARIANT ErrorsInSequence
INVARIANT ChannelOfClass
INVARIANT StatisticsFromDriver
PROPERTY CommandEnds
PROPERTY ListIsUpdated
