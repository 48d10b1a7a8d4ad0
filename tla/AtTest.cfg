SPECIFICATION LiveSpec
CONSTANTS
    MaxNum = 2
    WaitCount = 2
    MaxCount = 2
    MaxQueue = 1
    MaxCommands = 4
INVARIANT TypeOK
INVARIANT SamplesLive
INVARIANT SamplesFit
INVARIANT FinishedIsAnswered
PROPERTY NoSignalEnds
