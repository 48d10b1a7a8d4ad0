SPECIFICATION LiveSpec
CONSTANTS
    Faults = {"crash"}
    MaxQueue = 2
PROPERTY StopIsDone
CHECK_DEADLOCK FALSE
