SPECIFICATION LiveSpec
CONSTANTS
    Commands = {"PMTK605", "PMTK837"}
    Timed = {"PMTK605"}
    LineOut = 2
    MaxSends = 3
INVARIANT TypeOK
INVARIANT FreshUnlessEof
INVARIANT AliveUntilEnd
PROPERTY TurnsEnd
CHECK_DEADLOCK FALSE
