SPECIFICATION LiveSpec
CONSTANTS
    Faults = {}
    MaxQueue = 2
INVARIANT TypeOK
INVARIANT SessionAgreement
INVARIANT CleanupLeavesNothing
PROPERTY WakelockCoversSession
PROPERTY CallsReturn
PROPERTY KeepsContract
