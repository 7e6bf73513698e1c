\* Every format, loaded, cut and saved.
SPECIFICATION Spec
CHECK_DEADLOCK FALSE

CONSTANTS
    MaxText = 3
    MaxSaves = 1
    Changes = 2
    TriggerData <- MCTriggerData
    Files <- MCFiles
    Saving <- MCFormats

INVARIANTS
    WellFormedLoads
    RoundTrip
    CutIsRefused

PROPERTIES
    SaveKeepsFile
