SPECIFICATION Spec
CONSTANTS
    MaxSources = 2
    Configured = TRUE
CHECK_DEADLOCK FALSE
INVARIANTS
    TypeOK
    AddSurvivesRestart
    RemovedStaysGone
    NoOrphan
    OneConfiguredSource
PROPERTY RemoveEnds
