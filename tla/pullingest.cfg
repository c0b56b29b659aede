SPECIFICATION Spec
CONSTANTS
    MaxEntries = 4
    MaxTime = 3
    maxBackoff = 4
INVARIANTS
    TypeOK
    ResumesAtNewestIngested
    SkippedOnlyBeforeTail
PROPERTIES
    DuplicatesOnlyAtBoundary
    CancelStops
CHECK_DEADLOCK FALSE
