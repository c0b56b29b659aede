SPECIFICATION SafeSpec
CONSTANTS
    MaxEntries = 3
    MaxTime = 3
    maxBackoff = 4
INVARIANTS
    NoGap
CHECK_DEADLOCK FALSE
