SPECIFICATION Spec
CONSTANTS
    Times <- MCTimes
    Sizes <- MCOneSize
    MaxLine = 3
    MaxEntries = 3
    MaxFaults = 1
INVARIANTS
    WrittenIsRead
