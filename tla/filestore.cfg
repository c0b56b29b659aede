SPECIFICATION Spec
CONSTANTS
    Times <- MCTimes
    Sizes <- MCTwoSizes
    MaxLine = 2
    MaxEntries = 4
    MaxFaults = 2
INVARIANTS
    TypeOK
    TornCostsAtMostOne
PROPERTIES
    ImplementsLogStore
