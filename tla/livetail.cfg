SPECIFICATION Spec
CONSTANTS
    c1 = c1
    c2 = c2
    Clients <- MCTwoClients
    EntryLevels <- MCEntryLevels
    Queries <- MCQueries
    MaxEntries = 2
    maxEntries = 1
    LiveCap = 1
INVARIANTS
    TypeOK
    CompleteSinceRegistration
    OrderedAtMostOneRepeat
PROPERTIES
    LoopNeverStuck
    DepartureNoticed
CHECK_DEADLOCK FALSE
