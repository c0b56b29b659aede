SPECIFICATION SafeSpec
CONSTANTS
    c1 = c1
    c2 = c2
    Clients <- MCOneClient
    EntryLevels <- MCOneLevel
    Queries <- MCInfoQuery
    MaxEntries = 3
    maxEntries = 1
    LiveCap = 1
INVARIANTS
    NoEntryMissed
CHECK_DEADLOCK FALSE
