SPECIFICATION SafeSpec
CONSTANTS
    p1 = p1
    p2 = p2
    Producers <- MCProducers
    MaxWrites = 2
    MaxHandlers = 2
    QueueSizes <- MCLargeSizes
INVARIANTS
    TypeOK
    NoSendOnClosedQueue
    NoWriteAfterWriterClose
    EveryEntryAccounted
    OrderedLog
    DrainedOnClose
    NoGapForHandlers
PROPERTIES
    SilentOnceUnregistered
SYMMETRY MCSymmetry
