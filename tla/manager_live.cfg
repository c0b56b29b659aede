SPECIFICATION StalledSpec
CONSTANTS
    p1 = p1
    p2 = p2
    Producers <- MCProducers
    MaxWrites = 2
    MaxHandlers = 1
    QueueSizes <- MCSizes
PROPERTIES
    ImplementsAsyncLog
    CloseReturns
    CallsReturn
    DropNewestNeverBlocks
