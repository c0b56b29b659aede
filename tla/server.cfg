SPECIFICATION Spec
CONSTANTS
    r = r
    g = g
    w = w
    Clients <- MCClients
    Protocol <- MCProtocol
    Plans <- MCPlans
    MaxTries = 2
    MaxBoots = 2
    QueueCap = 1
INVARIANTS
    TypeOK
    AckedIsStored
    StreamIntact
    TrackedNotRefused
PROPERTIES
    ShutdownEnds
CHECK_DEADLOCK FALSE
