CONSTANTS
    Addr = {a1, a2}
    Source = {s1}
    BatchSize = 1
    QueueMax = 1
    SeenMax = 1
    TTL = 0
    MaxDay = 2
    MaxItems = 2
    MaxEvents = 3
    None = None
SPECIFICATION Spec
INVARIANTS
    TypeOK
    SeenMirrorsOrder
    NoEarlyQuestion
PROPERTIES
    OutageErasesNothing
    RowsOnlyGetFresher
    EveryVisitorIsLookedUp
    StaleRowsAreRefreshed
