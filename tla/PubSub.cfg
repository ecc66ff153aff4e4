SPECIFICATION FairSpec
CONSTANTS
    EnableBlock = TRUE
    EnableTransaction = TRUE
    MaxFilters = 1
    Client = {"c1", "c2"}
    Scenarios <- MCScenarios
    Before <- OneEach
    RingSize = 4
    RequestsMax = 1
    RequestsPerTick = 2
    MessagesPerTick = 2
    QueueMax = 1
    StoreMax = 3
    StoreBytes = 5
    SignaturesMax = 2
    SlotsMax = 2
INVARIANTS
    TrackerInv
    ClientIsTold
    ProcessedSignatureAnswered
    FrozenOnceWithAllCounted
PROPERTIES
    NobodyWaits
CHECK_DEADLOCK FALSE
