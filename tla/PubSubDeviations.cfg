\* One deviation at a time: the scenarios, Before and the property are exchanged for
\*   MCRepeats     OneEach    FrozenOnceWithAllCounted
\*   MCScenarios   OneEach    ConfirmedSignatureAnswered
\*   MCScenarios   NoneYet    FailsOnlyIfEvicted
SPECIFICATION Spec
CONSTANTS
    EnableBlock = TRUE
    EnableTransaction = TRUE
    MaxFilters = 1
    Client = {"c1", "c2"}
    Scenarios <- MCRepeats
    Before <- OneEach
    RingSize = 4
    RequestsMax = 1
    RequestsPerTick = 2
    MessagesPerTick = 2
    QueueMax = 1
    StoreMax = 3
    StoreBytes = 5
    SignaturesMax = 2
    SlotsMax = 2
INVARIANTS
    FrozenOnceWithAllCounted
CHECK_DEADLOCK FALSE
