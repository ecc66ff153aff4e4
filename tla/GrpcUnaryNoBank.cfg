SPECIFICATION Spec
CONSTANTS
    MaxAge = 1
    Client = {"c1", "c2"}
    Worker = {"w1", "w2"}
    Thread = {"t1", "t2"}
    Scenarios <- MCUnary
    RingSize = 2
    StorageMaxSlots = 2
    LenMax = 1
    ReplayLenMax = 2
    PerTick = 2
    DecodePerTick = 2
    InflightMax = 2
    CacheMax = 2
INVARIANTS
    FollowsConfirmedCandidate
CHECK_DEADLOCK FALSE
