SPECIFICATION Spec
CONSTANTS
    Base = 4
    PubkeyBytes = 1
    SignatureBytes = 2
    MaxFilters = 4
    MaxDataSize = 2
    Footers <- MCFooters
    Clients = {"c1", "c2", "c3"}
    Scenarios <- MCForbidden
    CacheMax = 2
    EncodedMax = 30
    MaxBodies = 2
CHECK_DEADLOCK FALSE
INVARIANTS
    BlocksWithinLimits
