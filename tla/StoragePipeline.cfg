SPECIFICATION FairSpec
CONSTANTS
    Slot = {1, 2}
    Higher = {0, 1}
    MaxSlots = 1
    SegmentTarget = 2
    Threads = 2
    MaxRecords = 3
    MaxCrashes = 1
    MaxEpochs = 1
CHECK_DEADLOCK FALSE
INVARIANTS
    FilesInv
PROPERTIES
    ImplementsDurableLog
    EverythingDurable
