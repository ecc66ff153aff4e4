SPECIFICATION Spec
CONSTANTS
    MaxMessages = 2
    BytesMax = 4
    Slot = {1, 2, 3}
    Message = {"small", "large"}
    Size <- MCSize
    Receiver = {}
    AsyncReceiver = {}
    Disabled <- MCDisabled
    Journaled = TRUE
    U64Max = 6
    MaxPushes = 5
    MaxEpochs = 1
CHECK_DEADLOCK FALSE
INVARIANTS
    TypeOK
    MemoryReplayComplete
    HandOffExact
    BoundedAndAccounted
