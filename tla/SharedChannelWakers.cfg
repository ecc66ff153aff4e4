SPECIFICATION Spec
CONSTANTS
    MaxMessages = 2
    BytesMax = 4
    Slot = {1, 2}
    Message = {"small", "large"}
    Size <- MCSize
    Receiver = {"rx1", "rx2"}
    AsyncReceiver = {"rx1"}
    Disabled <- MCDisabled
    Journaled = FALSE
    U64Max = 1
    MaxPushes = 4
    MaxEpochs = 0
CHECK_DEADLOCK FALSE
INVARIANTS
    WakersReleasedByNextMessage
