SPECIFICATION Spec
CONSTANTS
    Slot = {1, 2, 3}
    ParentOf <- MCParentOf
    Receiver = {"rx1", "rx2"}
    Disabled <- MCDisabled
    Setups <- MCReaders
CHECK_DEADLOCK FALSE
INVARIANTS
    NewReceiverStartsFromLatest
