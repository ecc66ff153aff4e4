SPECIFICATION Spec
CONSTANTS
    Slot = {1, 2, 3}
    ParentOf <- MCParentOf
    Receiver = {"rx1", "rx2"}
    Disabled <- MCDisabled
    Setups <- MCSmallRing
CHECK_DEADLOCK FALSE
INVARIANTS
    KnownSlotsAreComplete
