SPECIFICATION FairSpec
CONSTANTS
    Slot = {1, 2, 3}
    ParentOf <- MCParentOf
    Receiver = {"rx1", "rx2"}
    Disabled <- MCDisabled
    Setups <- MCSetups
CHECK_DEADLOCK FALSE
INVARIANTS
    SlotMapInv
    ParkedHasReadAll
PROPERTIES
    ImplementsBroadcastLog
    ClosedReceiversEnd
