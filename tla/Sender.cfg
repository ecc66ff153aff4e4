SPECIFICATION Spec
CONSTANTS
    Slot = {1, 2, 3}
    Bank = {1, 2}
    Source = {"a", "b"}
    Setups <- MCSetups
    TxIndex <- MCTxIndex
    PhantomSpace = 2
CHECK_DEADLOCK FALSE
INVARIANTS
    JournalInv
    EventsOnce
    BlockIsWhole
    PromotionInv
    DiskReplayComplete
