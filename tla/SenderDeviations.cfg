\* One deviation at a time: the setup and the property are exchanged for
\*   MCBankless         FinalizedWasConfirmed
\*   MCRestartMemory    MemoryReplayComplete
\*   MCRestartPhantom   StoredOnce
\*   MCRestartConfirmed StoredConfirmedComplete
\*   MCRestartTrimmed   RestartSucceeds           (with Slot = {1, 2, 3, 4})
\*   MCWaiting          DedupBounded
\*   MCWaiting          NoEventTwice
\*   MCOrphan           OrphanReplayed            (with Slot = {1, 2, 3, 4})
SPECIFICATION Spec
CONSTANTS
    Slot = {1, 2, 3}
    Bank = {1, 2}
    Source = {"a", "b"}
    Setups <- MCRestartMemory
    TxIndex <- MCTxIndex
    PhantomSpace = 2
CHECK_DEADLOCK FALSE
INVARIANTS
    MemoryReplayComplete
