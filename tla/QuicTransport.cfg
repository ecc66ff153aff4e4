SPECIFICATION FairSpec
CONSTANTS
    Scenarios <- MCScenarios
    MaxRecvStreams = 3
    MaxRequestSize = 1
    MaxMessages = 4
    MaxFaults = 1
INVARIANTS SendLoopInv InOrder NoLostWakeup
PROPERTIES ClientIsServed
CHECK_DEADLOCK FALSE
