SPECIFICATION FairSpec
CONSTANTS
    Names = {"a", "b"}
    Upstreams = {"u1", "u2"}
    Setups <- MCSetups
    Files <- MCFiles
    Finality = 1
    FirstHead = 2
    Floors = {1, 3, 5}
    MaxSlot = 4
    ChannelSize = 1
INVARIANTS
    HistoryInv
PROPERTIES
    EveryoneRefused
    SomeoneReceives
    ReloadTakesEffect
CHECK_DEADLOCK FALSE
