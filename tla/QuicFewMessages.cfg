SPECIFICATION FairSpec
CONSTANTS
    Scenarios <- MCFewMessages
    MaxRecvStreams = 3
    MaxRequestSize = 1
    MaxMessages = 4
    MaxFaults = 1

PROPERTIES SubscribeReturns
CHECK_DEADLOCK FALSE
