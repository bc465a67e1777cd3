\* A receive stream: the receive loop against a reading thread.
SPECIFICATION FairSpec
CONSTANTS
    PktPushers = {rx}
    SamplePushers = {}
    SamplePoppers = {r}
    PktPoppers = {}
    Free = free
    InitPktSize = 3
    InitBufSize = 2
    PktSizes = {2, 3}
    CommonSize = 6
    Counts = {1, 4}
    Gaps = {0, 1}
    FlagSets <- ReceiveFlags
    MaxTime = 12
    MaxCounter = 1
    QuietResize = TRUE
INVARIANTS
    ReadTimestampIsFirstSample
PROPERTIES
    ImplementsPacketQueue
