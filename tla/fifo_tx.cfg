\* A transmit stream: a writing thread against the transmit loop.
SPECIFICATION FairSpec
CONSTANTS
    PktPushers = {}
    SamplePushers = {w}
    SamplePoppers = {}
    PktPoppers = {tx}
    Free = free
    InitPktSize = 2
    InitBufSize = 3
    PktSizes = {2, 3}
    CommonSize = 6
    Counts = {1, 4, 7}
    Gaps = {0, 1}
    FlagSets <- TransmitFlags
    MaxTime = 7
    MaxCounter = 1
    QuietResize = TRUE
INVARIANTS
    TypeOK
    RingOK
    AcceptedIsQueued
PROPERTIES
    ImplementsPacketQueue
    CallsReturn
