\* One transmit channel, the second: packets of every kind in any order.
SPECIFICATION FairSpec
CONSTANTS
    Used = {1}
    chCount = 1
    maxSamples = 1360
    Quantum = 48
    DataBytes = 4080
    Kinds <- AllKinds
    Packets = 4
    packetsToBatch = 2
    buffersCount = 2
INVARIANTS
    SamplesLeaveAtTheirTime
    SentOnceInOrder
    BatchesAreContiguous
PROPERTIES
    EverythingIsSent
    LoopEnds
CHECK_DEADLOCK FALSE
