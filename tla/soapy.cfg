\* Two channels, packets of two samples, FIFOs of two packets; the second channel overflows.
SPECIFICATION FairSpec
CONSTANTS
    Channels = 2
    PktSize = 2
    FifoSize = 2
    FirstTime = 0
    MaxTime = 12
    Counts = {2, 3}
    Commands <- Mixed
    MayOverflow = {2}
    MayTimeOut = TRUE
    StackBits = {FALSE}
INVARIANTS
    SamplesAreWhereTheyBelong
    EndBurstOnLast
    TimedStartsOnTime
PROPERTIES
    CallsReturn
CHECK_DEADLOCK FALSE
