\* Either channel may overflow, the first one too.
SPECIFICATION Spec
CONSTANTS
    Channels = 2
    PktSize = 2
    FifoSize = 2
    FirstTime = 0
    MaxTime = 12
    Counts = {2, 3}
    Commands <- Mixed
    MayOverflow = {1, 2}
    MayTimeOut = TRUE
    StackBits = {FALSE}
INVARIANTS
    SamplesAreWhereTheyBelong
CHECK_DEADLOCK FALSE
