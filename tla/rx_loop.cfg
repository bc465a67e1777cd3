\* A receive loop with two buffers: drops, failed, refused and silent transfers.
SPECIFICATION FairSpec
CONSTANTS
    buffersCount = 2
    FirstCounter = 0
    MaxCounter = 5
    MaxFailures = 2
    SlowCancel = FALSE
INVARIANTS
    ParsedInOrder
    BuffersAreExclusive
    ContextsAreHeld
    LossIsCounted
PROPERTIES
    TransferredIsParsed
    LoopEnds
CHECK_DEADLOCK FALSE
