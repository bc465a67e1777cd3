\* All calls, three in a row; calibrations and gain control may take longer than is waited.
SPECIFICATION FairSpec
CONSTANTS
    Calls <- AllCalls
    MaxCalls = 3
    Slow = {5, 10, 17}
    Failures = {5}
INVARIANTS
    OwnStatus
    OwnParameters
PROPERTIES
    StopEndsAgc
CHECK_DEADLOCK FALSE
