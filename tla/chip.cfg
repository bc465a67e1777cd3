\* All calls, in both modes of the cache; reads (of the selected channel too), writes,
\* batches and the reset may fail, while writes of 0x0020 arrive.
SPECIFICATION Spec
CONSTANTS
    Values = {0, 1}
    Patterns = {1}
    CacheModes = {TRUE, FALSE}
    Failing = {"read", "batch", "write", "reset"}
INVARIANTS
    SuccessMeansSame
    ChannelRestored
    TestRestores
