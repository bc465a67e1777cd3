\* Single searches, and two calls of SetFrequencySX between which the VCOs may drift.
SPECIFICATION TuningSpec
CONSTANTS
    Freqs = {f}
    AllRanges <- EdgeRanges
    Ranges <- VcoRanges
    Biases = {100, 220, 255}
    Needs = {0, 230}
    CacheUses = {TRUE, FALSE}
    MaxCalls = 2
INVARIANTS
    TuneFindsMiddle
    FrequencyLocks
CHECK_DEADLOCK FALSE
