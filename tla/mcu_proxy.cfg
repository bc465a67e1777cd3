\* The register 0x0640 written through the MCU.
SPECIFICATION Spec
CONSTANTS
    Calls <- Proxies
    MaxCalls = 2
    Slow = {}
    Failures = {}
INVARIANTS
    WriteReported
CHECK_DEADLOCK FALSE
