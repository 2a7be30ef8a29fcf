CONSTANTS
    Sizes <- MCSmall
    MaxChunk = 2
    Idle = 2
    Lifetime = 3
    Delay = 1
    BootLimit = 1
    Healthy = 1
    Failures = TRUE
    Crashes = TRUE
    TimedOns = TRUE
    MaxGen = 1
    MaxUploads = 1
SPECIFICATION FairSpec
PROPERTIES FallbackKept GateReopens
CHECK_DEADLOCK FALSE
