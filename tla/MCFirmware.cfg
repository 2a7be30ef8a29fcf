CONSTANTS
    Sizes <- MCSizes
    MaxChunk = 1
    Idle = 2
    Lifetime = 3
    Delay = 1
    BootLimit = 1
    Healthy = 1
    Failures = TRUE
    Crashes = FALSE
    TimedOns = FALSE
    MaxGen = 2
    MaxUploads = 2
SPECIFICATION Spec
INVARIANTS TypeOK UpdateIsExclusive SlotIsTheUpload SelectedIsWhole GateOpensClean 
CHECK_DEADLOCK FALSE
