CONSTANTS
    Lease = 2
    Sleep = 3
    MaxAge = 1
    Future = 1
    Dwell = 2
    MaxOverride = 1
    Vins = {v1, v2}
    NoVin = NoVin
    Configs <- MCConfigs
    Saved <- MCSaved
    Reports <- MCReports
    MaxTime = 4
    MaxUtc = 4
    MaxGeneration = 2
SPECIFICATION Spec
CHECK_DEADLOCK FALSE
INVARIANTS DeadlinesAnchored FreshHomeIsRecent HomeIsNewerThanAway
PROPERTIES EndedLeaseNeedsLocation DwellRespected
