SPECIFICATION FairSpec
CONSTANTS
    MaxFailures = 3
    Longest = 6
    Lifetime = 4
INVARIANTS GuessesWait KindFits
PROPERTIES SlotReturns
CHECK_DEADLOCK FALSE
