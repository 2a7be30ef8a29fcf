SPECIFICATION FairSpec
CONSTANTS
    PollEvery = 1
    Base = 1
    Ceiling = 1
    MaxFailures = 1
    Jitter = 0
    ManualEvery = 1
    Life = 1
    RetryAfters <- MCRetryAfters
    MaxRetry = 2
INVARIANTS  RequestsWait ClockIsFresh
CHECK_DEADLOCK FALSE
PROPERTIES Resumes
