\* Liveness of the asynchronous grant loop, and its windows when GRANTs are
\* sent again.
CONSTANTS
    Workers = {w1, w2}
    MaxCalls = 2
    MaxConcurrent = 1
    Duration = 1
    Jitter = 1
    RetryDelay = 3
    GrantRetryLimit = 1
    Latency = 0
    Faults = {"exit", "grantError", "grantThrow", "acquireError"}
    MaxTime = 12
    AcquireBy = 0
    Prompt = TRUE
SPECIFICATION FairSpec
CHECK_DEADLOCK FALSE
INVARIANT DurationInv
PROPERTY EveryRequestIsServed
