\* A refund while the grant loop sleeps.
CONSTANTS
    Workers = {w1, w2}
    MaxCalls = 2
    MaxConcurrent = 1
    Duration = 3
    Jitter = 1
    RetryDelay = 1
    GrantRetryLimit = 1
    Latency = 0
    Faults = {"grantError"}
    MaxTime = 12
    AcquireBy = 12
    Prompt = TRUE
SPECIFICATION Spec
CHECK_DEADLOCK FALSE
SYMMETRY WorkerSymmetry
INVARIANT NoSleepWithFreeSlot
