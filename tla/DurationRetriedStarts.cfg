\* The window of started calls when a GRANT is sent again after 50 ms: one
\* unit is 50 ms, a window of 150 ms, three retries.
CONSTANTS
    Workers = {w1, w2}
    MaxCalls = 2
    MaxConcurrent = 1
    Duration = 3
    Jitter = 1
    RetryDelay = 1
    GrantRetryLimit = 3
    Latency = 0
    Faults = {"grantError"}
    MaxTime = 12
    AcquireBy = 12
    Prompt = TRUE
SPECIFICATION Spec
CHECK_DEADLOCK FALSE
SYMMETRY WorkerSymmetry
INVARIANT StartWindow
