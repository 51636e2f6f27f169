\* Failing and throwing grants, exits, timeouts, GRANTs that travel up to the
\* jitter buffer: the windows of grants and of starts, the log, the queue.
CONSTANTS
    Workers = {w1, w2}
    MaxCalls = 2
    MaxConcurrent = 2
    Duration = 1
    Jitter = 2
    RetryDelay = 1
    GrantRetryLimit = 0
    Latency = 2
    Faults = {"exit", "grantError", "grantThrow", "timeout"}
    MaxTime = 6
    AcquireBy = 5
    Prompt = FALSE
SPECIFICATION Spec
CHECK_DEADLOCK FALSE
SYMMETRY WorkerSymmetry
INVARIANTS
    TypeOK
    GrantWindow
    LogUsable
    NoForgottenRequest
    StartWindow
    Backed
