\* Liveness: exits and failing grants keep neither a token nor a request.
CONSTANTS
    Workers = {w1, w2}
    MaxCalls = 2
    MaxConcurrent = 1
    GrantRetryLimit = 1
    ReleaseRetryLimit = 0
    Faults = {"exit", "grantError", "grantThrow"}
SPECIFICATION FairSpec
CHECK_DEADLOCK FALSE
PROPERTIES
    AllTokensReturn
    EveryRequestIsDispatched
