\* The limit, the tokens and the wakeups under every fault.
CONSTANTS
    Workers = {w1, w2}
    MaxCalls = 2
    MaxConcurrent = 1
    GrantRetryLimit = 1
    ReleaseRetryLimit = 0
    Faults = {"exit", "disconnect", "grantError", "grantThrow", "sendError", "sendThrow"}
SPECIFICATION Spec
CHECK_DEADLOCK FALSE
SYMMETRY WorkerSymmetry
INVARIANTS
    TypeOK
    AtMostMaxInFlight
    TokenConservation
    NoIdleCapacity
    ReapedHoldsNothing
    NoSilentLeak
    IInv
PROPERTIES
    NeverRevoked
    ImplementsPermitPool
