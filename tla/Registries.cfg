CONSTANTS
    w1 = w1
    w2 = w2
    apiA = apiA
    apiB = apiB
    Workers = {w1, w2}
    Apis = {apiA, apiB}
    Uses <- Applications
    PrimaryConfigs <- PrimaryArguments
    WorkerConfigs <- WorkerArguments
    MaxLog = 8
    MaxNumber = 3
    NoApi = NoApi
    NoEntry = NoEntry
SPECIFICATION Spec
CHECK_DEADLOCK FALSE
INVARIANTS TypeOK OneLimiterPerApi RoutesAgree RunsUnderItsPermit ReapedHoldsNothing NoMissedRendezvous
PROPERTIES EveryLimiterIsReached
