CONSTANTS
    Ids = 2
    MaxConcurrent = 2
    MaxCalls = 4
SPECIFICATION Spec
CHECK_DEADLOCK FALSE
INVARIANT ExitFreesCapacity
