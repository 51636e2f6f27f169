CONSTANTS
    Listener = {l1, l2}
    NoOne = NoOne
    MaxRejections = 1
    MaxUnprintable = 1
SPECIFICATION Spec
INVARIANTS TypeOK ErrorsDoNotRecurse
PROPERTIES OnceRunsOnce AllListenersRun EmissionEnds
