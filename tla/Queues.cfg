\* The grant log with three slots and a clock of six readings, a request queue
\* from two slots through two doublings.
CONSTANTS
    Capacity = 3
    Times = {0, 1, 2, 3, 4, 5}
    InitialCapacity = 2
    MaxCapacity = 8
    Values = {1, 2}
    NoValue = NoValue
    QueueFull = QueueFull
SPECIFICATION Spec
INVARIANT TypeOK
PROPERTIES
    ImplementsSortedLog
    ImplementsFifo
