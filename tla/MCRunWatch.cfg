SPECIFICATION Spec
CONSTANTS
    N = 2
    Bad <- MCBad
    None = None
    MaxFaults = 1
CHECK_DEADLOCK FALSE
INVARIANTS
    ShownOnceInOrder
    NothingLost
PROPERTIES
    WatchEnds
