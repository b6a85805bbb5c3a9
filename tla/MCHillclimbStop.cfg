SPECIFICATION SyncSpec
CONSTANTS
    s1 = s1
    s2 = s2
    Tree <- MCSingle
    Commands = {c1}
    Nobody = Nobody
    FullEvery = 3
    MaxWrites = 2
    MaxFailures = 1
PROPERTIES
    EveryCommandDelivered
