SPECIFICATION Spec
CONSTANTS
    s1 = s1
    s2 = s2
    Tree <- MCFleet
    Commands = {}
    Nobody = Nobody
    FullEvery = 1
    MaxWrites = 2
    MaxFailures = 1
INVARIANTS
    TypeOK
    HonestVerdict
    StatusFlushed
PROPERTIES
    ImplementsHostedRun
    EndsUnlessSelfLocked
