SPECIFICATION Spec
CONSTANTS
    old = old
    new = new
    Values <- MCValues
    Ours <- MCOurs
    Ids = {1, 2}
    PatchId = 1
    Attempts = 2
    RateLimit = 1
    MaxRivals = 1
    MaxInterrupts = 1
INVARIANTS
    TypeOK
    AtMostOneCommit
    AdoptedWasHeld
    FailedMeansRefused
PROPERTIES
    NoReplay
    UncertainUntilConfirmed
    Termination
    ImplementsOutcome
