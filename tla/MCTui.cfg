SPECIFICATION Spec
CONSTANTS
    p = p
    q = q
    v = v
    w = w
    a = a
    b = b
    t = t
    None = None
    Profiles = {p, q}
    Workspaces = {v, w}
    Projects = {a, b}
    Targets = {t}
    FailureLimit = 2
    MaxMoves = 3
    MaxChanges = 1
    MaxFaults = 1
    MaxEvents = 4
CHECK_DEADLOCK FALSE
INVARIANTS
    NothingOfAnotherPlace
    

    
