SPECIFICATION Spec
CONSTANTS
    Procs = {a, b}
    Profiles = {p, q}
    Workspaces = {w}
    Environments = {e}
    Paths = {d}
    None = None
    MaxCommands = 3
    MaxIssued = 3
    MaxFaults = 1
CHECK_DEADLOCK FALSE
INVARIANTS
    KeptWhole
    SessionStaysUsable
