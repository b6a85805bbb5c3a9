SPECIFICATION Spec
CONSTANTS
    when = when
    Steps = {when}
    Deployed = {when}
    Base <- MCBase
    WhenBase <- MCWhenBase
    Ops = {"truthy"}
    MaxCalls = 3
    MaxSwitches = 2
    MaxHeld = 2
CHECK_DEADLOCK FALSE
INVARIANTS
    OrderIsTopological
    OneBranchRuns
    PaneIsHonest
    OnlyLateConditionsMakeCycles
