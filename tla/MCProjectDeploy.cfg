SPECIFICATION Spec
CONSTANTS
    f = f
    s = s
    b = b
    w1 = w1
    w2 = w2
    w3 = w3
    a = a
    A = A
    B = B
    Targets <- MCTargets
    Functions <- MCFunctions
    Workflows <- MCWorkflows
    Apps <- MCApps
    StepsOf <- MCStepsOf
    Definitions <- MCDefinitions
    Wanted <- MCWanted
    Built <- MCBuilt
    Absent = Absent
    JobChoices = {1, 2, 3}
    MaxInterrupts = 2
INVARIANTS
    TypeOK
    StepsBeforeWorkflows
    HonestReport
    CleanReport
    OnlySelected
    QuietUnlessInterruptedTwice
    FailureContained
    SharedStepAsLastWanted
    StepWrittenOncePerDefinition
PROPERTIES
    Termination
