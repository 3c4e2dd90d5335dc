SPECIFICATION FairSpec
CONSTANTS
    NumTasks = 2
    NumPlanned = 2
    DependsOn <- Independent
    Gated = {1}
    Idempotent = {2}
    ReadBack <- SecondReadsFirst
    MaxAttempts = 2
    MaxLeases = 2
    MaxResumes = 1
    MaxCrashes = 1
INVARIANTS
    StartedOncePerDecision
PROPERTIES
    Settles
CHECK_DEADLOCK FALSE
