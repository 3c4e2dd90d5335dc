SPECIFICATION FairSpec
CONSTANTS
    NumTasks = 3
    Planned = {1, 2}
    DependsOn <- Chain
    Gated = {1, 2}
    Idempotent = {1}
    Human = {h1, h2}
    Approver = {h1}
    MaxAttempts = 2
    MaxApprovals = 4
    MaxResumes = 1
    MaxCrashes = 1
INVARIANTS
    CompletionIsEarned
PROPERTIES
    GatedRunsApproved
    DependenciesFirst
    DoneStaysDone
    NoUnattendedRepeat
    MissionSettles
CHECK_DEADLOCK FALSE
