SPECIFICATION Spec
CONSTANTS
    NumTasks = 5
    NumPlanned = 1
    DependsOn <- Independent
    Gated = {2}
    Idempotent = {1, 2, 3, 4, 5}
    ReadBack <- NoReadBack
    MaxAttempts = 1
    MaxLeases = 2
    MaxResumes = 1
    MaxCrashes = 1
INVARIANTS
    TypeOK
    OneThingAtATime
    CompletionIsEarned
    DecisionsHold
PROPERTIES
    SucceededIsFinal
CHECK_DEADLOCK FALSE
