SPECIFICATION FairSpec
CONSTANTS
    r1 = r1
    r2 = r2
    d1 = d1
    d2 = d2
    w1 = w1
    Step = {1}
    BatchSize = 1
    RetryLimit = 2
    Attempts = 2
    MaxPlan = 2
    Runner = {r1}
    Worker = {w1}
    V <- OneRunner
    Device = {d1}
    None = None
INVARIANTS
    CompletionHasEvidence
PROPERTIES
    StartedJobsEnd
CHECK_DEADLOCK FALSE
