SPECIFICATION Spec
CONSTANTS
    r1 = r1
    r2 = r2
    d1 = d1
    d2 = d2
    w1 = w1
    Step = {1}
    BatchSize = 1
    RetryLimit = 2
    Attempts = 1
    MaxPlan = 2
    Runner = {r1, r2}
    Worker = {w1}
    V <- SharedIsolate
    Device = {d1, d2}
    None = None
SYMMETRY Anyone
INVARIANTS
    ActiveJobsAreAuthorized
    ExecutedOnce
PROPERTIES
    OverIsOver
CHECK_DEADLOCK FALSE
