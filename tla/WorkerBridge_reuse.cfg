SPECIFICATION Spec
CONSTANTS
    Worker = {w1}
    Request = {plan, task}
    Reusing = {plan}
    MaxJobs = 3
    MaxClaims = 1
    MaxCrashes = 1
    LeaseTicks = 1
    None = None
INVARIANT
    OneGoodJob
CHECK_DEADLOCK FALSE
