SPECIFICATION FairSpec
CONSTANTS
    Worker = {w1, w2}
    Request = {task}
    Reusing = {}
    MaxJobs = 1
    MaxClaims = 2
    MaxCrashes = 1
    LeaseTicks = 2
    None = None
INVARIANTS
    TypeOK
    TokenNamesHolder
PROPERTIES
    ClosedStaysClosed
    ImplementsQueue
    EveryJobIsClosed
CHECK_DEADLOCK FALSE
