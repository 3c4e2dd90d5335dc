CONSTANTS
    Pilot = {p}
    Recovery = {r}
    Presence = {}
    None = None
    MaxStarts = 1
    MaxLeases = 3
    MaxExecutions = 4
    MaxRequests = 1
    MaxCrashes = 1
SPECIFICATION Spec
INVARIANTS TypeOK SuccessIsRecovery
CHECK_DEADLOCK FALSE
