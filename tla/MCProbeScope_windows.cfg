CONSTANTS
    Pilot = {p}
    Recovery = {r}
    Presence = {a}
    None = None
    MaxStarts = 2
    MaxLeases = 2
    MaxExecutions = 0
    MaxRequests = 1
    MaxCrashes = 1
SPECIFICATION FairSpec
INVARIANTS OneWindow ClosedIsOver
PROPERTIES NothingAfterTheWindow PresenceIsClosed PilotIsRepaired
CHECK_DEADLOCK FALSE
