SPECIFICATION Spec
CONSTANTS
    r1 = r1
    r2 = r2
    r3 = r3
    k1 = k1
    k2 = k2
    k3 = k3
    free = free
    direct = direct
    Request = {r1, r2, r3}
    Key = {k1, k2, k3}
    Model = {free, direct}
    Free = {free}
    AccountLimit = 2
    ModelLimit = 1
    SpansMidnight = FALSE
    MaxDay = 1
    MaxExternal = 1
    None = None
SYMMETRY Anyone
INVARIANTS
    QuotaHolds
    OneCallPerKey
PROPERTIES
    RefusalIsJustified
CHECK_DEADLOCK FALSE
