SPECIFICATION Spec
CONSTANTS
    Process = {p1, p2, p3}
    NoFile = NoFile
SYMMETRY Alike
INVARIANTS
    Exclusion
    RefusedForCause
PROPERTIES
    OnlyRivalsReplace
CHECK_DEADLOCK FALSE
