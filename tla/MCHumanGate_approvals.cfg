SPECIFICATION Spec
CONSTANTS
    r1 = r1
    r2 = r2
    w1 = w1
    w2 = w2
    plain = plain
    model = model
    write = write
    t1 = t1
    t2 = t2
    t3 = t3
    Step = {1}
    Operation = {plain, model, write}
    Protected = {model, write}
    Checked = {model}
    Plan <- OneStep
    BatchSize = 1
    Confirmed = TRUE
    Source = "meditation-ia-v1"
    Runner = {r1, r2}
    Worker = {w1, w2}
    V <- TwoIsolates
    Token = {t1, t2, t3}
    None = None
    Final = Final
INVARIANTS
    ClosedOnAnswer
PROPERTIES
    NothingRunsUnapproved
    RefusalStopsModelCalls
VIEW Seen
SYMMETRY Alike
CHECK_DEADLOCK FALSE
